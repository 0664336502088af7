--------------------------- MODULE ExecutorAdapter ---------------------------
(* thread_pool_executor_adapter: submit, execute and their delayed forms over a      *)
(* thread_pool, which ThreadPool models: here it takes a job or refuses it (stopped,  *)
(* or a bounded queue is full), and what it took is run or destroyed with the queue.  *)
(* The promise of a task is shared by the caller and the jobs made for it; when the    *)
(* last of them is gone without an answer the future reports a broken promise.         *)
EXTENDS Integers, FiniteSets

CONSTANT ExTasks   \* tasks handed to the adapter

VARIABLES
    exPool,   \* pool_: "null", "running" or "stopped"
    task,     \* per task: see NotSubmitted
    exPast    \* history: tasks of which the pool destroyed a job it had taken

exVars == <<exPool, task, exPast>>

\* at: "new", "asking" (pool->enqueue is called), "queued", "running", "over"; phase:
\* "delay" for the job that sleeps, "body" for the one that runs the task; sets: answers
\* given to the promise; reply: what the caller got; ran: runs of the task's function.
NotSubmitted == [at |-> "new", phase |-> "none", promise |-> "none", sets |-> 0, reply |-> "none", ran |-> 0]
ExAnswers == {"value", "error"}

ExInit ==
    /\ exPool \in {"null", "running"}
    /\ task = [j \in ExTasks |-> NotSubmitted] /\ exPast = {}

Answer(r, a) == [r EXCEPT !.promise = a, !.sets = @ + 1]

\* The last holder of the promise is gone.
Finished(r) == [r EXCEPT !.at = "over", !.promise = IF @ = "open" THEN "broken" ELSE @]

\* Mutant: enqueue_job and its caller both answer the promise.
RefusedByBoth(r) ==
    [Answer(Answer(r, "error"), "error") EXCEPT !.reply = IF r.phase = "body" /\ @ = "none" THEN "failed" ELSE "future"]

\* enqueue failed: the promise gets the error, and so does the caller of execute and
\* submit; a delayed call returns its future whatever happened.
Refused(r) == [Answer(r, "error") EXCEPT !.reply = IF r.phase = "body" /\ @ = "none" THEN "failed" ELSE "future"]

\* submit and execute: the promise is made and the job offered to the pool.
ScheduleTask(j) ==
    /\ task[j].at = "new"
    /\ task' = [task EXCEPT ![j] = [NotSubmitted EXCEPT !.at = "asking", !.phase = "body", !.promise = "open"]]
    /\ UNCHANGED <<exPool, exPast>>

\* submit_delayed and execute_delayed.
ScheduleTaskAsync(j) ==
    /\ task[j].at = "new"
    /\ task' = [task EXCEPT ![j] = [NotSubmitted EXCEPT !.at = "asking", !.phase = "delay", !.promise = "open"]]
    /\ UNCHANGED <<exPool, exPast>>

\* No pool, or pool->enqueue returned an error.
EnqueueRefused(j) ==
    /\ task[j].at = "asking"
    /\ task' = [task EXCEPT ![j] = Finished(Refused(@))]
    /\ UNCHANGED <<exPool, exPast>>

EnqueueTaken(j) ==
    /\ task[j].at = "asking" /\ exPool = "running"
    /\ task' = [task EXCEPT ![j].at = "queued", ![j].reply = "future"]
    /\ UNCHANGED <<exPool, exPast>>

\* A worker takes the job.
ExBegin(j) ==
    /\ task[j].at = "queued"
    /\ task' = [task EXCEPT ![j].at = "running"]
    /\ UNCHANGED <<exPool, exPast>>

\* The delay is over: the task is offered to the pool as a second job.
AfterDelay(r) == [r EXCEPT !.at = "asking", !.phase = "body"]

DelayOver(j) ==
    /\ task[j].at = "running" /\ task[j].phase = "delay"
    /\ task' = [task EXCEPT ![j] = AfterDelay(@)]
    /\ UNCHANGED <<exPool, exPast>>

\* wrap_user_task, execute of the IJob and the lambda of enqueue_job make one of the two
\* answers of what the function did.
AnswerOf(outcome) == IF outcome = "done" THEN "value" ELSE "error"

RunBody(j) ==
    /\ task[j].at = "running" /\ task[j].phase = "body"
    /\ \E outcome \in {"done", "failed", "thrown"} :
          task' = [task EXCEPT ![j] = [Finished(Answer(@, AnswerOf(outcome))) EXCEPT !.ran = @ + 1, !.phase = outcome]]
    /\ UNCHANGED <<exPool, exPast>>

\* shutdown(wait): stop of the pool, or its end; without waiting the queue is cleared as well.
Shutdown ==
    /\ exPool = "running" /\ exPool' = "stopped"
    /\ UNCHANGED <<task, exPast>>

\* The pool destroys a job that it took and that no worker has begun.
Destroy(j) ==
    /\ exPool = "stopped" /\ task[j].at = "queued"
    /\ task' = [task EXCEPT ![j] = Finished(@)] /\ exPast' = exPast \cup {j}
    /\ UNCHANGED exPool

ExNext ==
    \/ Shutdown
    \/ \E j \in ExTasks :
          \/ ScheduleTask(j) \/ ScheduleTaskAsync(j) \/ EnqueueRefused(j) \/ EnqueueTaken(j) \/ ExBegin(j)
          \/ DelayOver(j) \/ RunBody(j) \/ Destroy(j)

-----------------------------------------------------------------------------
(* Properties.                                                                *)

\* No task is over with its future open, and no promise is answered twice (the second
\* answer would throw inside a worker).  The adapter answers by itself: a promise is broken
\* only where the pool destroyed a job it had taken, in either half of a delayed call.  And
\* a task whose call returned an error never runs.
AnsweredWhenOver ==
    \A j \in ExTasks :
        /\ task[j].sets <= 1
        /\ task[j].at = "over" => task[j].promise \in ExAnswers \cup {"broken"}
        /\ task[j].promise = "broken" => j \in exPast
        /\ task[j].reply = "failed" => task[j].ran = 0

=============================================================================
