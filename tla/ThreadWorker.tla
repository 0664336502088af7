----------------------------- MODULE ThreadWorker -----------------------------
(***************************************************************************)
(* thread_worker (src/impl/thread_pool/thread_worker.cpp): one worker that *)
(* takes jobs from a queue and runs them in do_work(), while other threads *)
(* replace its queue (set_job_queue), stop it (on_stop_requested) or look  *)
(* at its job (get_current_job_info).                                      *)
(*                                                                         *)
(* The worker owns the job in hand through a unique_ptr and publishes it   *)
(* as the raw pointer current_job_.  queue_mutex_ guards the uses of that  *)
(* pointer and the destruction of the job; it is a variable here, so that  *)
(* the two can overlap where the code lets them.                           *)
(*                                                                         *)
(* The queues are abstracted to what the worker sees of them: the jobs in  *)
(* order and whether they were stopped (module JobQueue has the rest).     *)
(***************************************************************************)
EXTENDS Integers, Sequences, FiniteSets

CONSTANTS
    Queues,     \* the job_queue objects the worker may be given
    MaxJobs,    \* bound: jobs enqueued; job j is the j-th one
    Observers,  \* threads calling on_stop_requested and get_current_job_info
    None        \* nullptr

ASSUME JobBound == MaxJobs \in Nat
ASSUME NullIsNoObject == None \notin Queues /\ None \notin Nat
ASSUME HoldersDiffer == {None, "worker"} \cap Observers = {} /\ None # "worker"

VARIABLES
    queue_mutex_,           \* its holder, or None
    job_queue_,             \* the queue of the worker
    queue_being_replaced_,
    current_job_,           \* the published pointer
    jobs_completed_, jobs_failed_,
    pending,                \* the jobs of each queue, in order
    stopped,                \* the queues that were stopped
    enqueued,               \* number of jobs enqueued so far
    worker,                 \* where the worker is in do_work
    local_queue,            \* the copy do_work took of job_queue_
    current_job,            \* the job the worker owns
    destroyed,              \* jobs whose object is gone
    thrown,                 \* history: jobs whose do_work threw
    setter,                 \* where set_job_queue is, with the queues it handles
    observer                \* where each observer is, with the pointer it has loaded

queueVars == <<pending, stopped, enqueued>>
workerVars == <<worker, local_queue, current_job>>
countVars == <<jobs_completed_, jobs_failed_>>
vars == <<queue_mutex_, job_queue_, queue_being_replaced_, current_job_, countVars, queueVars,
          workerVars, destroyed, thrown, setter, observer>>

Setting(place, new, old) == [at |-> place, new |-> new, old |-> old]
NotSetting == Setting("idle", None, None)
Looking(place, ptr) == [at |-> place, ptr |-> ptr]
NotLooking == Looking("idle", None)

Init ==
    /\ queue_mutex_ = None /\ job_queue_ = None /\ queue_being_replaced_ = FALSE
    /\ current_job_ = None /\ jobs_completed_ = 0 /\ jobs_failed_ = 0
    /\ pending = [q \in Queues |-> <<>>] /\ stopped = {} /\ enqueued = 0
    /\ worker = "loop" /\ local_queue = None /\ current_job = None
    /\ destroyed = {} /\ thrown = {}
    /\ setter = NotSetting
    /\ observer = [o \in Observers |-> NotLooking]

---------------------------------------------------------------------------
(* The submitter.                                                           *)

Enqueue(q) ==
    /\ q \notin stopped /\ enqueued < MaxJobs
    /\ pending' = [pending EXCEPT ![q] = Append(@, enqueued + 1)]
    /\ enqueued' = enqueued + 1
    /\ UNCHANGED <<queue_mutex_, job_queue_, queue_being_replaced_, current_job_, countVars, stopped,
                   workerVars, destroyed, setter, observer, thrown>>

StopQueue(q) ==
    /\ q \notin stopped
    /\ stopped' = stopped \cup {q}
    /\ UNCHANGED <<queue_mutex_, job_queue_, queue_being_replaced_, current_job_, countVars, pending,
                   enqueued, workerVars, destroyed, setter, observer, thrown>>

---------------------------------------------------------------------------
(* do_work.                                                                 *)

\* Without a queue do_work returns an error at once.
CopyQueue ==
    /\ worker = "loop" /\ queue_mutex_ = None
    /\ job_queue_ # None
    /\ worker' = "dequeue" /\ local_queue' = job_queue_
    /\ UNCHANGED <<queue_mutex_, job_queue_, queue_being_replaced_, current_job_, countVars, queueVars,
                   current_job, destroyed, setter, observer, thrown>>

TakeJob ==
    /\ worker = "dequeue" /\ pending[local_queue] # <<>>
    /\ current_job' = Head(pending[local_queue])
    /\ pending' = [pending EXCEPT ![local_queue] = Tail(@)]
    /\ worker' = "taken"
    /\ UNCHANGED <<queue_mutex_, job_queue_, queue_being_replaced_, current_job_, countVars, stopped,
                   enqueued, local_queue, destroyed, setter, observer, thrown>>

\* dequeue() returns an error when the queue is stopped and empty.
NoJob ==
    /\ worker = "dequeue" /\ pending[local_queue] = <<>> /\ local_queue \in stopped
    /\ worker' = "loop" /\ local_queue' = None
    /\ UNCHANGED <<queue_mutex_, job_queue_, queue_being_replaced_, current_job_, countVars, queueVars,
                   current_job, destroyed, setter, observer, thrown>>

\* The job is prepared and published as current_job_, without queue_mutex_.
Begin ==
    /\ worker = "taken"
    /\ worker' = "run"
    /\ current_job_' = current_job
    /\ UNCHANGED <<queue_mutex_, job_queue_, queue_being_replaced_, countVars, queueVars, local_queue,
                   current_job, destroyed, setter, observer, thrown>>

JobReturns(result) ==
    /\ worker = "run"
    /\ worker' = result
    /\ UNCHANGED <<queue_mutex_, job_queue_, queue_being_replaced_, current_job_, countVars, queueVars,
                   local_queue, current_job, destroyed, setter, observer, thrown>>

\* The exception unwinds do_work: the unique_ptr destroys the job, current_job_ stays.
JobThrows ==
    /\ worker = "run"
    /\ worker' = "loop" /\ local_queue' = None
    /\ destroyed' = destroyed \cup {current_job} /\ thrown' = thrown \cup {current_job}
    /\ current_job' = None
    /\ UNCHANGED <<queue_mutex_, job_queue_, queue_being_replaced_, current_job_, countVars, queueVars,
                   setter, observer>>

\* Mutant: the job is destroyed before queue_mutex_ is taken.
ClearCurrentEarlyDestroy ==
    /\ worker \in {"ok", "error"} /\ queue_mutex_ = None
    /\ destroyed' = destroyed \cup {current_job}
    /\ UNCHANGED <<queue_mutex_, job_queue_, queue_being_replaced_, current_job_, countVars, queueVars,
                   workerVars, setter, observer, thrown>>

\* queue_mutex_ is taken and current_job_ cleared.
ClearCurrent ==
    /\ worker \in {"ok", "error"} /\ queue_mutex_ = None
    /\ queue_mutex_' = "worker"
    /\ current_job_' = None
    /\ UNCHANGED <<job_queue_, queue_being_replaced_, countVars, queueVars, workerVars, destroyed,
                   setter, observer, thrown>>

\* The job is destroyed and queue_cv_ notified under queue_mutex_; the result is counted.
DestroyJob ==
    /\ queue_mutex_ = "worker"
    /\ destroyed' = destroyed \cup {current_job}
    /\ setter' = IF setter.at = "asleep" THEN [setter EXCEPT !.at = "lock"] ELSE setter
    /\ queue_mutex_' = None
    /\ jobs_completed_' = jobs_completed_ + (IF worker = "ok" THEN 1 ELSE 0)
    /\ jobs_failed_' = jobs_failed_ + (IF worker = "error" THEN 1 ELSE 0)
    /\ worker' = "loop" /\ local_queue' = None /\ current_job' = None
    /\ UNCHANGED <<job_queue_, queue_being_replaced_, current_job_, queueVars, observer, thrown>>

---------------------------------------------------------------------------
(* set_job_queue, called by one thread at a time (under workers_mutex_).    *)

SetJobQueue(q) ==
    /\ setter.at = "idle" /\ q # job_queue_ /\ q \notin stopped
    /\ setter' = Setting("lock", q, None)
    /\ UNCHANGED <<queue_mutex_, job_queue_, queue_being_replaced_, current_job_, countVars, queueVars,
                   workerVars, destroyed, observer, thrown>>

\* Under queue_mutex_: wait on queue_cv_ while a job is published, else swap.
SwapQueue ==
    /\ setter.at = "lock" /\ queue_mutex_ = None
    /\ IF current_job_ # None
       THEN /\ queue_being_replaced_' = TRUE
            /\ setter' = [setter EXCEPT !.at = "asleep"]
            /\ job_queue_' = job_queue_
       ELSE /\ queue_being_replaced_' = FALSE
            /\ setter' = Setting("stop_old", None, job_queue_)
            /\ job_queue_' = setter.new
    /\ UNCHANGED <<queue_mutex_, current_job_, countVars, queueVars, workerVars, destroyed, observer, thrown>>

\* Mutant: the old queue is not stopped.
StopOldQueueForgotten ==
    /\ setter.at = "stop_old"
    /\ setter' = NotSetting
    /\ UNCHANGED <<queue_mutex_, job_queue_, queue_being_replaced_, current_job_, countVars, queueVars,
                   workerVars, destroyed, observer, thrown>>

\* Outside the mutex: the old queue is stopped, which ends a blocked dequeue().
StopOldQueue ==
    /\ setter.at = "stop_old"
    /\ setter' = NotSetting
    /\ stopped' = stopped \cup ({setter.old} \ {None})
    /\ UNCHANGED <<queue_mutex_, job_queue_, queue_being_replaced_, current_job_, countVars, pending,
                   enqueued, workerVars, destroyed, observer, thrown>>

---------------------------------------------------------------------------
(* on_stop_requested and get_current_job_info.                              *)

\* Both calls begin alike: they wait for queue_mutex_.
Look(o) ==
    /\ observer[o] = NotLooking
    /\ observer' = [observer EXCEPT ![o] = Looking("lock", None)]
    /\ UNCHANGED <<queue_mutex_, job_queue_, queue_being_replaced_, current_job_, countVars, queueVars,
                   workerVars, destroyed, setter, thrown>>

\* Under queue_mutex_ the pointer is loaded; nullptr ends the call.
LoadCurrent(o) ==
    /\ observer[o].at = "lock" /\ queue_mutex_ = None
    /\ IF current_job_ = None
       THEN queue_mutex_' = None /\ observer' = [observer EXCEPT ![o] = NotLooking]
       ELSE queue_mutex_' = o /\ observer' = [observer EXCEPT ![o] = Looking("use", current_job_)]
    /\ UNCHANGED <<job_queue_, queue_being_replaced_, current_job_, countVars, queueVars, workerVars,
                   destroyed, setter, thrown>>

\* The job is used through the pointer (its token, name and times); the mutex is released.
UseCurrent(o) ==
    /\ observer[o].at = "use"
    /\ queue_mutex_' = None
    /\ observer' = [observer EXCEPT ![o] = NotLooking]
    /\ UNCHANGED <<job_queue_, queue_being_replaced_, current_job_, countVars, queueVars, workerVars,
                   destroyed, setter, thrown>>

---------------------------------------------------------------------------

WorkerStep ==
    \/ CopyQueue \/ TakeJob \/ NoJob \/ Begin \/ ClearCurrent \/ DestroyJob
    \/ JobThrows \/ \E result \in {"ok", "error"} : JobReturns(result)

SetterStep == SwapQueue \/ StopOldQueue

Next ==
    \/ WorkerStep \/ SetterStep
    \/ \E q \in Queues : Enqueue(q) \/ StopQueue(q) \/ SetJobQueue(q)
    \/ \E o \in Observers : Look(o) \/ LoadCurrent(o) \/ UseCurrent(o)

Spec == Init /\ [][Next]_vars

\* The worker runs, its jobs end, and a thread that waits for queue_mutex_ gets it.
Fairness ==
    /\ WF_vars(WorkerStep) /\ SF_vars(ClearCurrent)
    /\ SF_vars(SwapQueue) /\ WF_vars(StopOldQueue)
    /\ \A o \in Observers : WF_vars(UseCurrent(o)) /\ SF_vars(LoadCurrent(o))

FairSpec == Spec /\ Fairness

---------------------------------------------------------------------------
(* Properties.                                                              *)

\* do_work destroys a job that returned under the mutex of those who use it: only a job
\* that threw is ever used after its destruction.
UsesLiveJobUnlessThrown ==
    \A o \in Observers : observer[o].at = "use" => observer[o].ptr \notin destroyed \ thrown

\* A worker does not stay blocked in dequeue() on a queue that was taken away from it.
LeavesOldQueue ==
    worker = "dequeue" /\ local_queue # job_queue_ ~> worker # "dequeue"
===============================================================================
