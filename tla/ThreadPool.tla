------------------------------ MODULE ThreadPool ------------------------------
(***************************************************************************)
(* thread_pool (src/impl/thread_pool/thread_pool.cpp): the workers, the    *)
(* queues they share over the restarts of the pool, a submitter, and       *)
(* threads calling start, stop, enqueue(worker), check_worker_health and   *)
(* remove_workers_internal.                                                *)
(*                                                                         *)
(* A worker is reduced to what ThreadBase and ThreadWorker show of it:     *)
(*   "none"    it has no thread,                                           *)
(*   "loop"    it is about to test whether to sleep, to work or to end,    *)
(*   "asleep"  it waits on the condition of its lifecycle_controller,      *)
(*   "take"    it is in dequeue(), waiting for a job or for a stop,        *)
(*   "run"     it runs a job,                                              *)
(*   "done"    its loop has ended and it can be joined.                    *)
(* It holds its cv_mutex_ in "take" and "run".  A queue is its pending     *)
(* jobs and whether it was stopped (module JobQueue has the rest).         *)
(* Queue g is the g-th one the pool created.                               *)
(***************************************************************************)
EXTENDS Integers, Sequences, FiniteSets

CONSTANTS
    Workers,    \* thread_worker objects
    Callers,    \* threads calling the control operations
    Operations, \* the operations they call
    Spawns,     \* outcomes of creating a thread: "ok", "fail"
    MaxQueues,  \* bound: queues created
    MaxJobs,    \* bound: jobs submitted; job j is the j-th one
    MaxBatch,   \* bound: jobs of one enqueue_batch
    None

ASSUME Bounds == MaxQueues \in Nat \ {0} /\ MaxJobs \in Nat /\ MaxBatch \in Nat \ {0}
ASSUME NobodyIsNone == None \notin Workers \cup Callers
ASSUME KnownOperations ==
    /\ Operations \subseteq {"start", "stop", "stop_now", "add", "health", "remove"}
    /\ Spawns \subseteq {"ok", "fail"}

VARIABLES
    start_pool_,    \* the pool is running
    workers_mutex_, \* its holder, or None
    workers_,       \* the members of the pool
    job_queue_,     \* the pool's queue
    pool_cancelled, \* pool_cancellation_token_ was cancelled
    made,           \* worker objects created so far
    pending,        \* the jobs of each queue
    stopped,        \* queues that were stopped
    submitted,      \* number of jobs submitted
    submitter,      \* the queue on which enqueue passed its test, or 0
    finished, discarded,
    thread,         \* where the thread of each worker is
    is_running,     \* state_ of each worker is Working or Waiting
    stop_requested, \* workers whose stop was requested
    cancelled,      \* workers whose worker_cancellation_token_ was cancelled
    worker_queue,   \* job_queue_ of each worker, 0 for nullptr
    local_queue,    \* the queue its do_work uses
    job,            \* the job it runs, or 0
    wild,           \* workers destroyed while their thread was alive
    call            \* where each caller is

poolVars == <<start_pool_, workers_mutex_, workers_, job_queue_, pool_cancelled, made>>
queueVars == <<pending, stopped>>
submitVars == <<submitted, submitter>>
jobVars == <<finished, discarded>>
threadVars == <<thread, is_running, local_queue, job>>
signalVars == <<stop_requested, cancelled>>
vars == <<poolVars, queueVars, submitVars, jobVars, threadVars, signalVars, worker_queue, wild, call>>

Queues == 1..MaxQueues
Jobs == 1..MaxJobs
\* An operation in progress: its step, the workers it has still to handle, the one in
\* hand, and how many it found failed.
At(op, at, todo, w, failed) == [op |-> op, at |-> at, todo |-> todo, w |-> w, failed |-> failed]
Idle == At("none", "idle", {}, None, 0)

Init ==
    /\ start_pool_ = FALSE /\ workers_mutex_ = None /\ workers_ = {} /\ made = {}
    /\ job_queue_ = 1 /\ pool_cancelled = FALSE
    /\ pending = [q \in Queues |-> <<>>] /\ stopped = {}
    /\ submitted = 0 /\ submitter = 0 /\ finished = {} /\ discarded = {}
    /\ thread = [w \in Workers |-> "none"] /\ is_running = [w \in Workers |-> FALSE]
    /\ stop_requested = {} /\ cancelled = {} /\ wild = {}
    /\ worker_queue = [w \in Workers |-> 0] /\ local_queue = [w \in Workers |-> 0]
    /\ job = [w \in Workers |-> 0]
    /\ call = [c \in Callers |-> Idle]

---------------------------------------------------------------------------
(* The submitter: enqueue(job) and enqueue_batch(jobs).                     *)

\* The tests of the pool and of its queue pass; a refusal changes nothing.
EnqueueTest ==
    /\ submitter = 0 /\ submitted < MaxJobs
    /\ job_queue_ \notin stopped
    /\ submitter' = job_queue_
    /\ UNCHANGED <<poolVars, queueVars, submitted, jobVars, threadVars, signalVars, worker_queue, wild, call>>

\* The jobs go into that queue, whatever happened to it since.
EnqueuePush ==
    /\ submitter # 0
    /\ \E k \in 1..MaxBatch :
          /\ submitted + k <= MaxJobs
          /\ pending' = [pending EXCEPT ![submitter] = @ \o [i \in 1..k |-> submitted + i]]
          /\ submitted' = submitted + k
    /\ submitter' = 0
    /\ UNCHANGED <<poolVars, stopped, jobVars, threadVars, signalVars, worker_queue, wild, call>>

---------------------------------------------------------------------------
(* A worker.                                                                *)

\* should_continue_work; once the worker object is destroyed the base class answers.
ShouldContinue(w) == w \notin wild /\ worker_queue[w] # 0 /\ worker_queue[w] \notin stopped

LoopWorks(w) ==
    /\ thread[w] = "loop" /\ ShouldContinue(w)
    /\ thread' = [thread EXCEPT ![w] = "take"]
    /\ local_queue' = [local_queue EXCEPT ![w] = worker_queue[w]]
    /\ is_running' = [is_running EXCEPT ![w] = TRUE]
    /\ UNCHANGED <<poolVars, queueVars, submitVars, jobVars, job, signalVars, worker_queue, wild, call>>

LoopSleeps(w) ==
    /\ thread[w] = "loop" /\ ~ShouldContinue(w) /\ w \notin stop_requested
    /\ thread' = [thread EXCEPT ![w] = "asleep"]
    /\ is_running' = [is_running EXCEPT ![w] = TRUE]
    /\ UNCHANGED <<poolVars, queueVars, submitVars, jobVars, local_queue, job, signalVars, worker_queue, wild, call>>

\* The end at the loop test keeps state_, the end after the wait sets it to Stopping.
LoopEnds(w) ==
    /\ thread[w] = "loop" /\ ~ShouldContinue(w) /\ w \in stop_requested
    /\ thread' = [thread EXCEPT ![w] = "done"]
    /\ \E kept \in {is_running[w], FALSE} : is_running' = [is_running EXCEPT ![w] = kept]
    /\ UNCHANGED <<poolVars, queueVars, submitVars, jobVars, local_queue, job, signalVars, worker_queue, wild, call>>

\* Mutant: the job is read from the queue and left there.
TakeJobKeeps(w) ==
    /\ thread[w] = "take" /\ pending[local_queue[w]] # <<>>
    /\ thread' = [thread EXCEPT ![w] = "run"]
    /\ job' = [job EXCEPT ![w] = Head(pending[local_queue[w]])]
    /\ UNCHANGED <<poolVars, queueVars, submitVars, jobVars, is_running, local_queue, signalVars, worker_queue, wild, call>>

\* dequeue() returns a job, also from a stopped queue.
TakeJob(w) ==
    /\ thread[w] = "take" /\ pending[local_queue[w]] # <<>>
    /\ thread' = [thread EXCEPT ![w] = "run"]
    /\ job' = [job EXCEPT ![w] = Head(pending[local_queue[w]])]
    /\ pending' = [pending EXCEPT ![local_queue[w]] = Tail(@)]
    /\ UNCHANGED <<poolVars, stopped, submitVars, jobVars, is_running, local_queue, signalVars, worker_queue, wild, call>>

TakeNothing(w) ==
    /\ thread[w] = "take" /\ pending[local_queue[w]] = <<>> /\ local_queue[w] \in stopped
    /\ thread' = [thread EXCEPT ![w] = "loop"]
    /\ UNCHANGED <<poolVars, queueVars, submitVars, jobVars, is_running, local_queue, job, signalVars, worker_queue, wild, call>>

RunEnds(w) ==
    /\ thread[w] = "run"
    /\ thread' = [thread EXCEPT ![w] = "loop"]
    /\ job' = [job EXCEPT ![w] = 0]
    /\ finished' = finished \cup {job[w]}
    /\ UNCHANGED <<poolVars, queueVars, submitVars, discarded, is_running, local_queue, signalVars, worker_queue, wild, call>>

---------------------------------------------------------------------------
(* start().                                                                 *)

\* A running pool, and one without workers, is left alone.  A stopped queue is replaced.
Start(c) ==
    /\ "start" \in Operations /\ call[c] = Idle /\ workers_mutex_ = None
    /\ ~start_pool_ /\ workers_ # {}
    /\ workers_mutex_' = c
    /\ IF job_queue_ \in stopped
       THEN /\ job_queue_ < MaxQueues
            /\ job_queue_' = job_queue_ + 1
            /\ call' = [call EXCEPT ![c] = At("start", "set_queue", workers_, None, 0)]
       ELSE /\ job_queue_' = job_queue_
            /\ call' = [call EXCEPT ![c] = At("start", "launch", {}, None, 0)]
    /\ UNCHANGED <<start_pool_, workers_, pool_cancelled, made, queueVars, submitVars, jobVars, threadVars,
                   signalVars, worker_queue, wild>>

\* Mutant: the workers keep the stopped queue.
SetQueueForgotten(c) ==
    /\ call[c].at = "set_queue"
    /\ call' = [call EXCEPT ![c] = At("start", "launch", {}, None, 0)]
    /\ UNCHANGED <<poolVars, queueVars, submitVars, jobVars, threadVars, signalVars, worker_queue, wild>>

\* worker->set_job_queue(job_queue_): waits for the job in hand, stops the old queue.
SetQueue(c) ==
    /\ call[c].at = "set_queue"
    /\ \E w \in call[c].todo :
          /\ thread[w] # "run"
          /\ worker_queue' = [worker_queue EXCEPT ![w] = job_queue_]
          /\ stopped' = stopped \cup ({worker_queue[w]} \ {0})
          /\ call' = [call EXCEPT ![c] = IF call[c].todo = {w} THEN At("start", "launch", {}, None, 0)
                                         ELSE [call[c] EXCEPT !.todo = @ \ {w}]]
    /\ UNCHANGED <<poolVars, pending, submitVars, jobVars, threadVars, signalVars, wild>>

\* thread_base::start() of a set of workers that have no thread.
Launch(ws) ==
    /\ thread' = [w \in Workers |-> IF w \in ws THEN "loop" ELSE thread[w]]
    /\ is_running' = [w \in Workers |-> is_running[w] /\ w \notin ws]
    /\ stop_requested' = stop_requested \ ws

\* The workers are started in turn.  At the first that has a thread already, or cannot
\* get one, start() gives up; the stop() it calls finds start_pool_ false and does nothing.
LaunchWorkers(c) ==
    /\ call[c].at = "launch"
    /\ \/ /\ "ok" \in Spawns /\ \A w \in workers_ : thread[w] = "none"
          /\ Launch(workers_)
          /\ start_pool_' = TRUE
       \/ \E w \in workers_ : \E before \in SUBSET (workers_ \ {w}) :
          /\ thread[w] # "none" \/ "fail" \in Spawns
          /\ \A b \in before : thread[b] = "none"
          /\ Launch(before)
          /\ start_pool_' = start_pool_
    /\ pool_cancelled' = FALSE
    /\ workers_mutex_' = None
    /\ call' = [call EXCEPT ![c] = Idle]
    /\ UNCHANGED <<workers_, job_queue_, made, queueVars, submitVars, jobVars, local_queue, job, cancelled,
                   worker_queue, wild>>

---------------------------------------------------------------------------
(* stop().                                                                  *)

\* The compare-exchange lets one caller through; the pool's token is cancelled.
Stop(c, op) ==
    /\ op \in Operations /\ call[c] = Idle
    /\ start_pool_
    /\ start_pool_' = FALSE
    /\ pool_cancelled' = TRUE
    /\ call' = [call EXCEPT ![c] = At(op, "stop_queue", {}, None, 0)]
    /\ UNCHANGED <<workers_mutex_, workers_, job_queue_, made, queueVars, submitVars, jobVars, threadVars,
                   signalVars, worker_queue, wild>>

\* Mutant: the queue is left open.
StopQueueForgotten(c) ==
    /\ call[c].at = "stop_queue"
    /\ call' = [call EXCEPT ![c].at = IF call[c].op = "stop_now" THEN "clear" ELSE "lock"]
    /\ UNCHANGED <<poolVars, queueVars, submitVars, jobVars, threadVars, signalVars, worker_queue, wild>>

StopQueue(c) ==
    /\ call[c].at = "stop_queue"
    /\ stopped' = stopped \cup {job_queue_}
    /\ call' = [call EXCEPT ![c].at = IF call[c].op = "stop_now" THEN "clear" ELSE "lock"]
    /\ UNCHANGED <<poolVars, pending, submitVars, jobVars, threadVars, signalVars, worker_queue, wild>>

ClearQueue(c) ==
    /\ call[c].at = "clear"
    /\ discarded' = discarded \cup {pending[job_queue_][i] : i \in DOMAIN pending[job_queue_]}
    /\ pending' = [pending EXCEPT ![job_queue_] = <<>>]
    /\ call' = [call EXCEPT ![c].at = "lock"]
    /\ UNCHANGED <<poolVars, stopped, submitVars, finished, threadVars, signalVars, worker_queue, wild>>

\* workers_mutex_ is taken, and kept until every worker was joined.
StopLock(c) ==
    /\ call[c].op \in {"stop", "stop_now"} /\ call[c].at = "lock" /\ workers_mutex_ = None
    /\ workers_mutex_' = c
    /\ call' = [call EXCEPT ![c].at = "each", ![c].todo = workers_]
    /\ UNCHANGED <<start_pool_, workers_, job_queue_, pool_cancelled, made, queueVars, submitVars, jobVars,
                   threadVars, signalVars, worker_queue, wild>>

---------------------------------------------------------------------------
(* thread_base::stop() of one worker after the other, within stop(),        *)
(* remove_workers_internal() and the destructors check_worker_health() runs. *)

\* A worker without a thread answers with an error.  Otherwise its stop is requested and
\* on_stop_requested cancels its token (unless that part of the object is gone).
StopEach(c) ==
    /\ call[c].at = "each"
    /\ \E w \in call[c].todo :
          IF thread[w] = "none"
          THEN /\ call' = [call EXCEPT ![c].todo = @ \ {w}]
               /\ UNCHANGED signalVars
          ELSE /\ stop_requested' = stop_requested \cup {w}
               /\ cancelled' = cancelled \cup ({w} \ wild)
               /\ call' = [call EXCEPT ![c].at = "notify", ![c].w = w, ![c].todo = @ \ {w}]
    /\ UNCHANGED <<poolVars, queueVars, submitVars, jobVars, threadVars, worker_queue, wild>>

\* notify_all takes the cv_mutex_ of the worker, which it holds throughout do_work.
NotifyWorker(c) ==
    /\ call[c].at = "notify"
    /\ thread[call[c].w] \notin {"take", "run"}
    /\ thread' = [thread EXCEPT ![call[c].w] = IF @ = "asleep" THEN "loop" ELSE @]
    /\ call' = [call EXCEPT ![c].at = "join"]
    /\ UNCHANGED <<poolVars, queueVars, submitVars, jobVars, is_running, local_queue, job, signalVars,
                   worker_queue, wild>>

JoinWorker(c) ==
    /\ call[c].at = "join"
    /\ thread[call[c].w] = "done"
    /\ thread' = [thread EXCEPT ![call[c].w] = "none"]
    /\ is_running' = [is_running EXCEPT ![call[c].w] = FALSE]
    /\ call' = [call EXCEPT ![c].at = "each", ![c].w = None]
    /\ UNCHANGED <<poolVars, queueVars, submitVars, jobVars, local_queue, job, signalVars, worker_queue, wild>>

\* All are joined: stop() and remove_workers_internal() return, check_worker_health() goes on.
StopEachDone(c) ==
    /\ call[c].at = "each" /\ call[c].todo = {}
    /\ IF call[c].op = "health"
       THEN call' = [call EXCEPT ![c].at = "replace"] /\ workers_mutex_' = workers_mutex_
       ELSE call' = [call EXCEPT ![c] = Idle] /\ workers_mutex_' = None
    /\ UNCHANGED <<start_pool_, workers_, job_queue_, pool_cancelled, made, queueVars, submitVars, jobVars,
                   threadVars, signalVars, worker_queue, wild>>

---------------------------------------------------------------------------
(* enqueue(worker), check_worker_health() and remove_workers_internal().    *)

\* The new worker gets the pool's queue before workers_mutex_ is taken.
AddWorker(c, w) ==
    /\ "add" \in Operations /\ call[c] = Idle
    /\ w \notin made
    /\ made' = made \cup {w}
    /\ worker_queue' = [worker_queue EXCEPT ![w] = job_queue_]
    /\ call' = [call EXCEPT ![c] = At("add", "lock", {w}, w, 0)]
    /\ UNCHANGED <<start_pool_, workers_mutex_, workers_, job_queue_, pool_cancelled, queueVars, submitVars,
                   jobVars, threadVars, signalVars, wild>>

\* Under workers_mutex_: a running pool starts it, and drops it if it does not start.
AddWorkerLocked(c) ==
    /\ call[c].op = "add" /\ call[c].at = "lock" /\ workers_mutex_ = None
    /\ \/ /\ ~start_pool_ \/ "ok" \in Spawns
          /\ workers_' = workers_ \cup call[c].todo
          /\ Launch(IF start_pool_ THEN call[c].todo ELSE {})
       \/ /\ start_pool_ /\ "fail" \in Spawns
          /\ UNCHANGED <<workers_, thread, is_running, stop_requested>>
    /\ call' = [call EXCEPT ![c] = Idle]
    /\ UNCHANGED <<start_pool_, workers_mutex_, job_queue_, pool_cancelled, made, queueVars, submitVars, jobVars,
                   local_queue, job, cancelled, worker_queue, wild>>

\* Members that do not report is_running are erased.  Destroying one whose thread is alive
\* ends the thread_worker part of the object first; ~thread_base then stops the thread.
CheckHealth(c) ==
    LET failed == {w \in workers_ : ~is_running[w]} IN
    /\ "health" \in Operations /\ call[c] = Idle /\ workers_mutex_ = None
    /\ failed # {}
    /\ workers_mutex_' = c
    /\ workers_' = workers_ \ failed
    /\ wild' = wild \cup {w \in failed : thread[w] # "none"}
    /\ call' = [call EXCEPT ![c] = At("health", "each", failed, None, Cardinality(failed))]
    /\ UNCHANGED <<start_pool_, job_queue_, pool_cancelled, made, queueVars, submitVars, jobVars, threadVars,
                   signalVars, worker_queue>>

\* Mutant: replacements are added whether the pool runs or not.
ReplaceFailedAlways(c) ==
    /\ call[c].at = "replace"
    /\ \E fresh \in SUBSET (Workers \ made) :
          /\ fresh # {} => "ok" \in Spawns
          /\ Cardinality(fresh) <= call[c].failed
          /\ made' = made \cup fresh
          /\ workers_' = workers_ \cup fresh
          /\ worker_queue' = [w \in Workers |-> IF w \in fresh THEN job_queue_ ELSE worker_queue[w]]
          /\ Launch(fresh)
    /\ workers_mutex_' = None
    /\ call' = [call EXCEPT ![c] = Idle]
    /\ UNCHANGED <<start_pool_, job_queue_, pool_cancelled, queueVars, submitVars, jobVars, local_queue, job,
                   cancelled, wild>>

\* When restarting is asked for and the pool runs, new workers are made, started and added,
\* as many as failed or, where starting one fails, fewer.
ReplaceFailed(c) ==
    /\ call[c].at = "replace"
    /\ \E fresh \in SUBSET (Workers \ made) :
          /\ fresh # {} => start_pool_ /\ "ok" \in Spawns
          /\ Cardinality(fresh) <= call[c].failed
          /\ made' = made \cup fresh
          /\ workers_' = workers_ \cup fresh
          /\ worker_queue' = [w \in Workers |-> IF w \in fresh THEN job_queue_ ELSE worker_queue[w]]
          /\ Launch(fresh)
    /\ workers_mutex_' = None
    /\ call' = [call EXCEPT ![c] = Idle]
    /\ UNCHANGED <<start_pool_, job_queue_, pool_cancelled, queueVars, submitVars, jobVars, local_queue, job,
                   cancelled, wild>>

\* One idle worker (is_idle: it runs no job) is stopped and erased, if more than one is
\* left.  The erasure follows its stop(), under workers_mutex_: nobody sees the difference.
RemoveWorker(c) ==
    /\ "remove" \in Operations /\ call[c] = Idle /\ workers_mutex_ = None
    /\ Cardinality(workers_) > 1
    /\ \E w \in workers_ :
          /\ thread[w] # "run"
          /\ call' = [call EXCEPT ![c] = At("remove", "each", {w}, None, 0)]
          /\ workers_' = workers_ \ {w}
    /\ workers_mutex_' = c
    /\ UNCHANGED <<start_pool_, job_queue_, pool_cancelled, made, queueVars, submitVars, jobVars, threadVars,
                   signalVars, worker_queue, wild>>

---------------------------------------------------------------------------

WorkerStep(w) ==
    \/ LoopWorks(w) \/ LoopSleeps(w) \/ LoopEnds(w)
    \/ TakeJob(w) \/ TakeNothing(w) \/ RunEnds(w)

CallerStep(c) ==
    \/ SetQueue(c) \/ LaunchWorkers(c)
    \/ StopQueue(c) \/ ClearQueue(c) \/ StopLock(c)
    \/ StopEach(c) \/ NotifyWorker(c) \/ JoinWorker(c) \/ StopEachDone(c)
    \/ AddWorkerLocked(c) \/ ReplaceFailed(c)

Next ==
    \/ EnqueueTest \/ EnqueuePush
    \/ \E w \in Workers : WorkerStep(w)
    \/ \E c \in Callers :
          \/ CallerStep(c)
          \/ Start(c) \/ Stop(c, "stop") \/ Stop(c, "stop_now")
          \/ CheckHealth(c) \/ RemoveWorker(c)
          \/ \E w \in Workers : AddWorker(c, w)

Spec == Init /\ [][Next]_vars

\* Threads run, jobs end, and a caller waiting for workers_mutex_ gets it.
Fairness ==
    /\ \A w \in Workers : WF_vars(WorkerStep(w))
    /\ \A c \in Callers : WF_vars(CallerStep(c)) /\ SF_vars(StopLock(c)) /\ SF_vars(AddWorkerLocked(c))

FairSpec == Spec /\ Fairness

---------------------------------------------------------------------------
(* Properties.                                                              *)

Quiet == \A c \in Callers : call[c] = Idle

\* A pool that is not running, with no operation in progress, has no live thread: what
\* ~thread_pool relies on, whose stop() does nothing in that state.
StoppedMeansJoined == ~start_pool_ /\ Quiet => \A w \in Workers : thread[w] = "none"

\* A running pool runs on workers that were not told to stop: a job it starts does not
\* find its token cancelled.
StartsUncancelled ==
    start_pool_ /\ Quiet => \A w \in workers_ : thread[w] = "run" => w \notin cancelled

\* What has become of each job.
JobStatus ==
    [j \in Jobs |->
        IF j \in finished THEN "finished"
        ELSE IF j \in discarded THEN "discarded"
        ELSE IF \E w \in Workers : job[w] = j THEN "running"
        ELSE IF j <= submitted THEN "waiting" ELSE "unsubmitted"]

Lifecycle == INSTANCE JobLifecycle WITH status <- JobStatus

\* Each job is submitted, then runs once and to its end or is discarded unrun.
ImplementsLifecycle == Lifecycle!Spec

\* stop() returns, also when it races other operations.
StopReturns == \A c \in Callers : call[c].op \in {"stop", "stop_now"} ~> call[c] = Idle

\* A job in the queue of a running pool is run, unless the pool is stopped first.
RunningPoolRunsJobs ==
    \A j \in Jobs : (start_pool_ /\ \E i \in DOMAIN pending[job_queue_] : pending[job_queue_][i] = j)
                        ~> (j \in finished \/ ~start_pool_)
===============================================================================
