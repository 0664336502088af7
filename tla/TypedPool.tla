------------------------------ MODULE TypedPool ------------------------------
(* typed_thread_pool over aging_typed_job_queue: one queue per priority, created  *)
(* on first use, behind the shared_mutex queues_mutex_; workers that serve a list *)
(* of priorities; and the thread that ages the jobs registered with it.           *)
(*   - A worker keeps queues_mutex_ shared from its test of a queue until the     *)
(*     queue's dequeue returns, which waits while the queue is empty.  enqueue     *)
(*     (to find the queue), stop and clear take the mutex exclusively.             *)
(*   - The loop of the worker is thread_base's: it sleeps when none of its queues  *)
(*     has a job, and only stop() notifies it (see ThreadBase).                     *)
(*   - aging_jobs_ keeps plain pointers; no call site ever unregisters one.        *)
(* Left out: set_job_queue, formatting, and the statistics of ageing.              *)
EXTENDS Integers, Sequences, FiniteSets

CONSTANTS
    Priorities,    \* job_type values
    TypedWorkers,  \* workers, in the order they are added: a sequence of records [types]
    TypedJobs,     \* jobs to enqueue: a sequence of records [type, kind]
    MaxBoost,      \* max_priority_boost
    MaxAgings      \* bound: rounds of the ageing thread

WIds == 1..Len(TypedWorkers)
JIds == 1..Len(TypedJobs)

VARIABLES
    startPool,   \* start_pool_
    qStopped,    \* stopped_ of the aging queue
    queues,      \* per priority: the waiting jobs
    created,     \* priorities whose queue exists
    stoppedQs,   \* priorities whose queue was stopped
    wk,          \* per worker: where, index into its types, its job, stop requested
    client,      \* the enqueueing thread: where, the number of its job
    stopper,     \* the thread in stop(): where, whether it clears, the worker it joins
    done,        \* per job: what became of it
    agingJobs,   \* aging_jobs_
    boost,       \* per job its boost
    agings,      \* rounds of the ageing thread
    tpPast       \* history: whether a job was pushed after stop_ was set

aging == <<agingJobs, boost, agings>>
tpVars == <<startPool, qStopped, queues, created, stoppedQs, wk, client, stopper, done, tpPast, aging>>

Absent == [at |-> "absent", idx |-> 1, job |-> 0, stop |-> FALSE]

TpInit ==
    /\ startPool = FALSE /\ qStopped = FALSE
    /\ queues = [t \in Priorities |-> <<>>] /\ created = {} /\ stoppedQs = {}
    /\ wk = [w \in WIds |-> Absent]
    /\ client = [at |-> "out", job |-> 0]
    /\ stopper = [at |-> "out", clear |-> FALSE, worker |-> 1]
    /\ done = [j \in JIds |-> "no"]
    /\ agingJobs = {} /\ boost = [j \in JIds |-> 0] /\ agings = 0
    /\ tpPast = [late |-> FALSE]

Type(j) == TypedJobs[j].type
Types(w) == TypedWorkers[w].types

Workers == {w \in WIds : wk[w].at # "absent"}

\* queues_mutex_ can be locked exclusively.
NoReader == \A w \in WIds : wk[w].at # "take"

\* !job_queue_->empty(types_).
HasWork(w) == \E i \in DOMAIN Types(w) : queues[Types(w)[i]] # <<>>

-----------------------------------------------------------------------------
(* start, enqueue, execute.                                                   *)

\* enqueue(worker): it starts at once if the pool runs.  workers_ has no lock, so not
\* during a stop.
AddWorker ==
    /\ stopper.at = "out" /\ Cardinality(Workers) < Len(TypedWorkers)
    /\ wk' = [wk EXCEPT ![Cardinality(Workers) + 1].at = IF startPool THEN "check" ELSE "new"]
    /\ UNCHANGED <<startPool, qStopped, queues, created, stoppedQs, client, stopper, done, tpPast, aging>>

\* start(): every worker begins its loop; after a stop the queue stays stopped.
StartPool ==
    /\ ~startPool /\ stopper.at = "out" /\ Workers # {}
    /\ startPool' = TRUE
    /\ wk' = [w \in WIds |-> IF w \in Workers THEN [Absent EXCEPT !.at = "check"] ELSE Absent]
    /\ UNCHANGED <<qStopped, queues, created, stoppedQs, client, stopper, done, tpPast, aging>>

\* start_pool_ and stopped_ are tested; an aging job is registered before it is queued.
EnqueueTyped ==
    /\ client.at = "out" /\ client.job < Len(TypedJobs)
    /\ LET j == client.job + 1 IN
       IF startPool /\ ~qStopped
       THEN /\ client' = [at |-> "find", job |-> j]
            /\ agingJobs' = IF TypedJobs[j].kind = "aging" THEN agingJobs \cup {j} ELSE agingJobs
            /\ UNCHANGED done
       ELSE client' = [at |-> "out", job |-> j] /\ done' = [done EXCEPT ![j] = "refused"]
                                                /\ UNCHANGED agingJobs
    /\ UNCHANGED <<startPool, qStopped, queues, created, stoppedQs, wk, stopper, boost, agings, tpPast>>

\* get_or_create_queue.
GetOrCreateQueue ==
    /\ client.at = "find" /\ NoReader
    /\ created' = created \cup {Type(client.job)}
    /\ client' = [client EXCEPT !.at = "push"]
    /\ UNCHANGED <<startPool, qStopped, queues, stoppedQs, wk, stopper, done, tpPast, aging>>

\* policy_queue::enqueue, stopped or not, under the mutex of the one queue; no worker is
\* notified.
PushTyped ==
    /\ client.at = "push"
    /\ queues' = [queues EXCEPT ![Type(client.job)] = Append(@, client.job)]
    /\ done' = [done EXCEPT ![client.job] = "queued"]
    /\ client' = [client EXCEPT !.at = "out"]
    /\ tpPast' = [tpPast EXCEPT !.late = @ \/ qStopped]
    /\ UNCHANGED <<startPool, qStopped, created, stoppedQs, wk, stopper, aging>>

-----------------------------------------------------------------------------
(* typed_thread_worker.                                                       *)

\* Mutant: a worker asked to stop leaves at once.
LeavesAtOnce(w) == wk[w].stop

\* thread_base leaves its loop when asked to stop and out of work.
Leaves(w) == wk[w].stop /\ ~HasWork(w)

\* The predicate of the wait, under the worker's own mutex.
ShouldContinueWork(w) ==
    /\ wk[w].at = "check"
    /\ wk' = [wk EXCEPT ![w].at = IF Leaves(w) THEN "exited"
                                  ELSE IF HasWork(w) \/ wk[w].stop THEN "scan" ELSE "sleep",
                        ![w].idx = 1]
    /\ UNCHANGED <<startPool, qStopped, queues, created, stoppedQs, client, stopper, done, tpPast, aging>>

SeenEmpty(w) == queues[Types(w)[wk[w].idx]] = <<>>

\* try_dequeue_from_priority: queues_mutex_ is kept for the dequeue.
TryDequeue(w) ==
    /\ wk[w].at = "scan"
    /\ IF wk[w].idx > Len(Types(w)) THEN wk' = [wk EXCEPT ![w].at = "check"]
       ELSE IF SeenEmpty(w) THEN wk' = [wk EXCEPT ![w].idx = @ + 1]
       ELSE wk' = [wk EXCEPT ![w].at = "take"]
    /\ UNCHANGED <<startPool, qStopped, queues, created, stoppedQs, client, stopper, done, tpPast, aging>>

Popped(t) == Tail(queues[t])

\* policy_queue::dequeue waits until there is a job or the queue is stopped.  A job that
\* is no typed_job (execute(unique_ptr<job>)) fails the cast, and is leaked.
Take(w) ==
    LET t == Types(w)[wk[w].idx] IN
    /\ wk[w].at = "take"
    /\ \/ /\ queues[t] # <<>>
          /\ queues' = [queues EXCEPT ![t] = Popped(t)]
          /\ LET j == Head(queues[t]) IN
             IF TypedJobs[j].kind = "plain"
             THEN /\ done' = [done EXCEPT ![j] = "leaked"]
                  /\ wk' = [wk EXCEPT ![w].at = "scan", ![w].idx = @ + 1]
             ELSE wk' = [wk EXCEPT ![w].at = "run", ![w].job = j] /\ UNCHANGED done
       \/ /\ queues[t] = <<>> /\ t \in stoppedQs
          /\ wk' = [wk EXCEPT ![w].at = "scan", ![w].idx = @ + 1]
          /\ UNCHANGED <<queues, done>>
    /\ UNCHANGED <<startPool, qStopped, created, stoppedQs, client, stopper, tpPast, aging>>

RunTyped(w) ==
    /\ wk[w].at = "run"
    /\ done' = [done EXCEPT ![wk[w].job] = IF @ = "queued" THEN "done" ELSE "twice"]
    /\ wk' = [wk EXCEPT ![w].at = "check", ![w].job = 0]
    /\ UNCHANGED <<startPool, qStopped, queues, created, stoppedQs, client, stopper, tpPast, aging>>

SpuriousWake(w) ==
    /\ wk[w].at = "sleep"
    /\ wk' = [wk EXCEPT ![w].at = "check"]
    /\ UNCHANGED <<startPool, qStopped, queues, created, stoppedQs, client, stopper, done, tpPast, aging>>

-----------------------------------------------------------------------------
(* stop(clear_queue) and the destructor: one caller wins the exchange.        *)

Stop(clear) ==
    /\ stopper.at = "out" /\ startPool
    /\ startPool' = FALSE /\ qStopped' = TRUE
    /\ stopper' = [at |-> "stopQueues", clear |-> clear, worker |-> 1]
    /\ UNCHANGED <<queues, created, stoppedQs, wk, client, done, tpPast, aging>>

StopQueues ==
    /\ stopper.at = "stopQueues" /\ NoReader
    /\ stoppedQs' = stoppedQs \cup created
    /\ stopper' = [stopper EXCEPT !.at = IF stopper.clear THEN "clear" ELSE "join"]
    /\ UNCHANGED <<startPool, qStopped, queues, created, wk, client, done, tpPast, aging>>

ClearedJobs == {}

Clear ==
    /\ stopper.at = "clear" /\ NoReader
    /\ queues' = [t \in Priorities |-> <<>>]
    /\ done' = [j \in JIds |-> IF \E t \in Priorities : \E i \in DOMAIN queues[t] : queues[t][i] = j
                              THEN "cleared" ELSE done[j]]
    /\ agingJobs' = ClearedJobs
    /\ stopper' = [stopper EXCEPT !.at = "join"]
    /\ UNCHANGED <<startPool, qStopped, created, stoppedQs, wk, client, boost, agings, tpPast>>

\* worker->stop(): the stop is requested, the worker notified and joined.
StopWorker ==
    /\ stopper.at = "join"
    /\ LET w == stopper.worker IN
       \/ /\ w \notin Workers
          /\ stopper' = [stopper EXCEPT !.at = "out", !.clear = FALSE, !.worker = 1] /\ UNCHANGED wk
       \/ /\ w \in Workers /\ wk[w].at = "exited"
          /\ stopper' = [stopper EXCEPT !.worker = @ + 1] /\ UNCHANGED wk
       \/ /\ w \in Workers /\ ~wk[w].stop
          /\ wk' = [wk EXCEPT ![w].stop = TRUE, ![w].at = IF @ = "sleep" THEN "check" ELSE @]
          /\ UNCHANGED stopper
    /\ UNCHANGED <<startPool, qStopped, queues, created, stoppedQs, client, done, tpPast, aging>>

-----------------------------------------------------------------------------
(* The ageing thread.                                                         *)

\* aged_priority::apply_boost with the linear curve: the boost of the whole wait is added
\* in every round.
Boosted(b, waited) == IF b + waited > MaxBoost THEN MaxBoost ELSE b + waited

Freed(j) == done[j] \in {"done", "cleared", "refused"}

\* One round of aging_loop under jobs_mutex_: every registered job is read and boosted.
ApplyAging ==
    /\ agings < MaxAgings /\ agings' = agings + 1
    /\ boost' = [j \in JIds |-> IF j \in agingJobs /\ ~Freed(j) THEN Boosted(boost[j], agings + 1) ELSE boost[j]]
    /\ UNCHANGED <<startPool, qStopped, queues, created, stoppedQs, wk, client, stopper, done, agingJobs, tpPast>>

TpNext ==
    \/ AddWorker \/ StartPool \/ EnqueueTyped \/ GetOrCreateQueue \/ PushTyped
    \/ \E w \in WIds : ShouldContinueWork(w) \/ TryDequeue(w) \/ Take(w) \/ RunTyped(w) \/ SpuriousWake(w)
    \/ \E clear \in BOOLEAN : Stop(clear)
    \/ StopQueues \/ Clear \/ StopWorker \/ ApplyAging

TpSpec == TpInit /\ [][TpNext]_tpVars

\* Threads inside a call and workers keep running; nothing makes a call or a spurious wakeup
\* happen.
TpFairSpec ==
    /\ TpSpec
    /\ WF_tpVars(StopQueues \/ Clear \/ StopWorker)
    /\ WF_tpVars(GetOrCreateQueue \/ PushTyped)
    /\ \A w \in WIds : WF_tpVars(ShouldContinueWork(w) \/ TryDequeue(w) \/ Take(w) \/ RunTyped(w))

-----------------------------------------------------------------------------

\* stop(false) finishes what was accepted: when it has joined every worker no job is left
\* behind, unless enqueue slipped its job in after stopped_ was set.
StopDrains ==
    ~startPool /\ stopper.at = "out" /\ qStopped /\ ~tpPast.late =>
        \A j \in JIds : done[j] # "queued"

\* A running pool executes every job it has accepted: the worker "continuously checks the
\* queue for new jobs".
AcceptedJobsRun == \A j \in JIds : done[j] = "queued" ~> done[j] # "queued" \/ ~startPool
=============================================================================
