--------------------------- MODULE ThreadPoolProofs ---------------------------
(***************************************************************************)
(* Proofs about thread_pool for any workers, callers, queues and jobs.     *)
(***************************************************************************)
EXTENDS ThreadPool, TLAPS

---------------------------------------------------------------------------
(* Threads and those who join them.                                         *)

Places ==
    {"idle", "set_queue", "launch", "stop_queue", "clear", "lock", "each", "notify", "join", "replace"}
Names == {"none", "start", "stop", "stop_now", "add", "health", "remove"}
Counts == {0} \cup {Cardinality(S) : S \in SUBSET Workers}
Calls == [op : Names, at : Places, todo : SUBSET Workers, w : Workers \cup {None}, failed : Counts]

CallsTyped ==
    /\ call \in [Callers -> Calls]
    /\ workers_ \subseteq Workers /\ thread \in [Workers -> {"none", "loop", "asleep", "take", "run", "done"}]
    /\ start_pool_ \in BOOLEAN

Holding(c) == call[c].at \in {"set_queue", "launch", "each", "notify", "join", "replace"}

\* stop() that was let through and does not have workers_mutex_ yet.
StopUnderway(c) == call[c].at \in {"stop_queue", "clear", "lock"} /\ call[c].op # "add"

\* The caller is going to join this worker.
InCharge(c, w) ==
    \/ call[c].at \in {"each", "notify", "join"} /\ w \in call[c].todo
    \/ call[c].at \in {"notify", "join"} /\ w = call[c].w

\* A thread is left to the pool while it runs, to a stop() underway, or to the caller that
\* joins it.
Joinable ==
    \A w \in Workers : thread[w] # "none" =>
        \/ w \in workers_ /\ (start_pool_ \/ \E c \in Callers : StopUnderway(c))
        \/ \E c \in Callers : InCharge(c, w)

\* workers_mutex_ has one holder, start() runs with start_pool_ false, and threads are
\* joinable where creating one does not fail.
JoinInv ==
    /\ CallsTyped
    /\ \A c \in Callers : Holding(c) => workers_mutex_ = c
    /\ \A c \in Callers : call[c].at \in {"set_queue", "launch"} => ~start_pool_
    /\ "fail" \notin Spawns => Joinable

\* A caller that counted no failed workers.
LEMMA NoneCounted == 0 \in Counts
BY DEF Counts


\* The record of a caller that is in no call.
LEMMA IdleTyped == Idle \in Calls /\ Idle.at = "idle"
BY NoneCounted DEF Idle, At, Calls, Places, Names

\* A new pool has no threads and no call underway.
LEMMA InitJoinInv == Init => JoinInv
BY IdleTyped, Zenon DEF Init, JoinInv, Joinable, CallsTyped, Holding

\* A step of a worker starts no thread and ends none.
LEMMA WorkerJoinInv ==
    ASSUME JoinInv, NEW w \in Workers, WorkerStep(w)
    PROVE  JoinInv'
<1>1. /\ UNCHANGED <<call, workers_, start_pool_, workers_mutex_>>
      /\ thread[w] # "none"
      /\ \E t \in {"loop", "asleep", "take", "run", "done"} : thread' = [thread EXCEPT ![w] = t]
  BY DEF WorkerStep, LoopWorks, LoopSleeps, LoopEnds, TakeJob, TakeNothing, RunEnds, poolVars
<1>2. CallsTyped' /\ \A v \in Workers : thread'[v] # "none" => thread[v] # "none"
  BY <1>1 DEF JoinInv, CallsTyped
<1> QED
  BY <1>1, <1>2 DEF JoinInv, Joinable, Holding, StopUnderway, InCharge

\* The caller c is now at r: what has to hold of r for the invariant.
LEMMA CallJoinInv ==
    ASSUME JoinInv, NEW c \in Callers, NEW r \in Calls, call' = [call EXCEPT ![c] = r],
           workers_' \subseteq Workers, start_pool_' \in BOOLEAN,
           thread' \in [Workers -> {"none", "loop", "asleep", "take", "run", "done"}],
           \A d \in Callers \ {c} : Holding(d) => workers_mutex_' = d,
           Holding(c)' => workers_mutex_' = c,
           start_pool_' => start_pool_ \/ (Holding(c) /\ ~Holding(c)'),
           r.at \in {"set_queue", "launch"} => ~start_pool_',
           "fail" \notin Spawns => Joinable'
    PROVE  JoinInv'
<1>1. call'[c] = r /\ \A d \in Callers \ {c} : call'[d] = call[d]
  BY DEF JoinInv, CallsTyped
<1>2. CallsTyped'
  BY DEF JoinInv, CallsTyped
<1>3. \A d \in Callers : Holding(d)' => workers_mutex_' = d
  BY <1>1 DEF Holding
<1>4. ASSUME NEW d \in Callers, call'[d].at \in {"set_queue", "launch"}
      PROVE  ~start_pool_'
  <2>1. CASE d = c
    BY <1>1, <1>4, <2>1
  <2>2. CASE d # c
    BY <1>1, <1>4, <2>2 DEF JoinInv, Holding
  <2> QED
    BY <2>1, <2>2
<1> QED
  BY <1>2, <1>3, <1>4 DEF JoinInv

\* A step of a caller that starts no thread and lets go of none.
LEMMA KeepsJoinInv ==
    ASSUME JoinInv, NEW c \in Callers, NEW r \in Calls, call' = [call EXCEPT ![c] = r],
           workers_' \subseteq Workers, start_pool_' \in BOOLEAN,
           thread' \in [Workers -> {"none", "loop", "asleep", "take", "run", "done"}],
           \A w \in Workers : thread[w] = "none" => thread'[w] = "none",
           \/ workers_mutex_ = None /\ workers_mutex_' = c
           \/ workers_mutex_ = c /\ workers_mutex_' = None /\ ~Holding(c)'
           \/ workers_mutex_' = workers_mutex_ /\ (Holding(c)' => Holding(c)),
           start_pool_' => start_pool_,
           start_pool_ => start_pool_' \/ StopUnderway(c)',
           r.at \in {"set_queue", "launch"} => ~start_pool_,
           StopUnderway(c) => StopUnderway(c)' \/ \A w \in workers_ : InCharge(c, w)',
           \A w \in workers_ : w \in workers_' \/ InCharge(c, w)',
           \A w \in Workers : InCharge(c, w) => thread'[w] = "none" \/ InCharge(c, w)'
    PROVE  JoinInv'
<1>1. call'[c] = r /\ \A d \in Callers \ {c} : call'[d] = call[d]
  BY DEF JoinInv, CallsTyped
<1>2. \A d \in Callers \ {c} : Holding(d) => workers_mutex_' = d
  BY NobodyIsNone DEF JoinInv
<1>3. Holding(c)' => workers_mutex_' = c
  BY DEF JoinInv
<1>4. /\ \A d \in Callers \ {c} : StopUnderway(d)' = StopUnderway(d)
      /\ \A d \in Callers \ {c} : \A w \in Workers : InCharge(d, w)' = InCharge(d, w)
  BY <1>1 DEF StopUnderway, InCharge
<1>5. ASSUME "fail" \notin Spawns, NEW w \in Workers, thread'[w] # "none"
      PROVE  \/ w \in workers_' /\ (start_pool_' \/ \E d \in Callers : StopUnderway(d)')
             \/ \E d \in Callers : InCharge(d, w)'
  <2>1. CASE w \in workers_ /\ start_pool_
    BY <2>1
  <2>2. ASSUME NEW d \in Callers, w \in workers_, StopUnderway(d)
        PROVE  \/ w \in workers_' /\ \E e \in Callers : StopUnderway(e)'
               \/ \E e \in Callers : InCharge(e, w)'
    BY <1>4, <2>2
  <2>3. ASSUME NEW d \in Callers, InCharge(d, w)
        PROVE  \E e \in Callers : InCharge(e, w)'
    BY <1>4, <1>5, <2>3
  <2> QED
    BY <1>5, <2>1, <2>2, <2>3 DEF JoinInv, Joinable
<1>6. "fail" \notin Spawns => Joinable'
  BY <1>5 DEF Joinable
<1>7. r.at \in {"set_queue", "launch"} => ~start_pool_'
  OBVIOUS
<1>8. start_pool_' => start_pool_ \/ (Holding(c) /\ ~Holding(c)')
  OBVIOUS
<1> QED
  BY <1>2, <1>3, <1>6, <1>7, <1>8, CallJoinInv, Zenon

\* start() of a stopped pool takes workers_mutex_, and replaces a stopped queue.
LEMMA StartJoinInv ==
    ASSUME JoinInv, NEW c \in Callers, Start(c)
    PROVE  JoinInv'
<1>1. PICK r \in {At("start", "set_queue", workers_, None, 0), At("start", "launch", {}, None, 0)} :
        call' = [call EXCEPT ![c] = r]
  BY DEF Start
<1>2. r \in Calls /\ r.at \in {"set_queue", "launch"}
  BY NoneCounted DEF At, Calls, Places, Names, JoinInv, CallsTyped
<1>3. call[c].at = "idle" /\ call'[c] = r
  BY <1>1, IdleTyped DEF Start, JoinInv, CallsTyped
<1>4. ~StopUnderway(c) /\ \A w \in Workers : ~InCharge(c, w)
  BY <1>3 DEF StopUnderway, InCharge
<1> QED
  BY <1>1, <1>2, <1>3, <1>4, KeepsJoinInv, Zenon DEF Start, JoinInv, CallsTyped, threadVars

\* start() hands the new queue to one worker.
LEMMA SetQueueJoinInv ==
    ASSUME JoinInv, NEW c \in Callers, SetQueue(c)
    PROVE  JoinInv'
<1>1. PICK w \in call[c].todo :
        call' = [call EXCEPT ![c] = IF call[c].todo = {w} THEN At("start", "launch", {}, None, 0)
                                         ELSE [call[c] EXCEPT !.todo = @ \ {w}]]
  BY Zenon DEF SetQueue
<1> DEFINE r == IF call[c].todo = {w} THEN At("start", "launch", {}, None, 0)
                                      ELSE [call[c] EXCEPT !.todo = @ \ {w}]
<1>2. call' = [call EXCEPT ![c] = r]
  BY <1>1
<1>3. r \in Calls /\ r.at \in {"set_queue", "launch"}
  BY NoneCounted DEF At, Calls, Places, Names, JoinInv, CallsTyped, SetQueue
<1>4. call[c].at = "set_queue" /\ call'[c] = r
  BY <1>2, Zenon DEF SetQueue, JoinInv, CallsTyped
<1> HIDE DEF r
<1>5. ~StopUnderway(c) /\ \A v \in Workers : ~InCharge(c, v)
  BY <1>4 DEF StopUnderway, InCharge
<1>6. Holding(c) /\ ~start_pool_
  BY <1>4 DEF Holding, JoinInv
<1> QED
  BY <1>2, <1>3, <1>4, <1>5, <1>6, KeepsJoinInv DEF SetQueue, JoinInv, CallsTyped, threadVars, poolVars

\* stop() of a running pool: start_pool_ falls, and the threads are left to this call.
LEMMA StopJoinInv ==
    ASSUME JoinInv, NEW c \in Callers, NEW op \in {"stop", "stop_now"}, Stop(c, op)
    PROVE  JoinInv'
<1> DEFINE r == At(op, "stop_queue", {}, None, 0)
<1>1. r \in Calls /\ r.at = "stop_queue" /\ r.op # "add"
  BY NoneCounted DEF At, Calls, Places, Names
<1>2. call' = [call EXCEPT ![c] = r]
  BY DEF Stop
<1>3. call[c].at = "idle" /\ call'[c] = r
  BY <1>2, IdleTyped DEF Stop, JoinInv, CallsTyped
<1> HIDE DEF r
<1>4. ~StopUnderway(c) /\ StopUnderway(c)' /\ ~Holding(c)' /\ \A w \in Workers : ~InCharge(c, w)
  BY <1>1, <1>3 DEF StopUnderway, InCharge, Holding
<1> QED
  BY <1>1, <1>2, <1>4, KeepsJoinInv, Zenon DEF Stop, JoinInv, CallsTyped, threadVars

\* StopQueue, ClearQueue and StopLock, the way of stop() to workers_mutex_.
LEMMA StopOnJoinInv ==
    ASSUME JoinInv, NEW c \in Callers, StopQueue(c) \/ ClearQueue(c) \/ StopLock(c)
    PROVE  JoinInv'
<1>0. call[c] \in Calls
  BY DEF JoinInv, CallsTyped
<1>1. CASE StopQueue(c) \/ ClearQueue(c)
  <2>1. PICK at \in {"clear", "lock"} : call' = [call EXCEPT ![c].at = at]
    BY <1>1 DEF StopQueue, ClearQueue
  <2> DEFINE r == [call[c] EXCEPT !.at = at]
  <2>2. r \in Calls /\ r.at = at /\ r.op = call[c].op
    BY <1>0 DEF Calls, Places
  <2>3. call' = [call EXCEPT ![c] = r] /\ call'[c] = r /\ call[c].at \in {"stop_queue", "clear"}
    BY <1>1, <2>1 DEF JoinInv, CallsTyped, StopQueue, ClearQueue
  <2> HIDE DEF r
  <2>4. StopUnderway(c)' = StopUnderway(c) /\ ~Holding(c)' /\ \A w \in Workers : ~InCharge(c, w)
    BY <2>2, <2>3 DEF StopUnderway, InCharge, Holding
  <2>5. UNCHANGED <<thread, workers_, start_pool_, workers_mutex_>>
    BY <1>1 DEF StopQueue, ClearQueue, threadVars, poolVars
  <2> QED
    BY <2>2, <2>3, <2>4, <2>5, KeepsJoinInv, Zenon DEF JoinInv, CallsTyped
<1>2. CASE StopLock(c)
  <2> DEFINE r == [call[c] EXCEPT !.at = "each", !.todo = workers_]
  <2>1. r \in Calls /\ r.at = "each" /\ r.todo = workers_
    BY <1>0, Zenon DEF Calls, Places, JoinInv, CallsTyped
  <2>2. call' = [call EXCEPT ![c] = r] /\ call'[c] = r /\ call[c].at = "lock"
    BY <1>2, Zenon DEF JoinInv, CallsTyped, StopLock
  <2> HIDE DEF r
  <2>3. (\A w \in workers_ : InCharge(c, w)') /\ \A w \in Workers : ~InCharge(c, w)
    BY <2>1, <2>2 DEF InCharge
  <2> QED
    BY <1>2, <2>1, <2>2, <2>3, KeepsJoinInv, Zenon DEF StopLock, JoinInv, CallsTyped, threadVars
<1> QED
  BY <1>1, <1>2

\* thread_base::stop() of the workers in charge, one after the other.
LEMMA StopEachJoinInv ==
    ASSUME JoinInv, NEW c \in Callers, StopEach(c)
    PROVE  JoinInv'
<1>0. call[c] \in Calls
  BY DEF JoinInv, CallsTyped
<1>1. PICK w \in call[c].todo :
         \/ thread[w] = "none" /\ call' = [call EXCEPT ![c].todo = @ \ {w}]
         \/ call' = [call EXCEPT ![c].at = "notify", ![c].w = w, ![c].todo = @ \ {w}]
  BY Zenon DEF StopEach
<1>2. w \in Workers
  BY <1>0 DEF Calls
<1>3. UNCHANGED <<thread, workers_, start_pool_, workers_mutex_>> /\ call[c].at = "each"
  BY DEF StopEach, threadVars, poolVars
<1>4. Holding(c) /\ ~StopUnderway(c) /\ \A v \in Workers : InCharge(c, v) => v \in call[c].todo
  BY <1>3 DEF Holding, StopUnderway, InCharge
<1>5. CASE thread[w] = "none" /\ call' = [call EXCEPT ![c].todo = @ \ {w}]
  <2> DEFINE r == [call[c] EXCEPT !.todo = @ \ {w}]
  <2>1. r \in Calls /\ r.at = "each" /\ r.todo = call[c].todo \ {w}
    BY <1>0, <1>3 DEF Calls
  <2>2. call' = [call EXCEPT ![c] = r] /\ call'[c] = r
    BY <1>5 DEF JoinInv, CallsTyped
  <2> HIDE DEF r
  <2>3. \A v \in Workers : InCharge(c, v) => thread'[v] = "none" \/ InCharge(c, v)'
    BY <1>3, <1>4, <1>5, <2>1, <2>2 DEF InCharge
  <2> QED
    BY <1>3, <1>4, <2>1, <2>2, <2>3, KeepsJoinInv, Zenon DEF JoinInv, CallsTyped
<1>6. CASE call' = [call EXCEPT ![c].at = "notify", ![c].w = w, ![c].todo = @ \ {w}]
  <2> DEFINE r == [call[c] EXCEPT !.at = "notify", !.w = w, !.todo = @ \ {w}]
  <2>1. r \in Calls /\ r.at = "notify" /\ r.w = w /\ r.todo = call[c].todo \ {w}
    BY <1>0, <1>2, Zenon DEF Calls, Places
  <2>2. call' = [call EXCEPT ![c] = r] /\ call'[c] = r
    BY <1>6, Zenon DEF JoinInv, CallsTyped
  <2> HIDE DEF r
  <2>3. \A v \in Workers : InCharge(c, v) => InCharge(c, v)'
    BY <1>4, <2>1, <2>2 DEF InCharge
  <2> QED
    BY <1>3, <1>4, <2>1, <2>2, <2>3, KeepsJoinInv, Zenon DEF JoinInv, CallsTyped
<1> QED
  BY <1>1, <1>5, <1>6

\* thread_base::stop() notifies its worker.
LEMMA NotifyJoinInv ==
    ASSUME JoinInv, NEW c \in Callers, NotifyWorker(c)
    PROVE  JoinInv'
<1> DEFINE r == [call[c] EXCEPT !.at = "join"]
<1>1. r \in Calls /\ r.at = "join" /\ r.w = call[c].w /\ r.todo = call[c].todo
  BY DEF Calls, Places, JoinInv, CallsTyped
<1>2. call' = [call EXCEPT ![c] = r] /\ call'[c] = r /\ call[c].at = "notify"
  BY DEF JoinInv, CallsTyped, NotifyWorker
<1> HIDE DEF r
<1>3. /\ thread' \in [Workers -> {"none", "loop", "asleep", "take", "run", "done"}]
      /\ \A w \in Workers : thread[w] = "none" => thread'[w] = "none"
  BY Zenon DEF NotifyWorker, JoinInv, CallsTyped
<1>4. Holding(c) /\ ~StopUnderway(c) /\ \A v \in Workers : InCharge(c, v) => InCharge(c, v)'
  BY <1>1, <1>2 DEF Holding, StopUnderway, InCharge
<1>5. UNCHANGED <<workers_, start_pool_, workers_mutex_>>
  BY DEF NotifyWorker, poolVars
<1> QED
  BY <1>1, <1>2, <1>3, <1>4, <1>5, KeepsJoinInv, Zenon DEF JoinInv, CallsTyped

\* thread_base::stop() joins its worker.
LEMMA JoinJoinInv ==
    ASSUME JoinInv, NEW c \in Callers, JoinWorker(c)
    PROVE  JoinInv'
<1> DEFINE r == [call[c] EXCEPT !.at = "each", !.w = None]
<1>1. r \in Calls /\ r.at = "each" /\ r.todo = call[c].todo
  BY Zenon DEF Calls, Places, JoinInv, CallsTyped
<1>2. call' = [call EXCEPT ![c] = r] /\ call'[c] = r /\ call[c].at = "join"
  BY Zenon DEF JoinInv, CallsTyped, JoinWorker
<1> HIDE DEF r
<1>3. /\ thread' \in [Workers -> {"none", "loop", "asleep", "take", "run", "done"}]
      /\ \A w \in Workers : thread[w] = "none" \/ w = call[c].w => thread'[w] = "none"
  BY Zenon DEF JoinWorker, JoinInv, CallsTyped
<1>4. Holding(c) /\ ~StopUnderway(c) /\ \A v \in Workers : InCharge(c, v) => v = call[c].w \/ InCharge(c, v)'
  BY <1>1, <1>2 DEF Holding, StopUnderway, InCharge
<1>5. UNCHANGED <<workers_, start_pool_, workers_mutex_>>
  BY DEF JoinWorker, poolVars
<1> QED
  BY <1>1, <1>2, <1>3, <1>4, <1>5, KeepsJoinInv, Zenon DEF JoinInv, CallsTyped

\* All workers in charge are joined, and the call goes on without them.
LEMMA StopEachDoneJoinInv ==
    ASSUME JoinInv, NEW c \in Callers, StopEachDone(c)
    PROVE  JoinInv'
<1>1. UNCHANGED <<thread, workers_, start_pool_>> /\ call[c].at = "each" /\ call[c].todo = {}
  BY DEF StopEachDone, threadVars
<1>2. Holding(c) /\ ~StopUnderway(c) /\ \A v \in Workers : ~InCharge(c, v)
  BY <1>1 DEF Holding, StopUnderway, InCharge
<1>3. workers_mutex_ = c
  BY <1>2 DEF JoinInv
<1>4. CASE call[c].op = "health"
  <2> DEFINE r == [call[c] EXCEPT !.at = "replace"]
  <2>1. r \in Calls /\ r.at = "replace"
    BY DEF Calls, Places, JoinInv, CallsTyped
  <2>2. call' = [call EXCEPT ![c] = r] /\ workers_mutex_' = workers_mutex_
    BY <1>4 DEF StopEachDone, JoinInv, CallsTyped
  <2> HIDE DEF r
  <2> QED
    BY <1>1, <1>2, <2>1, <2>2, KeepsJoinInv, Zenon DEF JoinInv, CallsTyped
<1>5. CASE call[c].op # "health"
  <2>1. call' = [call EXCEPT ![c] = Idle] /\ workers_mutex_' = None /\ call'[c] = Idle
    BY <1>5 DEF StopEachDone, JoinInv, CallsTyped
  <2>2. ~Holding(c)'
    BY <2>1, IdleTyped DEF Holding
  <2> QED
    BY <1>1, <1>2, <1>3, <2>1, <2>2, IdleTyped, KeepsJoinInv, Zenon DEF JoinInv, CallsTyped
<1> QED
  BY <1>4, <1>5

\* enqueue(worker) begins with a worker that has no thread.
LEMMA AddWorkerJoinInv ==
    ASSUME JoinInv, NEW c \in Callers, NEW w \in Workers, AddWorker(c, w)
    PROVE  JoinInv'
<1> DEFINE r == At("add", "lock", {w}, w, 0)
<1>1. r \in Calls /\ r.at = "lock"
  BY NoneCounted DEF At, Calls, Places, Names
<1>2. call' = [call EXCEPT ![c] = r] /\ call[c].at = "idle" /\ call'[c] = r
  BY IdleTyped DEF AddWorker, JoinInv, CallsTyped
<1> HIDE DEF r
<1>3. ~StopUnderway(c) /\ ~Holding(c)' /\ \A v \in Workers : ~InCharge(c, v)
  BY <1>1, <1>2 DEF StopUnderway, InCharge, Holding
<1>4. UNCHANGED <<thread, workers_, start_pool_, workers_mutex_>>
  BY DEF AddWorker, threadVars
<1> QED
  BY <1>1, <1>2, <1>3, <1>4, KeepsJoinInv, Zenon DEF JoinInv, CallsTyped

\* Members that are erased are joined by the caller that erased them.
LEMMA EraseJoinInv ==
    ASSUME JoinInv, NEW c \in Callers, CheckHealth(c) \/ RemoveWorker(c)
    PROVE  JoinInv'
<1>1. PICK gone \in SUBSET workers_, op \in {"health", "remove"}, n \in Counts :
         /\ call' = [call EXCEPT ![c] = At(op, "each", gone, None, n)]
         /\ workers_' = workers_ \ gone
  <2>1. CASE CheckHealth(c)
    <3> DEFINE failed == {w \in workers_ : ~is_running[w]}
    <3>1. Cardinality(failed) \in Counts
      <4>1. failed \in SUBSET Workers
        BY DEF JoinInv, CallsTyped
      <4> QED
        BY <4>1, Zenon DEF Counts
    <3>2. /\ call' = [call EXCEPT ![c] = At("health", "each", failed, None, Cardinality(failed))]
          /\ workers_' = workers_ \ failed
      BY <2>1 DEF CheckHealth
    <3> HIDE DEF failed
    <3>3. failed \in SUBSET workers_
      BY DEF failed
    <3> QED
      BY <3>1, <3>2, <3>3, Zenon
  <2>2. CASE RemoveWorker(c)
    <3>1. PICK w \in workers_ : /\ call' = [call EXCEPT ![c] = At("remove", "each", {w}, None, 0)]
                               /\ workers_' = workers_ \ {w}
      BY <2>2, Zenon DEF RemoveWorker
    <3>2. {w} \in SUBSET workers_ /\ 0 \in Counts
      BY DEF Counts
    <3> QED
      BY <3>1, <3>2, Zenon
  <2> QED
    BY <2>1, <2>2, Zenon
<1> DEFINE r == At(op, "each", gone, None, n)
<1>2. r \in Calls /\ r.at = "each" /\ r.todo = gone
  BY NoneCounted DEF At, Calls, Places, Names, JoinInv, CallsTyped
<1>3. call' = [call EXCEPT ![c] = r] /\ call[c].at = "idle" /\ call'[c] = r
  BY <1>1, IdleTyped DEF CheckHealth, RemoveWorker, JoinInv, CallsTyped
<1> HIDE DEF r
<1>4. UNCHANGED <<thread, start_pool_>> /\ workers_mutex_ = None /\ workers_mutex_' = c
  BY DEF CheckHealth, RemoveWorker, threadVars
<1>5. ~StopUnderway(c) /\ (\A w \in gone : InCharge(c, w)') /\ \A v \in Workers : ~InCharge(c, v)
  BY <1>2, <1>3 DEF StopUnderway, InCharge
<1>6. workers_' \subseteq Workers /\ \A w \in workers_ : w \in workers_' \/ InCharge(c, w)'
  BY <1>1, <1>5 DEF JoinInv, CallsTyped
<1> QED
  BY <1>2, <1>3, <1>4, <1>5, <1>6, KeepsJoinInv, Zenon DEF JoinInv, CallsTyped

\* Threads are started for members of the pool.
LEMMA LaunchTyped ==
    ASSUME JoinInv, NEW ws, Launch(ws)
    PROVE  /\ thread' \in [Workers -> {"none", "loop", "asleep", "take", "run", "done"}]
           /\ \A w \in Workers \ ws : thread'[w] = thread[w]
BY DEF Launch, JoinInv, CallsTyped

\* A caller that is done with a step of its own, and in charge of nobody.
LEMMA DoneJoinInv ==
    ASSUME JoinInv, NEW c \in Callers, call' = [call EXCEPT ![c] = Idle],
           ~StopUnderway(c), \A w \in Workers : ~InCharge(c, w)
    PROVE  /\ call'[c] = Idle /\ ~Holding(c)'
           /\ \A d \in Callers : StopUnderway(d) => StopUnderway(d)'
           /\ \A d \in Callers : \A w \in Workers : InCharge(d, w) => InCharge(d, w)'
<1>1. call'[c] = Idle /\ \A d \in Callers \ {c} : call'[d] = call[d]
  BY DEF JoinInv, CallsTyped
<1> QED
  BY <1>1, IdleTyped DEF Holding, StopUnderway, InCharge

\* start() either succeeds, or meets a thread that a stop() underway will join: that stop()
\* joins the threads started before it as well.
LEMMA LaunchJoinInv ==
    ASSUME JoinInv, NEW c \in Callers, LaunchWorkers(c)
    PROVE  JoinInv'
<1>1. /\ call[c].at = "launch" /\ call' = [call EXCEPT ![c] = Idle] /\ workers_' = workers_
      /\ workers_mutex_' = None
  BY DEF LaunchWorkers
<1>2. Holding(c) /\ ~StopUnderway(c) /\ \A w \in Workers : ~InCharge(c, w)
  BY <1>1 DEF StopUnderway, InCharge, Holding
<1>3. workers_mutex_ = c /\ ~start_pool_
  BY <1>1, <1>2 DEF JoinInv
<1>4. \A d \in Callers : Holding(d) => d = c
  BY <1>3 DEF JoinInv
<1>5. \A d \in Callers : \A w \in Workers : ~InCharge(d, w)
  BY <1>2, <1>4 DEF InCharge, Holding
<1>6. /\ call'[c] = Idle /\ ~Holding(c)'
      /\ \A d \in Callers : StopUnderway(d) => StopUnderway(d)'
  BY <1>1, <1>2, DoneJoinInv, Zenon
<1>7. PICK ws \in SUBSET workers_ : Launch(ws)
  BY DEF LaunchWorkers
<1>8. ASSUME "fail" \notin Spawns PROVE Joinable'
  <2>1. \A w \in Workers : thread'[w] # "none" => w \in workers_
    BY <1>3, <1>5, <1>7, <1>8, LaunchTyped DEF JoinInv, Joinable
  <2>2. ASSUME NEW w \in workers_, thread[w] # "none"
        PROVE  \E d \in Callers : StopUnderway(d)'
    BY <1>3, <1>5, <1>6, <1>8, <2>2 DEF JoinInv, Joinable, CallsTyped
  <2>3. start_pool_' = TRUE \/ \E w \in workers_ : thread[w] # "none"
    BY <1>8 DEF LaunchWorkers
  <2> QED
    BY <1>1, <2>1, <2>2, <2>3 DEF Joinable
<1>9. start_pool_' \in BOOLEAN
  BY Zenon DEF LaunchWorkers, JoinInv, CallsTyped
<1> QED
  BY <1>1, <1>2, <1>4, <1>6, <1>7, <1>8, <1>9, LaunchTyped, CallJoinInv, IdleTyped, Zenon DEF JoinInv, CallsTyped

\* A running pool starts the worker it is given.
LEMMA AddLockedJoinInv ==
    ASSUME JoinInv, NEW c \in Callers, AddWorkerLocked(c)
    PROVE  JoinInv'
<1>1. /\ call[c].op = "add" /\ call[c].at = "lock" /\ call' = [call EXCEPT ![c] = Idle]
      /\ UNCHANGED <<start_pool_, workers_mutex_>>
  BY DEF AddWorkerLocked
<1>2. ~StopUnderway(c) /\ ~Holding(c) /\ \A w \in Workers : ~InCharge(c, w)
  BY <1>1 DEF StopUnderway, InCharge, Holding
<1>3. /\ call'[c] = Idle /\ ~Holding(c)'
      /\ \A d \in Callers : StopUnderway(d) => StopUnderway(d)'
      /\ \A d \in Callers : \A w \in Workers : InCharge(d, w) => InCharge(d, w)'
  BY <1>1, <1>2, DoneJoinInv, Zenon
<1>4. call[c].todo \subseteq Workers
  BY DEF JoinInv, CallsTyped, Calls
<1>5. /\ workers_ \subseteq workers_' /\ workers_' \subseteq Workers
      /\ thread' \in [Workers -> {"none", "loop", "asleep", "take", "run", "done"}]
      /\ \A w \in Workers : thread'[w] # "none" => thread[w] # "none" \/ (w \in workers_' /\ start_pool_)
  <2>1. CASE /\ workers_' = workers_ \cup call[c].todo
             /\ Launch(IF start_pool_ THEN call[c].todo ELSE {})
    BY <1>4, <2>1, LaunchTyped DEF JoinInv, CallsTyped
  <2>2. CASE UNCHANGED <<workers_, thread>>
    BY <2>2 DEF JoinInv, CallsTyped
  <2> QED
    BY <2>1, <2>2 DEF AddWorkerLocked
<1>6. ASSUME "fail" \notin Spawns, NEW w \in Workers, thread'[w] # "none"
      PROVE  \/ w \in workers_' /\ (start_pool_' \/ \E d \in Callers : StopUnderway(d)')
             \/ \E d \in Callers : InCharge(d, w)'
  <2>1. CASE thread[w] = "none"
    BY <1>1, <1>5, <1>6, <2>1
  <2>2. CASE thread[w] # "none"
    BY <1>1, <1>3, <1>5, <1>6, <2>2 DEF JoinInv, Joinable
  <2> QED
    BY <2>1, <2>2
<1>7. "fail" \notin Spawns => Joinable'
  BY <1>6 DEF Joinable
<1> QED
  BY <1>1, <1>3, <1>5, <1>7, CallJoinInv, IdleTyped, Zenon DEF JoinInv, CallsTyped

\* Replacements are members of a running pool.
LEMMA ReplaceJoinInv ==
    ASSUME JoinInv, NEW c \in Callers, ReplaceFailed(c)
    PROVE  JoinInv'
<1>1. /\ call[c].at = "replace" /\ call' = [call EXCEPT ![c] = Idle]
      /\ UNCHANGED start_pool_ /\ workers_mutex_' = None
  BY Zenon DEF ReplaceFailed
<1>2. ~StopUnderway(c) /\ Holding(c) /\ \A w \in Workers : ~InCharge(c, w)
  BY <1>1 DEF StopUnderway, InCharge, Holding
<1>3. /\ call'[c] = Idle /\ ~Holding(c)'
      /\ \A d \in Callers : StopUnderway(d) => StopUnderway(d)'
      /\ \A d \in Callers : \A w \in Workers : InCharge(d, w) => InCharge(d, w)'
  BY <1>1, <1>2, DoneJoinInv, Zenon
<1>4. PICK fresh \in SUBSET (Workers \ made) :
         (fresh # {} => start_pool_) /\ workers_' = workers_ \cup fresh /\ Launch(fresh)
  BY DEF ReplaceFailed
<1>5. ASSUME "fail" \notin Spawns, NEW w \in Workers, thread'[w] # "none"
      PROVE  \/ w \in workers_' /\ (start_pool_' \/ \E d \in Callers : StopUnderway(d)')
             \/ \E d \in Callers : InCharge(d, w)'
  <2>1. CASE w \in fresh
    BY <1>1, <1>4, <2>1
  <2>2. CASE w \notin fresh
    BY <1>1, <1>3, <1>4, <1>5, <2>2, LaunchTyped DEF JoinInv, Joinable
  <2> QED
    BY <2>1, <2>2
<1>6. \A d \in Callers \ {c} : ~Holding(d)
  BY <1>2 DEF JoinInv
<1>7. workers_' \subseteq Workers
  BY <1>4 DEF JoinInv, CallsTyped
<1>8. "fail" \notin Spawns => Joinable'
  BY <1>5 DEF Joinable
<1> QED
  BY <1>1, <1>3, <1>4, <1>6, <1>7, <1>8, LaunchTyped, CallJoinInv, IdleTyped, Zenon DEF JoinInv, CallsTyped

\* Every step of callers and workers keeps the invariant.
LEMMA NextJoinInv == JoinInv /\ [Next]_vars => JoinInv'
<1> SUFFICES ASSUME JoinInv, [Next]_vars PROVE JoinInv'
  OBVIOUS
<1>1. CASE EnqueueTest \/ EnqueuePush
  BY <1>1 DEF EnqueueTest, EnqueuePush, poolVars, threadVars, JoinInv, Joinable, CallsTyped, Holding, StopUnderway, InCharge
<1>2. ASSUME NEW c \in Callers, CallerStep(c) PROVE JoinInv'
  BY <1>2, SetQueueJoinInv, LaunchJoinInv, StopOnJoinInv, StopEachJoinInv, NotifyJoinInv, JoinJoinInv,
     StopEachDoneJoinInv, AddLockedJoinInv, ReplaceJoinInv DEF CallerStep
<1>3. ASSUME NEW c \in Callers,
             \/ Start(c) \/ Stop(c, "stop") \/ Stop(c, "stop_now")
             \/ CheckHealth(c) \/ RemoveWorker(c)
             \/ \E w \in Workers : AddWorker(c, w)
      PROVE  JoinInv'
  BY <1>3, StartJoinInv, StopJoinInv, EraseJoinInv, AddWorkerJoinInv, Zenon
<1>4. CASE UNCHANGED vars
  BY <1>4 DEF vars, poolVars, threadVars, JoinInv, Joinable, CallsTyped, Holding, StopUnderway, InCharge
<1> QED
  BY <1>1, <1>2, <1>3, <1>4, WorkerJoinInv DEF Next

\* When thread_pool is not running and start, stop, enqueue(worker), check_worker_health and
\* remove_workers_internal have all returned, in whatever order and number they were called,
\* no worker has a thread: the stop() of ~thread_pool may do nothing.  A start() that cannot
\* create a thread is the exception: it leaves the threads it started, so it is excluded.
THEOREM StoppedPoolIsJoined ==
    ASSUME "fail" \notin Spawns
    PROVE  Spec => []StoppedMeansJoined
<1>1. JoinInv => StoppedMeansJoined
  BY IdleTyped DEF JoinInv, Joinable, StoppedMeansJoined, Quiet, StopUnderway, InCharge
<1>2. JoinInv /\ [Next]_vars => JoinInv'
  BY NextJoinInv
<1> QED
  BY <1>1, <1>2, InitJoinInv, PTL DEF Spec

---------------------------------------------------------------------------
(* Jobs: ThreadPool implements JobLifecycle.                                *)

States == {"none", "loop", "asleep", "take", "run", "done"}

QueuesTyped ==
    /\ pending \in [Queues -> Seq(Nat)] /\ submitted \in 0..MaxJobs
    /\ submitter \in Queues \cup {0} /\ job_queue_ \in Queues
    /\ worker_queue \in [Workers -> Queues \cup {0}]

WorkersTyped ==
    /\ local_queue \in [Workers -> Queues \cup {0}]
    /\ thread \in [Workers -> States]
    /\ job \in [Workers -> Nat]
    /\ \A w \in Workers : thread[w] = "take" => local_queue[w] \in Queues
    /\ \A w \in Workers : job[w] # 0 <=> thread[w] = "run"

\* A job is in one place: queued once, with one worker, finished or discarded.
QueuedOnce ==
    \A q, r \in Queues : \A i \in 1..Len(pending[q]), k \in 1..Len(pending[r]) :
        pending[q][i] = pending[r][k] => q = r /\ i = k

QueuedWaits ==
    \A q \in Queues : \A i \in 1..Len(pending[q]) :
        /\ pending[q][i] \in 1..submitted /\ pending[q][i] \notin finished \cup discarded
        /\ \A w \in Workers : job[w] # pending[q][i]

RunsOnce ==
    /\ \A w \in Workers : job[w] # 0 => job[w] \in 1..submitted /\ job[w] \notin finished \cup discarded
    /\ \A v, w \in Workers : job[v] # 0 /\ job[v] = job[w] => v = w
    /\ finished \subseteq 1..submitted /\ discarded \subseteq 1..submitted
    /\ finished \cap discarded = {}

\* A worker that enqueue(worker) is adding is nobody else's and has no thread.
Adding(c) == call[c].op = "add"

AddedAlone ==
    /\ workers_ \subseteq made /\ \A w \in Workers \ made : thread[w] = "none"
    /\ \A c \in Callers : Adding(c) => call[c].at = "lock"
    /\ \A c \in Callers : Adding(c) => /\ call[c].todo \subseteq made \ workers_
                                       /\ \A w \in call[c].todo : thread[w] = "none"
    /\ \A c, d \in Callers : Adding(c) /\ Adding(d) /\ c # d => call[c].todo \cap call[d].todo = {}

JobInv ==
    /\ QueuesTyped /\ WorkersTyped /\ AddedAlone
    /\ QueuedOnce /\ QueuedWaits /\ RunsOnce

\* A new pool has no jobs.
LEMMA InitJobInv == Init => JobInv
<1> SUFFICES ASSUME Init PROVE JobInv
  OBVIOUS
<1>1. QueuesTyped /\ WorkersTyped
  BY Bounds DEF Init, QueuesTyped, WorkersTyped, Queues, States
<1>2. QueuedOnce /\ QueuedWaits /\ RunsOnce
  BY DEF Init, QueuedOnce, QueuedWaits, RunsOnce
<1>3. AddedAlone
  BY DEF Init, AddedAlone, Adding, Idle, At
<1> QED
  BY <1>1, <1>2, <1>3 DEF JobInv

\* A step that leaves queues, hands and histories alone moves no job.
LEMMA JobsFrame ==
    ASSUME UNCHANGED <<pending, submitted, finished, discarded, job>>
    PROVE  QueuedOnce /\ QueuedWaits /\ RunsOnce => QueuedOnce' /\ QueuedWaits' /\ RunsOnce'
BY DEF QueuedOnce, QueuedWaits, RunsOnce

\* A step that leaves the places and hands of the workers alone.
LEMMA WorkersFrame ==
    ASSUME UNCHANGED <<local_queue, thread, job>>
    PROVE  WorkersTyped => WorkersTyped'
BY DEF WorkersTyped

\* After a step of a caller that is not adding a worker, or adding it no more.
LEMMA AddedCall ==
    ASSUME AddedAlone, NEW c \in Callers, \A d \in Callers \ {c} : call'[d] = call[d],
           call'[c].op # "add", workers_' \subseteq made', made \subseteq made',
           \A w \in Workers \ made' : thread'[w] = "none",
           \A d \in Callers \ {c} : Adding(d) =>
              workers_' \cap call[d].todo = {} /\ \A w \in call[d].todo : thread'[w] = "none"
    PROVE  AddedAlone'
<1>3. \A d \in Callers : Adding(d)' => /\ d # c /\ Adding(d) /\ call'[d] = call[d]
  BY DEF Adding
<1>4. \A d \in Callers : Adding(d)' => call'[d].at = "lock"
  BY <1>3 DEF AddedAlone
<1>5. \A d \in Callers : Adding(d)' => /\ call'[d].todo \subseteq made' \ workers_'
                                      /\ \A w \in call'[d].todo : thread'[w] = "none"
  BY <1>3 DEF AddedAlone
<1>6. \A d, e \in Callers : Adding(d)' /\ Adding(e)' /\ d # e => call'[d].todo \cap call'[e].todo = {}
  BY <1>3 DEF AddedAlone
<1> QED
  BY <1>4, <1>5, <1>6 DEF AddedAlone

\* The same for a step that adds no member and starts no thread.
LEMMA AddedQuiet ==
    ASSUME JoinInv, AddedAlone, NEW c \in Callers, \A d \in Callers \ {c} : call'[d] = call[d],
           call'[c].op # "add", workers_' \subseteq workers_, made' = made,
           \A w \in Workers : thread[w] = "none" => thread'[w] = "none"
    PROVE  AddedAlone'
<1>1. \A d \in Callers : call[d].todo \subseteq Workers
  BY DEF JoinInv, CallsTyped, Calls
<1>2. \A d \in Callers \ {c} : Adding(d) =>
         workers_' \cap call[d].todo = {} /\ \A w \in call[d].todo : thread'[w] = "none"
  BY <1>1 DEF AddedAlone
<1>3. workers_' \subseteq made' /\ \A w \in Workers \ made' : thread'[w] = "none"
  BY DEF AddedAlone
<1> QED
  BY <1>2, <1>3, AddedCall

\* The steps of start() and stop() that start no thread.
LEMMA ControlJobInv ==
    ASSUME JoinInv, JobInv, NEW c \in Callers,
           \/ Start(c) \/ SetQueue(c) \/ Stop(c, "stop") \/ Stop(c, "stop_now") \/ StopQueue(c)
           \/ StopLock(c) \/ StopEach(c) \/ StopEachDone(c) \/ CheckHealth(c) \/ RemoveWorker(c)
    PROVE  JobInv'
<1>1. UNCHANGED <<pending, submitted, submitter, finished, discarded, local_queue, thread, job, made>>
  BY Zenon DEF Start, SetQueue, Stop, StopQueue, StopLock, StopEach, StopEachDone, CheckHealth, RemoveWorker,
         poolVars, queueVars, submitVars, jobVars, threadVars
<1>2. workers_' \subseteq workers_
  BY Zenon DEF Start, SetQueue, Stop, StopQueue, StopLock, StopEach, StopEachDone, CheckHealth, RemoveWorker, poolVars
<1>3. QueuesTyped'
  <2>1. CASE Start(c)
    BY <1>1, <2>1, Bounds DEF Start, JobInv, QueuesTyped, Queues
  <2>2. CASE SetQueue(c)
    BY <1>1, <2>2, Zenon DEF SetQueue, JobInv, QueuesTyped, poolVars
  <2>3. CASE ~Start(c) /\ ~SetQueue(c)
    <3>1. UNCHANGED <<job_queue_, worker_queue>>
      BY <2>3, Zenon DEF Stop, StopQueue, StopLock, StopEach, StopEachDone, CheckHealth, RemoveWorker, poolVars
    <3> QED
      BY <1>1, <3>1 DEF JobInv, QueuesTyped
  <2> QED
    BY <2>1, <2>2, <2>3
<1>4. \A d \in Callers \ {c} : call'[d] = call[d]
  BY Zenon DEF Start, SetQueue, Stop, StopQueue, StopLock, StopEach, StopEachDone, CheckHealth, RemoveWorker,
         JoinInv, CallsTyped
<1>5. call'[c].op # "add"
  <2>0. call[c] \in Calls /\ (call[c].op = "add" => call[c].at = "lock")
    BY Zenon DEF JoinInv, CallsTyped, JobInv, AddedAlone, Adding
  <2>1. CASE Start(c) \/ Stop(c, "stop") \/ Stop(c, "stop_now") \/ CheckHealth(c) \/ RemoveWorker(c)
    <3>1. CASE Start(c)
      <4>1. PICK r \in {At("start", "set_queue", workers_, None, 0), At("start", "launch", {}, None, 0)} :
               call' = [call EXCEPT ![c] = r]
        BY <3>1, Zenon DEF Start
      <4>2. r.op = "start" /\ call'[c] = r
        BY <4>1 DEF At, JoinInv, CallsTyped
      <4> QED
        BY <4>2
    <3>2. ASSUME NEW op \in {"stop", "stop_now"}, Stop(c, op) PROVE call'[c].op # "add"
      <4>1. call' = [call EXCEPT ![c] = At(op, "stop_queue", {}, None, 0)]
        BY <3>2, Zenon DEF Stop
      <4>2. call'[c].op = op
        BY <4>1 DEF At, JoinInv, CallsTyped
      <4> QED
        BY <4>2
    <3>3. CASE CheckHealth(c)
      BY <3>3 DEF CheckHealth, At, JoinInv, CallsTyped
    <3>4. CASE RemoveWorker(c)
      BY <3>4 DEF RemoveWorker, At, JoinInv, CallsTyped
    <3> QED
      BY <2>1, <3>1, <3>2, <3>3, <3>4
  <2>2. CASE SetQueue(c)
    BY <2>0, <2>2 DEF SetQueue, At, JoinInv, CallsTyped, Calls
  <2>3. CASE StopQueue(c) \/ StopLock(c)
    BY <2>0, <2>3 DEF StopQueue, StopLock, JoinInv, CallsTyped, Calls
  <2>5. CASE StopEach(c)
    <3>1. call[c].op # "add"
      BY <2>0, <2>5, Zenon DEF StopEach
    <3>2. PICK w \in call[c].todo :
             \/ call' = [call EXCEPT ![c].todo = @ \ {w}]
             \/ call' = [call EXCEPT ![c].at = "notify", ![c].w = w, ![c].todo = @ \ {w}]
      BY <2>5, Zenon DEF StopEach
    <3>3. CASE call' = [call EXCEPT ![c].todo = @ \ {w}]
      BY <2>0, <3>1, <3>3 DEF JoinInv, CallsTyped, Calls
    <3>4. CASE call' = [call EXCEPT ![c].at = "notify", ![c].w = w, ![c].todo = @ \ {w}]
      <4> DEFINE r == [call[c] EXCEPT !.at = "notify", !.w = w, !.todo = @ \ {w}]
      <4>1. r.op = call[c].op
        BY <2>0 DEF Calls
      <4>2. call'[c] = r
        BY <3>4 DEF JoinInv, CallsTyped
      <4> QED
        BY <3>1, <4>1, <4>2
    <3> QED
      BY <3>2, <3>3, <3>4
  <2>4. CASE StopEachDone(c)
    BY <2>0, <2>4 DEF StopEachDone, Idle, At, JoinInv, CallsTyped, Calls
  <2> QED
    BY <2>1, <2>2, <2>3, <2>4, <2>5, Zenon
<1>6. AddedAlone'
  BY <1>1, <1>2, <1>4, <1>5, AddedQuiet, Zenon DEF JobInv
<1> QED
  BY <1>1, <1>3, <1>6, JobsFrame, WorkersFrame DEF JobInv

\* notify_all wakes a sleeper, join() takes a thread that has ended.
LEMMA JoiningJobInv ==
    ASSUME JoinInv, JobInv, NEW c \in Callers, NotifyWorker(c) \/ JoinWorker(c)
    PROVE  JobInv'
<1>1. UNCHANGED <<pending, submitted, submitter, finished, discarded, local_queue, job, made, workers_,
                  job_queue_, worker_queue>>
  BY DEF NotifyWorker, JoinWorker, poolVars, queueVars, submitVars, jobVars
<1>2. QueuesTyped'
  BY <1>1 DEF JobInv, QueuesTyped
<1>3. /\ thread' \in [Workers -> States]
      /\ \A w \in Workers : \/ thread'[w] = thread[w]
                            \/ thread[w] \in {"asleep", "done"} /\ thread'[w] \in {"loop", "none"}
  BY DEF NotifyWorker, JoinWorker, JobInv, WorkersTyped, States
<1>4. WorkersTyped'
  BY <1>1, <1>3 DEF JobInv, WorkersTyped
<1>5. call[c] \in Calls /\ call[c].at # "lock" /\ call[c].op # "add"
  BY DEF JoinInv, CallsTyped, JobInv, AddedAlone, Adding, NotifyWorker, JoinWorker
<1>6. call'[c].op # "add" /\ \A d \in Callers \ {c} : call'[d] = call[d]
  BY <1>5 DEF JoinInv, CallsTyped, Calls, NotifyWorker, JoinWorker
<1>7. \A w \in Workers : thread[w] = "none" => thread'[w] = "none"
  BY <1>3
<1>8. AddedAlone'
  BY <1>1, <1>6, <1>7, AddedQuiet DEF JobInv
<1> QED
  BY <1>1, <1>2, <1>4, <1>8, JobsFrame DEF JobInv

\* Only workers without a thread get one.
LEMMA LaunchIdle ==
    ASSUME JobInv, NEW ws \in SUBSET Workers, Launch(ws), \A w \in ws : thread[w] = "none",
           UNCHANGED <<local_queue, job>>
    PROVE  WorkersTyped' /\ \A w \in Workers \ ws : thread'[w] = thread[w]
<1>1. \A w \in Workers : thread'[w] = IF w \in ws THEN "loop" ELSE thread[w]
  BY DEF Launch
<1>2. thread' \in [Workers -> States]
  BY DEF Launch, JobInv, WorkersTyped, States
<1> QED
  BY <1>1, <1>2 DEF JobInv, WorkersTyped

\* start() gives threads to the workers; a failed one leaves the jobs where they are.
LEMMA LaunchJobInv ==
    ASSUME JoinInv, JobInv, NEW c \in Callers, LaunchWorkers(c)
    PROVE  JobInv'
<1>1. UNCHANGED <<pending, submitted, submitter, finished, discarded, local_queue, job, made, workers_,
                  job_queue_, worker_queue>>
  BY DEF LaunchWorkers, queueVars, submitVars, jobVars
<1>2. QueuesTyped'
  BY <1>1 DEF JobInv, QueuesTyped
<1>3. PICK ws \in SUBSET workers_ : Launch(ws) /\ \A w \in ws : thread[w] = "none"
  BY DEF LaunchWorkers
<1>4. ws \subseteq Workers
  BY DEF JoinInv, CallsTyped
<1>5. WorkersTyped' /\ \A w \in Workers \ ws : thread'[w] = thread[w]
  BY <1>1, <1>3, <1>4, LaunchIdle
<1>6. call'[c].op # "add" /\ \A d \in Callers \ {c} : call'[d] = call[d]
  BY DEF JoinInv, CallsTyped, LaunchWorkers, Idle, At
<1>7. \A d \in Callers : call[d].todo \subseteq Workers
  BY DEF JoinInv, CallsTyped, Calls
<1>8. \A d \in Callers \ {c} : Adding(d) =>
         workers_' \cap call[d].todo = {} /\ \A w \in call[d].todo : thread'[w] = "none"
  BY <1>1, <1>3, <1>5, <1>7, Zenon DEF JobInv, AddedAlone
<1>9. workers_' \subseteq made' /\ \A w \in Workers \ made' : thread'[w] = "none"
  BY <1>1, <1>3, <1>5 DEF JobInv, AddedAlone
<1>10. AddedAlone'
  BY <1>1, <1>6, <1>8, <1>9, AddedCall DEF JobInv
<1> QED
  BY <1>1, <1>2, <1>5, <1>10, JobsFrame DEF JobInv

\* enqueue(worker) begins with a worker that was never made before.
LEMMA AddWorkerJobInv ==
    ASSUME JoinInv, JobInv, NEW c \in Callers, NEW w \in Workers, AddWorker(c, w)
    PROVE  JobInv'
<1>1. UNCHANGED <<pending, submitted, submitter, finished, discarded, local_queue, thread, job, workers_,
                  job_queue_>>
  BY DEF AddWorker, queueVars, submitVars, jobVars, threadVars
<1>2. QueuesTyped'
  BY <1>1 DEF AddWorker, JobInv, QueuesTyped
<1>3. /\ call'[c] = At("add", "lock", {w}, w, 0) /\ \A d \in Callers \ {c} : call'[d] = call[d]
      /\ w \notin made /\ made' = made \cup {w}
  BY DEF AddWorker, JoinInv, CallsTyped
<1>4. /\ call'[c].at = "lock" /\ call'[c].todo = {w}
      /\ \A d \in Callers \ {c} : Adding(d)' = Adding(d) /\ call'[d] = call[d]
  BY <1>3 DEF At, Adding
<1>5. thread[w] = "none" /\ w \notin workers_
  BY <1>3 DEF JobInv, AddedAlone
<1>6. AddedAlone'
  <2>1. workers_' \subseteq made' /\ \A v \in Workers \ made' : thread'[v] = "none"
    BY <1>1, <1>3 DEF JobInv, AddedAlone
  <2>2. \A d \in Callers : Adding(d)' => call'[d].at = "lock"
    BY <1>4 DEF JobInv, AddedAlone
  <2>3. ASSUME NEW d \in Callers, Adding(d)'
        PROVE  /\ call'[d].todo \subseteq made' \ workers_'
               /\ \A v \in call'[d].todo : thread'[v] = "none"
    <3>1. CASE d = c
      BY <1>1, <1>3, <1>4, <1>5, <3>1
    <3>2. CASE d # c
      BY <1>1, <1>3, <1>4, <2>3, <3>2 DEF JobInv, AddedAlone
    <3> QED
      BY <3>1, <3>2
  <2>4. ASSUME NEW d \in Callers, NEW e \in Callers, Adding(d)', Adding(e)', d # e
        PROVE  call'[d].todo \cap call'[e].todo = {}
    <3>1. \A b \in Callers \ {c} : Adding(b)' => w \notin call[b].todo
      BY <1>3, <1>4 DEF JobInv, AddedAlone
    <3>2. CASE d = c
      BY <1>4, <2>4, <3>1, <3>2
    <3>3. CASE e = c
      BY <1>4, <2>4, <3>1, <3>3
    <3>4. CASE d # c /\ e # c
      BY <1>4, <2>4, <3>4 DEF JobInv, AddedAlone
    <3> QED
      BY <3>2, <3>3, <3>4
  <2> QED
    BY <2>1, <2>2, <2>3, <2>4 DEF AddedAlone
<1> QED
  BY <1>1, <1>2, <1>6, JobsFrame, WorkersFrame DEF JobInv

\* The worker a running pool starts here has no thread yet.
LEMMA AddLockedJobInv ==
    ASSUME JoinInv, JobInv, NEW c \in Callers, AddWorkerLocked(c)
    PROVE  JobInv'
<1>1. UNCHANGED <<pending, submitted, submitter, finished, discarded, local_queue, job, made,
                  job_queue_, worker_queue>>
  BY Zenon DEF AddWorkerLocked, queueVars, submitVars, jobVars
<1>2. QueuesTyped'
  BY <1>1 DEF JobInv, QueuesTyped
<1>3. Adding(c) /\ call[c].todo \subseteq Workers
  BY DEF AddWorkerLocked, Adding, JoinInv, CallsTyped, Calls
<1>4. call'[c].op # "add" /\ \A d \in Callers \ {c} : call'[d] = call[d]
  BY DEF JoinInv, CallsTyped, AddWorkerLocked, Idle, At
<1>5. CASE UNCHANGED <<workers_, thread>>
  <2>1. AddedAlone'
    BY <1>1, <1>4, <1>5, AddedQuiet DEF JobInv
  <2> QED
    BY <1>1, <1>2, <1>5, <2>1, JobsFrame, WorkersFrame DEF JobInv
<1>6. ASSUME NEW ws \in SUBSET call[c].todo, Launch(ws), workers_' = workers_ \cup call[c].todo
      PROVE  JobInv'
  <2>1. \A w \in ws : thread[w] = "none"
    BY <1>3, <1>6 DEF JobInv, AddedAlone
  <2>2. WorkersTyped' /\ \A w \in Workers \ ws : thread'[w] = thread[w]
    BY <1>1, <1>3, <1>6, <2>1, LaunchIdle
  <2>3. \A d \in Callers : call[d].todo \subseteq Workers
    BY DEF JoinInv, CallsTyped, Calls
  <2>4. \A d \in Callers \ {c} : Adding(d) =>
           /\ call[c].todo \cap call[d].todo = {} /\ workers_ \cap call[d].todo = {}
           /\ \A w \in call[d].todo : thread[w] = "none"
    BY <1>3 DEF JobInv, AddedAlone
  <2>5. \A d \in Callers \ {c} : Adding(d) =>
           workers_' \cap call[d].todo = {} /\ \A w \in call[d].todo : thread'[w] = "none"
    BY <1>6, <2>2, <2>3, <2>4
  <2>6. call[c].todo \subseteq made
    BY <1>3 DEF JobInv, AddedAlone
  <2>7. workers_' \subseteq made' /\ \A w \in Workers \ made' : thread'[w] = "none"
    BY <1>1, <1>6, <2>2, <2>6, Zenon DEF JobInv, AddedAlone
  <2>8. AddedAlone'
    BY <1>1, <1>4, <2>5, <2>7, AddedCall DEF JobInv
  <2> QED
    BY <1>1, <1>2, <2>2, <2>8, JobsFrame DEF JobInv
<1> QED
  BY <1>5, <1>6 DEF AddWorkerLocked

\* Replacements are new objects.
LEMMA ReplaceJobInv ==
    ASSUME JoinInv, JobInv, NEW c \in Callers, ReplaceFailed(c)
    PROVE  JobInv'
<1>1. UNCHANGED <<pending, submitted, submitter, finished, discarded, local_queue, job, job_queue_>>
  BY DEF ReplaceFailed, queueVars, submitVars, jobVars
<1>2. PICK ws \in SUBSET (Workers \ made) :
         /\ made' = made \cup ws /\ workers_' = workers_ \cup ws /\ Launch(ws)
         /\ worker_queue' = [w \in Workers |-> IF w \in ws THEN job_queue_ ELSE worker_queue[w]]
  BY DEF ReplaceFailed
<1>3. QueuesTyped'
  BY <1>1, <1>2 DEF JobInv, QueuesTyped
<1>4. \A w \in ws : thread[w] = "none"
  BY DEF JobInv, AddedAlone
<1>5. WorkersTyped' /\ \A w \in Workers \ ws : thread'[w] = thread[w]
  BY <1>1, <1>2, <1>4, LaunchIdle
<1>6. call'[c].op # "add" /\ \A d \in Callers \ {c} : call'[d] = call[d]
  BY DEF JoinInv, CallsTyped, ReplaceFailed, Idle, At
<1>7. \A d \in Callers : call[d].todo \subseteq Workers
  BY DEF JoinInv, CallsTyped, Calls
<1>8. \A d \in Callers \ {c} : Adding(d) =>
         /\ ws \cap call[d].todo = {} /\ workers_ \cap call[d].todo = {}
         /\ \A w \in call[d].todo : thread[w] = "none"
  BY DEF JobInv, AddedAlone
<1>9. \A d \in Callers \ {c} : Adding(d) =>
         workers_' \cap call[d].todo = {} /\ \A w \in call[d].todo : thread'[w] = "none"
  BY <1>2, <1>5, <1>7, <1>8
<1>10. workers_' \subseteq made' /\ made \subseteq made' /\ \A w \in Workers \ made' : thread'[w] = "none"
  BY <1>2, <1>5, Zenon DEF JobInv, AddedAlone
<1>11. AddedAlone'
  BY <1>6, <1>9, <1>10, AddedCall DEF JobInv
<1> QED
  BY <1>1, <1>3, <1>5, <1>11, JobsFrame, Zenon DEF JobInv

\* No step of a worker or of the submitter concerns those who add workers.
LEMMA AddedStays ==
    ASSUME AddedAlone, UNCHANGED <<call, workers_, made>>, \A w \in Workers : thread[w] = "none" <=> thread'[w] = "none",
           JoinInv
    PROVE  AddedAlone'
<1>1. \A d \in Callers : call[d].todo \subseteq Workers
  BY DEF JoinInv, CallsTyped, Calls
<1> QED
  BY <1>1 DEF AddedAlone, Adding

\* The steps of a worker between two jobs.
LEMMA LoopJobInv ==
    ASSUME JoinInv, JobInv, NEW w \in Workers,
           LoopWorks(w) \/ LoopSleeps(w) \/ LoopEnds(w) \/ TakeNothing(w)
    PROVE  JobInv'
<1>1. UNCHANGED <<pending, submitted, submitter, finished, discarded, job, made, workers_, call,
                  job_queue_, worker_queue>>
  BY DEF LoopWorks, LoopSleeps, LoopEnds, TakeNothing, poolVars, queueVars, submitVars, jobVars
<1>2. QueuesTyped'
  BY <1>1 DEF JobInv, QueuesTyped
<1>3. thread' \in [Workers -> States] /\ \A v \in Workers \ {w} : thread'[v] = thread[v]
  BY DEF LoopWorks, LoopSleeps, LoopEnds, TakeNothing, JobInv, WorkersTyped, States
<1>4. thread[w] \in {"loop", "take"} /\ thread'[w] \in {"loop", "take", "asleep", "done"}
  BY DEF LoopWorks, LoopSleeps, LoopEnds, TakeNothing, JobInv, WorkersTyped
<1>5. /\ local_queue' \in [Workers -> Queues \cup {0}] /\ \A v \in Workers \ {w} : local_queue'[v] = local_queue[v]
      /\ thread'[w] = "take" => local_queue'[w] \in Queues
  <2>1. CASE LoopWorks(w)
    BY <2>1 DEF LoopWorks, ShouldContinue, JobInv, WorkersTyped, QueuesTyped
  <2>2. CASE LoopSleeps(w) \/ LoopEnds(w) \/ TakeNothing(w)
    BY <2>2 DEF LoopSleeps, LoopEnds, TakeNothing, JobInv, WorkersTyped
  <2> QED
    BY <2>1, <2>2
<1>6. WorkersTyped'
  BY <1>1, <1>3, <1>4, <1>5 DEF JobInv, WorkersTyped
<1>7. AddedAlone'
  BY <1>1, <1>3, <1>4, AddedStays DEF JobInv
<1> QED
  BY <1>1, <1>2, <1>6, <1>7, JobsFrame DEF JobInv

---------------------------------------------------------------------------
(* The steps that move jobs, each with the step of JobLifecycle it is.      *)

\* What the concatenation of two sequences holds where.
LEMMA ConcatElements ==
    ASSUME NEW s \in Seq(Nat), NEW t \in Seq(Nat)
    PROVE  /\ s \o t \in Seq(Nat) /\ Len(s \o t) = Len(s) + Len(t) /\ Len(s) \in Nat
           /\ \A i \in 1..Len(s) : (s \o t)[i] = s[i]
           /\ \A i \in 1..Len(t) : (s \o t)[Len(s) + i] = t[i]
OBVIOUS

\* What QueuedOnce says of two positions.
LEMMA SamePosition ==
    ASSUME QueuedOnce, NEW q \in Queues, NEW r \in Queues,
           NEW i \in 1..Len(pending[q]), NEW k \in 1..Len(pending[r]), pending[q][i] = pending[r][k]
    PROVE  q = r /\ i = k
BY DEF QueuedOnce

\* enqueue and enqueue_batch add new jobs at the back of a queue.
LEMMA PushJobInv ==
    ASSUME JoinInv, JobInv, EnqueuePush
    PROVE  JobInv'
<1> USE DEF JobInv
<1>1. PICK k \in 1..MaxBatch :
         /\ submitted + k <= MaxJobs
         /\ pending' = [pending EXCEPT ![submitter] = @ \o [i \in 1..k |-> submitted + i]]
         /\ submitted' = submitted + k
  BY Zenon DEF EnqueuePush
<1> DEFINE q == submitter
           new == [i \in 1..k |-> submitted + i]
<1>2. submitted \in Nat /\ k \in Nat /\ q \in Queues /\ pending[q] \in Seq(Nat)
  BY Bounds DEF QueuesTyped, EnqueuePush
<1>3. new \in Seq(Nat) /\ Len(new) = k /\ \A i \in 1..k : new[i] = submitted + i
  BY <1>2
<1>4. /\ \A r \in Queues \ {q} : pending'[r] = pending[r]
      /\ pending'[q] = pending[q] \o new
  BY <1>1, <1>2 DEF QueuesTyped
<1> HIDE DEF q, new
<1>5. /\ pending[q] \o new \in Seq(Nat) /\ Len(pending[q] \o new) = Len(pending[q]) + k
      /\ Len(pending[q]) \in Nat
      /\ \A i \in 1..Len(pending[q]) : (pending[q] \o new)[i] = pending[q][i]
      /\ \A i \in 1..k : (pending[q] \o new)[Len(pending[q]) + i] = new[i]
  BY <1>2, <1>3, ConcatElements, Zenon
<1>6. ASSUME NEW r \in Queues, NEW i \in 1..Len(pending'[r])
      PROVE  \/ i \in 1..Len(pending[r]) /\ pending'[r][i] = pending[r][i]
             \/ \E n \in 1..k : r = q /\ i = Len(pending[q]) + n /\ pending'[r][i] = submitted + n
  <2>1. CASE r # q
    BY <1>4, <2>1
  <2>2. CASE r = q
    <3>1. i \in 1..(Len(pending[q]) + k) /\ pending'[r][i] = (pending[q] \o new)[i]
      BY <1>4, <1>5, <2>2, Zenon
    <3>2. CASE i \in 1..Len(pending[q])
      BY <1>5, <2>2, <3>1, <3>2
    <3>3. CASE i \notin 1..Len(pending[q])
      <4> DEFINE n == i - Len(pending[q])
      <4>1. n \in 1..k /\ i = Len(pending[q]) + n
        BY <1>2, <1>5, <3>1, <3>3
      <4>2. pending'[r][i] = submitted + n
        BY <1>3, <1>5, <3>1, <4>1
      <4> QED
        BY <2>2, <4>1, <4>2
    <3> QED
      BY <3>2, <3>3
  <2> QED
    BY <2>1, <2>2
<1>7. UNCHANGED <<finished, discarded, job, local_queue, thread, call, workers_, made, job_queue_, worker_queue>>
  BY DEF EnqueuePush, poolVars, jobVars, threadVars
<1>8. QueuesTyped'
  <2>1. pending' \in [Queues -> Seq(Nat)]
    BY <1>1, <1>2, <1>5 DEF QueuesTyped, q, new
  <2> QED
    BY <1>1, <1>2, <1>7, <2>1, Bounds DEF QueuesTyped, EnqueuePush
<1>9. QueuedWaits'
  <2> SUFFICES ASSUME NEW r \in Queues, NEW i \in 1..Len(pending'[r])
               PROVE  /\ pending'[r][i] \in 1..(submitted + k) /\ pending'[r][i] \notin finished \cup discarded
                      /\ \A w \in Workers : job[w] # pending'[r][i]
    BY <1>1, <1>7 DEF QueuedWaits
  <2>1. CASE i \in 1..Len(pending[r]) /\ pending'[r][i] = pending[r][i]
    BY <1>2, <2>1 DEF QueuedWaits
  <2>2. ASSUME NEW n \in 1..k, pending'[r][i] = submitted + n
        PROVE  /\ pending'[r][i] \in 1..(submitted + k) /\ pending'[r][i] \notin finished \cup discarded
               /\ \A w \in Workers : job[w] # pending'[r][i]
    <3>1. pending'[r][i] \in 1..(submitted + k) /\ pending'[r][i] \notin 1..submitted /\ pending'[r][i] # 0
      BY <1>2, <2>2
    <3> QED
      BY <3>1 DEF RunsOnce
  <2> QED
    BY <1>6, <2>1, <2>2
<1>10. QueuedOnce'
  <2> SUFFICES ASSUME NEW r \in Queues, NEW s \in Queues, NEW i \in 1..Len(pending'[r]),
                      NEW m \in 1..Len(pending'[s]), pending'[r][i] = pending'[s][m]
               PROVE  r = s /\ i = m
    BY DEF QueuedOnce
  <2>1. \A u \in Queues : \A j \in 1..Len(pending[u]) : pending[u][j] <= submitted
    BY <1>2 DEF QueuedWaits
  <2>2. CASE i \in 1..Len(pending[r]) /\ pending'[r][i] = pending[r][i]
    <3>1. m \in 1..Len(pending[s]) /\ pending'[s][m] = pending[s][m]
      <4>1. \A n \in 1..k : pending'[s][m] # submitted + n
        BY <1>2, <2>1, <2>2 DEF QueuedWaits
      <4> QED
        BY <1>6, <4>1
    <3>2. pending[r][i] = pending[s][m]
      BY <2>2, <3>1, Zenon
    <3>3. r = s
      BY <2>2, <3>1, <3>2, SamePosition, Zenon
    <3>4. i = m
      BY <2>2, <3>1, <3>2, SMT DEF QueuedOnce
    <3> QED
      BY <3>3, <3>4
  <2>3. ASSUME NEW n \in 1..k, r = q, i = Len(pending[q]) + n, pending'[r][i] = submitted + n
        PROVE  r = s /\ i = m
    <3>1. \A j \in 1..Len(pending[s]) : pending[s][j] # submitted + n
      BY <1>2, <2>1 DEF QueuedWaits
    <3>2. PICK p \in 1..k : s = q /\ m = Len(pending[q]) + p /\ pending'[s][m] = submitted + p
      BY <1>6, <2>3, <3>1, Zenon
    <3>3. submitted + n = submitted + p
      BY <2>3, <3>2
    <3>4. n = p
      BY <1>2, <3>3
    <3> QED
      BY <2>3, <3>2, <3>4
  <2> QED
    BY <1>6, <2>2, <2>3
<1>11. RunsOnce'
  <2>1. 1..submitted \subseteq 1..submitted'
    BY <1>1, <1>2
  <2> QED
    BY <1>7, <2>1 DEF RunsOnce
<1>12. AddedAlone'
  BY <1>7, AddedStays
<1> QED
  BY <1>7, <1>8, <1>9, <1>10, <1>11, <1>12, WorkersFrame

\* A worker takes the first job of its queue.
LEMMA TakeJobInv ==
    ASSUME JoinInv, JobInv, NEW w \in Workers, TakeJob(w)
    PROVE  JobInv'
<1> USE DEF JobInv
<1> DEFINE q == local_queue[w]
<1>1. q \in Queues /\ pending[q] \in Seq(Nat) /\ pending[q] # <<>>
  BY DEF TakeJob, QueuesTyped, WorkersTyped
<1>2. /\ Tail(pending[q]) \in Seq(Nat) /\ Len(Tail(pending[q])) = Len(pending[q]) - 1
      /\ \A i \in 1..Len(Tail(pending[q])) : Tail(pending[q])[i] = pending[q][i + 1]
      /\ Head(pending[q]) = pending[q][1] /\ Len(pending[q]) \in Nat /\ Len(pending[q]) >= 1
  BY <1>1
<1>3. /\ \A r \in Queues \ {q} : pending'[r] = pending[r]
      /\ pending'[q] = Tail(pending[q]) /\ pending' \in [Queues -> Seq(Nat)]
  BY <1>1, <1>2 DEF TakeJob, QueuesTyped
<1>4. /\ job'[w] = pending[q][1] /\ \A v \in Workers \ {w} : job'[v] = job[v]
      /\ thread[w] = "take" /\ thread'[w] = "run" /\ \A v \in Workers \ {w} : thread'[v] = thread[v]
      /\ thread' \in [Workers -> States]
  BY <1>2 DEF TakeJob, WorkersTyped, States
<1> HIDE DEF q
<1>5. UNCHANGED <<submitted, submitter, finished, discarded, local_queue, made, workers_, call,
                  job_queue_, worker_queue>>
  BY DEF TakeJob, poolVars, submitVars, jobVars
<1>6. 1 \in 1..Len(pending[q])
  BY <1>2
<1>7. /\ pending[q][1] \in 1..submitted /\ pending[q][1] \notin finished \cup discarded
      /\ \A v \in Workers : job[v] # pending[q][1]
  BY <1>1, <1>6 DEF QueuedWaits
<1>8. pending[q][1] \in Nat /\ pending[q][1] # 0 /\ submitted \in Nat
  BY <1>7 DEF QueuesTyped
<1>9. ASSUME NEW r \in Queues, NEW i \in 1..Len(pending'[r])
      PROVE  \/ r # q /\ i \in 1..Len(pending[r]) /\ pending'[r][i] = pending[r][i]
             \/ r = q /\ i + 1 \in 1..Len(pending[q]) /\ pending'[r][i] = pending[q][i + 1]
  <2>1. CASE r # q
    BY <1>3, <2>1
  <2>2. CASE r = q
    <3>1. i \in 1..Len(Tail(pending[q])) /\ pending'[r][i] = Tail(pending[q])[i]
      BY <1>3, <2>2, Zenon
    <3>2. i + 1 \in 1..Len(pending[q])
      BY <1>2, <3>1
    <3> QED
      BY <1>2, <2>2, <3>1, <3>2
  <2> QED
    BY <2>1, <2>2
<1>10. QueuesTyped'
  BY <1>3, <1>5 DEF QueuesTyped
<1>11. WorkersTyped'
  <2>1. job' \in [Workers -> Nat]
    BY <1>2, <1>8 DEF TakeJob, WorkersTyped, q
  <2> QED
    BY <1>4, <1>5, <1>8, <2>1 DEF WorkersTyped
<1>12. RunsOnce'
  <2>1. /\ \A v \in Workers : job'[v] # 0 => job'[v] \in 1..submitted /\ job'[v] \notin finished \cup discarded
    BY <1>4, <1>7 DEF RunsOnce
  <2>2. \A u, v \in Workers : job'[u] # 0 /\ job'[u] = job'[v] => u = v
    BY <1>4, <1>7 DEF RunsOnce
  <2> QED
    BY <1>5, <2>1, <2>2 DEF RunsOnce
<1>13. QueuedWaits'
  <2> SUFFICES ASSUME NEW r \in Queues, NEW i \in 1..Len(pending'[r])
               PROVE  /\ pending'[r][i] \in 1..submitted /\ pending'[r][i] \notin finished \cup discarded
                      /\ \A v \in Workers : job'[v] # pending'[r][i]
    BY <1>5, Zenon DEF QueuedWaits
  <2>1. CASE r # q /\ i \in 1..Len(pending[r]) /\ pending'[r][i] = pending[r][i]
    <3>1. pending[r][i] # pending[q][1]
      BY <1>1, <1>6, <2>1, SamePosition
    <3>2. /\ pending[r][i] \in 1..submitted /\ pending[r][i] \notin finished \cup discarded
          /\ \A v \in Workers : job[v] # pending[r][i]
      BY <2>1 DEF QueuedWaits
    <3> QED
      BY <1>4, <2>1, <3>1, <3>2, Zenon
  <2>2. CASE r = q /\ i + 1 \in 1..Len(pending[q]) /\ pending'[r][i] = pending[q][i + 1]
    <3>1. i + 1 # 1
      OBVIOUS
    <3>2. pending[q][i + 1] # pending[q][1]
      BY <1>1, <1>6, <2>2, <3>1, SamePosition
    <3>3. /\ pending[q][i + 1] \in 1..submitted /\ pending[q][i + 1] \notin finished \cup discarded
          /\ \A v \in Workers : job[v] # pending[q][i + 1]
      BY <1>1, <2>2 DEF QueuedWaits
    <3> QED
      BY <1>4, <2>2, <3>2, <3>3
  <2> QED
    BY <1>9, <2>1, <2>2
<1>14. QueuedOnce'
  <2> SUFFICES ASSUME NEW r \in Queues, NEW s \in Queues, NEW i \in 1..Len(pending'[r]),
                      NEW k \in 1..Len(pending'[s]), pending'[r][i] = pending'[s][k]
               PROVE  r = s /\ i = k
    BY DEF QueuedOnce
  <2>0. i \in Int /\ k \in Int
    OBVIOUS
  <2>1. PICK m \in {i, i + 1} : m \in 1..Len(pending[r]) /\ pending'[r][i] = pending[r][m] /\ (m = i <=> r # q)
    BY <1>9, <2>0
  <2>2. PICK n \in {k, k + 1} : n \in 1..Len(pending[s]) /\ pending'[s][k] = pending[s][n] /\ (n = k <=> s # q)
    BY <1>9, <2>0
  <2>5. pending[r][m] = pending[s][n]
    BY <2>1, <2>2, Zenon
  <2>3. r = s
    BY <2>1, <2>2, <2>5, SamePosition, Zenon
  <2>4. m = n
    BY <2>1, <2>2, <2>5, SMT DEF QueuedOnce
  <2> QED
    BY <2>0, <2>1, <2>2, <2>3, <2>4
<1>15. AddedAlone'
  BY <1>4, <1>5, AddedStays
<1> QED
  BY <1>10, <1>11, <1>12, <1>13, <1>14, <1>15

\* The job of a worker ends.
LEMMA RunEndsJobInv ==
    ASSUME JoinInv, JobInv, NEW w \in Workers, RunEnds(w)
    PROVE  JobInv'
<1> USE DEF JobInv
<1>1. /\ job'[w] = 0 /\ (\A v \in Workers \ {w} : job'[v] = job[v]) /\ job' \in [Workers -> Nat]
      /\ thread[w] = "run" /\ thread'[w] = "loop" /\ \A v \in Workers \ {w} : thread'[v] = thread[v]
      /\ thread' \in [Workers -> States] /\ finished' = finished \cup {job[w]}
  BY DEF RunEnds, WorkersTyped, States
<1>2. UNCHANGED <<pending, submitted, submitter, discarded, local_queue, made, workers_, call,
                  job_queue_, worker_queue>>
  BY DEF RunEnds, poolVars, queueVars, submitVars
<1>3. job[w] # 0
  BY <1>1 DEF WorkersTyped
<1>4. QueuesTyped'
  BY <1>2 DEF QueuesTyped
<1>5. WorkersTyped'
  BY <1>1, <1>2 DEF WorkersTyped
<1>6. RunsOnce'
  <2>1. job[w] \in 1..submitted /\ job[w] \notin finished \cup discarded
    BY <1>3 DEF RunsOnce
  <2>2. \A v \in Workers \ {w} : job[v] # job[w]
    BY <1>3 DEF RunsOnce
  <2> QED
    BY <1>1, <1>2, <2>1, <2>2, Zenon DEF RunsOnce
<1>7. QueuedWaits'
  <2>1. \A q \in Queues : \A i \in 1..Len(pending[q]) : pending[q][i] # 0
    BY DEF QueuedWaits, QueuesTyped
  <2>2. \A q \in Queues : \A i \in 1..Len(pending[q]) : \A v \in Workers : job'[v] # pending[q][i]
    BY <1>1, <2>1 DEF QueuedWaits
  <2>3. \A q \in Queues : \A i \in 1..Len(pending[q]) : pending[q][i] \notin finished' \cup discarded
    BY <1>1 DEF QueuedWaits
  <2> QED
    BY <1>2, <2>2, <2>3 DEF QueuedWaits
<1>8. QueuedOnce'
  BY <1>2 DEF QueuedOnce
<1>9. AddedAlone'
  BY <1>1, <1>2, AddedStays, Zenon
<1> QED
  BY <1>4, <1>5, <1>6, <1>7, <1>8, <1>9

\* stop(true) discards what is queued.
LEMMA ClearJobInv ==
    ASSUME JoinInv, JobInv, NEW c \in Callers, ClearQueue(c)
    PROVE  JobInv'
<1> USE DEF JobInv
<1> DEFINE q == job_queue_
           all == {pending[q][i] : i \in DOMAIN pending[q]}
<1>1. q \in Queues /\ pending[q] \in Seq(Nat)
  BY DEF QueuesTyped
<1>2. all = {pending[q][i] : i \in 1..Len(pending[q])}
  BY <1>1
<1>3. discarded' = discarded \cup all /\ call[c].at = "clear"
  BY DEF ClearQueue
<1> HIDE DEF all
<1>4. /\ \A r \in Queues \ {q} : pending'[r] = pending[r]
      /\ pending'[q] = <<>> /\ Len(<<>>) = 0 /\ pending' \in [Queues -> Seq(Nat)]
  BY DEF ClearQueue, QueuesTyped
<1>5. UNCHANGED <<submitted, submitter, finished, thread, job, local_queue, made, workers_, q, worker_queue>>
  BY DEF ClearQueue, poolVars, submitVars, threadVars
<1>6. QueuesTyped'
  BY <1>4, <1>5 DEF QueuesTyped
<1>7. \A r \in Queues : \A i \in 1..Len(pending'[r]) : r # q /\ pending'[r] = pending[r]
  BY <1>4
<1>8. \A x \in all : x \in 1..submitted /\ x \notin finished \cup discarded /\ \A w \in Workers : job[w] # x
  BY <1>1, <1>2 DEF QueuedWaits
<1>9. RunsOnce'
  BY <1>3, <1>5, <1>8, Zenon DEF RunsOnce
<1>10. \A r \in Queues \ {q} : \A i \in 1..Len(pending[r]) : pending[r][i] \notin all
  BY <1>1, <1>2, Zenon DEF QueuedOnce
<1>11. QueuedWaits'
  BY <1>3, <1>5, <1>7, <1>10 DEF QueuedWaits
<1>12. QueuedOnce'
  BY <1>7 DEF QueuedOnce
<1>13. call'[c].op # "add" /\ \A d \in Callers \ {c} : call'[d] = call[d]
  BY <1>3 DEF ClearQueue, JoinInv, CallsTyped, Calls, AddedAlone, Adding
<1>14. AddedAlone'
  BY <1>5, <1>13, AddedQuiet
<1> QED
  BY <1>5, <1>6, <1>9, <1>11, <1>12, <1>14, WorkersFrame

\* Every step of callers, workers and submitter keeps the invariant.
LEMMA NextJobInv == JoinInv /\ JobInv /\ [Next]_vars => JobInv'
<1> SUFFICES ASSUME JoinInv, JobInv, [Next]_vars PROVE JobInv'
  OBVIOUS
<1>1. CASE EnqueueTest
  <2>1. UNCHANGED <<pending, submitted, finished, discarded, local_queue, thread, job, made, workers_, call,
                    job_queue_, worker_queue>>
    BY <1>1 DEF EnqueueTest, poolVars, queueVars, jobVars, threadVars
  <2>2. QueuesTyped'
    BY <1>1, <2>1 DEF EnqueueTest, JobInv, QueuesTyped
  <2> QED
    BY <2>1, <2>2, JobsFrame, WorkersFrame, AddedStays DEF JobInv
<1>2. ASSUME NEW w \in Workers, WorkerStep(w) PROVE JobInv'
  BY <1>2, LoopJobInv, TakeJobInv, RunEndsJobInv DEF WorkerStep
<1>3. ASSUME NEW c \in Callers, CallerStep(c) PROVE JobInv'
  BY <1>3, ControlJobInv, LaunchJobInv, ClearJobInv, JoiningJobInv, AddLockedJobInv, ReplaceJobInv DEF CallerStep
<1>4. ASSUME NEW c \in Callers,
             \/ Start(c) \/ Stop(c, "stop") \/ Stop(c, "stop_now")
             \/ CheckHealth(c) \/ RemoveWorker(c)
             \/ \E w \in Workers : AddWorker(c, w)
      PROVE  JobInv'
  BY <1>4, ControlJobInv, AddWorkerJobInv
<1>5. CASE UNCHANGED vars
  <2>1. UNCHANGED <<pending, submitted, submitter, finished, discarded, local_queue, thread, job, made,
                    workers_, call, job_queue_, worker_queue>>
    BY <1>5 DEF vars, poolVars, queueVars, submitVars, jobVars, threadVars
  <2>2. QueuesTyped => QueuesTyped'
    BY <2>1 DEF QueuesTyped
  <2> QED
    BY <2>1, <2>2, JobsFrame, WorkersFrame, AddedStays DEF JobInv
<1> QED
  BY <1>1, <1>2, <1>3, <1>4, <1>5, PushJobInv DEF Next

---------------------------------------------------------------------------
(* The refinement.                                                          *)

\* The status of the jobs depends on what is submitted, in hand, finished and discarded.
LEMMA StatusKept ==
    ASSUME UNCHANGED <<submitted, finished, discarded, job>>
    PROVE  JobStatus' = JobStatus
BY DEF JobStatus

\* enqueue submits the jobs that follow those submitted so far.
LEMMA PushSubmits ==
    ASSUME JobInv, EnqueuePush
    PROVE  Lifecycle!Submit
<1>1. PICK k \in 1..MaxBatch : submitted + k <= MaxJobs /\ submitted' = submitted + k
  BY DEF EnqueuePush
<1>2. submitted \in Nat /\ k \in Nat /\ k >= 1 /\ UNCHANGED <<finished, discarded, job>>
  BY Bounds DEF JobInv, QueuesTyped, EnqueuePush, jobVars, threadVars
<1> DEFINE js == (submitted + 1)..(submitted + k)
<1>3. js \in SUBSET Jobs /\ js # {}
  BY <1>1, <1>2, Bounds DEF Jobs
<1>4. \A j \in js : /\ j \notin finished /\ j \notin discarded /\ \A w \in Workers : job[w] # j
                   /\ ~(j <= submitted) /\ j <= submitted'
  <2>1. \A j \in js : j \notin 1..submitted /\ j # 0 /\ ~(j <= submitted) /\ j <= submitted'
    BY <1>1, <1>2
  <2> QED
    BY <2>1 DEF JobInv, RunsOnce
<1>5. \A j \in Jobs \ js : j <= submitted <=> j <= submitted'
  BY <1>1, <1>2, Bounds DEF Jobs
<1> HIDE DEF js
<1>6. \A j \in js : JobStatus[j] = "unsubmitted"
  BY <1>3, <1>4 DEF JobStatus
<1>7. JobStatus' = [j \in Jobs |-> IF j \in js THEN "waiting" ELSE JobStatus[j]]
  BY <1>2, <1>3, <1>4, <1>5 DEF JobStatus
<1> QED
  BY <1>3, <1>6, <1>7 DEF Lifecycle!Submit, Lifecycle!Move

\* A job that a worker takes begins to run.
LEMMA TakeBegins ==
    ASSUME JobInv, NEW w \in Workers, TakeJob(w)
    PROVE  Lifecycle!Begin
<1> DEFINE x == Head(pending[local_queue[w]])
<1>1. /\ x \in 1..submitted /\ x \notin finished \cup discarded
      /\ \A v \in Workers : job[v] # x
  <2>1. local_queue[w] \in Queues /\ pending[local_queue[w]] \in Seq(Nat) /\ pending[local_queue[w]] # <<>>
    BY DEF TakeJob, JobInv, WorkersTyped, QueuesTyped
  <2>2. x = pending[local_queue[w]][1] /\ 1 \in 1..Len(pending[local_queue[w]])
    BY <2>1
  <2> QED
    BY <2>1, <2>2 DEF JobInv, QueuedWaits
<1>2. /\ UNCHANGED <<submitted, finished, discarded>>
      /\ job'[w] = x /\ \A v \in Workers \ {w} : job'[v] = job[v]
  BY DEF TakeJob, submitVars, jobVars, JobInv, WorkersTyped
<1>3. x \in Jobs /\ x <= submitted
  BY <1>1, Bounds DEF Jobs, JobInv, QueuesTyped
<1>4. \A j \in Jobs \ {x} : (\E v \in Workers : job'[v] = j) <=> (\E v \in Workers : job[v] = j)
  <2>1. job[w] \notin Jobs
    BY Bounds DEF JobInv, WorkersTyped, TakeJob, Jobs
  <2> QED
    BY <1>2, <2>1
<1> HIDE DEF x
<1>5. JobStatus[x] = "waiting"
  BY <1>1, <1>3 DEF JobStatus
<1>6. JobStatus' = [j \in Jobs |-> IF j \in {x} THEN "running" ELSE JobStatus[j]]
  BY <1>1, <1>2, <1>3, <1>4 DEF JobStatus
<1> QED
  BY <1>3, <1>5, <1>6 DEF Lifecycle!Begin, Lifecycle!Move

\* A job whose run ends is finished.
LEMMA RunFinishes ==
    ASSUME JobInv, NEW w \in Workers, RunEnds(w)
    PROVE  Lifecycle!Finish
<1> DEFINE x == job[w]
<1>1. x # 0
  BY DEF RunEnds, JobInv, WorkersTyped
<1>2. /\ x \in 1..submitted /\ x \notin finished \cup discarded
      /\ \A v \in Workers \ {w} : job[v] # x
  BY <1>1 DEF JobInv, RunsOnce
<1>3. /\ UNCHANGED <<submitted, discarded>> /\ finished' = finished \cup {x}
      /\ job'[w] = 0 /\ \A v \in Workers \ {w} : job'[v] = job[v]
  BY DEF RunEnds, submitVars, JobInv, WorkersTyped
<1>4. x \in Jobs /\ 0 \notin Jobs
  BY <1>2, Bounds DEF Jobs, JobInv, QueuesTyped
<1>5. \A j \in Jobs \ {x} : (\E v \in Workers : job'[v] = j) <=> (\E v \in Workers : job[v] = j)
  BY <1>3, <1>4
<1>6. JobStatus[x] = "running"
  BY <1>2, <1>4 DEF JobStatus
<1>7. JobStatus' = [j \in Jobs |-> IF j \in {x} THEN "finished" ELSE JobStatus[j]]
  BY <1>3, <1>4, <1>5 DEF JobStatus
<1> QED
  BY <1>4, <1>6, <1>7 DEF Lifecycle!Finish, Lifecycle!Move

\* Jobs cleared out of a queue were waiting, and are discarded.
LEMMA ClearDiscards ==
    ASSUME JobInv, NEW c \in Callers, ClearQueue(c)
    PROVE  Lifecycle!Discard \/ JobStatus' = JobStatus
<1> DEFINE js == {pending[job_queue_][i] : i \in DOMAIN pending[job_queue_]}
<1>1. /\ discarded' = discarded \cup js /\ UNCHANGED <<submitted, finished, job>>
  BY DEF ClearQueue, submitVars, threadVars
<1>2. job_queue_ \in Queues /\ pending[job_queue_] \in Seq(Nat)
  BY DEF JobInv, QueuesTyped
<1>3. \A x \in js : x \in 1..submitted /\ x \notin finished \cup discarded /\ \A w \in Workers : job[w] # x
  BY <1>2 DEF JobInv, QueuedWaits
<1> HIDE DEF js
<1>4. \A x \in js : x \in Jobs /\ x <= submitted
  BY <1>3, Bounds DEF Jobs, JobInv, QueuesTyped
<1>5. CASE js = {}
  BY <1>1, <1>5, StatusKept
<1>6. CASE js # {}
  <2>1. \A x \in js : JobStatus[x] = "waiting"
    BY <1>3, <1>4 DEF JobStatus
  <2>2. JobStatus' = [j \in Jobs |-> IF j \in js THEN "discarded" ELSE JobStatus[j]]
    BY <1>1, <1>3, <1>4 DEF JobStatus
  <2> QED
    BY <1>4, <1>6, <2>1, <2>2 DEF Lifecycle!Discard, Lifecycle!Move
<1> QED
  BY <1>5, <1>6

\* A new pool is an initial state of JobLifecycle.
LEMMA InitLifecycle == Init => Lifecycle!Init
BY Bounds DEF Init, Lifecycle!Init, JobStatus, Jobs

\* Every step of the pool is a step of JobLifecycle or none.
LEMMA NextLifecycle == JobInv /\ [Next]_vars => [Lifecycle!Next]_JobStatus
<1> SUFFICES ASSUME JobInv, [Next]_vars PROVE Lifecycle!Next \/ JobStatus' = JobStatus
  OBVIOUS
<1>1. CASE EnqueuePush
  BY <1>1, PushSubmits DEF Lifecycle!Next
<1>2. CASE EnqueueTest \/ UNCHANGED vars
  BY <1>2, StatusKept DEF EnqueueTest, vars, submitVars, jobVars, threadVars
<1>3. ASSUME NEW w \in Workers, WorkerStep(w)
      PROVE  Lifecycle!Next \/ JobStatus' = JobStatus
  <2>1. CASE TakeJob(w)
    BY <2>1, TakeBegins DEF Lifecycle!Next
  <2>2. CASE RunEnds(w)
    BY <2>2, RunFinishes DEF Lifecycle!Next
  <2>3. CASE LoopWorks(w) \/ LoopSleeps(w) \/ LoopEnds(w) \/ TakeNothing(w)
    BY <2>3, StatusKept DEF LoopWorks, LoopSleeps, LoopEnds, TakeNothing, submitVars, jobVars
  <2> QED
    BY <1>3, <2>1, <2>2, <2>3 DEF WorkerStep
<1>4. ASSUME NEW c \in Callers, CallerStep(c)
      PROVE  Lifecycle!Next \/ JobStatus' = JobStatus
  <2>1. CASE ClearQueue(c)
    BY <2>1, ClearDiscards DEF Lifecycle!Next
  <2>2. CASE ~ClearQueue(c)
    <3>1. UNCHANGED <<submitted, finished, discarded, job>>
      BY <1>4, <2>2, Zenon DEF CallerStep, SetQueue, LaunchWorkers, StopQueue, StopLock, StopEach, NotifyWorker,
         JoinWorker, StopEachDone, AddWorkerLocked, ReplaceFailed, submitVars, jobVars, threadVars
    <3> QED
      BY <3>1, StatusKept
  <2> QED
    BY <2>1, <2>2
<1>5. ASSUME NEW c \in Callers,
             \/ Start(c) \/ Stop(c, "stop") \/ Stop(c, "stop_now")
             \/ CheckHealth(c) \/ RemoveWorker(c)
             \/ \E w \in Workers : AddWorker(c, w)
      PROVE  JobStatus' = JobStatus
  BY <1>5, StatusKept, Zenon DEF Start, Stop, CheckHealth, RemoveWorker, AddWorker, submitVars, jobVars, threadVars
<1> QED
  BY <1>1, <1>2, <1>3, <1>4, <1>5 DEF Next

\* thread_pool keeps its promise about jobs: a job that enqueue took waits, and then runs
\* once and to its end, or is discarded unrun by stop(true); over restarts, replaced workers
\* and queues, and failed thread creation, for any number of workers, callers and queues.
THEOREM PoolKeepsLifecycle == Spec => ImplementsLifecycle
<1>1. Spec => [](JoinInv /\ JobInv)
  BY InitJoinInv, InitJobInv, NextJoinInv, NextJobInv, PTL DEF Spec
<1>2. Init => Lifecycle!Init
  BY InitLifecycle
<1>3. JobInv /\ [Next]_vars => [Lifecycle!Next]_JobStatus
  BY NextLifecycle
<1> QED
  BY <1>1, <1>2, <1>3, PTL DEF Spec, ImplementsLifecycle, Lifecycle!Spec
==============================================================================
