-------------------------- MODULE BackpressureQueue --------------------------
(* backpressure_job_queue: a bounded job_queue whose producers are limited in   *)
(* rate and then admitted by one of five policies.  A producer reads the size    *)
(* and the stop flag without the mutex, decides, and only then locks to push; it *)
(* ends by updating the pressure level, the one place where producers that wait  *)
(* for space are notified.  Consumers use job_queue::dequeue, which does not     *)
(* update it.  A job is the number of its enqueue call.  Left out: the pressure  *)
(* callback, the counters, and queues without a bound.                           *)
EXTENDS Integers, Sequences, FiniteSets

CONSTANTS
    Producers,      \* threads that call enqueue and enqueue_batch
    Policies,       \* the backpressure_policy values to start with
    MaxSize,        \* max_size of the queue
    LowWatermark,   \* sizes from which the pressure is low
    HighWatermark,  \* and high
    BatchSize,      \* jobs in a batch
    MaxIssued       \* bound: jobs handed in

ASSUME WatermarkAssumption ==
    /\ {LowWatermark, HighWatermark, MaxSize, BatchSize} \subseteq Nat
    /\ LowWatermark < HighWatermark /\ HighWatermark <= MaxSize

VARIABLES
    backlog,   \* queue_ of the base class
    halted,    \* stop_
    policy,    \* config_.policy
    pressure,  \* current_pressure_: 0 none, 1 low, 2 high, 3 critical
    prod,      \* per producer: see Away
    issued,    \* jobs handed in so far
    fate,      \* per job what its caller was told
    gone,      \* jobs that left the queue, taken by a consumer or dropped
    signals    \* history: room no update has seen yet; a size went unrecorded

bpVars == <<backlog, halted, policy, pressure, prod, issued, fate, gone, signals>>

Jobs == 1..MaxIssued

\* at: the next step; jobs: in hand; fail: where a failed push leads; size: read for the
\* pressure level.
Away == [at |-> "idle", jobs |-> <<>>, fail |-> "none", size |-> 0, woken |-> FALSE]

BpInit ==
    /\ backlog = <<>> /\ halted = FALSE /\ policy \in Policies /\ pressure = 0
    /\ prod = [p \in Producers |-> Away]
    /\ issued = 0 /\ fate = [j \in Jobs |-> "none"] /\ gone = {}
    /\ signals = [unseen |-> FALSE, stale |-> FALSE]

Carries(p, j) == \E i \in DOMAIN prod[p].jobs : prod[p].jobs[i] = j
IsFull(n) == Len(backlog) + n > MaxSize
NoRoomFor(p) == IsFull(Len(prod[p].jobs))
IsBatch(p) == Len(prod[p].jobs) > 1

\* mutex_ is free: it is held across steps only by a producer that has locked itself out.
MutexFree == \A p \in Producers : prod[p].at # "locked"

\* The caller has its answer; its thread goes on to update_pressure_state or returns.
Answer(p, result, next) ==
    /\ fate' = [j \in Jobs |-> IF Carries(p, j) THEN result ELSE fate[j]]
    /\ prod' = [prod EXCEPT ![p] = [Away EXCEPT !.at = next]]

\* Mutant: the result of the second attempt to push is ignored.
FailIgnored(p, f) ==
    IF f \in {"update", "idle"} THEN Answer(p, "ok", f)
    ELSE prod' = [prod EXCEPT ![p].at = f] /\ UNCHANGED fate

\* job_queue::enqueue has failed: the next policy step, or an answer.
Fail(p, f) ==
    IF f \in {"update", "idle"} THEN Answer(p, "refused", f)
    ELSE prod' = [prod EXCEPT ![p].at = f] /\ UNCHANGED fate

\* direct_enqueue: job_queue tests stop_ before it locks.
TryPush(p, f) ==
    IF halted THEN Fail(p, f)
    ELSE prod' = [prod EXCEPT ![p].at = "push", ![p].fail = f] /\ UNCHANGED fate

-----------------------------------------------------------------------------
(* enqueue and enqueue_batch.                                                 *)

\* Refused when stopped; otherwise the rate limiter decides (see TokenBucket).
Enqueue(p, n) ==
    /\ prod[p].at = "idle" /\ issued + n <= MaxIssued
    /\ issued' = issued + n
    /\ \/ /\ ~halted
          /\ prod' = [prod EXCEPT ![p] = [Away EXCEPT !.at = "check", !.jobs = [i \in 1..n |-> issued + i]]]
          /\ UNCHANGED fate
       \/ /\ fate' = [j \in Jobs |-> IF j \in issued + 1 .. issued + n
                                     THEN "refused" ELSE fate[j]]
          /\ UNCHANGED prod
    /\ UNCHANGED <<backlog, halted, policy, pressure, gone, signals>>

\* apply_backpressure: is_full() without the mutex; a batch compares with the space left.
ApplyBackpressure(p) ==
    /\ prod[p].at = "check"
    /\ IF NoRoomFor(p) THEN Fail(p, "policy")
                       ELSE TryPush(p, IF IsBatch(p) THEN "update" ELSE "policy")
    /\ UNCHANGED <<backlog, halted, policy, pressure, issued, gone, signals>>

\* The test of job_queue::enqueue and enqueue_batch under the mutex.
Fits(p) == ~NoRoomFor(p)

Push(p) ==
    /\ prod[p].at = "push" /\ MutexFree
    /\ IF Fits(p)
       THEN /\ backlog' = backlog \o prod[p].jobs
            /\ fate' = [j \in Jobs |-> IF Carries(p, j) THEN "ok" ELSE fate[j]]
            /\ prod' = [prod EXCEPT ![p] = [Away EXCEPT !.at = IF prod[p].fail = "idle" THEN "idle" ELSE "update"]]
       ELSE Fail(p, prod[p].fail) /\ UNCHANGED backlog
    /\ UNCHANGED <<halted, policy, pressure, issued, gone, signals>>

\* The switch on config_.policy for a single job.  A decision callback accepts (without
\* updating the level), rejects or delays, or drops the oldest.
ApplyPolicy(p) ==
    /\ prod[p].at = "policy" /\ ~IsBatch(p)
    /\ \/ policy = "block" /\ TryPush(p, "room")
       \/ policy = "drop_oldest" /\ Fail(p, "drop")
       \/ policy = "drop_newest" /\ Answer(p, "refused", "update")
       \/ policy = "callback" /\ (TryPush(p, "idle") \/ Answer(p, "refused", "idle") \/ Fail(p, "drop"))
       \/ policy = "adaptive" /\ ~IsFull(1) /\ TryPush(p, "update")
       \/ policy = "adaptive" /\ Len(backlog) >= HighWatermark /\ Fail(p, "room")
    /\ UNCHANGED <<backlog, halted, policy, pressure, issued, gone, signals>>

DropOldest == IF backlog = <<>> THEN backlog ELSE Tail(backlog)

Drop(p) ==
    /\ prod[p].at = "drop" /\ MutexFree
    /\ backlog' = DropOldest
    /\ gone' = gone \cup ({backlog[i] : i \in DOMAIN backlog} \ {backlog'[i] : i \in DOMAIN backlog'})
    /\ IF halted THEN Fail(p, "update")
       ELSE /\ prod' = [prod EXCEPT ![p].at = "push", ![p].fail = "update"]
            /\ UNCHANGED fate
    /\ UNCHANGED <<halted, policy, pressure, issued, signals>>

\* The switch for a batch that does not fit.  To drop jobs it locks mutex_ and calls
\* dequeue_batch_limited, which locks it again.
ApplyBatchPolicy(p) ==
    /\ prod[p].at = "policy" /\ IsBatch(p)
    /\ \/ policy = "drop_oldest" /\ MutexFree /\ IF backlog = <<>> THEN TryPush(p, "update") ELSE Fail(p, "locked")
       \/ policy = "block" /\ Fail(p, "room")
       \/ policy \notin {"drop_oldest", "block"} /\ Answer(p, "refused", "update")
    /\ UNCHANGED <<backlog, halted, policy, pressure, issued, gone, signals>>

\* After the wait: a blocked single job is turned away whatever ended its wait.
AfterWait(p) ==
    LET got == ~NoRoomFor(p) /\ ~halted IN
    IF IsBatch(p) THEN IF got THEN TryPush(p, "update") ELSE Answer(p, "timeout", "idle")
    ELSE IF policy = "block" THEN Answer(p, "timeout", "idle")
    ELSE IF got THEN TryPush(p, "update") ELSE Answer(p, "refused", "update")

\* space_available_.wait_for: returns at once, on a notification, or when the time is up.
WaitForSpace(p) ==
    /\ prod[p].at \in {"room", "wait"} /\ MutexFree
    /\ \/ (prod[p].at = "wait" \/ ~NoRoomFor(p) \/ halted) /\ AfterWait(p)
       \/ /\ prod[p].at = "room" \/ prod[p].woken
          /\ NoRoomFor(p) /\ ~halted
          /\ prod' = [prod EXCEPT ![p].at = "wait", ![p].woken = FALSE] /\ UNCHANGED fate
    /\ UNCHANGED <<backlog, halted, policy, pressure, issued, gone, signals>>

-----------------------------------------------------------------------------
(* update_pressure_state, consumers, stop and set_backpressure_config.        *)

Level(n) == CASE n >= MaxSize -> 3
              [] n >= HighWatermark /\ n < MaxSize -> 2
              [] n >= LowWatermark /\ n < HighWatermark -> 1
              [] OTHER -> 0

\* Mutant: waiters are notified only when all pressure is gone.
RelievedAtNone(old, new) == new = 0 /\ old > 0

Relieved(old, new) == new < old

ReadSize(p) ==
    /\ prod[p].at = "update"
    /\ prod' = [prod EXCEPT ![p].at = "exchange", ![p].size = Len(backlog)]
    /\ UNCHANGED <<backlog, halted, policy, pressure, issued, fate, gone, signals>>

UpdatePressureState(p) ==
    /\ prod[p].at = "exchange"
    /\ pressure' = Level(prod[p].size)
    /\ prod' = [q \in Producers |->
                  IF q = p THEN Away
                  ELSE [prod[q] EXCEPT !.woken = @ \/ (prod[q].at = "wait" /\ Relieved(pressure, pressure'))]]
    /\ signals' = [unseen |-> FALSE, stale |-> signals.stale \/ prod[p].size # Len(backlog)]
    /\ UNCHANGED <<backlog, halted, policy, issued, fate, gone>>

Dequeue ==
    /\ backlog # <<>> /\ MutexFree
    /\ backlog' = Tail(backlog) /\ gone' = gone \cup {Head(backlog)}
    /\ signals' = [unseen |-> TRUE,
                   stale |-> signals.stale \/ \E p \in Producers : prod[p].at \in {"update", "exchange"}]
    /\ UNCHANGED <<halted, policy, pressure, prod, issued, fate>>

\* job_queue::stop notifies the consumers, not those who wait for space.
StopQueue ==
    /\ ~halted /\ MutexFree
    /\ halted' = TRUE
    /\ UNCHANGED <<backlog, policy, pressure, prod, issued, fate, gone, signals>>

\* config_ is read without config_mutex_: changed only while nobody is inside a call.
SetBackpressureConfig(p, new) ==
    /\ \A q \in Producers : prod[q].at = "idle"
    /\ new # policy /\ policy' = new
    /\ prod' = [prod EXCEPT ![p].at = "update"]
    /\ UNCHANGED <<backlog, halted, pressure, issued, fate, gone, signals>>

BpNext ==
    \/ \E p \in Producers :
          \/ \E n \in {1, BatchSize} : Enqueue(p, n)
          \/ ApplyBackpressure(p) \/ Push(p) \/ ApplyPolicy(p) \/ Drop(p)
          \/ ApplyBatchPolicy(p) \/ WaitForSpace(p) \/ ReadSize(p) \/ UpdatePressureState(p)
          \/ \E new \in Policies : SetBackpressureConfig(p, new)
    \/ Dequeue \/ StopQueue

BpSpec == BpInit /\ [][BpNext]_bpVars

-----------------------------------------------------------------------------
InBacklog(j) == \E i \in DOMAIN backlog : backlog[i] = j

\* The answer of enqueue is the truth: a job whose caller was told "ok" is queued once or
\* has left the queue once, a refused one was never in it, and a job without an answer is
\* still in the hands of its caller.
AnswerMatchesFate ==
    /\ \A i, k \in DOMAIN backlog : backlog[i] = backlog[k] => i = k
    /\ \A j \in 1..issued :
         /\ fate[j] = "ok" <=> (InBacklog(j) \/ j \in gone)
         /\ ~(InBacklog(j) /\ j \in gone)
         /\ fate[j] = "none" <=> \E p \in Producers : Carries(p, j)

\* A single producer that waits for space while there is space has been notified, unless
\* only consumers made it, whose dequeue notifies nobody, or a consumer or producer came
\* between a push and the update that records it.
RoomIsSignalled ==
    (\A p \in Producers : prod[p].at \in {"idle", "wait"}) /\ ~signals.unseen /\ ~signals.stale =>
        \A p \in Producers : prod[p].at = "wait" /\ ~prod[p].woken /\ ~IsBatch(p) => NoRoomFor(p)
=============================================================================
