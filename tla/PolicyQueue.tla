----------------------------- MODULE PolicyQueue -----------------------------
(* policy_queue over mutex_sync_policy and adaptive_sync_policy: a bound that is *)
(* tested before the queue is locked, an overflow policy, and a wait whose stop   *)
(* flag is set and notified without the mutex.  adaptive_sync_policy has a second *)
(* queue (see LockfreeSync for its algorithm) and a mode that says which one is    *)
(* used; switching moves nothing.  A job is the number of its enqueue.             *)
EXTENDS Integers, Sequences, FiniteSets

CONSTANTS
    PqThreads,      \* threads that use the queue
    OverflowRules,  \* overflow policies to instantiate it with
    PqBound,        \* max_size_
    MaxOffers,      \* bound: calls of enqueue
    MaxAsks,        \* bound: calls of dequeue and try_dequeue
    MaxSwitches     \* bound: calls of switch_mode

ASSUME FinitePqThreads == IsFiniteSet(PqThreads)

VARIABLES
    rule,      \* the OverflowPolicy
    deque,     \* queue_ of the mutex policy
    other,     \* the queue of the lock-free policy
    pqMode,    \* current_mode_
    pqStop,    \* stop_ of the mutex policy
    pq,        \* per thread: where it is, its job
    offers, asks, switches,
    pqPast     \* history: a stop came while a consumer was about to wait; the mode was
               \* switched while one waited

pqVars == <<rule, deque, other, pqMode, pqStop, pq, offers, asks, switches, pqPast>>

Elsewhere == [at |-> "out", job |-> 0, mode |-> "mutex"]

PqInit ==
    /\ rule \in OverflowRules
    /\ deque = <<>> /\ other = <<>> /\ pqMode = "mutex" /\ pqStop = FALSE
    /\ pq = [t \in PqThreads |-> Elsewhere]
    /\ offers = 0 /\ asks = 0 /\ switches = 0
    /\ pqPast = [stopped |-> FALSE, switched |-> FALSE]

PqGo(t, l) == pq' = [pq EXCEPT ![t].at = l]
PqReturn(t) == pq' = [pq EXCEPT ![t] = Elsewhere]
Current == IF pqMode = "mutex" THEN deque ELSE other

PqIsFull(n) == n >= PqBound

-----------------------------------------------------------------------------
(* enqueue.                                                                   *)

\* size() and is_full.
PqEnqueue(t) ==
    /\ pq[t].at = "out" /\ offers < MaxOffers /\ offers' = offers + 1
    /\ pq' = [pq EXCEPT ![t] = [Elsewhere EXCEPT !.job = offers + 1,
                                                 !.at = IF PqIsFull(Len(Current)) THEN "overflow" ELSE "push"]]
    /\ UNCHANGED <<rule, deque, other, pqMode, pqStop, asks, switches, pqPast>>

\* The queue once its first job is out.
Without(s) == IF s = <<>> THEN s ELSE Tail(s)

\* handle_overflow: drop_newest answers ok, reject and the two blocking policies an error
\* at once; drop_oldest takes a job out and pushes later.
HandleOverflow(t) ==
    /\ pq[t].at = "overflow"
    /\ \/ /\ rule = "drop_oldest"
          /\ IF pqMode = "mutex" THEN deque' = Without(deque) /\ UNCHANGED other
                                 ELSE other' = Without(other) /\ UNCHANGED deque
          /\ PqGo(t, "push")
       \/ rule # "drop_oldest" /\ PqReturn(t) /\ UNCHANGED <<deque, other>>
    /\ UNCHANGED <<rule, pqMode, pqStop, offers, asks, switches, pqPast>>

Blocked == {t \in PqThreads : pq[t].at = "waiting"}

\* Mutant: nobody is notified.
AfterNotifyNone == {[t \in PqThreads |-> pq[t]]}

\* notify_one: one of those who wait looks again.
AfterNotifyOne ==
    IF Blocked = {} THEN {pq}
    ELSE {[u \in PqThreads |-> IF u = t THEN [pq[u] EXCEPT !.at = "test"] ELSE pq[u]] : t \in Blocked}

PushedJob(t) == pq[t].job

\* sync_policy_.enqueue with the mode of that moment.  The mutex is held, so no consumer is
\* between its test and its wait.
PqPush(t) ==
    /\ pq[t].at = "push"
    /\ IF pqMode = "mutex"
       THEN /\ \A u \in PqThreads : pq[u].at # "block"
            /\ deque' = Append(deque, PushedJob(t))
            /\ \E woken \in AfterNotifyOne : pq' = [woken EXCEPT ![t] = Elsewhere]
            /\ UNCHANGED other
       ELSE /\ other' = IF pqStop THEN other ELSE Append(other, PushedJob(t))
            /\ PqReturn(t) /\ UNCHANGED deque
    /\ UNCHANGED <<rule, pqMode, pqStop, offers, asks, switches, pqPast>>

-----------------------------------------------------------------------------
(* dequeue, try_dequeue, clear.                                               *)

\* The mode is read; a waiting dequeue of the mutex policy tests its predicate.
PqDequeue(t, wait) ==
    /\ pq[t].at = "out" /\ asks < MaxAsks /\ asks' = asks + 1
    /\ pq' = [pq EXCEPT ![t].at = IF wait /\ pqMode = "mutex" THEN "test" ELSE "try", ![t].mode = pqMode]
    /\ UNCHANGED <<rule, deque, other, pqMode, pqStop, offers, switches, pqPast>>

\* try_dequeue, and dequeue of the lock-free policy, which does not wait.
PqTry(t) ==
    /\ pq[t].at = "try" /\ PqReturn(t)
    /\ IF pq[t].mode = "mutex" THEN deque' = Without(deque) /\ UNCHANGED other
                               ELSE other' = Without(other) /\ UNCHANGED deque
    /\ UNCHANGED <<rule, pqMode, pqStop, offers, asks, switches, pqPast>>

\* The predicate, under the mutex.
PqTest(t) ==
    /\ pq[t].at = "test" /\ \A u \in PqThreads : pq[u].at # "block"
    /\ IF deque # <<>>
       THEN deque' = Tail(deque) /\ PqReturn(t)
       ELSE (IF pqStop THEN PqReturn(t) ELSE PqGo(t, "block")) /\ UNCHANGED deque
    /\ UNCHANGED <<rule, other, pqMode, pqStop, offers, asks, switches, pqPast>>

\* The mutex is given up and the thread sleeps.
PqBlock(t) ==
    /\ pq[t].at = "block" /\ PqGo(t, "waiting")
    /\ UNCHANGED <<rule, deque, other, pqMode, pqStop, offers, asks, switches, pqPast>>

\* clear() empties the queue of the current mode.
PqClear ==
    /\ Current # <<>> /\ \A u \in PqThreads : pq[u].at # "block"
    /\ IF pqMode = "mutex" THEN deque' = <<>> /\ UNCHANGED other ELSE other' = <<>> /\ UNCHANGED deque
    /\ UNCHANGED <<rule, pqMode, pqStop, pq, offers, asks, switches, pqPast>>

-----------------------------------------------------------------------------
(* stop and switch_mode.                                                      *)

AllWoken == [t \in PqThreads |-> IF t \in Blocked THEN [pq[t] EXCEPT !.at = "test"] ELSE pq[t]]

\* The flag and the notification, without the mutex.
PqStopAll ==
    /\ ~pqStop /\ pqStop' = TRUE
    /\ pq' = AllWoken
    /\ pqPast' = [pqPast EXCEPT !.stopped = \E t \in PqThreads : pq[t].at = "block"]
    /\ UNCHANGED <<rule, deque, other, pqMode, offers, asks, switches>>

SwitchMode ==
    /\ switches < MaxSwitches /\ switches' = switches + 1
    /\ pqMode' = IF pqMode = "mutex" THEN "lock_free" ELSE "mutex"
    /\ pqPast' = [pqPast EXCEPT !.switched = TRUE]
    /\ UNCHANGED <<rule, deque, other, pqStop, pq, offers, asks>>

PqNext ==
    \/ \E t \in PqThreads :
          \/ PqEnqueue(t) \/ HandleOverflow(t) \/ PqPush(t)
          \/ \E wait \in BOOLEAN : PqDequeue(t, wait)
          \/ PqTry(t) \/ PqTest(t) \/ PqBlock(t)
    \/ PqClear \/ PqStopAll \/ SwitchMode

PqSpec == PqInit /\ [][PqNext]_pqVars

-----------------------------------------------------------------------------

\* Nobody waits in vain: not on a queue with jobs in it, as long as the mode stays the same
\* (each push has woken one consumer, who has not yet looked), and not after stop(), unless
\* it came between a consumer's test and its wait.
WaitersHaveNothing ==
    Blocked # {} =>
        /\ ~pqPast.switched => Len(deque) <= Cardinality({t \in PqThreads : pq[t].at \in {"test", "try"}})
        /\ pqStop => pqPast.stopped

=============================================================================
