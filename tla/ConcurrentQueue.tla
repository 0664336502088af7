--------------------------- MODULE ConcurrentQueue ---------------------------
(* concurrent_queue<T>: a linked list with one mutex for each end, a counter that *)
(* is kept outside of both, and waiters that sleep on a third mutex.  wait_dequeue *)
(* lets go of that mutex to look at the list, locks it again and sleeps without   *)
(* looking: a notification in between reaches nobody.  A value is the number of   *)
(* its enqueue; next pointers are plain, and a racing read of one sees the old or *)
(* the new value.                                                                 *)
EXTENDS Integers, Sequences, FiniteSets

CONSTANTS
    CqThreads,   \* threads that use the queue
    MaxValues,   \* bound: values enqueued
    MaxTakes     \* bound: calls of try_dequeue and wait_dequeue

ASSUME FiniteCqThreads == IsFiniteSet(CqThreads)

VARIABLES
    items,       \* the list behind the dummy node
    cqSize,      \* size_
    cqShutdown,  \* shutdown_
    cq,          \* per thread: where it is, the value in hand, whether it was notified
    takes,       \* calls of the two dequeues
    values,      \* calls of enqueue
    missed       \* history: a notification came while a waiter was about to sleep

cqVars == <<items, cqSize, cqShutdown, cq, takes, values, missed>>

Gone == [at |-> "out", value |-> 0, notified |-> FALSE]

CqInit ==
    /\ items = <<>> /\ cqSize = 0 /\ cqShutdown = FALSE
    /\ cq = [t \in CqThreads |-> Gone]
    /\ takes = 0 /\ values = 0 /\ missed = FALSE

CqGo(t, l) == cq' = [cq EXCEPT ![t].at = l]
CqReturn(t) == cq' = [cq EXCEPT ![t] = Gone]
Sleepers == {t \in CqThreads : cq[t].at = "asleep" /\ ~cq[t].notified}

\* enqueue: dropped without a word after shutdown.
CqEnqueue(t) ==
    /\ cq[t].at = "out" /\ values < MaxValues /\ values' = values + 1
    /\ IF cqShutdown THEN UNCHANGED cq
       ELSE cq' = [cq EXCEPT ![t] = [Gone EXCEPT !.at = "link", !.value = values + 1]]
    /\ UNCHANGED <<items, cqSize, cqShutdown, takes, missed>>

\* What the new node holds.
NodeValue(t) == cq[t].value

CqLink(t) ==
    /\ cq[t].at = "link"
    /\ items' = Append(items, NodeValue(t))
    /\ CqGo(t, "count")
    /\ UNCHANGED <<cqSize, cqShutdown, takes, values, missed>>

CqCount(t) ==
    /\ cq[t].at = "count"
    /\ cqSize' = cqSize + 1 /\ CqGo(t, "notify")
    /\ UNCHANGED <<items, cqShutdown, takes, values, missed>>

Notified(S) == [w \in CqThreads |-> [cq[w] EXCEPT !.notified = @ \/ w \in S]]

\* Mutant: nobody is woken.
OneOfNone(S) == {S \ S}

\* One of the sleepers, if there is one.
OneOf(S) == IF S = {} THEN {{}} ELSE {{w} : w \in S}

\* notify_one under cv_mutex_, the last step of enqueue.
NotifyOne(t) ==
    /\ cq[t].at = "notify"
    /\ \E S \in OneOf(Sleepers) : cq' = [Notified(S) EXCEPT ![t] = Gone]
    /\ missed' = (missed \/ \E w \in CqThreads : cq[w].at = "relock")
    /\ UNCHANGED <<items, cqSize, cqShutdown, takes, values>>

-----------------------------------------------------------------------------
(* try_dequeue and wait_dequeue.                                              *)

CountedDown == cqSize - 1

\* try_dequeue, under head_mutex_; where to go on if there is nothing.
TakeOr(t, l) ==
    IF items = <<>> THEN (IF l = "out" THEN CqReturn(t) ELSE CqGo(t, l)) /\ UNCHANGED <<items, cqSize>>
    ELSE /\ items' = Tail(items) /\ cqSize' = CountedDown
         /\ CqReturn(t)

CqTryDequeue(t) ==
    /\ cq[t].at = "out" /\ takes < MaxTakes /\ takes' = takes + 1
    /\ TakeOr(t, "out")
    /\ UNCHANGED <<cqShutdown, values, missed>>

\* wait_dequeue looks once before it takes cv_mutex_.
WaitDequeue(t) ==
    /\ cq[t].at = "out" /\ takes < MaxTakes /\ takes' = takes + 1
    /\ TakeOr(t, "test")
    /\ UNCHANGED <<cqShutdown, values, missed>>

\* The condition of the loop, with cv_mutex_; after shutdown a last look.
TestShutdown(t) ==
    /\ cq[t].at = "test"
    /\ IF cqShutdown THEN TakeOr(t, "out")
       ELSE CqGo(t, "look") /\ UNCHANGED <<items, cqSize>>
    /\ UNCHANGED <<cqShutdown, takes, values, missed>>

\* Without cv_mutex_.
LookAgain(t) ==
    /\ cq[t].at = "look"
    /\ TakeOr(t, "relock")
    /\ UNCHANGED <<cqShutdown, takes, values, missed>>

\* cv_mutex_ is locked again: the time is up, or the thread sleeps.
SleepOrExpire(t) ==
    /\ cq[t].at = "relock"
    /\ \/ CqReturn(t)
       \/ cq' = [cq EXCEPT ![t].at = "asleep", ![t].notified = FALSE]
    /\ UNCHANGED <<items, cqSize, cqShutdown, takes, values, missed>>

\* A notification, the deadline or nothing at all ends the sleep.
WakeUp(t) ==
    /\ cq[t].at = "asleep"
    /\ cq' = [cq EXCEPT ![t].at = "test", ![t].notified = FALSE]
    /\ UNCHANGED <<items, cqSize, cqShutdown, takes, values, missed>>

-----------------------------------------------------------------------------
\* shutdown: the flag, then notify_all under cv_mutex_.
Shutdown(t) ==
    /\ cq[t].at = "out" /\ ~cqShutdown
    /\ cqShutdown' = TRUE /\ CqGo(t, "notifyAll")
    /\ UNCHANGED <<items, cqSize, takes, values, missed>>

AllSleepers == Sleepers

NotifyAll(t) ==
    /\ cq[t].at = "notifyAll"
    /\ cq' = [Notified(AllSleepers) EXCEPT ![t] = Gone]
    /\ missed' = (missed \/ \E w \in CqThreads : cq[w].at \in {"look", "relock"})
    /\ UNCHANGED <<items, cqSize, cqShutdown, takes, values>>

CqNext ==
    \E t \in CqThreads :
        \/ CqEnqueue(t) \/ CqLink(t) \/ CqCount(t) \/ NotifyOne(t)
        \/ CqTryDequeue(t) \/ WaitDequeue(t) \/ TestShutdown(t) \/ LookAgain(t) \/ SleepOrExpire(t) \/ WakeUp(t)
        \/ Shutdown(t) \/ NotifyAll(t)

CqSpec == CqInit /\ [][CqNext]_cqVars

-----------------------------------------------------------------------------

\* No sleeper is left behind, unless a notification came between its look and its sleep: as
\* long as somebody sleeps un-notified and there are values, an enqueue still has to notify
\* or an awake waiter still has to look; and once shutdown() has returned nobody sleeps.
SleeperHasHelp ==
    Sleepers # {} /\ ~missed =>
        /\ items # <<>> => \E t \in CqThreads :
               cq[t].at \in {"count", "notify", "test", "look", "notifyAll"} \/ cq[t].notified
        /\ cqShutdown => \E t \in CqThreads : cq[t].at = "notifyAll"

=============================================================================
