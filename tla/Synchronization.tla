--------------------------- MODULE Synchronization ---------------------------
(* The latch and the barrier of synchronization.h and the atomic_wait_helper of    *)
(* atomic_wait.h, used where the standard library has none.  `primitive` names the  *)
(* one that the threads share.  The critical sections of the latch and the barrier  *)
(* are one step each (they hold the mutex from end to end); a waiter of the helper   *)
(* takes the mutex, tests, and gives it up as it falls asleep.                      *)
EXTENDS Integers, FiniteSets

CONSTANTS
    SyThreads,    \* threads that use the primitive
    SyMaxCalls    \* bound: calls of one thread

VARIABLES
    primitive,  \* "latch", "barrier" or "atomic"
    sy,         \* per thread: see SyOutside
    latchCount, \* count_ of the latch
    barrier,    \* threshold_, count_, generation_
    atomicVal,  \* the atomic the helper waits on
    syMutex,    \* "free", or the thread that holds mutex_
    syPast      \* history: owed, the threads that stored and have not notified yet;
                \* one: notify_one was called

syVars == <<primitive, sy, latchCount, barrier, atomicVal, syMutex, syPast>>

\* old: the generation or the value that the wait began with; arrived, passed: how often
\* the thread came to the barrier, and got through it.
SyOutside == [at |-> "out", old |-> 0, calls |-> 0, arrived |-> 0, passed |-> 0]
Parties == Cardinality(SyThreads)

SyInit ==
    /\ primitive \in {"latch", "barrier", "atomic"}
    /\ sy = [t \in SyThreads |-> SyOutside] /\ latchCount = Parties
    /\ barrier = [threshold |-> Parties, count |-> Parties, generation |-> 0]
    /\ atomicVal = 0 /\ syMutex = "free" /\ syPast = [owed |-> {}, one |-> FALSE]

\* A thread outside begins a call.
Calls(t, p) == primitive = p /\ sy[t].at = "out" /\ sy[t].calls < SyMaxCalls
Asleep(t) == sy[t].at = "asleep"
Call(t, r) == [sy EXCEPT ![t] = [r EXCEPT !.calls = @ + 1]]

-----------------------------------------------------------------------------
(* latch.                                                                     *)

\* The counter at which everybody is notified.
Opens(c) == c <= 0

\* count_down(n), alone or as the first half of arrive_and_wait(n).
CountDown(t, n, thenWait) ==
    /\ Calls(t, "latch")
    /\ latchCount' = latchCount - n
    /\ sy' = [u \in SyThreads |->
                IF u = t THEN [sy[t] EXCEPT !.calls = @ + 1, !.at = IF thenWait THEN "toWait" ELSE "out"]
                ELSE IF Asleep(u) /\ Opens(latchCount - n) THEN [sy[u] EXCEPT !.at = "out"] ELSE sy[u]]
    /\ UNCHANGED <<primitive, barrier, atomicVal, syMutex, syPast>>

\* wait(), alone or as the second half of arrive_and_wait.
LatchWait(t) ==
    /\ primitive = "latch" /\ (sy[t].at = "toWait" \/ Calls(t, "latch"))
    /\ sy' = [sy EXCEPT ![t].at = IF latchCount <= 0 THEN "out" ELSE "asleep",
                        ![t].calls = IF sy[t].at = "out" THEN @ + 1 ELSE @]
    /\ UNCHANGED <<primitive, latchCount, barrier, atomicVal, syMutex, syPast>>

-----------------------------------------------------------------------------
(* barrier.                                                                   *)

\* What the last thread to arrive does, its completion function included.
NextPhase(b) == [b EXCEPT !.generation = @ + 1, !.count = b.threshold]

\* The last thread t goes on and wakes those that sleep; their generation is over.
ReleasedAll(t) ==
    [u \in SyThreads |->
        IF u = t THEN [sy[t] EXCEPT !.arrived = @ + 1, !.passed = @ + 1, !.calls = @ + 1]
        ELSE IF Asleep(u) THEN [sy[u] EXCEPT !.at = "out", !.passed = @ + 1] ELSE sy[u]]

ArriveAndWait(t) ==
    /\ Calls(t, "barrier") /\ syMutex = "free"
    /\ IF barrier.count = 1
       THEN barrier' = NextPhase(barrier) /\ sy' = ReleasedAll(t)
       ELSE /\ barrier' = [barrier EXCEPT !.count = @ - 1]
            /\ sy' = Call(t, [sy[t] EXCEPT !.at = "asleep", !.old = barrier.generation, !.arrived = @ + 1])
    /\ UNCHANGED <<primitive, latchCount, atomicVal, syMutex, syPast>>

\* arrive_and_drop takes the mutex and calls arrive_and_wait, which takes it again: the
\* thread waits for itself.
ArriveAndDrop(t) ==
    /\ Calls(t, "barrier") /\ syMutex = "free"
    /\ barrier' = [barrier EXCEPT !.threshold = @ - 1] /\ syMutex' = t
    /\ sy' = Call(t, [sy[t] EXCEPT !.at = "stuck"])
    /\ UNCHANGED <<primitive, latchCount, atomicVal, syPast>>

-----------------------------------------------------------------------------
(* atomic_wait_helper.                                                        *)

\* wait(atomic, old), from the first look to the last one before the mutex; spinning and
\* backing off are more such looks.
AwBegin(t) ==
    /\ Calls(t, "atomic")
    /\ \E old \in {0, 1} :
          sy' = Call(t, [sy[t] EXCEPT !.old = old, !.at = IF atomicVal # old THEN "out" ELSE "toLock"])
    /\ UNCHANGED <<primitive, latchCount, barrier, atomicVal, syMutex, syPast>>

AwLook(t) ==
    /\ sy[t].at = "toLock" /\ atomicVal # sy[t].old
    /\ sy' = [sy EXCEPT ![t].at = "out"]
    /\ UNCHANGED <<primitive, latchCount, barrier, atomicVal, syMutex, syPast>>

\* The mutex is taken and the predicate tested, at first and after each wake-up.
AwTest(t) ==
    /\ primitive = "atomic" /\ sy[t].at \in {"toLock", "woken"} /\ syMutex = "free"
    /\ IF atomicVal # sy[t].old
       THEN sy' = [sy EXCEPT ![t].at = "out"] /\ UNCHANGED syMutex
       ELSE sy' = [sy EXCEPT ![t].at = "tested"] /\ syMutex' = t
    /\ UNCHANGED <<primitive, latchCount, barrier, atomicVal, syPast>>

AwSleep(t) ==
    /\ sy[t].at = "tested"
    /\ sy' = [sy EXCEPT ![t].at = "asleep"] /\ syMutex' = "free"
    /\ UNCHANGED <<primitive, latchCount, barrier, atomicVal, syPast>>

\* The condition variable may wake a thread for no reason.
AwSpurious(t) ==
    /\ primitive = "atomic" /\ Asleep(t)
    /\ sy' = [sy EXCEPT ![t].at = "woken"]
    /\ UNCHANGED <<primitive, latchCount, barrier, atomicVal, syMutex, syPast>>

\* A user stores; the notification is a call of its own.
AwStore(t) ==
    /\ Calls(t, "atomic")
    /\ atomicVal' = 1 - atomicVal
    /\ sy' = Call(t, [sy[t] EXCEPT !.at = "toNotify"])
    /\ syPast' = [syPast EXCEPT !.owed = @ \cup {t}]
    /\ UNCHANGED <<primitive, latchCount, barrier, syMutex>>

\* Mutant: the notifier does not take the mutex.
MayNotifyUnlocked(t) == sy[t].at = "toNotify"

\* The notifier takes the mutex.
MayNotify(t) == sy[t].at = "toNotify" /\ syMutex = "free"

\* notify_all, or notify_one with the thread it picks.
AwNotify(t) ==
    /\ MayNotify(t)
    /\ LET sleepers == {u \in SyThreads : Asleep(u)} IN
       \E woken \in {sleepers} \cup {{u} : u \in sleepers} :
          /\ sy' = [u \in SyThreads |-> IF u = t THEN [sy[t] EXCEPT !.at = "out"]
                                        ELSE IF u \in woken THEN [sy[u] EXCEPT !.at = "woken"] ELSE sy[u]]
          /\ syPast' = [owed |-> syPast.owed \ {t}, one |-> syPast.one \/ woken # sleepers]
    /\ UNCHANGED <<primitive, latchCount, barrier, atomicVal, syMutex>>

SyNext ==
    \E t \in SyThreads :
       \/ \E n \in 1..2, thenWait \in BOOLEAN : CountDown(t, n, thenWait)
       \/ LatchWait(t)
       \/ ArriveAndWait(t) \/ ArriveAndDrop(t)
       \/ AwBegin(t) \/ AwLook(t) \/ AwTest(t) \/ AwSleep(t) \/ AwSpurious(t) \/ AwStore(t) \/ AwNotify(t)

-----------------------------------------------------------------------------
(* Properties.                                                                *)

\* A thread sleeps only while what it waits for has not happened.  At a latch: the counter
\* may pass zero without stopping there (count_down(2)), and a thread may come when it is
\* long over.  At a barrier: everybody sleeps in the current generation, and who has passed
\* it k times knows that every other thread has arrived k times.  On an atomic value that
\* was stored while the thread made up its mind to sleep: the notify_all is still to come.
SleepsWithCause ==
    \A t \in SyThreads :
       /\ Asleep(t) => CASE primitive = "latch"   -> latchCount > 0
                         [] primitive = "barrier" -> sy[t].old = barrier.generation
                         [] primitive = "atomic"  -> atomicVal = sy[t].old \/ syPast.one \/ syPast.owed # {}
       /\ primitive = "barrier" => \A u \in SyThreads : sy[t].passed <= sy[u].arrived
=============================================================================
