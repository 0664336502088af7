---------------------------- MODULE AdaptiveQueue ----------------------------
(* adaptive_job_queue: a job_queue and a lockfree_job_queue, a mode that says which *)
(* one is filled, and the migration between them.  Each of the two queues is a       *)
(* sequence here (see JobQueue and LockfreeQueue).  The mode is read before a call   *)
(* of the queue it names, and stored before the jobs are moved.  Several             *)
(* accuracy_guards may be alive; the first switches to the mutex queue, the last      *)
(* switches back.  A job is the number of its enqueue.  Left out: the statistics, and *)
(* queue_busy of the lock-free queue.                                                 *)
EXTENDS Integers, Sequences, FiniteSets

CONSTANTS
    AqThreads,    \* threads that use the queue
    AqPolicies,   \* policies to construct it with
    AqMaxJobs,    \* bound: jobs enqueued
    AqMaxCalls    \* bound: other calls

ASSUME AqBounds == AqMaxJobs \in Nat

VARIABLES
    aqPolicy,   \* policy_
    aqMode,     \* current_mode_
    aqStopped,  \* stopped_
    mqStopped,  \* stop_ of the mutex queue
    mutexQ, lockfreeQ,
    guards,     \* accuracy_guard_count_
    aq,         \* per thread: see NotHere
    aqJobs, aqCalls,
    fates       \* per job: "none", "ok", "refused", "taken", "cleared" or "lost"

aqVars == <<aqPolicy, aqMode, aqStopped, mqStopped, mutexQ, lockfreeQ, guards, aq, aqJobs, aqCalls, fates>>

\* job: in hand; mode: as read; target, then, batch: of a migration.
NotHere == [at |-> "out", job |-> 0, mode |-> "mutex", target |-> "mutex", then |-> "out", batch |-> <<>>]

AqInit ==
    /\ aqPolicy \in AqPolicies
    /\ aqMode = IF aqPolicy = "performance_first" THEN "lock_free" ELSE "mutex"
    /\ aqStopped = FALSE /\ mqStopped = FALSE /\ mutexQ = <<>> /\ lockfreeQ = <<>> /\ guards = 0
    /\ aq = [t \in AqThreads |-> NotHere] /\ aqJobs = 0 /\ aqCalls = 0
    /\ fates = [j \in 1..AqMaxJobs |-> "none"]

AqSet(t, rec) == aq' = [aq EXCEPT ![t] = rec]
AqGo(t, l) == AqSet(t, [aq[t] EXCEPT !.at = l])
Elements(s) == {s[i] : i \in DOMAIN s}
Present == Elements(mutexQ) \cup Elements(lockfreeQ)
Calls == aqCalls < AqMaxCalls /\ aqCalls' = aqCalls + 1

-----------------------------------------------------------------------------
(* enqueue, dequeue and try_dequeue.                                          *)

AqEnqueue(t) ==
    /\ aq[t].at = "out" /\ aqJobs < AqMaxJobs /\ aqJobs' = aqJobs + 1
    /\ IF aqStopped THEN fates' = [fates EXCEPT ![aqJobs + 1] = "refused"] /\ UNCHANGED aq
       ELSE AqSet(t, [NotHere EXCEPT !.at = "put", !.job = aqJobs + 1, !.mode = aqMode]) /\ UNCHANGED fates
    /\ UNCHANGED <<aqPolicy, aqMode, aqStopped, mqStopped, mutexQ, lockfreeQ, guards, aqCalls>>

\* std::move(j).
PutJob(t) == aq[t].job

\* The queue of the mode that was read; the job_queue refuses when it is stopped.
AqPut(t) ==
    /\ aq[t].at = "put" /\ AqSet(t, NotHere)
    /\ fates' = [fates EXCEPT ![aq[t].job] = IF aq[t].mode = "mutex" /\ mqStopped THEN "refused" ELSE "ok"]
    /\ mutexQ' = IF aq[t].mode = "mutex" /\ ~mqStopped THEN Append(mutexQ, PutJob(t)) ELSE mutexQ
    /\ lockfreeQ' = IF aq[t].mode = "lock_free" THEN Append(lockfreeQ, PutJob(t)) ELSE lockfreeQ
    /\ UNCHANGED <<aqPolicy, aqMode, aqStopped, mqStopped, guards, aqJobs, aqCalls>>

AqDequeue(t) ==
    /\ aq[t].at = "out" /\ Calls /\ ~aqStopped
    /\ AqSet(t, [NotHere EXCEPT !.at = "first", !.mode = aqMode])
    /\ UNCHANGED <<aqPolicy, aqMode, aqStopped, mqStopped, mutexQ, lockfreeQ, guards, aqJobs, fates>>

Opposite(m) == IF m = "mutex" THEN "lock_free" ELSE "mutex"

\* Where a dequeue looks when the queue of its mode has nothing.
Second(m) == Opposite(m)

\* First the queue of the mode, then the other one.
AqTake(t) ==
    /\ aq[t].at \in {"first", "second"}
    /\ LET m == IF aq[t].at = "first" THEN aq[t].mode ELSE Second(aq[t].mode)
           q == IF m = "mutex" THEN mutexQ ELSE lockfreeQ
       IN IF q # <<>>
          THEN /\ AqSet(t, NotHere) /\ fates' = [fates EXCEPT ![Head(q)] = "taken"]
               /\ mutexQ' = IF m = "mutex" THEN Tail(q) ELSE mutexQ
               /\ lockfreeQ' = IF m = "mutex" THEN lockfreeQ ELSE Tail(q)
          ELSE /\ IF aq[t].at = "first" THEN AqGo(t, "second") ELSE AqSet(t, NotHere)
               /\ UNCHANGED <<mutexQ, lockfreeQ, fates>>
    /\ UNCHANGED <<aqPolicy, aqMode, aqStopped, mqStopped, guards, aqJobs, aqCalls>>

-----------------------------------------------------------------------------
(* migrate_to_mode.                                                           *)

MigrationMutexFree == \A t \in AqThreads : aq[t].at \notin {"move", "drop", "clearing"}

\* Mutant: the batch is a copy.
LeftByBatchAll == mutexQ

\* What dequeue_batch leaves in the mutex queue.
LeftByBatch == <<>>

\* The mode is stored; to the lock-free queue the jobs go as one batch.
Migrate(t) ==
    /\ aq[t].at = "migrate" /\ MigrationMutexFree
    /\ IF aqMode = aq[t].target
       THEN AqGo(t, aq[t].then) /\ UNCHANGED <<aqMode, mutexQ>>
       ELSE /\ aqMode' = aq[t].target
            /\ IF aq[t].target = "mutex" THEN AqGo(t, "move") /\ UNCHANGED mutexQ
               ELSE AqSet(t, [aq[t] EXCEPT !.at = "move", !.batch = mutexQ]) /\ mutexQ' = LeftByBatch
    /\ UNCHANGED <<aqPolicy, aqStopped, mqStopped, lockfreeQ, guards, aqJobs, aqCalls, fates>>

\* There are more jobs to move.
MovesLeft(t) == IF aq[t].target = "mutex" THEN lockfreeQ # <<>> ELSE aq[t].batch # <<>>

\* One job: out of the lock-free queue into the thread's hand, or out of the batch into the
\* lock-free queue.
MoveJob(t) ==
    /\ aq[t].at = "move"
    /\ IF ~MovesLeft(t) THEN AqGo(t, aq[t].then) /\ UNCHANGED lockfreeQ
       ELSE IF aq[t].target = "mutex"
       THEN /\ AqSet(t, [aq[t] EXCEPT !.at = "drop", !.batch = <<Head(lockfreeQ)>>])
            /\ lockfreeQ' = Tail(lockfreeQ)
       ELSE /\ AqSet(t, [aq[t] EXCEPT !.batch = Tail(@)])
            /\ lockfreeQ' = Append(lockfreeQ, Head(aq[t].batch))
    /\ UNCHANGED <<aqPolicy, aqMode, aqStopped, mqStopped, mutexQ, guards, aqJobs, aqCalls, fates>>

\* (void)mutex_queue_->enqueue(...): a stopped queue drops the job.
DropIntoMutexQueue(t) ==
    /\ aq[t].at = "drop"
    /\ AqSet(t, [aq[t] EXCEPT !.at = "move", !.batch = <<>>])
    /\ mutexQ' = IF mqStopped THEN mutexQ ELSE Append(mutexQ, aq[t].batch[1])
    /\ fates' = IF mqStopped THEN [fates EXCEPT ![aq[t].batch[1]] = "lost"] ELSE fates
    /\ UNCHANGED <<aqPolicy, aqMode, aqStopped, mqStopped, lockfreeQ, guards, aqJobs, aqCalls>>

-----------------------------------------------------------------------------
(* accuracy_guard, switch_mode, clear and stop.                               *)

MigrateThen(t, target, then) == AqSet(t, [aq[t] EXCEPT !.at = "migrate", !.target = target, !.then = then])

\* The constructor reads the mode, then counts itself.
RequireAccuracy(t) ==
    /\ aq[t].at = "out" /\ Calls
    /\ AqSet(t, [NotHere EXCEPT !.at = "guardCount", !.mode = aqMode])
    /\ UNCHANGED <<aqPolicy, aqMode, aqStopped, mqStopped, mutexQ, lockfreeQ, guards, aqJobs, fates>>

GuardCount(t) ==
    /\ aq[t].at = "guardCount"
    /\ guards' = guards + 1
    /\ IF guards = 0 /\ aq[t].mode # "mutex" THEN MigrateThen(t, "mutex", "guarded") ELSE AqGo(t, "guarded")
    /\ UNCHANGED <<aqPolicy, aqMode, aqStopped, mqStopped, mutexQ, lockfreeQ, aqJobs, aqCalls, fates>>

LastGuard == guards = 1

\* The destructor of the last guard switches as the policy says; a manual queue goes back to
\* the mode that this guard found.  balanced decides by the number of calls.
ReleaseGuard(t) ==
    /\ aq[t].at = "guarded"
    /\ guards' = guards - 1
    /\ \/ LastGuard /\ aqPolicy \in {"performance_first", "balanced"} /\ MigrateThen(t, "lock_free", "out")
       \/ LastGuard /\ aqPolicy = "manual" /\ aq[t].mode # "mutex" /\ MigrateThen(t, aq[t].mode, "out")
       \/ (~LastGuard \/ aqPolicy \in {"accuracy_first", "balanced"} \/ (aqPolicy = "manual" /\ aq[t].mode = "mutex"))
          /\ AqSet(t, NotHere)
    /\ UNCHANGED <<aqPolicy, aqMode, aqStopped, mqStopped, mutexQ, lockfreeQ, aqJobs, aqCalls, fates>>

\* switch_mode of a manual queue.
AqSwitchMode(t, m) ==
    /\ aq[t].at = "out" /\ aqPolicy = "manual" /\ aqMode # m /\ Calls
    /\ MigrateThen(t, m, "out")
    /\ UNCHANGED <<aqPolicy, aqMode, aqStopped, mqStopped, mutexQ, lockfreeQ, guards, aqJobs, fates>>

Cleared(q) == [j \in 1..AqMaxJobs |-> IF j \in Elements(q) THEN "cleared" ELSE fates[j]]

\* clear: the mutex queue, then the other one, under the migration mutex.
AqClear(t) ==
    /\ \/ /\ aq[t].at = "out" /\ Calls /\ MigrationMutexFree
          /\ AqGo(t, "clearing") /\ mutexQ' = <<>> /\ fates' = Cleared(mutexQ) /\ UNCHANGED lockfreeQ
       \/ /\ aq[t].at = "clearing" /\ UNCHANGED aqCalls
          /\ AqSet(t, NotHere) /\ lockfreeQ' = <<>> /\ fates' = Cleared(lockfreeQ) /\ UNCHANGED mutexQ
    /\ UNCHANGED <<aqPolicy, aqMode, aqStopped, mqStopped, guards, aqJobs>>

AqStop(t) ==
    /\ \/ aq[t].at = "out" /\ ~aqStopped /\ aqStopped' = TRUE /\ AqGo(t, "stopping") /\ UNCHANGED mqStopped
       \/ aq[t].at = "stopping" /\ mqStopped' = TRUE /\ AqSet(t, NotHere) /\ UNCHANGED aqStopped
    /\ UNCHANGED <<aqPolicy, aqMode, mutexQ, lockfreeQ, guards, aqJobs, aqCalls, fates>>

AqNext ==
    \E t \in AqThreads :
        \/ AqEnqueue(t) \/ AqPut(t) \/ AqDequeue(t) \/ AqTake(t)
        \/ Migrate(t) \/ MoveJob(t) \/ DropIntoMutexQueue(t)
        \/ RequireAccuracy(t) \/ GuardCount(t) \/ ReleaseGuard(t)
        \/ \E m \in {"mutex", "lock_free"} : AqSwitchMode(t, m)
        \/ AqClear(t) \/ AqStop(t)

AqSpec == AqInit /\ [][AqNext]_aqVars

-----------------------------------------------------------------------------

\* Whatever migrates meanwhile, a job that was accepted and not yet taken is in exactly one
\* place, a queue or the hands of the migration, and is lost only by a migration that runs
\* into stop().
AcceptedInOnePlace ==
    \A j \in 1..aqJobs :
        /\ fates[j] = "ok" <=> \/ j \in Present
                               \/ \E t \in AqThreads : j \in Elements(aq[t].batch)
        /\ ~(j \in Elements(mutexQ) /\ j \in Elements(lockfreeQ))
        /\ fates[j] = "lost" => mqStopped

=============================================================================
