----------------------------- MODULE ThreadProofs -----------------------------
(***************************************************************************)
(* Proofs about threads.  thread_base, for both builds, any number of      *)
(* starts and any outcome of creating a thread, when the calls of start()  *)
(* and stop() do not overlap (thread_pool makes them under workers_mutex_).*)
(* thread_worker, for any number of workers, jobs and batches: a job that  *)
(* somebody may still call has not been destroyed.                         *)
(***************************************************************************)
EXTENDS ThreadBase, ThreadWorker, SequenceTheorems, TLAPS

Places == {"loop", "dequeue", "taken", "run", "ok", "error"}

QueuesTyped ==
    /\ pending \in [Queues -> Seq(Nat)] /\ enqueued \in Nat
    /\ worker \in Places
    /\ worker = "dequeue" => local_queue \in Queues
    /\ current_job_ \in Nat \cup {None}

SetterTyped ==
    /\ job_queue_ \in Queues \cup {None}
    /\ setter.at \in {"lock", "asleep"} => setter.new \in Queues
    /\ setter \in [at : {"idle", "lock", "asleep", "stop_old"},
                   new : Queues \cup {None}, old : Queues \cup {None}]

ObserversTyped ==
    /\ queue_mutex_ \in {None, "worker"} \cup Observers
    /\ observer \in [Observers -> [at : {"idle", "lock", "use"}, ptr : Nat \cup {None}]]

InHand == worker \in {"taken", "run", "ok", "error"}

\* A job is in one place: queued once, in hand, or destroyed.
QueuedOnce ==
    \A q, r \in Queues : \A i \in 1..Len(pending[q]), k \in 1..Len(pending[r]) :
        pending[q][i] = pending[r][k] => q = r /\ i = k

QueuedAlive ==
    \A q \in Queues : \A i \in 1..Len(pending[q]) :
        /\ pending[q][i] \in 1..enqueued /\ pending[q][i] \notin destroyed
        /\ InHand => pending[q][i] # current_job

HandAlive ==
    /\ destroyed \subseteq 1..enqueued
    /\ InHand => current_job \in 1..enqueued /\ current_job \notin destroyed

\* queue_mutex_ has one holder; current_job_ is null while the worker holds it, points to the
\* job in hand while it runs, and otherwise to nothing or to a job that threw.
Published ==
    /\ \A o \in Observers : observer[o].at = "use" => queue_mutex_ = o
    /\ queue_mutex_ = "worker" => worker \in {"ok", "error"} /\ current_job_ = None
    /\ worker \in {"run", "ok", "error"} /\ queue_mutex_ # "worker" => current_job_ = current_job
    /\ current_job_ \notin destroyed \ thrown

WorkerInv ==
    /\ QueuesTyped /\ SetterTyped /\ ObserversTyped
    /\ QueuedOnce /\ QueuedAlive /\ HandAlive
    /\ Published /\ UsesLiveJobUnlessThrown

\* A new worker has no job, and nobody looks at it.
LEMMA InitWorkerInv == Init => WorkerInv
<1> SUFFICES ASSUME Init PROVE WorkerInv
  OBVIOUS
<1>1. QueuesTyped /\ SetterTyped /\ ObserversTyped
  BY EmptySeq DEF Init, QueuesTyped, SetterTyped, ObserversTyped, Places, NotSetting, Setting, NotLooking, Looking
<1>2. QueuedOnce /\ QueuedAlive /\ HandAlive
  BY DEF Init, QueuedOnce, QueuedAlive, HandAlive, InHand
<1>3. Published /\ UsesLiveJobUnlessThrown
  BY HoldersDiffer DEF Init, Published, UsesLiveJobUnlessThrown, NotLooking, Looking
<1> QED
  BY <1>1, <1>2, <1>3 DEF WorkerInv

---------------------------------------------------------------------------
(* What a step leaves alone.                                                *)

\* What QueuedOnce says of two positions.
LEMMA SamePosition ==
    ASSUME QueuedOnce, NEW q \in Queues, NEW r \in Queues,
           NEW i \in 1..Len(pending[q]), NEW k \in 1..Len(pending[r]), pending[q][i] = pending[r][k]
    PROVE  q = r /\ i = k
BY DEF QueuedOnce

\* A step that leaves the queues and the job in hand alone moves no job.
LEMMA JobsFrame ==
    ASSUME UNCHANGED <<pending, enqueued, destroyed, worker, current_job>>
    PROVE  /\ QueuedOnce => QueuedOnce'
           /\ QueuedAlive => QueuedAlive'
           /\ HandAlive => HandAlive'
BY DEF QueuedOnce, QueuedAlive, HandAlive, InHand

\* A step that leaves set_job_queue alone.
LEMMA SetterFrame ==
    ASSUME SetterTyped, UNCHANGED <<job_queue_, setter>>
    PROVE  SetterTyped'
BY DEF SetterTyped

\* A step that leaves the observers and queue_mutex_ alone.
LEMMA ObserversFrame ==
    ASSUME UNCHANGED <<queue_mutex_, observer>>
    PROVE  ObserversTyped => ObserversTyped'
BY DEF ObserversTyped

\* A step that leaves current_job_, its users and queue_mutex_ alone.
LEMMA PublishedFrame ==
    ASSUME UNCHANGED <<queue_mutex_, observer, current_job_, current_job, worker, destroyed, thrown>>
    PROVE  Published /\ UsesLiveJobUnlessThrown => Published' /\ UsesLiveJobUnlessThrown'
BY DEF Published, UsesLiveJobUnlessThrown

---------------------------------------------------------------------------
(* The steps.                                                               *)

\* Only the queues change when a job is submitted.
LEMMA EnqueuePreserves ==
    ASSUME WorkerInv, NEW q \in Queues, Enqueue(q)
    PROVE  WorkerInv'
<1> USE DEF WorkerInv
<1>1. pending[q] \in Seq(Nat) /\ enqueued \in Nat /\ Len(pending[q]) \in Nat
  BY LenProperties DEF QueuesTyped
<1>2. Append(pending[q], enqueued + 1) \in Seq(Nat)
  BY <1>1, AppendProperties
<1>3. QueuesTyped'
  BY <1>1, <1>2 DEF Enqueue, QueuesTyped, workerVars
<1>4. /\ \A r \in Queues \ {q} : pending'[r] = pending[r]
      /\ pending'[q] = Append(pending[q], enqueued + 1)
      /\ enqueued' = enqueued + 1
  BY DEF Enqueue, QueuesTyped
<1>5. ASSUME NEW r \in Queues, NEW i \in 1..Len(pending'[r])
      PROVE  \/ i \in 1..Len(pending[r]) /\ pending'[r][i] = pending[r][i]
             \/ r = q /\ i = Len(pending[q]) + 1 /\ pending'[r][i] = enqueued + 1
  <2>1. CASE r # q
    BY <1>4, <2>1
  <2>2. CASE r = q
    BY <1>1, <1>4, <2>2, AppendProperties
  <2> QED
    BY <2>1, <2>2
<1>6. UNCHANGED <<worker, current_job, destroyed>>
  BY DEF Enqueue, workerVars
<1>7. QueuedAlive'
  <2> SUFFICES ASSUME NEW r \in Queues, NEW i \in 1..Len(pending'[r])
               PROVE  /\ pending'[r][i] \in 1..(enqueued + 1) /\ pending'[r][i] \notin destroyed
                      /\ InHand => pending'[r][i] # current_job
    BY <1>4, <1>6 DEF QueuedAlive, InHand
  <2>1. CASE i \in 1..Len(pending[r]) /\ pending'[r][i] = pending[r][i]
    BY <1>1, <2>1 DEF QueuedAlive
  <2>2. CASE pending'[r][i] = enqueued + 1
    BY <1>1, <2>2 DEF HandAlive
  <2> QED
    BY <1>5, <2>1, <2>2
<1>8. QueuedOnce'
  <2> SUFFICES ASSUME NEW r \in Queues, NEW s \in Queues, NEW i \in 1..Len(pending'[r]),
                      NEW k \in 1..Len(pending'[s]), pending'[r][i] = pending'[s][k]
               PROVE  r = s /\ i = k
    BY DEF QueuedOnce
  <2>1. \A u \in Queues : \A m \in 1..Len(pending[u]) : pending[u][m] # enqueued + 1
    BY <1>1 DEF QueuedAlive
  <2>2. CASE i \in 1..Len(pending[r]) /\ pending'[r][i] = pending[r][i]
    <3>1. pending[r][i] # enqueued + 1
      BY <2>1, <2>2
    <3>2. k \in 1..Len(pending[s]) /\ pending'[s][k] = pending[s][k]
      BY <1>5, <2>2, <3>1, Zenon
    <3>3. pending[r][i] = pending[s][k]
      BY <2>2, <3>2, Zenon
    <3>4. r = s
      BY <2>2, <3>2, <3>3, SamePosition, Zenon
    <3>5. i = k
      BY <2>2, <3>2, <3>3, SMT DEF QueuedOnce
    <3> QED
      BY <3>4, <3>5
  <2>3. CASE r = q /\ i = Len(pending[q]) + 1 /\ pending'[r][i] = enqueued + 1
    BY <1>5, <2>1, <2>3
  <2> QED
    BY <1>5, <2>2, <2>3
<1>9. HandAlive'
  BY <1>1, <1>4, <1>6 DEF HandAlive, InHand
<1>10. SetterTyped' /\ ObserversTyped' /\ Published' /\ UsesLiveJobUnlessThrown'
  BY SetterFrame, ObserversFrame, PublishedFrame DEF Enqueue, workerVars
<1> QED
  BY <1>3, <1>7, <1>8, <1>9, <1>10

\* The head of a queue becomes the job in hand.
LEMMA TakeJobPreserves ==
    ASSUME WorkerInv, TakeJob
    PROVE  WorkerInv'
<1> USE DEF WorkerInv
<1> DEFINE q == local_queue
<1>1. q \in Queues /\ pending[q] \in Seq(Nat) /\ pending[q] # <<>>
  BY DEF TakeJob, QueuesTyped
<1>2. /\ Tail(pending[q]) \in Seq(Nat) /\ Len(Tail(pending[q])) = Len(pending[q]) - 1
      /\ \A i \in 1..Len(Tail(pending[q])) : Tail(pending[q])[i] = pending[q][i + 1]
      /\ Head(pending[q]) = pending[q][1] /\ Len(pending[q]) \in Nat /\ Len(pending[q]) >= 1
  BY <1>1, HeadTailProperties, LenProperties, EmptySeq
<1>3. QueuesTyped'
  BY <1>1, <1>2 DEF TakeJob, QueuesTyped, Places
<1>4. /\ \A r \in Queues \ {q} : pending'[r] = pending[r]
      /\ pending'[q] = Tail(pending[q])
      /\ enqueued' = enqueued /\ destroyed' = destroyed /\ current_job' = pending[q][1]
      /\ worker = "dequeue" /\ worker' = "taken"
  BY <1>1, <1>2 DEF TakeJob, QueuesTyped
<1> HIDE DEF q
<1>5. ASSUME NEW r \in Queues, NEW i \in 1..Len(pending'[r])
      PROVE  \/ r # q /\ i \in 1..Len(pending[r]) /\ pending'[r][i] = pending[r][i]
             \/ r = q /\ i + 1 \in 2..Len(pending[q]) /\ pending'[r][i] = pending[q][i + 1]
  <2>1. CASE r # q
    BY <1>4, <2>1
  <2>2. CASE r = q
    <3>1. i \in 1..Len(Tail(pending[q])) /\ pending'[r][i] = Tail(pending[q])[i]
      BY <1>4, <2>2, Zenon
    <3>2. i + 1 \in 2..Len(pending[q])
      BY <1>2, <3>1
    <3> QED
      BY <1>2, <2>2, <3>1, <3>2
  <2> QED
    BY <2>1, <2>2
<1>6. 1 \in 1..Len(pending[q])
  BY <1>2
<1>7. HandAlive'
  BY <1>1, <1>4, <1>6 DEF HandAlive, QueuedAlive
<1>8. QueuedAlive'
  <2> SUFFICES ASSUME NEW r \in Queues, NEW i \in 1..Len(pending'[r])
               PROVE  /\ pending'[r][i] \in 1..enqueued /\ pending'[r][i] \notin destroyed
                      /\ pending'[r][i] # pending[q][1]
    BY <1>4 DEF QueuedAlive
  <2>1. CASE r # q /\ i \in 1..Len(pending[r]) /\ pending'[r][i] = pending[r][i]
    BY <1>1, <1>6, <2>1 DEF QueuedAlive, QueuedOnce
  <2>2. CASE r = q /\ i + 1 \in 2..Len(pending[q]) /\ pending'[r][i] = pending[q][i + 1]
    <3>1. i + 1 \in 1..Len(pending[q]) /\ i + 1 # 1
      BY <1>2, <2>2
    <3> QED
      BY <1>1, <1>6, <2>2, <3>1 DEF QueuedAlive, QueuedOnce
  <2> QED
    BY <1>5, <2>1, <2>2
<1>9. QueuedOnce'
  <2> SUFFICES ASSUME NEW r \in Queues, NEW s \in Queues, NEW i \in 1..Len(pending'[r]),
                      NEW k \in 1..Len(pending'[s]), pending'[r][i] = pending'[s][k]
               PROVE  r = s /\ i = k
    BY DEF QueuedOnce
  <2>0. i \in Int /\ k \in Int
    OBVIOUS
  <2>1. CASE r # q
    <3>1. i \in 1..Len(pending[r]) /\ pending'[r][i] = pending[r][i]
      BY <1>5, <2>1
    <3>2. CASE s # q
      <4>1. k \in 1..Len(pending[s]) /\ pending'[s][k] = pending[s][k]
        BY <1>5, <3>2
      <4>2. pending[r][i] = pending[s][k]
        BY <3>1, <4>1, Zenon
      <4>3. r = s
        BY <3>1, <4>1, <4>2, SamePosition, Zenon
      <4>4. i = k
        BY <3>1, <4>1, <4>2, SMT DEF QueuedOnce
      <4> QED
        BY <4>3, <4>4
    <3>3. CASE s = q
      <4>1. k + 1 \in 1..Len(pending[s]) /\ pending'[s][k] = pending[s][k + 1]
        BY <1>2, <1>5, <3>3
      <4>2. pending[r][i] = pending[s][k + 1]
        BY <3>1, <4>1, Zenon
      <4> QED
        BY <2>1, <3>1, <3>3, <4>1, <4>2, SamePosition, Zenon
    <3> QED
      BY <3>2, <3>3
  <2>2. CASE r = q
    <3>1. i + 1 \in 1..Len(pending[q]) /\ pending'[r][i] = pending[q][i + 1]
      BY <1>2, <1>5, <2>2
    <3>2. CASE s # q
      BY <1>1, <1>5, <2>2, <3>1, <3>2 DEF QueuedOnce
    <3>3. CASE s = q
      <4>1. k + 1 \in 1..Len(pending[q]) /\ pending'[s][k] = pending[q][k + 1]
        BY <1>2, <1>5, <3>3
      <4>2. i + 1 = k + 1
        BY <1>1, <2>2, <3>1, <3>3, <4>1, SamePosition
      <4> QED
        BY <2>0, <2>2, <3>3, <4>2
    <3> QED
      BY <3>2, <3>3
  <2> QED
    BY <2>1, <2>2
<1>10. SetterTyped' /\ ObserversTyped'
  BY SetterFrame, ObserversFrame DEF TakeJob
<1>11. Published' /\ UsesLiveJobUnlessThrown'
  BY <1>4 DEF TakeJob, Published, UsesLiveJobUnlessThrown
<1> QED
  BY <1>3, <1>7, <1>8, <1>9, <1>10, <1>11

\* A job is published: nobody uses an old pointer while queue_mutex_ is free.
LEMMA BeginPreserves ==
    ASSUME WorkerInv, Begin
    PROVE  WorkerInv'
<1> USE DEF WorkerInv
<1>1. /\ UNCHANGED <<pending, enqueued, destroyed, current_job, queue_mutex_, observer, thrown, job_queue_, setter>>
      /\ worker = "taken" /\ worker' = "run" /\ current_job_' = current_job
  BY DEF Begin, queueVars
<1>2. InHand /\ InHand'
  BY <1>1 DEF InHand
<1>3. QueuedOnce' /\ QueuedAlive' /\ HandAlive'
  BY <1>1, <1>2 DEF QueuedOnce, QueuedAlive, HandAlive
<1>4. QueuesTyped'
  BY <1>1, <1>2 DEF QueuesTyped, HandAlive, Places
<1>5. Published' /\ UsesLiveJobUnlessThrown'
  BY <1>1, <1>2 DEF Published, UsesLiveJobUnlessThrown, HandAlive
<1> QED
  BY <1>1, <1>3, <1>4, <1>5, SetterFrame, ObserversFrame

\* The job in hand is destroyed: nobody holds queue_mutex_ to use it unless it threw.
LEMMA JobEndPreserves ==
    ASSUME WorkerInv, JobThrows \/ DestroyJob
    PROVE  WorkerInv'
<1> USE DEF WorkerInv
<1>1. /\ UNCHANGED <<pending, enqueued, observer, current_job_, job_queue_>>
      /\ InHand /\ worker' = "loop"
      /\ destroyed' = destroyed \cup {current_job}
  BY DEF JobThrows, DestroyJob, InHand, Published, queueVars
<1>2. HandAlive' /\ QueuedAlive' /\ QueuedOnce'
  <2>1. QueuedOnce'
    BY <1>1 DEF QueuedOnce
  <2>2. HandAlive'
    BY <1>1, Zenon DEF HandAlive, InHand
  <2>3. QueuedAlive'
    BY <1>1 DEF QueuedAlive, InHand
  <2> QED
    BY <2>1, <2>2, <2>3
<1>3. QueuesTyped'
  BY <1>1 DEF QueuesTyped, Places
<1>4. SetterTyped'
  <2>1. CASE JobThrows
    BY <2>1, SetterFrame DEF JobThrows
  <2>2. CASE DestroyJob
    BY <1>1, <2>2 DEF DestroyJob, SetterTyped
  <2> QED
    BY <2>1, <2>2
<1>5. ObserversTyped'
  BY <1>1 DEF ObserversTyped, JobThrows, DestroyJob
<1>6. Published' /\ UsesLiveJobUnlessThrown'
  <2>1. CASE JobThrows
    BY <1>1, <2>1, HoldersDiffer DEF JobThrows, Published, UsesLiveJobUnlessThrown
  <2>2. CASE DestroyJob
    <3>1. queue_mutex_ = "worker" /\ queue_mutex_' = None /\ thrown' = thrown /\ current_job_ = None
      BY <2>2 DEF DestroyJob, Published
    <3>2. \A o \in Observers : observer[o].at # "use"
      BY <3>1, HoldersDiffer DEF Published
    <3>3. current_job_ # current_job
      BY <1>1, <3>1, NullIsNoObject DEF HandAlive, QueuesTyped
    <3>4. current_job_ \notin destroyed' \ thrown
      BY <1>1, <3>1, <3>3 DEF Published
    <3> QED
      BY <1>1, <3>1, <3>2, <3>4, HoldersDiffer DEF Published, UsesLiveJobUnlessThrown
  <2> QED
    BY <2>1, <2>2
<1> QED
  BY <1>2, <1>3, <1>4, <1>5, <1>6

\* The other steps of the worker move no job.
LEMMA WorkerMovesPreserve ==
    ASSUME WorkerInv, CopyQueue \/ NoJob \/ ClearCurrent \/ \E result \in {"ok", "error"} : JobReturns(result)
    PROVE  WorkerInv'
<1> USE DEF WorkerInv
<1>1. /\ UNCHANGED <<pending, enqueued, destroyed, current_job, observer, thrown, job_queue_, setter>>
      /\ InHand' = InHand
  BY DEF CopyQueue, NoJob, ClearCurrent, JobReturns, queueVars, workerVars, InHand
<1>2. QueuedOnce' /\ QueuedAlive' /\ HandAlive'
  BY <1>1 DEF QueuedOnce, QueuedAlive, HandAlive
<1>3. CASE CopyQueue
  <2>1. QueuesTyped'
    BY <1>1, <1>3 DEF CopyQueue, QueuesTyped, SetterTyped, Places
  <2>2. Published' /\ UsesLiveJobUnlessThrown'
    BY <1>1, <1>3 DEF CopyQueue, Published, UsesLiveJobUnlessThrown
  <2> QED
    BY <1>1, <1>2, <1>3, <2>1, <2>2, SetterFrame, ObserversFrame DEF CopyQueue
<1>4. CASE NoJob
  <2>1. QueuesTyped'
    BY <1>1, <1>4 DEF NoJob, QueuesTyped, Places
  <2>2. Published' /\ UsesLiveJobUnlessThrown'
    BY <1>1, <1>4 DEF NoJob, Published, UsesLiveJobUnlessThrown
  <2> QED
    BY <1>1, <1>2, <1>4, <2>1, <2>2, SetterFrame, ObserversFrame DEF NoJob
<1>5. CASE ClearCurrent
  <2>1. QueuesTyped'
    BY <1>1, <1>5 DEF ClearCurrent, QueuesTyped, workerVars
  <2>2. ObserversTyped'
    BY <1>1, <1>5 DEF ClearCurrent, ObserversTyped
  <2>3. None \notin destroyed
    <3>1. \A d \in 1..enqueued : d \in Nat
      BY DEF QueuesTyped
    <3> QED
      BY <3>1, NullIsNoObject, Zenon DEF HandAlive
  <2>4. Published' /\ UsesLiveJobUnlessThrown'
    BY <1>1, <1>5, <2>3, HoldersDiffer DEF ClearCurrent, Published, UsesLiveJobUnlessThrown, workerVars
  <2> QED
    BY <1>1, <1>2, <2>1, <2>2, <2>4, SetterFrame
<1>6. ASSUME NEW result \in {"ok", "error"}, JobReturns(result)
      PROVE  WorkerInv'
  <2>1. QueuesTyped'
    BY <1>1, <1>6 DEF JobReturns, QueuesTyped, Places
  <2>2. Published' /\ UsesLiveJobUnlessThrown'
    BY <1>1, <1>6 DEF JobReturns, Published, UsesLiveJobUnlessThrown
  <2> QED
    BY <1>1, <1>2, <1>6, <2>1, <2>2, SetterFrame, ObserversFrame DEF JobReturns
<1> QED
  BY <1>3, <1>4, <1>5, <1>6

\* Stopping and replacing queues touches neither jobs nor pointers.
LEMMA SettingPreserves ==
    ASSUME WorkerInv,
           SwapQueue \/ StopOldQueue \/ \E q \in Queues : StopQueue(q) \/ SetJobQueue(q)
    PROVE  WorkerInv'
<1> USE DEF WorkerInv
<1>1. UNCHANGED <<pending, enqueued, destroyed, worker, local_queue, current_job, current_job_,
                  queue_mutex_, observer, thrown>>
  BY DEF SwapQueue, StopOldQueue, StopQueue, SetJobQueue, queueVars, workerVars
<1>2. QueuesTyped'
  BY <1>1 DEF QueuesTyped
<1>3. SetterTyped'
  <2>1. CASE SwapQueue
    BY <2>1 DEF SwapQueue, SetterTyped, Setting
  <2>2. CASE StopOldQueue
    BY <2>2 DEF StopOldQueue, SetterTyped, NotSetting, Setting
  <2>3. ASSUME NEW q \in Queues, StopQueue(q) PROVE SetterTyped'
    BY <2>3, SetterFrame DEF StopQueue
  <2>4. ASSUME NEW q \in Queues, SetJobQueue(q) PROVE SetterTyped'
    BY <2>4 DEF SetJobQueue, SetterTyped, Setting
  <2> QED
    BY <2>1, <2>2, <2>3, <2>4
<1> QED
  BY <1>1, <1>2, <1>3, JobsFrame, ObserversFrame, PublishedFrame

\* An observer has the pointer only while it holds queue_mutex_.
LEMMA ObserverPreserves ==
    ASSUME WorkerInv, NEW o \in Observers, Look(o) \/ LoadCurrent(o) \/ UseCurrent(o)
    PROVE  WorkerInv'
<1> USE DEF WorkerInv
<1>1. UNCHANGED <<pending, enqueued, destroyed, worker, local_queue, current_job, current_job_,
                  job_queue_, setter, thrown>>
  BY DEF Look, LoadCurrent, UseCurrent, queueVars, workerVars
<1>2. QueuesTyped'
  BY <1>1 DEF QueuesTyped
<1>3. ObserversTyped'
  <2> DEFINE Record == [at : {"idle", "lock", "use"}, ptr : Nat \cup {None}]
  <2>1. NotLooking \in Record /\ Looking("lock", None) \in Record /\ Looking("use", current_job_) \in Record
    BY DEF NotLooking, Looking, QueuesTyped
  <2>2. PICK rec \in Record : observer' = [observer EXCEPT ![o] = rec]
    BY <2>1 DEF Look, LoadCurrent, UseCurrent
  <2>3. queue_mutex_' \in {queue_mutex_, None, o}
    BY DEF Look, LoadCurrent, UseCurrent
  <2> QED
    BY <2>2, <2>3 DEF ObserversTyped
<1>4. /\ \A p \in Observers \ {o} : observer'[p] = observer[p]
      /\ \/ queue_mutex_' = queue_mutex_ /\ observer'[o].at # "use" /\ observer[o].at # "use"
         \/ queue_mutex_ \in {None, o} /\ queue_mutex_' = None /\ observer'[o].at # "use"
         \/ /\ queue_mutex_ = None /\ queue_mutex_' = o
            /\ observer'[o].ptr = current_job_
  BY DEF Look, LoadCurrent, UseCurrent, ObserversTyped, NotLooking, Looking, Published
<1>5. /\ \A p \in Observers : observer'[p].at = "use" => queue_mutex_' = p
      /\ UsesLiveJobUnlessThrown'
  <2> SUFFICES ASSUME NEW p \in Observers, observer'[p].at = "use"
               PROVE  queue_mutex_' = p /\ observer'[p].ptr \notin destroyed \ thrown
    BY <1>1 DEF UsesLiveJobUnlessThrown
  <2>1. CASE p = o
    BY <1>4, <2>1 DEF Published
  <2>2. CASE p # o
    <3>1. observer'[p] = observer[p] /\ queue_mutex_ = p /\ observer[p].ptr \notin destroyed \ thrown
      BY <1>4, <2>2 DEF Published, UsesLiveJobUnlessThrown
    <3>2. queue_mutex_' = queue_mutex_
      BY <1>4, <2>2, <3>1, HoldersDiffer
    <3> QED
      BY <3>1, <3>2
  <2> QED
    BY <2>1, <2>2
<1>6. queue_mutex_' = "worker" <=> queue_mutex_ = "worker"
  BY <1>4, HoldersDiffer
<1>7. Published'
  BY <1>1, <1>5, <1>6 DEF Published
<1> QED
  BY <1>1, <1>2, <1>3, <1>5, <1>7, JobsFrame, SetterFrame

\* Every step of worker, setter, submitter and observers keeps the invariant.
LEMMA NextWorkerInv == WorkerInv /\ [Next]_vars => WorkerInv'
<1> SUFFICES ASSUME WorkerInv, [Next]_vars PROVE WorkerInv'
  OBVIOUS
<1>1. CASE WorkerStep
  BY <1>1, TakeJobPreserves, BeginPreserves, JobEndPreserves, WorkerMovesPreserve DEF WorkerStep
<1>2. CASE SetterStep
  BY <1>2, SettingPreserves DEF SetterStep
<1>3. ASSUME NEW q \in Queues, Enqueue(q) \/ StopQueue(q) \/ SetJobQueue(q)
      PROVE  WorkerInv'
  BY <1>3, EnqueuePreserves, SettingPreserves
<1>4. ASSUME NEW o \in Observers, Look(o) \/ LoadCurrent(o) \/ UseCurrent(o)
      PROVE  WorkerInv'
  BY <1>4, ObserverPreserves
<1>5. CASE UNCHANGED vars
  <2>1. UNCHANGED <<pending, enqueued, destroyed, worker, local_queue, current_job, current_job_,
                    queue_mutex_, observer, thrown, job_queue_, setter>>
    BY <1>5 DEF vars, queueVars, workerVars
  <2>2. QueuesTyped => QueuesTyped'
    BY <2>1 DEF QueuesTyped
  <2> QED
    BY <2>1, <2>2, JobsFrame, SetterFrame, ObserversFrame, PublishedFrame DEF WorkerInv
<1> QED
  BY <1>1, <1>2, <1>3, <1>4, <1>5 DEF Next

\* do_work() destroys a job that returned only under queue_mutex_ and after clearing
\* current_job_, so on_stop_requested and get_current_job_info never use a destroyed job
\* unless its do_work threw; for any number of queues, jobs and observing threads.
THEOREM ObserversUseLiveJobs == Spec => []UsesLiveJobUnlessThrown
<1>1. Spec => []WorkerInv
  BY InitWorkerInv, NextWorkerInv, PTL DEF Spec
<1>2. WorkerInv => UsesLiveJobUnlessThrown
  BY DEF WorkerInv
<1> QED
  BY <1>1, <1>2, PTL

---------------------------------------------------------------------------
(* thread_base.                                                            *)

USE DEF tbVars, threadVars, callerVars, sourceVars, ThreadStates, ThreadPlaces, CallerPlaces

\* The calls of start() and stop() do not overlap: there is one caller.
Serialised == \A c, d \in Callers : c = d

\* The thread can see a stop request: it was made on the source it looks at.
StopVisible == (jthread => stop_source_) /\ stop_requested_

\* A live thread has its stop source (jthread build).
SourceWhileThread == thread # "none" => (jthread => stop_source_)

\* Where the caller is decides what the thread can do.
CallerKnows ==
    \A c \in Callers :
        /\ caller[c] \in {"notify", "join"} => thread # "none" /\ StopVisible
        /\ caller[c] = "join" => thread \notin {"falling", "asleep"}
        /\ caller[c] = "launch" => thread = "none"

LifecycleInv == TbTypeOK /\ SourceWhileThread /\ CallerKnows

\* Every variable of thread_base keeps its type, also with overlapping calls.
LEMMA TypeStep == TbTypeOK /\ [TbNext]_tbVars => TbTypeOK'
<1> SUFFICES ASSUME TbTypeOK, [TbNext]_tbVars PROVE TbTypeOK'
  OBVIOUS
<1> USE DEF TbTypeOK
<1>1. CASE ThreadStep
  BY <1>1, FailureLimit
  DEF ThreadStep, LoopTest, EvaluatePredicate, FallAsleep, CheckAfterWait, WorkReturns, WorkThrows
<1>2. CASE SpuriousWakeup \/ IntervalElapses \/ ChangeMore
  BY <1>2, Zenon DEF SpuriousWakeup, IntervalElapses, ChangeMore
<1>3. ASSUME NEW c \in Callers, Start(c) \/ Stop(c) PROVE TbTypeOK'
  BY <1>3, Zenon DEF Start, Stop, RequestStop
<1>4. ASSUME NEW c \in Callers, CallerStep(c) PROVE TbTypeOK'
  <2>1. CASE Launch(c)
    <3>1. thread' \in ThreadPlaces /\ stop_source_' \in BOOLEAN
      BY <2>1, Zenon DEF Launch
    <3>2. starts' \in 0..MaxStarts
      BY <2>1, StartBound DEF Launch
    <3> QED
      BY <2>1, <3>1, <3>2, Zenon DEF Launch
  <2>2. CASE NotifyAll(c)
    BY <2>2 DEF NotifyAll
  <2>3. CASE Join(c)
    BY <2>3, Zenon DEF Join
  <2> QED
    BY <1>4, <2>1, <2>2, <2>3 DEF CallerStep
<1>5. CASE UNCHANGED tbVars
  BY <1>5
<1> QED
  BY <1>1, <1>2, <1>3, <1>4, <1>5 DEF TbNext

\* A new thread_base has no thread and no caller under way.
LEMMA LifecycleInit == TbInit => LifecycleInv
<1> SUFFICES ASSUME TbInit PROVE LifecycleInv
  OBVIOUS
<1>1. starts \in 0..MaxStarts /\ consecutive_failures_ \in Nat
  BY StartBound DEF TbInit
<1>2. TbTypeOK
  BY <1>1, Zenon DEF TbInit, TbTypeOK
<1>3. SourceWhileThread /\ CallerKnows
  BY DEF TbInit, SourceWhileThread, CallerKnows
<1> QED
  BY <1>2, <1>3 DEF LifecycleInv

\* The steps of the thread: it never sleeps again once a visible stop was requested.
LEMMA ThreadKeepsInv ==
    ASSUME LifecycleInv, ThreadStep \/ SpuriousWakeup \/ IntervalElapses \/ ChangeMore
    PROVE  SourceWhileThread' /\ CallerKnows'
<1> USE DEF LifecycleInv, TbTypeOK, SourceWhileThread, CallerKnows, StopVisible
<1>1. CASE LoopTest
  BY <1>1 DEF LoopTest
<1>2. CASE EvaluatePredicate
  BY <1>2 DEF EvaluatePredicate, WaitPredicate
<1>3. CASE FallAsleep
  BY <1>3 DEF FallAsleep
<1>4. CASE CheckAfterWait
  BY <1>4 DEF CheckAfterWait
<1>5. CASE WorkReturns
  BY <1>5 DEF WorkReturns
<1>6. CASE WorkThrows
  BY <1>6 DEF WorkThrows
<1>7. CASE SpuriousWakeup \/ IntervalElapses \/ ChangeMore
  BY <1>7 DEF SpuriousWakeup, IntervalElapses, ChangeMore
<1> QED
  BY <1>1, <1>2, <1>3, <1>4, <1>5, <1>6, <1>7 DEF ThreadStep

\* The steps of the one caller.
LEMMA CallerKeepsInv ==
    ASSUME LifecycleInv, Serialised, NEW c \in Callers, Start(c) \/ Stop(c) \/ CallerStep(c)
    PROVE  SourceWhileThread' /\ CallerKnows'
<1> USE DEF LifecycleInv, TbTypeOK, SourceWhileThread, CallerKnows, StopVisible, Serialised
<1>1. CASE Start(c)
  BY <1>1, Zenon DEF Start, RequestStop, has_active_source
<1>2. CASE Stop(c)
  BY <1>2 DEF Stop, RequestStop
<1>3. CASE Launch(c)
  BY <1>3, Zenon DEF Launch
<1>4. CASE NotifyAll(c)
  BY <1>4 DEF NotifyAll, MutexHeld
<1>5. CASE Join(c)
  BY <1>5 DEF Join
<1> QED
  BY <1>1, <1>2, <1>3, <1>4, <1>5 DEF CallerStep

\* Every step of the thread and of the one caller keeps the invariant.
LEMMA LifecycleStep == Serialised /\ LifecycleInv /\ [TbNext]_tbVars => LifecycleInv'
<1> SUFFICES ASSUME Serialised, LifecycleInv, [TbNext]_tbVars PROVE LifecycleInv'
  OBVIOUS
<1>1. TbTypeOK'
  BY TypeStep DEF LifecycleInv
<1>2. CASE ThreadStep \/ SpuriousWakeup \/ IntervalElapses \/ ChangeMore
  BY <1>1, <1>2, ThreadKeepsInv DEF LifecycleInv
<1>3. ASSUME NEW c \in Callers, Start(c) \/ Stop(c) \/ CallerStep(c) PROVE LifecycleInv'
  BY <1>1, <1>3, CallerKeepsInv DEF LifecycleInv
<1>4. CASE UNCHANGED tbVars
  BY <1>1, <1>4 DEF LifecycleInv, SourceWhileThread, CallerKnows, StopVisible
<1> QED
  BY <1>2, <1>3, <1>4 DEF TbNext

\* The inductive invariant of thread_base under serialised calls.
THEOREM Lifecycle == ASSUME Serialised PROVE TbSpec => []LifecycleInv
<1>1. LifecycleInv /\ [TbNext]_tbVars => LifecycleInv'
  BY LifecycleStep
<1> QED
  BY <1>1, LifecycleInit, PTL DEF TbSpec

\* The wake-up of stop() is never lost: no thread sleeps while stop() joins it.
THEOREM StopWakeupArrives == ASSUME Serialised PROVE TbSpec => []StopNotLost
<1>1. LifecycleInv => StopNotLost
  BY DEF LifecycleInv, CallerKnows, StopNotLost
<1> QED
  BY <1>1, Lifecycle, PTL

\* stop() never joins, or notifies for, a thread that is gone.
THEOREM StopHasItsThread == ASSUME Serialised PROVE TbSpec => []JoinTargetExists
<1>1. LifecycleInv => JoinTargetExists
  BY DEF LifecycleInv, CallerKnows, JoinTargetExists
<1> QED
  BY <1>1, Lifecycle, PTL

\* A thread is spawned only after the previous one was joined.
THEOREM OneThreadAtATime == ASSUME Serialised PROVE TbSpec => NoSecondThread
<1>1. LifecycleInv /\ [TbNext]_tbVars => [starts' > starts => thread = "none"]_tbVars
  <2> SUFFICES ASSUME LifecycleInv, [TbNext]_tbVars, starts' > starts PROVE thread = "none"
    OBVIOUS
  <2>1. starts \in Int /\ starts' # starts
    BY DEF LifecycleInv, TbTypeOK
  <2>2. PICK c \in Callers : Launch(c)
    BY <2>1, Zenon DEF TbNext, ThreadStep, LoopTest, EvaluatePredicate, FallAsleep, CheckAfterWait,
       WorkReturns, WorkThrows, SpuriousWakeup, IntervalElapses, ChangeMore,
       Start, Stop, RequestStop, CallerStep, NotifyAll, Join
  <2> QED
    BY <2>2 DEF Launch, LifecycleInv, CallerKnows
<1> QED
  BY <1>1, Lifecycle, PTL DEF TbSpec, NoSecondThread
===============================================================================
