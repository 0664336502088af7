---------------------------- MODULE JobQueueProofs ----------------------------
(***************************************************************************)
(* Proofs about job_queue for any number of producers, consumers and jobs, *)
(* any batch size and any set of capacities: its invariants, and that it   *)
(* implements JobFifo.                                                     *)
(***************************************************************************)
EXTENDS JobQueue, SequenceTheorems, TLAPS

USE DEF qvars, ConsumerPlaces

\* Adding a block of jobs at the back adds their number to the length.
LEMMA AppendBlock ==
    ASSUME NEW s \in Seq(Nat), NEW t \in Seq(Nat)
    PROVE  s \o t \in Seq(Nat) /\ Len(s \o t) = Len(s) + Len(t)
BY ConcatProperties

\* The record of a thread that is not inside a call is well typed.
LEMMA NoCallTyped == NoCall \in [batch : BOOLEAN, jobs : Seq(Nat)]
BY EmptySeq DEF NoCall

\* Taking the first n jobs splits the deque into two sequences of jobs.
LEMMA SplitFront ==
    ASSUME NEW s \in Seq(Nat), NEW n \in 0..Len(s)
    PROVE  /\ SubSeq(s, 1, n) \in Seq(Nat) /\ Len(SubSeq(s, 1, n)) = n
           /\ SubSeq(s, n + 1, Len(s)) \in Seq(Nat)
           /\ Len(SubSeq(s, n + 1, Len(s))) = Len(s) - n
<1>1. Len(s) \in Nat
  BY LenProperties
<1>2. \A i \in 1..Len(s) : s[i] \in Nat
  BY ElementOfSeq
<1>3. SubSeq(s, 1, n) \in Seq(Nat) /\ Len(SubSeq(s, 1, n)) = n
  BY <1>1, <1>2, SubSeqProperties
<1>4. /\ SubSeq(s, n + 1, Len(s)) \in Seq(Nat)
      /\ Len(SubSeq(s, n + 1, Len(s))) = Len(s) - n
  BY <1>1, <1>2, SubSeqProperties
<1> QED
  BY <1>3, <1>4

---------------------------------------------------------------------------
(* The inductive invariant: the types, the size counter and the two facts  *)
(* about sleeping consumers.                                               *)

QueueInv == TypeOK /\ SizeExact /\ StopReleasesWaiters /\ NoSleepOverWork

\* A new queue is empty and running, and nobody sleeps in it.
LEMMA InitQueueInv == Init => QueueInv
<1> SUFFICES ASSUME Init PROVE QueueInv
  OBVIOUS
<1>1. TypeOK
  <2>1. <<>> \in Seq(Nat)
    BY EmptySeq
  <2>2. call \in [Producers -> [batch : BOOLEAN, jobs : Seq(Nat)]]
    BY NoCallTyped DEF Init
  <2>3. at \in [Consumers -> ConsumerPlaces]
    BY DEF Init
  <2>4. brought \in 0..MaxJobs /\ atomic_size_ \in Nat
    BY SizesAreNat DEF Init
  <2> QED
    BY <2>1, <2>2, <2>3, <2>4, Zenon DEF Init, TypeOK
<1>2. SizeExact
  BY DEF Init, SizeExact
<1>3. StopReleasesWaiters /\ NoSleepOverWork
  BY DEF Init, StopReleasesWaiters, NoSleepOverWork
<1> QED
  BY <1>1, <1>2, <1>3 DEF QueueInv

\* Waking consumers keeps their places well typed and puts none to sleep.
LEMMA NotifyWakes ==
    ASSUME at \in [Consumers -> ConsumerPlaces], NotifyOne \/ NotifyAll
    PROVE  /\ at' \in [Consumers -> ConsumerPlaces]
           /\ Waiting' \subseteq Waiting
           /\ Waiting' # Consumers
<1>1. CASE NotifyOne
  BY <1>1, SomeConsumer DEF NotifyOne, Waiting
<1>2. CASE NotifyAll
  BY <1>2, SomeConsumer DEF NotifyAll, Waiting
<1> QED
  BY <1>1, <1>2

\* notify_all leaves nobody asleep.
LEMMA NotifyAllEmpties ==
    ASSUME at \in [Consumers -> ConsumerPlaces], NotifyAll
    PROVE  Waiting' = {}
BY DEF NotifyAll, Waiting

\* A call that passed its stop_ test only adds a pending call.
LEMMA CallBringsPreserves ==
    ASSUME QueueInv, NEW p \in Producers, NEW n \in Nat, NEW b \in BOOLEAN, CallBrings(p, n, b)
    PROVE  QueueInv'
<1>1. [i \in 1..n |-> brought + i] \in Seq(Nat)
  <2>1. \A i \in 1..n : brought + i \in Nat
    BY SizesAreNat DEF QueueInv, TypeOK
  <2> QED
    BY <2>1
<1>2. TypeOK'
  BY <1>1, SizesAreNat DEF QueueInv, TypeOK, CallBrings
<1> QED
  BY <1>2 DEF QueueInv, SizeExact, StopReleasesWaiters, NoSleepOverWork, Waiting, CallBrings

\* The push of a whole call: one notification, which wakes a sleeper if all sleep.
LEMMA PushPreserves ==
    ASSUME QueueInv, NEW p \in Producers, Push(p)
    PROVE  QueueInv'
<1> DEFINE jobs == call[p].jobs
<1>1. jobs \in Seq(Nat)
  BY DEF QueueInv, TypeOK
<1>2. queue_' \in Seq(Nat) /\ Len(queue_') = Len(queue_) + Len(jobs)
  BY <1>1, AppendBlock DEF QueueInv, TypeOK, Push
<1>3. at' \in [Consumers -> ConsumerPlaces] /\ Waiting' \subseteq Waiting
  BY NotifyWakes DEF QueueInv, TypeOK, Push, Waiting
<1>4. SizeExact'
  BY <1>2 DEF QueueInv, SizeExact, Push
<1>5. TypeOK'
  <2>1. atomic_size_' \in Nat
    BY <1>1, LenProperties DEF QueueInv, TypeOK, Push
  <2>2. call' \in [Producers -> [batch : BOOLEAN, jobs : Seq(Nat)]]
    BY NoCallTyped DEF QueueInv, TypeOK, Push
  <2> QED
    BY <1>2, <1>3, <2>1, <2>2, Zenon DEF QueueInv, TypeOK, Push
<1>6. StopReleasesWaiters'
  BY <1>3 DEF QueueInv, StopReleasesWaiters, Push
<1>7. NoSleepOverWork'
  BY NotifyWakes DEF QueueInv, TypeOK, NoSleepOverWork, Push
<1> QED
  BY <1>4, <1>5, <1>6, <1>7 DEF QueueInv

\* Removing from the front keeps the counter exact and jobs that stay were there.
LEMMA RemoveKeepsSize ==
    ASSUME QueueInv, NEW n \in 0..Len(queue_), Remove(n)
    PROVE  /\ queue_' \in Seq(Nat) /\ removed' \in Seq(Nat)
           /\ atomic_size_' \in Nat /\ SizeExact'
           /\ queue_' # <<>> => queue_ # <<>>
<1>1. /\ SubSeq(queue_, 1, n) \in Seq(Nat)
      /\ SubSeq(queue_, n + 1, Len(queue_)) \in Seq(Nat)
      /\ Len(SubSeq(queue_, n + 1, Len(queue_))) = Len(queue_) - n
  BY SplitFront DEF QueueInv, TypeOK
<1>2. Len(queue_) \in Nat
  BY LenProperties DEF QueueInv, TypeOK
<1>3. SizeExact' /\ atomic_size_' \in Nat
  BY <1>1, <1>2 DEF QueueInv, SizeExact, Remove
<1>4. queue_' \in Seq(Nat) /\ removed' \in Seq(Nat)
  BY <1>1, AppendBlock DEF QueueInv, TypeOK, Remove
<1>5. queue_' # <<>> => queue_ # <<>>
  BY <1>1, <1>2, EmptySeq DEF Remove
<1> QED
  BY <1>3, <1>4, <1>5

\* The steps of a consumer inside dequeue and try_dequeue.
LEMMA ConsumingPreserves ==
    ASSUME QueueInv, NEW c \in Consumers, Consuming(c)
    PROVE  QueueInv'
<1> USE DEF QueueInv, TypeOK, SizeExact, StopReleasesWaiters, NoSleepOverWork, Waiting
<1>1. CASE Dequeue(c)
  BY <1>1 DEF Dequeue
<1>2. CASE DequeueJob(c)
  <2>1. 1 \in 0..Len(queue_)
    BY <1>2, EmptySeq DEF DequeueJob
  <2>2. /\ queue_' \in Seq(Nat) /\ removed' \in Seq(Nat)
        /\ atomic_size_' \in Nat /\ SizeExact'
        /\ queue_' # <<>> => queue_ # <<>>
    BY <1>2, <2>1, RemoveKeepsSize DEF DequeueJob
  <2> QED
    BY <1>2, <2>2 DEF DequeueJob
<1>3. CASE DequeueError(c)
  BY <1>3 DEF DequeueError
<1>4. CASE DequeueWait(c)
  BY <1>4 DEF DequeueWait
<1>5. CASE TryDequeue(c)
  BY <1>5 DEF TryDequeue
<1>6. CASE TryDequeueLocked(c) /\ queue_ = <<>>
  BY <1>6 DEF TryDequeueLocked
<1>7. CASE TryDequeueLocked(c) /\ queue_ # <<>>
  <2>1. 1 \in 0..Len(queue_)
    BY <1>7, EmptySeq
  <2>2. /\ queue_' \in Seq(Nat) /\ removed' \in Seq(Nat)
        /\ atomic_size_' \in Nat /\ SizeExact'
        /\ queue_' # <<>> => queue_ # <<>>
    BY <1>7, <2>1, RemoveKeepsSize DEF TryDequeueLocked
  <2> QED
    BY <1>7, <2>2 DEF TryDequeueLocked
<1>8. CASE SpuriousWakeup(c)
  BY <1>8 DEF SpuriousWakeup
<1> QED
  BY <1>1, <1>2, <1>3, <1>4, <1>5, <1>6, <1>7, <1>8 DEF Consuming

\* dequeue_batch and clear.
LEMMA TakeAllPreserves == QueueInv /\ TakeAll => QueueInv'
<1> SUFFICES ASSUME QueueInv, TakeAll PROVE QueueInv'
  OBVIOUS
<1>1. at' \in [Consumers -> ConsumerPlaces] /\ Waiting' = {}
  BY NotifyWakes, NotifyAllEmpties DEF QueueInv, TypeOK, TakeAll
<1>2. queue_' \in Seq(Nat) /\ removed' \in Seq(Nat) /\ SizeExact'
  BY EmptySeq, AppendBlock DEF QueueInv, TypeOK, SizeExact, TakeAll
<1>3. TypeOK'
  BY <1>1, <1>2 DEF QueueInv, TypeOK, TakeAll
<1> QED
  BY <1>1, <1>2, <1>3 DEF QueueInv, StopReleasesWaiters, NoSleepOverWork, TakeAll

\* dequeue_batch_limited takes a prefix of the queue.
LEMMA DequeueBatchLimitedPreserves ==
    ASSUME QueueInv, NEW n \in Nat, DequeueBatchLimited(n)
    PROVE  QueueInv'
<1> DEFINE count == IF n < Len(queue_) THEN n ELSE Len(queue_)
<1>1. count \in 0..Len(queue_)
  BY LenProperties DEF QueueInv, TypeOK
<1>2. Remove(count)
  BY DEF DequeueBatchLimited
<1> HIDE DEF count
<1>3. /\ queue_' \in Seq(Nat) /\ removed' \in Seq(Nat)
      /\ atomic_size_' \in Nat /\ SizeExact'
      /\ queue_' # <<>> => queue_ # <<>>
  BY <1>1, <1>2, RemoveKeepsSize
<1>4. at' \in [Consumers -> ConsumerPlaces] /\ (at' = at \/ Waiting' = {})
  BY NotifyWakes, NotifyAllEmpties DEF QueueInv, TypeOK, DequeueBatchLimited
<1>5. UNCHANGED <<stop_, notify_, max_size_, call, brought, muted>>
  BY DEF DequeueBatchLimited
<1>6. TypeOK'
  BY <1>3, <1>4, <1>5 DEF QueueInv, TypeOK
<1> QED
  BY <1>3, <1>4, <1>5, <1>6, SomeConsumer DEF QueueInv, StopReleasesWaiters, NoSleepOverWork, Waiting

\* stop() sets the flag and wakes everybody.
LEMMA StopPreserves == QueueInv /\ Stop => QueueInv'
<1> SUFFICES ASSUME QueueInv, Stop PROVE QueueInv'
  OBVIOUS
<1>1. at' \in [Consumers -> ConsumerPlaces] /\ Waiting' = {}
  BY NotifyWakes, NotifyAllEmpties DEF QueueInv, TypeOK, Stop
<1> QED
  BY <1>1, SomeConsumer
  DEF QueueInv, TypeOK, SizeExact, StopReleasesWaiters, NoSleepOverWork, Stop

\* Every step of producers and consumers keeps the invariant.
LEMMA NextQueueInv == QueueInv /\ [Next]_qvars => QueueInv'
<1> SUFFICES ASSUME QueueInv, [Next]_qvars PROVE QueueInv'
  OBVIOUS
<1>1. ASSUME NEW p \in Producers, Producing(p) PROVE QueueInv'
  <2>1. CASE Enqueue(p)
    BY <2>1, CallBringsPreserves, Zenon DEF Enqueue
  <2>2. CASE EnqueueBatch(p)
    <3>1. PICK n \in 1..MaxBatch : CallBrings(p, n, TRUE)
      BY <2>2, Zenon DEF EnqueueBatch
    <3>2. n \in Nat
      BY SizesAreNat
    <3> QED
      BY <3>1, <3>2, CallBringsPreserves, Zenon
  <2>3. CASE Push(p)
    BY <2>3, PushPreserves
  <2>4. CASE PushRefused(p)
    <3>1. call' \in [Producers -> [batch : BOOLEAN, jobs : Seq(Nat)]]
      BY <2>4, NoCallTyped DEF QueueInv, TypeOK, PushRefused
    <3> QED
      BY <2>4, <3>1
      DEF QueueInv, TypeOK, SizeExact, StopReleasesWaiters, NoSleepOverWork, Waiting, PushRefused
  <2> QED
    BY <1>1, <2>1, <2>2, <2>3, <2>4 DEF Producing
<1>2. ASSUME NEW c \in Consumers, Consuming(c) PROVE QueueInv'
  BY <1>2, ConsumingPreserves
<1>3. CASE Controlling
  <2>1. CASE DequeueBatch \/ Clear
    BY <2>1, TakeAllPreserves DEF DequeueBatch, Clear
  <2>2. CASE Stop
    BY <2>2, StopPreserves
  <2>3. ASSUME NEW n \in 0..MaxBatch, DequeueBatchLimited(n) PROVE QueueInv'
    BY <2>3, SizesAreNat, DequeueBatchLimitedPreserves
  <2>4. ASSUME NEW m \in Limits, SetMaxSize(m) PROVE QueueInv'
    BY <2>4
    DEF QueueInv, TypeOK, SizeExact, StopReleasesWaiters, NoSleepOverWork, Waiting, SetMaxSize
  <2>5. ASSUME NEW b \in BOOLEAN, SetNotify(b) PROVE QueueInv'
    BY <2>5
    DEF QueueInv, TypeOK, SizeExact, StopReleasesWaiters, NoSleepOverWork, Waiting, SetNotify
  <2> QED
    BY <1>3, <2>1, <2>2, <2>3, <2>4, <2>5 DEF Controlling
<1>4. CASE UNCHANGED qvars
  BY <1>4 DEF QueueInv, TypeOK, SizeExact, StopReleasesWaiters, NoSleepOverWork, Waiting
<1> QED
  BY <1>1, <1>2, <1>3, <1>4 DEF Next

\* job_queue keeps its types, an exact size(), and its sleeping consumers right:
\* the inductive invariant of the queue.
THEOREM QueueInvariant == Spec => []QueueInv
BY InitQueueInv, NextQueueInv, PTL DEF Spec

\* Every variable of the queue keeps its type.
THEOREM TypeCorrect == Spec => []TypeOK
<1>1. QueueInv => TypeOK
  BY DEF QueueInv
<1> QED
  BY <1>1, QueueInvariant, PTL

\* size(), empty() and is_full() report the true length of the deque.
THEOREM SizeIsExact == Spec => []SizeExact
<1>1. QueueInv => SizeExact
  BY DEF QueueInv
<1> QED
  BY <1>1, QueueInvariant, PTL

\* No consumer sleeps on condition_ once stop() has run.
THEOREM StopLeavesNoWaiter == Spec => []StopReleasesWaiters
<1>1. QueueInv => StopReleasesWaiters
  BY DEF QueueInv
<1> QED
  BY <1>1, QueueInvariant, PTL

\* Jobs never lie in the queue while all consumers sleep, if pushes notify:
\* the single notify_one of enqueue_batch is enough for any batch size.
THEOREM NoSleepingOverWork == Spec => []NoSleepOverWork
<1>1. QueueInv => NoSleepOverWork
  BY DEF QueueInv
<1> QED
  BY <1>1, QueueInvariant, PTL

---------------------------------------------------------------------------
(* job_queue implements JobFifo.                                            *)

JobsIn(s) == {s[i] : i \in DOMAIN s}

Seen == JobsIn(queue_) \cup JobsIn(removed)

Calling == {p \in Producers : call[p] # NoCall}

\* The jobs of a call that is past its test of stop_ are new to the queue and to every
\* other call, and the call brings between one and MaxBatch of them.
FreshCalls ==
    /\ Seen \subseteq 1..brought
    /\ \A p \in Calling :
          /\ Len(call[p].jobs) \in 1..MaxBatch
          /\ \A i, k \in DOMAIN call[p].jobs : call[p].jobs[i] = call[p].jobs[k] => i = k
          /\ JobsIn(call[p].jobs) \subseteq (1..brought) \ Seen
    /\ \A p, q \in Calling : p # q => JobsIn(call[p].jobs) \cap JobsIn(call[q].jobs) = {}

---------------------------------------------------------------------------
(* Sequences as sets of jobs.                                               *)

\* The jobs of two blocks are the jobs of the one and of the other.
LEMMA JobsInConcat ==
    ASSUME NEW s \in Seq(Nat), NEW t \in Seq(Nat)
    PROVE  JobsIn(s \o t) = JobsIn(s) \cup JobsIn(t)
<1>1. /\ DOMAIN s = 1..Len(s) /\ DOMAIN t = 1..Len(t) /\ Len(s) \in Nat /\ Len(t) \in Nat
      /\ DOMAIN (s \o t) = 1..(Len(s) + Len(t))
  BY LenProperties, ConcatProperties
<1>2. \A i \in 1..(Len(s) + Len(t)) : (s \o t)[i] = IF i <= Len(s) THEN s[i] ELSE t[i - Len(s)]
  BY ConcatProperties
<1>3. ASSUME NEW j \in JobsIn(s \o t) PROVE j \in JobsIn(s) \cup JobsIn(t)
  <2>1. PICK i \in 1..(Len(s) + Len(t)) : j = (s \o t)[i]
    BY <1>1 DEF JobsIn
  <2>2. CASE i <= Len(s)
    BY <1>1, <1>2, <2>1, <2>2 DEF JobsIn
  <2>3. CASE i > Len(s)
    <3>1. i - Len(s) \in 1..Len(t) /\ j = t[i - Len(s)]
      BY <1>1, <1>2, <2>1, <2>3
    <3> QED
      BY <1>1, <3>1 DEF JobsIn
  <2> QED
    BY <1>1, <2>2, <2>3
<1>4. ASSUME NEW j \in JobsIn(s) PROVE j \in JobsIn(s \o t)
  <2>1. PICK i \in 1..Len(s) : j = s[i]
    BY <1>1 DEF JobsIn
  <2>2. i \in 1..(Len(s) + Len(t)) /\ j = (s \o t)[i]
    BY <1>1, <1>2, <2>1
  <2> QED
    BY <1>1, <2>2 DEF JobsIn
<1>5. ASSUME NEW j \in JobsIn(t) PROVE j \in JobsIn(s \o t)
  <2>1. PICK i \in 1..Len(t) : j = t[i]
    BY <1>1 DEF JobsIn
  <2>2. i + Len(s) \in 1..(Len(s) + Len(t)) /\ (s \o t)[i + Len(s)] = t[i + Len(s) - Len(s)]
    BY <1>1, <1>2
  <2>3. j = (s \o t)[i + Len(s)]
    BY <1>1, <2>1, <2>2
  <2> QED
    BY <1>1, <2>2, <2>3, Zenon DEF JobsIn
<1> QED
  BY <1>3, <1>4, <1>5

\* Splitting a block at n splits its jobs.
LEMMA JobsInSplit ==
    ASSUME NEW s \in Seq(Nat), NEW n \in 0..Len(s)
    PROVE  JobsIn(SubSeq(s, 1, n)) \cup JobsIn(SubSeq(s, n + 1, Len(s))) = JobsIn(s)
<1>1. Len(s) \in Nat
  BY LenProperties
<1>2. SubSeq(s, 1, n) \o SubSeq(s, n + 1, Len(s)) = SubSeq(s, 1, Len(s))
  <2>1. 1 \in 1..Len(s) + 1 /\ n \in 1 - 1 .. Len(s) /\ Len(s) \in n..Len(s)
    BY <1>1
  <2> QED
    BY <2>1, ConcatAdjacentSubSeq, Zenon
<1>3. SubSeq(s, 1, Len(s)) = s
  BY SubSeqFull
<1>4. SubSeq(s, 1, n) \in Seq(Nat) /\ SubSeq(s, n + 1, Len(s)) \in Seq(Nat)
  BY SplitFront
<1>5. JobsIn(SubSeq(s, 1, n) \o SubSeq(s, n + 1, Len(s)))
         = JobsIn(SubSeq(s, 1, n)) \cup JobsIn(SubSeq(s, n + 1, Len(s)))
  BY <1>4, JobsInConcat, Zenon
<1> QED
  BY <1>2, <1>3, <1>5, Zenon

\* Taking off the added block leaves the old one.
LEMMA OldBlockStays ==
    ASSUME NEW s \in Seq(Nat), NEW t \in Seq(Nat)
    PROVE  SubSeq(s \o t, 1, Len(s)) = s
<1>1. CASE s = <<>>
  <2>1. Len(s) = 0
    BY <1>1, EmptySeq
  <2> QED
    BY <1>1, <2>1, SubSeqEmpty
<1>2. CASE s # <<>>
  <2>1. Len(s) \in 1..Len(s)
    BY <1>2, EmptySeq
  <2>2. 1 \in 1..Len(s)
    BY <2>1, LenProperties
  <2>3. SubSeq(s \o t, 1, Len(s)) = SubSeq(s, 1, Len(s))
    BY <2>1, <2>2, SubSeqOfConcat1
  <2> QED
    BY <2>3, SubSeqFull
<1> QED
  BY <1>1, <1>2

---------------------------------------------------------------------------
(* The critical sections that take jobs out.                                *)

\* Nothing happens to the line, or jobs leave its front; no job is new.
Taking ==
    /\ Fifo!Take \/ UNCHANGED <<queue_, removed>>
    /\ Seen' = Seen

\* The first n jobs leave in order.
LEMMA RemoveTakes ==
    ASSUME QueueInv, NEW n \in 0..Len(queue_), Remove(n)
    PROVE  Taking
<1> DEFINE front == SubSeq(queue_, 1, n)
           rest == SubSeq(queue_, n + 1, Len(queue_))
<1>1. queue_ \in Seq(Nat) /\ removed \in Seq(Nat) /\ Len(queue_) \in Nat
  BY LenProperties DEF QueueInv, TypeOK
<1>2. front \in Seq(Nat) /\ rest \in Seq(Nat)
  BY <1>1, SplitFront
<1>3. queue_' = rest /\ removed' = removed \o front
  BY DEF Remove
<1>4. JobsIn(front) \cup JobsIn(rest) = JobsIn(queue_)
  BY <1>1, JobsInSplit
<1>5. JobsIn(removed \o front) = JobsIn(removed) \cup JobsIn(front)
  BY <1>1, <1>2, JobsInConcat, Zenon
<1>6. Seen' = JobsIn(rest) \cup JobsIn(removed \o front)
  BY <1>3 DEF Seen, JobsIn
<1>7. Seen' = Seen
  BY <1>4, <1>5, <1>6 DEF Seen
<1>8. CASE n = 0
  <2>1. front = <<>>
    BY <1>8, SubSeqEmpty
  <2>2. rest = queue_
    BY <1>1, <1>8, SubSeqFull
  <2>3. removed \o <<>> = removed
    BY <1>1, ConcatEmptySeq
  <2> QED
    BY <1>3, <1>7, <2>1, <2>2, <2>3, Zenon DEF Taking
<1>9. CASE n # 0
  <2>1. n \in 1..Len(queue_)
    BY <1>1, <1>9
  <2>2. Fifo!Take
    BY <1>3, <2>1, Zenon DEF Fifo!Take
  <2> QED
    BY <1>7, <2>2 DEF Taking
<1> QED
  BY <1>8, <1>9

\* dequeue_batch and clear take the whole line.
LEMMA TakeAllTakes ==
    ASSUME QueueInv, TakeAll
    PROVE  Taking
<1>1. queue_ \in Seq(Nat) /\ removed \in Seq(Nat) /\ Len(queue_) \in Nat
  BY LenProperties DEF QueueInv, TypeOK
<1>2. Len(queue_) \in 0..Len(queue_)
  BY <1>1
<1>3. SubSeq(queue_, 1, Len(queue_)) = queue_
  BY <1>1, SubSeqFull
<1>4. SubSeq(queue_, Len(queue_) + 1, Len(queue_)) = <<>>
  BY <1>1, SubSeqEmpty
<1>5. atomic_size_' = atomic_size_ - Len(queue_)
  BY <1>1 DEF TakeAll, QueueInv, SizeExact
<1>6. Remove(Len(queue_))
  BY <1>3, <1>4, <1>5 DEF TakeAll, Remove
<1> QED
  BY <1>2, <1>6, RemoveTakes

\* What a step does to the line and to the calls.
LEMMA StepKinds ==
    ASSUME QueueInv, [Next]_qvars
    PROVE  \/ \E p \in Producers : \E n \in 1..MaxBatch, b \in BOOLEAN : CallBrings(p, n, b)
           \/ \E p \in Producers : Push(p) \/ PushRefused(p)
           \/ Taking /\ UNCHANGED <<call, brought>>
<1> USE DEF QueueInv, TypeOK
<1>0. ASSUME UNCHANGED <<queue_, removed>> PROVE Taking
  BY <1>0 DEF Taking, Seen, JobsIn
<1>1. ASSUME NEW p \in Producers, Producing(p)
      PROVE  \/ \E n \in 1..MaxBatch, b \in BOOLEAN : CallBrings(p, n, b)
             \/ Push(p) \/ PushRefused(p)
  <2>1. 1 \in 1..MaxBatch
    BY SizesAreNat
  <2> QED
    BY <1>1, <2>1, Zenon DEF Producing, Enqueue, EnqueueBatch
<1>2. ASSUME NEW c \in Consumers, Consuming(c) PROVE Taking /\ UNCHANGED <<call, brought>>
  <2>1. queue_ # <<>> => 1 \in 0..Len(queue_)
    BY EmptySeq
  <2>2. CASE DequeueJob(c)
    BY <2>1, <2>2, RemoveTakes DEF DequeueJob
  <2>3. CASE TryDequeueLocked(c)
    BY <1>0, <2>1, <2>3, RemoveTakes DEF TryDequeueLocked
  <2>4. CASE Dequeue(c) \/ DequeueError(c) \/ DequeueWait(c) \/ TryDequeue(c) \/ SpuriousWakeup(c)
    BY <1>0, <2>4 DEF Dequeue, DequeueError, DequeueWait, TryDequeue, SpuriousWakeup
  <2> QED
    BY <1>2, <2>2, <2>3, <2>4 DEF Consuming
<1>3. CASE Controlling
  <2>1. CASE DequeueBatch \/ Clear
    BY <2>1, TakeAllTakes DEF DequeueBatch, Clear, TakeAll
  <2>2. CASE Stop \/ (\E m \in Limits : SetMaxSize(m)) \/ (\E b \in BOOLEAN : SetNotify(b))
    BY <1>0, <2>2 DEF Stop, SetMaxSize, SetNotify
  <2>3. ASSUME NEW n \in 0..MaxBatch, DequeueBatchLimited(n) PROVE Taking /\ UNCHANGED <<call, brought>>
    <3> DEFINE count == IF n < Len(queue_) THEN n ELSE Len(queue_)
    <3>1. count \in 0..Len(queue_)
      BY LenProperties, SizesAreNat
    <3>2. Remove(count) /\ UNCHANGED <<call, brought>>
      BY <2>3 DEF DequeueBatchLimited
    <3> HIDE DEF count
    <3> QED
      BY <3>1, <3>2, RemoveTakes
  <2> QED
    BY <1>3, <2>1, <2>2, <2>3 DEF Controlling
<1>4. CASE UNCHANGED qvars
  BY <1>0, <1>4 DEF qvars
<1> QED
  BY <1>1, <1>2, <1>3, <1>4 DEF Next

---------------------------------------------------------------------------
(* The jobs of a pending call are new.                                      *)

\* No call is pending at the start.
LEMMA FreshInit == Init => FreshCalls
<1> SUFFICES ASSUME Init PROVE FreshCalls
  OBVIOUS
<1>1. Calling = {}
  BY DEF Init, Calling
<1>2. Seen = {}
  BY DEF Init, Seen, JobsIn
<1> QED
  BY <1>1, <1>2 DEF FreshCalls

\* A call that enters brings the jobs numbered past every job there is.
LEMMA CallBringsFresh ==
    ASSUME QueueInv, FreshCalls, NEW p \in Producers, NEW n \in 1..MaxBatch,
           NEW b \in BOOLEAN, CallBrings(p, n, b)
    PROVE  FreshCalls'
<1> DEFINE new == [i \in 1..n |-> brought + i]
<1>1. brought \in Nat /\ n \in Nat /\ n >= 1
  BY SizesAreNat DEF QueueInv, TypeOK
<1>2. /\ new \in Seq(Nat) /\ Len(new) = n /\ DOMAIN new = 1..n
      /\ \A i, k \in DOMAIN new : new[i] = new[k] => i = k
  BY <1>1
<1>3. JobsIn(new) \subseteq (1..brought + n) \ (1..brought)
  BY <1>1 DEF JobsIn
<1>4. brought' = brought + n /\ Seen' = Seen
  BY DEF CallBrings, Seen, JobsIn
<1>5. /\ call'[p].jobs = new
      /\ \A q \in Producers \ {p} : call'[q] = call[q]
  BY DEF CallBrings, QueueInv, TypeOK
<1>6. \A q \in Calling' : q = p \/ (q \in Calling /\ q # p /\ call'[q] = call[q])
  BY <1>5 DEF Calling
<1>7. 1..brought \subseteq 1..brought + n
  BY <1>1
<1> HIDE DEF new
<1>8. Seen' \subseteq 1..brought'
  BY <1>4, <1>7 DEF FreshCalls
<1>9. ASSUME NEW q \in Calling'
      PROVE  /\ Len(call'[q].jobs) \in 1..MaxBatch
             /\ \A i, k \in DOMAIN call'[q].jobs : call'[q].jobs[i] = call'[q].jobs[k] => i = k
             /\ JobsIn(call'[q].jobs) \subseteq (1..brought') \ Seen'
  <2>1. CASE q = p
    BY <1>2, <1>3, <1>4, <1>5, <2>1 DEF FreshCalls
  <2>2. CASE q \in Calling /\ call'[q] = call[q]
    BY <1>4, <1>7, <2>2 DEF FreshCalls
  <2> QED
    BY <1>6, <2>1, <2>2
<1>10. ASSUME NEW q \in Calling', NEW r \in Calling', q # r
       PROVE  JobsIn(call'[q].jobs) \cap JobsIn(call'[r].jobs) = {}
  <2>1. CASE q = p
    <3>1. JobsIn(call'[r].jobs) \subseteq 1..brought
      BY <1>6, <1>10, <2>1 DEF FreshCalls
    <3> QED
      BY <1>3, <1>5, <2>1, <3>1
  <2>2. CASE r = p
    <3>1. JobsIn(call'[q].jobs) \subseteq 1..brought
      BY <1>6, <1>10, <2>2 DEF FreshCalls
    <3> QED
      BY <1>3, <1>5, <2>2, <3>1
  <2>3. CASE q # p /\ r # p
    BY <1>6, <1>10, <2>3 DEF FreshCalls
  <2> QED
    BY <2>1, <2>2, <2>3
<1> QED
  BY <1>8, <1>9, <1>10, Zenon DEF FreshCalls, JobsIn

\* A call that ends leaves the other calls' jobs new, as long as it pushed none but its own.
LEMMA CallEndsFresh ==
    ASSUME QueueInv, FreshCalls, NEW p \in Calling,
           call' = [call EXCEPT ![p] = NoCall], brought' = brought,
           Seen' \subseteq Seen \cup JobsIn(call[p].jobs)
    PROVE  FreshCalls'
<1>1. \A q \in Calling' : q \in Calling /\ q # p /\ call'[q] = call[q]
  BY DEF Calling, QueueInv, TypeOK
<1>2. Seen' \subseteq 1..brought'
  BY DEF FreshCalls
<1>3. ASSUME NEW q \in Calling'
      PROVE  /\ Len(call'[q].jobs) \in 1..MaxBatch
             /\ \A i, k \in DOMAIN call'[q].jobs : call'[q].jobs[i] = call'[q].jobs[k] => i = k
             /\ JobsIn(call'[q].jobs) \subseteq (1..brought') \ Seen'
  <2>1. q \in Calling /\ q # p /\ call'[q] = call[q]
    BY <1>1
  <2>2. JobsIn(call[q].jobs) \cap JobsIn(call[p].jobs) = {}
    BY <2>1 DEF FreshCalls
  <2>3. JobsIn(call[q].jobs) \subseteq (1..brought) \ Seen
    BY <2>1 DEF FreshCalls
  <2>4. JobsIn(call[q].jobs) \subseteq (1..brought') \ Seen'
    BY <2>2, <2>3
  <2> QED
    BY <2>1, <2>4 DEF FreshCalls
<1>4. \A q, r \in Calling' : q # r => JobsIn(call'[q].jobs) \cap JobsIn(call'[r].jobs) = {}
  BY <1>1 DEF FreshCalls
<1> QED
  BY <1>2, <1>3, <1>4, Zenon DEF FreshCalls, JobsIn

\* The jobs of a pushed call join the jobs seen.
LEMMA PushSeen ==
    ASSUME QueueInv, NEW p \in Producers, Push(p)
    PROVE  Seen' = Seen \cup JobsIn(call[p].jobs)
<1>1. queue_ \in Seq(Nat) /\ call[p].jobs \in Seq(Nat)
  BY DEF QueueInv, TypeOK
<1>2. JobsIn(queue_ \o call[p].jobs) = JobsIn(queue_) \cup JobsIn(call[p].jobs)
  BY <1>1, JobsInConcat
<1>3. Seen' = JobsIn(queue_ \o call[p].jobs) \cup JobsIn(removed)
  BY DEF Push, Seen, JobsIn
<1> QED
  BY <1>2, <1>3 DEF Seen

\* Every step keeps the jobs of pending calls new.
LEMMA FreshNext == QueueInv /\ FreshCalls /\ [Next]_qvars => FreshCalls'
<1> SUFFICES ASSUME QueueInv, FreshCalls, [Next]_qvars PROVE FreshCalls'
  OBVIOUS
<1>1. ASSUME NEW p \in Producers, NEW n \in 1..MaxBatch, NEW b \in BOOLEAN, CallBrings(p, n, b)
      PROVE  FreshCalls'
  BY <1>1, CallBringsFresh
<1>2. ASSUME NEW p \in Producers, Push(p) PROVE FreshCalls'
  <2>1. p \in Calling /\ call' = [call EXCEPT ![p] = NoCall] /\ brought' = brought
    BY <1>2 DEF Push, Calling
  <2>2. Seen' \subseteq Seen \cup JobsIn(call[p].jobs)
    BY <1>2, PushSeen
  <2> QED
    BY <2>1, <2>2, CallEndsFresh, Zenon
<1>3. ASSUME NEW p \in Producers, PushRefused(p) PROVE FreshCalls'
  <2>1. p \in Calling /\ call' = [call EXCEPT ![p] = NoCall] /\ brought' = brought
    BY <1>3 DEF PushRefused, Calling
  <2>2. Seen' = Seen
    BY <1>3 DEF PushRefused, Seen, JobsIn
  <2>3. Seen' \subseteq Seen \cup JobsIn(call[p].jobs)
    BY <2>2
  <2> QED
    BY <2>1, <2>3, CallEndsFresh, Zenon
<1>4. ASSUME Taking, UNCHANGED <<call, brought>> PROVE FreshCalls'
  <2>1. Seen' = Seen /\ Calling' = Calling
    BY <1>4 DEF Taking, Calling
  <2>2. call' = call /\ brought' = brought
    BY <1>4
  <2>3. Seen' \subseteq 1..brought'
    BY <2>1, <2>2 DEF FreshCalls
  <2>4. \A p \in Calling' :
          /\ Len(call'[p].jobs) \in 1..MaxBatch
          /\ \A i, k \in DOMAIN call'[p].jobs : call'[p].jobs[i] = call'[p].jobs[k] => i = k
          /\ JobsIn(call'[p].jobs) \subseteq (1..brought') \ Seen'
    BY <2>1, <2>2 DEF FreshCalls
  <2>5. \A p, q \in Calling' : p # q => JobsIn(call'[p].jobs) \cap JobsIn(call'[q].jobs) = {}
    BY <2>1, <2>2 DEF FreshCalls
  <2> QED
    BY <2>3, <2>4, <2>5, Zenon DEF FreshCalls, JobsIn
<1> QED
  BY <1>1, <1>2, <1>3, <1>4, StepKinds

---------------------------------------------------------------------------
(* The refinement.                                                          *)

\* A pushed call is one block of new jobs at the back of the line.
LEMMA PushPuts ==
    ASSUME QueueInv, FreshCalls, NEW p \in Producers, Push(p)
    PROVE  Fifo!Put
<1> DEFINE jobs == call[p].jobs
<1>1. queue_ \in Seq(Nat) /\ jobs \in Seq(Nat) /\ Len(queue_) \in Nat
  BY LenProperties DEF QueueInv, TypeOK
<1>2. /\ Len(jobs) \in 1..MaxBatch
      /\ \A i, k \in DOMAIN jobs : jobs[i] = jobs[k] => i = k
      /\ JobsIn(jobs) \cap Seen = {}
  BY DEF Push, FreshCalls, Calling
<1>3. queue_' = queue_ \o jobs /\ removed' = removed
  BY DEF Push
<1>4. DOMAIN jobs = 1..Len(jobs)
  BY <1>1, LenProperties
<1> HIDE DEF jobs
<1>5. Len(queue_') = Len(queue_) + Len(jobs)
  BY <1>1, <1>3, AppendBlock
<1>6. Len(queue_') \in Len(queue_) + 1 .. Len(queue_) + MaxBatch
  BY <1>1, <1>2, <1>5, SizesAreNat
<1>7. SubSeq(queue_', 1, Len(queue_)) = queue_
  BY <1>1, <1>3, OldBlockStays
<1>8. \A i \in Len(queue_) + 1 .. Len(queue_') :
          i - Len(queue_) \in DOMAIN jobs /\ queue_'[i] = jobs[i - Len(queue_)]
  <2>1. \A i \in 1..(Len(queue_) + Len(jobs)) : (queue_ \o jobs)[i]
              = IF i <= Len(queue_) THEN queue_[i] ELSE jobs[i - Len(queue_)]
    BY <1>1, ConcatProperties
  <2> QED
    BY <1>1, <1>2, <1>3, <1>4, <1>5, <2>1, SizesAreNat
<1>9. ASSUME NEW i \in Len(queue_) + 1 .. Len(queue_') PROVE queue_'[i] \notin Fifo!Seen
  <2>1. queue_'[i] \in JobsIn(jobs)
    BY <1>8 DEF JobsIn
  <2>2. Fifo!Seen = Seen
    BY DEF Fifo!Seen, Seen, JobsIn
  <2> QED
    BY <1>2, <2>1, <2>2
<1>10. ASSUME NEW i \in Len(queue_) + 1 .. Len(queue_'), NEW k \in Len(queue_) + 1 .. i - 1
       PROVE  queue_'[k] # queue_'[i]
  <2>1. k \in Len(queue_) + 1 .. Len(queue_') /\ k - Len(queue_) # i - Len(queue_)
    BY <1>1, <1>2, <1>5, SizesAreNat
  <2> QED
    BY <1>2, <1>8, <2>1
<1> QED
  BY <1>3, <1>6, <1>7, <1>9, <1>10 DEF Fifo!Put

\* Every step of the queue is a step of the line, or leaves it alone.
LEMMA StepIsFifo == QueueInv /\ FreshCalls /\ [Next]_qvars => [Fifo!Next]_<<queue_, removed>>
<1> SUFFICES ASSUME QueueInv, FreshCalls, [Next]_qvars
             PROVE  Fifo!Next \/ UNCHANGED <<queue_, removed>>
  OBVIOUS
<1>1. ASSUME NEW p \in Producers, NEW n \in 1..MaxBatch, NEW b \in BOOLEAN, CallBrings(p, n, b)
      PROVE  UNCHANGED <<queue_, removed>>
  BY <1>1 DEF CallBrings
<1>2. ASSUME NEW p \in Producers, Push(p) PROVE Fifo!Next
  BY <1>2, PushPuts DEF Fifo!Next
<1>3. ASSUME NEW p \in Producers, PushRefused(p) PROVE UNCHANGED <<queue_, removed>>
  BY <1>3 DEF PushRefused
<1>4. ASSUME Taking PROVE Fifo!Next \/ UNCHANGED <<queue_, removed>>
  BY <1>4 DEF Taking, Fifo!Next
<1> QED
  BY <1>1, <1>2, <1>3, <1>4, StepKinds

\* job_queue is a FIFO whatever the threads that call it: every block of jobs enters whole
\* at the back of queue_, no job enters twice, and jobs leave from the front in order.
THEOREM QueueIsFifo == Spec => ImplementsFifo
<1>1. Init => Fifo!Init
  BY DEF Init, Fifo!Init
<1> QED
  BY <1>1, InitQueueInv, NextQueueInv, FreshInit, FreshNext, StepIsFifo, PTL
     DEF Spec, ImplementsFifo, Fifo!Spec
==============================================================================
