------------------------------- MODULE JobQueue -------------------------------
(***************************************************************************)
(* job_queue (src/core/job_queue.cpp): a FIFO guarded by mutex_ with the   *)
(* condition variable condition_ for blocking consumers.                   *)
(*                                                                         *)
(* A critical section of mutex_ is one action.  What the code does before  *)
(* it takes the mutex - the early test of stop_ in enqueue, enqueue_batch  *)
(* and try_dequeue - is an action of its own, so stop(), clear() and the   *)
(* other threads run between the test and the critical section.            *)
(*                                                                         *)
(* A job is an identity: the calls number the jobs they bring 1, 2, 3, ... *)
(* Calls that return an error without changing the queue (null job, empty  *)
(* batch, stop_ already set) leave the state alone and have no action.     *)
(***************************************************************************)
EXTENDS Integers, Sequences

CONSTANTS
    Producers,   \* threads calling enqueue and enqueue_batch
    Consumers,   \* threads calling dequeue and try_dequeue
    MaxJobs,     \* bound: jobs brought to the queue
    MaxBatch,    \* bound: jobs of one batch call
    Limits,      \* the values max_size_ takes
    NoLimit,     \* std::nullopt, the unbounded queue
    SizeMod      \* 2^w, w the width of std::size_t

ASSUME SizesAreNat == MaxJobs \in Nat /\ MaxBatch \in Nat \ {0} /\ SizeMod \in Nat \ {0}
ASSUME LimitsAreSizes == NoLimit \notin Nat /\ Limits \subseteq Nat \cup {NoLimit}
ASSUME SomeConsumer == Consumers # {}
ASSUME SizeTHoldsTheQueue == MaxJobs < SizeMod /\ \A m \in Limits \ {NoLimit} : m < SizeMod

VARIABLES
    queue_,        \* the deque of jobs
    atomic_size_,  \* the size that size(), empty() and is_full() report
    stop_,         \* set once by stop()
    notify_,       \* whether an enqueue notifies
    max_size_,     \* the capacity, or NoLimit
    at,            \* where each consumer is
    call,          \* the jobs of each producer's call that is past its stop_ test
    brought,       \* how many jobs calls have brought so far
    removed,       \* history: the jobs that left the queue, in that order
    muted          \* history: a job was pushed while notify_ was off

qvars == <<queue_, atomic_size_, stop_, notify_, max_size_, at, call, brought, removed, muted>>

NoCall == [batch |-> FALSE, jobs |-> <<>>]

ConsumerPlaces == {"idle", "dequeue", "wait", "try"}

TypeOK ==
    /\ queue_ \in Seq(Nat) /\ removed \in Seq(Nat)
    /\ atomic_size_ \in Nat
    /\ stop_ \in BOOLEAN /\ notify_ \in BOOLEAN /\ muted \in BOOLEAN
    /\ max_size_ \in Limits
    /\ at \in [Consumers -> ConsumerPlaces]
    /\ call \in [Producers -> [batch : BOOLEAN, jobs : Seq(Nat)]]
    /\ brought \in 0..MaxJobs

Init ==
    /\ queue_ = <<>> /\ removed = <<>>
    /\ atomic_size_ = 0
    /\ stop_ = FALSE /\ notify_ = TRUE /\ muted = FALSE
    /\ max_size_ \in Limits
    /\ at = [c \in Consumers |-> "idle"]
    /\ call = [p \in Producers |-> NoCall]
    /\ brought = 0

Waiting == {c \in Consumers : at[c] = "wait"}

---------------------------------------------------------------------------
(* The condition variable.  A notified consumer is back at "dequeue", where *)
(* it evaluates the wait predicate again under the mutex.                   *)

NotifyOne ==
    \/ Waiting = {} /\ at' = at
    \/ \E c \in Waiting : at' = [at EXCEPT ![c] = "dequeue"]

NotifyAll ==
    at' = [c \in Consumers |-> IF at[c] = "wait" THEN "dequeue" ELSE at[c]]

SpuriousWakeup(c) ==
    /\ at[c] = "wait"
    /\ at' = [at EXCEPT ![c] = "dequeue"]
    /\ UNCHANGED <<queue_, atomic_size_, stop_, notify_, max_size_, call, brought, removed, muted>>

---------------------------------------------------------------------------
(* Producers.                                                               *)

\* enqueue and enqueue_batch up to the mutex: stop_ was read as false.
CallBrings(p, n, isBatch) ==
    /\ call[p] = NoCall
    /\ ~stop_
    /\ brought + n <= MaxJobs
    /\ call' = [call EXCEPT ![p] = [batch |-> isBatch,
                                    jobs |-> [i \in 1..n |-> brought + i]]]
    /\ brought' = brought + n
    /\ UNCHANGED <<queue_, atomic_size_, stop_, notify_, max_size_, at, removed, muted>>

Enqueue(p) == CallBrings(p, 1, FALSE)

EnqueueBatch(p) == \E n \in 1..MaxBatch : CallBrings(p, n, TRUE)

\* enqueue compares sizes; enqueue_batch subtracts them as std::size_t does.
Fits(jobs, isBatch) ==
    max_size_ # NoLimit =>
        IF isBatch THEN Len(jobs) <= (max_size_ - Len(queue_)) % SizeMod
                   ELSE Len(queue_) < max_size_

\* Mutant: enqueue_batch forgets its notification.
PushBatchSilent(p) ==
    /\ call[p] # NoCall
    /\ Fits(call[p].jobs, call[p].batch)
    /\ queue_' = queue_ \o call[p].jobs
    /\ atomic_size_' = atomic_size_ + Len(call[p].jobs)
    /\ IF notify_ /\ ~call[p].batch THEN NotifyOne ELSE at' = at
    /\ muted' = (muted \/ ~notify_)
    /\ call' = [call EXCEPT ![p] = NoCall]
    /\ UNCHANGED <<stop_, notify_, max_size_, brought, removed>>

Push(p) ==
    /\ call[p] # NoCall
    /\ Fits(call[p].jobs, call[p].batch)
    /\ queue_' = queue_ \o call[p].jobs
    /\ atomic_size_' = atomic_size_ + Len(call[p].jobs)
    /\ IF notify_ THEN NotifyOne /\ muted' = muted
                  ELSE at' = at /\ muted' = TRUE
    /\ call' = [call EXCEPT ![p] = NoCall]
    /\ UNCHANGED <<stop_, notify_, max_size_, brought, removed>>

PushRefused(p) ==
    /\ call[p] # NoCall
    /\ ~Fits(call[p].jobs, call[p].batch)
    /\ call' = [call EXCEPT ![p] = NoCall]
    /\ UNCHANGED <<queue_, atomic_size_, stop_, notify_, max_size_, at, brought, removed, muted>>

---------------------------------------------------------------------------
(* Consumers.                                                               *)

\* Mutant: jobs are taken from the back of the deque.
RemoveBack(n) ==
    /\ queue_' = SubSeq(queue_, 1, Len(queue_) - n)
    /\ removed' = removed \o SubSeq(queue_, Len(queue_) - n + 1, Len(queue_))
    /\ atomic_size_' = atomic_size_ - n

\* The first n jobs leave the queue.
Remove(n) ==
    /\ queue_' = SubSeq(queue_, n + 1, Len(queue_))
    /\ removed' = removed \o SubSeq(queue_, 1, n)
    /\ atomic_size_' = atomic_size_ - n

Dequeue(c) ==
    /\ at[c] = "idle"
    /\ at' = [at EXCEPT ![c] = "dequeue"]
    /\ UNCHANGED <<queue_, atomic_size_, stop_, notify_, max_size_, call, brought, removed, muted>>

DequeueJob(c) ==
    /\ at[c] = "dequeue" /\ queue_ # <<>>
    /\ Remove(1)
    /\ at' = [at EXCEPT ![c] = "idle"]
    /\ UNCHANGED <<stop_, notify_, max_size_, call, brought, muted>>

DequeueError(c) ==
    /\ at[c] = "dequeue" /\ queue_ = <<>> /\ stop_
    /\ at' = [at EXCEPT ![c] = "idle"]
    /\ UNCHANGED <<queue_, atomic_size_, stop_, notify_, max_size_, call, brought, removed, muted>>

DequeueWait(c) ==
    /\ at[c] = "dequeue" /\ queue_ = <<>> /\ ~stop_
    /\ at' = [at EXCEPT ![c] = "wait"]
    /\ UNCHANGED <<queue_, atomic_size_, stop_, notify_, max_size_, call, brought, removed, muted>>

\* try_dequeue up to the mutex: stop_ was read as false.
TryDequeue(c) ==
    /\ at[c] = "idle" /\ ~stop_
    /\ at' = [at EXCEPT ![c] = "try"]
    /\ UNCHANGED <<queue_, atomic_size_, stop_, notify_, max_size_, call, brought, removed, muted>>

TryDequeueLocked(c) ==
    /\ at[c] = "try"
    /\ at' = [at EXCEPT ![c] = "idle"]
    /\ IF queue_ = <<>> THEN UNCHANGED <<queue_, atomic_size_, removed>> ELSE Remove(1)
    /\ UNCHANGED <<stop_, notify_, max_size_, call, brought, muted>>

---------------------------------------------------------------------------
(* Calls any thread makes: one critical section (or atomic store) each.     *)

\* dequeue_batch hands the jobs over, clear destroys them; the queue is left
\* in the same state.
TakeAll ==
    /\ queue_' = <<>>
    /\ removed' = removed \o queue_
    /\ atomic_size_' = 0
    /\ NotifyAll
    /\ UNCHANGED <<stop_, notify_, max_size_, call, brought, muted>>

DequeueBatch == TakeAll

Clear == TakeAll

DequeueBatchLimited(max_count) ==
    LET count == IF max_count < Len(queue_) THEN max_count ELSE Len(queue_)
    IN  /\ Remove(count)
        /\ IF count = Len(queue_) THEN NotifyAll ELSE at' = at
        /\ UNCHANGED <<stop_, notify_, max_size_, call, brought, muted>>

\* Mutant: stop wakes one waiter only.
StopWakesOne ==
    /\ stop_' = TRUE
    /\ NotifyOne
    /\ UNCHANGED <<queue_, atomic_size_, notify_, max_size_, call, brought, removed, muted>>

Stop ==
    /\ stop_' = TRUE
    /\ NotifyAll
    /\ UNCHANGED <<queue_, atomic_size_, notify_, max_size_, call, brought, removed, muted>>

SetMaxSize(m) ==
    /\ max_size_' = m
    /\ UNCHANGED <<queue_, atomic_size_, stop_, notify_, at, call, brought, removed, muted>>

SetNotify(b) ==
    /\ notify_' = b
    /\ UNCHANGED <<queue_, atomic_size_, stop_, max_size_, at, call, brought, removed, muted>>

---------------------------------------------------------------------------

Producing(p) == Enqueue(p) \/ EnqueueBatch(p) \/ Push(p) \/ PushRefused(p)

Consuming(c) ==
    \/ Dequeue(c) \/ DequeueJob(c) \/ DequeueError(c) \/ DequeueWait(c)
    \/ TryDequeue(c) \/ TryDequeueLocked(c) \/ SpuriousWakeup(c)

Controlling ==
    \/ DequeueBatch \/ Clear \/ Stop
    \/ \E n \in 0..MaxBatch : DequeueBatchLimited(n)
    \/ \E m \in Limits : SetMaxSize(m)
    \/ \E b \in BOOLEAN : SetNotify(b)

Next ==
    \/ \E p \in Producers : Producing(p)
    \/ \E c \in Consumers : Consuming(c)
    \/ Controlling

Spec == Init /\ [][Next]_qvars

\* A thread inside a call gets the mutex eventually, and a consumer (a worker
\* in the loop of thread_base) calls dequeue again after each return.
Fairness ==
    /\ \A p \in Producers : WF_qvars(Push(p) \/ PushRefused(p))
    /\ \A c \in Consumers :
          /\ WF_qvars(DequeueJob(c) \/ DequeueError(c) \/ DequeueWait(c))
          /\ WF_qvars(TryDequeueLocked(c))
          /\ WF_qvars(Dequeue(c))

FairSpec == Spec /\ Fairness
---------------------------------------------------------------------------
(* Properties.                                                              *)

\* size(), empty() and is_full() read atomic_size_ without the mutex: it is
\* the length of the deque whenever no critical section is running.
SizeExact == atomic_size_ = Len(queue_)

\* After stop() no consumer is left sleeping on condition_, also not one that
\* was between its predicate and its wait when stop_ was set.
StopReleasesWaiters == stop_ => Waiting = {}

\* As long as every push notified, jobs never lie in the queue while every
\* consumer sleeps - one notify_one for a whole batch included.
NoSleepOverWork == queue_ # <<>> /\ ~muted => Waiting # Consumers

\* A consumer blocked in dequeue when stop() is called returns.
StopUnblocksDequeue ==
    \A c \in Consumers : stop_ /\ at[c] \in {"wait", "dequeue"} ~> at[c] = "idle"

\* The queue is a FIFO: with queue_ as the line and removed as what has left
\* it, every critical section is a step of JobFifo or none.
Fifo == INSTANCE JobFifo WITH line <- queue_, out <- removed

ImplementsFifo == Fifo!Spec
===============================================================================
