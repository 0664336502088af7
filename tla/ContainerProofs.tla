--------------------------- MODULE ContainerProofs ---------------------------
(***************************************************************************)
(* Proofs about the containers, for any finite number of threads: nobody   *)
(* sleeps over what is queued in concurrent_queue and policy_queue.        *)
(***************************************************************************)
EXTENDS ConcurrentQueue, PolicyQueue, FiniteSetTheorems, TLAPS

\* A subset of a finite set of threads that differs from another one by one thread at most.
LEMMA CountStep ==
    ASSUME NEW U, IsFiniteSet(U), NEW S \in SUBSET U, NEW T \in SUBSET U, NEW t \in U, S \ {t} = T \ {t}
    PROVE  /\ Cardinality(S) \in Nat /\ Cardinality(T) \in Nat
           /\ (t \in S => t \in T) => Cardinality(T) >= Cardinality(S)
           /\ t \in T /\ t \notin S => Cardinality(T) = Cardinality(S) + 1
           /\ Cardinality(T) + 1 >= Cardinality(S)
<1> DEFINE c == Cardinality(S \ {t})
<1>1. IsFiniteSet(S) /\ IsFiniteSet(T)
  BY FS_Subset
<1>2. IsFiniteSet(S \ {t}) /\ c \in Nat
  BY <1>1, FS_RemoveElement, FS_CardinalityType
<1>3. Cardinality(S) \in Nat /\ Cardinality(T) \in Nat
  BY <1>1, FS_CardinalityType
<1>4. Cardinality(S) = IF t \in S THEN c + 1 ELSE c
  <2>1. c = IF t \in S THEN Cardinality(S) - 1 ELSE Cardinality(S)
    BY <1>1, FS_RemoveElement
  <2> QED
    BY <1>3, <2>1
<1>5. Cardinality(T) = IF t \in T THEN c + 1 ELSE c
  <2>1. Cardinality(T \ {t}) = IF t \in T THEN Cardinality(T) - 1 ELSE Cardinality(T)
    BY <1>1, FS_RemoveElement
  <2>2. c = Cardinality(T \ {t})
    OBVIOUS
  <2> HIDE DEF c
  <2> QED
    BY <1>3, <2>1, <2>2
<1> HIDE DEF c
<1> QED
  BY <1>2, <1>4, <1>5

---------------------------------------------------------------------------
(* concurrent_queue.                                                      *)

CqPlaces == {"out", "link", "count", "notify", "test", "look", "relock", "asleep", "notifyAll"}

CqRecords == [at : CqPlaces, value : Nat, notified : BOOLEAN]

CqTyped ==
    /\ items \in Seq(Nat) /\ values \in Nat
    /\ cqShutdown \in BOOLEAN /\ missed \in BOOLEAN
    /\ cq \in [CqThreads -> CqRecords]
    /\ \A t \in CqThreads : cq[t].notified => cq[t].at = "asleep"

\* The threads that will still look at the list or wake one that does.
Helps(r) == r.at \in {"count", "notify", "test", "look"} \/ r.notified
Helpers == {t \in CqThreads : Helps(cq[t])}

\* A thread that saw an empty list and that nothing has called since.
Unaware(r) == r.at = "relock" \/ (r.at = "asleep" /\ ~r.notified)

EnoughHelpers ==
    ~missed /\ (\E t \in CqThreads : Unaware(cq[t])) => Len(items) <= Cardinality(Helpers)

ShutdownTells ==
    ~missed /\ cqShutdown /\ (\E t \in CqThreads : Unaware(cq[t]) \/ cq[t].at = "look") =>
        \E t \in CqThreads : cq[t].at = "notifyAll"

CqInv == CqTyped /\ EnoughHelpers /\ ShutdownTells

\* The helpers are counted by a number, and one less when one of them leaves.
LEMMA HelpersFinite ==
    ASSUME NEW S \in SUBSET CqThreads
    PROVE  /\ IsFiniteSet(S) /\ Cardinality(S) \in Nat /\ (S # {} => Cardinality(S) > 0)
           /\ \A t \in S : Cardinality(S \ {t}) = Cardinality(S) - 1
<1>1. IsFiniteSet(S)
  BY FiniteCqThreads, FS_Subset
<1>2. Cardinality(S) \in Nat
  BY <1>1, FS_CardinalityType
<1>3. S # {} => Cardinality(S) > 0
  BY <1>1, <1>2, FS_EmptySet
<1>4. \A t \in S : Cardinality(S \ {t}) = Cardinality(S) - 1
  BY <1>1, FS_RemoveElement
<1> QED
  BY <1>1, <1>2, <1>3, <1>4

\* A step of one thread changes the number of helpers by that thread only.
LEMMA HelpersStep ==
    ASSUME CqTyped, NEW t \in CqThreads, NEW r \in CqRecords, cq' = [cq EXCEPT ![t] = r]
    PROVE  /\ Cardinality(Helpers) \in Nat /\ Cardinality(Helpers') \in Nat
           /\ (Helps(cq[t]) => Helps(r)) => Cardinality(Helpers') >= Cardinality(Helpers)
           /\ Helps(r) /\ ~Helps(cq[t]) => Cardinality(Helpers') = Cardinality(Helpers) + 1
           /\ Cardinality(Helpers') + 1 >= Cardinality(Helpers)
<1>1. Helpers \in SUBSET CqThreads /\ Helpers' \in SUBSET CqThreads
  BY DEF Helpers
<1>2. cq'[t] = r /\ \A w \in CqThreads \ {t} : cq'[w] = cq[w]
  BY DEF CqTyped
<1>3. Helpers' \ {t} = Helpers \ {t}
  BY <1>2 DEF Helpers
<1>4. (t \in Helpers <=> Helps(cq[t])) /\ (t \in Helpers' <=> Helps(r))
  BY <1>2 DEF Helpers
<1> HIDE DEF Helpers
<1> QED
  BY <1>1, <1>3, <1>4, FiniteCqThreads, CountStep

\* What a step of one thread has to show.
LEMMA OneThreadSteps ==
    ASSUME CqInv, NEW t \in CqThreads, NEW r \in CqRecords, cq' = [cq EXCEPT ![t] = r],
           items' \in Seq(Nat), values' \in Nat, cqShutdown' \in BOOLEAN, missed' = missed,
           r.notified => r.at = "asleep",
           Unaware(r) => Unaware(cq[t]) \/ items' = <<>>,
           \/ Len(items') <= Len(items) /\ (Helps(cq[t]) => Helps(r))
           \/ Len(items') = Len(items) + 1 /\ ~Helps(cq[t]) /\ Helps(r)
           \/ Len(items') = Len(items) - 1
           \/ items' = <<>>,
           \/ ~cqShutdown'
           \/ r.at = "notifyAll"
           \/ /\ cqShutdown' = cqShutdown /\ cq[t].at # "notifyAll"
              /\ Unaware(r) \/ r.at = "look" => Unaware(cq[t]) \/ cq[t].at = "look"
    PROVE  CqInv'
<1> USE DEF CqInv
<1>1. cq'[t] = r /\ \A w \in CqThreads \ {t} : cq'[w] = cq[w]
  BY DEF CqTyped
<1>2. CqTyped'
  <2>1. cq' \in [CqThreads -> CqRecords]
    BY DEF CqTyped
  <2>2. \A w \in CqThreads : cq'[w].notified => cq'[w].at = "asleep"
    BY <1>1 DEF CqTyped
  <2> QED
    BY <2>1, <2>2 DEF CqTyped
<1>3. EnoughHelpers'
  <2>0. /\ Cardinality(Helpers) \in Nat /\ Cardinality(Helpers') \in Nat
        /\ (Helps(cq[t]) => Helps(r)) => Cardinality(Helpers') >= Cardinality(Helpers)
        /\ Helps(r) /\ ~Helps(cq[t]) => Cardinality(Helpers') = Cardinality(Helpers) + 1
        /\ Cardinality(Helpers') + 1 >= Cardinality(Helpers)
    BY HelpersStep, Zenon
  <2> SUFFICES ASSUME ~missed, NEW w \in CqThreads, Unaware(cq'[w])
               PROVE  Len(items') <= Cardinality(Helpers')
    BY DEF EnoughHelpers
  <2>1. CASE items' = <<>>
    BY <2>0, <2>1
  <2>2. CASE items' # <<>>
    <3>1. \E u \in CqThreads : Unaware(cq[u])
      BY <1>1, <2>2
    <3>2. Len(items) <= Cardinality(Helpers) /\ Len(items) \in Nat /\ Len(items') \in Nat
      BY <3>1 DEF EnoughHelpers, CqTyped
    <3> QED
      BY <2>0, <2>2, <3>2
  <2> QED
    BY <2>1, <2>2
<1>4. ShutdownTells'
  BY <1>1, Zenon DEF ShutdownTells
<1> QED
  BY <1>2, <1>3, <1>4

\* One try_dequeue, whatever follows when there is nothing.
LEMMA TakeOrKeeps ==
    ASSUME CqInv, NEW t \in CqThreads, NEW l \in {"out", "test", "relock"}, TakeOr(t, l),
           UNCHANGED <<cqShutdown, values, missed>>,
           cq[t].at \notin {"asleep", "notifyAll"},
           l = "relock" => cq[t].at = "look"
    PROVE  CqInv'
<1>1. cq[t] \in CqRecords /\ items \in Seq(Nat) /\ (cq[t].notified => cq[t].at = "asleep")
  BY DEF CqInv, CqTyped
<1>2. CASE items = <<>>
  <2> DEFINE r == IF l = "out" THEN Gone ELSE [cq[t] EXCEPT !.at = l]
  <2>1. cq' = [cq EXCEPT ![t] = r] /\ items' = items
    BY <1>2 DEF TakeOr, CqReturn, CqGo
  <2>2. r \in CqRecords /\ ~r.notified /\ r.at = l
    BY <1>1 DEF Gone, CqRecords, CqPlaces
  <2> HIDE DEF r
  <2>3. /\ Unaware(r) => Unaware(cq[t]) \/ items' = <<>>
        /\ Unaware(r) \/ r.at = "look" => Unaware(cq[t]) \/ cq[t].at = "look"
    BY <1>2, <2>1, <2>2 DEF Unaware
  <2> QED
    BY <1>1, <1>2, <2>1, <2>2, <2>3, OneThreadSteps, Zenon DEF CqInv, CqTyped
<1>3. CASE items # <<>>
  <2>1. cq' = [cq EXCEPT ![t] = Gone] /\ items' = Tail(items)
    BY <1>3 DEF TakeOr, CqReturn
  <2>2. items' \in Seq(Nat) /\ Len(items') = Len(items) - 1
    BY <1>1, <1>3, <2>1
  <2>3. Gone \in CqRecords /\ ~Gone.notified /\ Gone.at = "out" /\ ~Unaware(Gone)
    BY DEF Gone, CqRecords, CqPlaces, Unaware
  <2> QED
    BY <1>1, <2>1, <2>2, <2>3, OneThreadSteps, Zenon DEF CqInv, CqTyped
<1> QED
  BY <1>2, <1>3

\* A step of a thread that leaves the list alone.
LEMMA PlaceStep ==
    ASSUME CqInv, NEW t \in CqThreads, NEW r \in CqRecords, cq' = [cq EXCEPT ![t] = r],
           UNCHANGED <<items, missed>>, values' \in Nat,
           r.notified => r.at = "asleep",
           Unaware(r) => Unaware(cq[t]),
           Helps(cq[t]) => Helps(r),
           \/ UNCHANGED cqShutdown /\ cq[t].at # "notifyAll" /\ r.at # "look"
           \/ cqShutdown' = TRUE /\ r.at = "notifyAll"
           \/ UNCHANGED cqShutdown /\ ~cqShutdown
    PROVE  CqInv'
<1>1. items' \in Seq(Nat) /\ cqShutdown' \in BOOLEAN /\ missed' = missed
  BY Zenon DEF CqInv, CqTyped
<1>2. Len(items') <= Len(items)
  BY <1>1
<1>3. \/ ~cqShutdown'
      \/ r.at = "notifyAll"
      \/ /\ cqShutdown' = cqShutdown /\ cq[t].at # "notifyAll"
         /\ Unaware(r) \/ r.at = "look" => Unaware(cq[t]) \/ cq[t].at = "look"
  BY DEF CqInv, CqTyped
<1> QED
  BY <1>1, <1>2, <1>3, OneThreadSteps, Zenon

\* notify_one and notify_all: the thread that notifies leaves, and wakes a sleeper if
\* there is one.
LEMMA NotifyKeeps ==
    ASSUME CqInv, NEW t \in CqThreads, NotifyOne(t) \/ NotifyAll(t)
    PROVE  CqInv'
<1> USE DEF CqInv
<1>1. PICK R \in SUBSET Sleepers : /\ cq' = [Notified(R) EXCEPT ![t] = Gone]
                                   /\ Sleepers # {} => R # {}
                                   /\ cq[t].at = "notifyAll" => R = Sleepers
  BY DEF NotifyOne, NotifyAll, AllSleepers, OneOf
<1>2. /\ UNCHANGED <<items, cqShutdown, values>> /\ missed' \in BOOLEAN
      /\ missed' \/ ~missed
      /\ cq[t].at \in {"notify", "notifyAll"} /\ ~cq[t].notified /\ t \notin R
  BY <1>1, Zenon DEF NotifyOne, NotifyAll, CqTyped, Sleepers
<1>3. /\ ~missed' => \A w \in CqThreads : cq[w].at # "relock"
      /\ ~missed' /\ cq[t].at = "notifyAll" => \A w \in CqThreads : cq[w].at # "look"
  BY Zenon DEF NotifyOne, NotifyAll, CqTyped
<1>4. /\ cq' \in [CqThreads -> CqRecords] /\ cq'[t] = Gone
      /\ \A w \in CqThreads \ {t} :
            /\ w \notin R => cq'[w] = cq[w]
            /\ w \in R => cq'[w].at = "asleep" /\ cq'[w].notified
  <2> DEFINE q(w) == [cq[w] EXCEPT !.notified = @ \/ w \in R]
  <2>1. \A w \in R : w \in CqThreads /\ cq[w].at = "asleep"
    BY DEF Sleepers
  <2>2. ASSUME NEW w \in CqThreads PROVE q(w) \in CqRecords
    BY Zenon DEF CqTyped, CqRecords
  <2>3. ASSUME NEW w \in R PROVE q(w).at = "asleep" /\ q(w).notified
    BY <2>1, Zenon DEF CqTyped, CqRecords
  <2>4. ASSUME NEW w \in CqThreads, w \notin R PROVE q(w) = cq[w]
    <3>1. cq[w] \in CqRecords /\ (cq[w].notified \/ w \in R) = cq[w].notified
      BY <2>4 DEF CqTyped, CqRecords
    <3> QED
      BY <3>1 DEF CqRecords
  <2>5. Gone \in CqRecords
    BY DEF Gone, CqRecords, CqPlaces
  <2>6. cq' = [w \in CqThreads |-> IF w = t THEN Gone ELSE q(w)]
    BY <1>1, Zenon DEF Notified
  <2> HIDE DEF q
  <2> QED
    BY <2>2, <2>3, <2>4, <2>5, <2>6
<1>5. CqTyped'
  BY <1>2, <1>4 DEF CqTyped, Gone
<1>6. EnoughHelpers'
  <2> SUFFICES ASSUME ~missed', NEW w \in CqThreads, Unaware(cq'[w])
               PROVE  Len(items') <= Cardinality(Helpers')
    BY DEF EnoughHelpers
  <2>1. w # t /\ w \notin R /\ cq'[w] = cq[w]
    BY <1>4 DEF Unaware, Gone
  <2>2. Unaware(cq[w]) /\ w \in Sleepers
    BY <1>3, <2>1 DEF Unaware, Sleepers
  <2>3. Len(items) <= Cardinality(Helpers) /\ Len(items) \in Nat
    BY <1>2, <2>2 DEF EnoughHelpers, CqTyped
  <2>4. PICK u \in R : TRUE
    BY <1>1, <2>2
  <2>5. u \in CqThreads \ {t} /\ ~Helps(cq[u]) /\ cq'[u].notified
    BY <1>2, <1>4, <2>4 DEF Sleepers, Helps
  <2>6. Helpers \ {t} \subseteq Helpers' \ {u}
    BY <1>4, <2>5 DEF Helpers, Helps
  <2>7. u \in Helpers'
    BY <2>5 DEF Helpers, Helps
  <2>8. /\ Helpers \in SUBSET CqThreads /\ Helpers' \in SUBSET CqThreads
        /\ Helpers' \ {u} \in SUBSET CqThreads
    BY DEF Helpers
  <2>9. Cardinality(Helpers \ {t}) <= Cardinality(Helpers' \ {u})
    BY <2>6, <2>8, HelpersFinite, FS_Subset
  <2>10. Cardinality(Helpers' \ {u}) = Cardinality(Helpers') - 1 /\ Cardinality(Helpers') \in Nat
    BY <2>7, <2>8, HelpersFinite
  <2>11. Cardinality(Helpers) \in Nat /\ Cardinality(Helpers \ {t}) \in Nat
    BY <2>8, HelpersFinite
  <2>12. Cardinality(Helpers) <= Cardinality(Helpers \ {t}) + 1
    <3>1. CASE t \in Helpers
      BY <2>8, <3>1, HelpersFinite
    <3>2. CASE t \notin Helpers
      <4>1. Helpers \ {t} = Helpers
        BY <3>2
      <4> QED
        BY <2>11, <4>1
    <3> QED
      BY <3>1, <3>2
  <2> QED
    BY <1>2, <2>3, <2>9, <2>10, <2>11, <2>12
<1>7. ShutdownTells'
  <2> SUFFICES ASSUME ~missed', cqShutdown',
                      NEW w \in CqThreads, Unaware(cq'[w]) \/ cq'[w].at = "look"
               PROVE  \E u \in CqThreads : cq'[u].at = "notifyAll"
    BY DEF ShutdownTells
  <2>1. w # t /\ w \notin R /\ cq'[w] = cq[w]
    BY <1>4 DEF Unaware, Gone
  <2>2. PICK u \in CqThreads : cq[u].at = "notifyAll"
    BY <1>2, <2>1 DEF ShutdownTells
  <2>3. cq[t].at # "notifyAll"
    BY <1>1, <1>3, <2>1 DEF Unaware, Sleepers
  <2>4. u \in CqThreads \ {t} /\ u \notin R
    BY <2>2, <2>3 DEF Sleepers
  <2> QED
    BY <1>4, <2>2, <2>4
<1> QED
  BY <1>5, <1>6, <1>7

\* Every step of a user of concurrent_queue keeps the invariant.
LEMMA NextKeepsCqInv == CqInv /\ [CqNext]_cqVars => CqInv'
<1> SUFFICES ASSUME CqInv, [CqNext]_cqVars PROVE CqInv'
  OBVIOUS
<1> USE DEF CqRecords, CqPlaces
<1>1. ASSUME NEW t \in CqThreads, CqEnqueue(t) PROVE CqInv'
  <2> DEFINE r == IF cqShutdown THEN cq[t] ELSE [Gone EXCEPT !.at = "link", !.value = values + 1]
  <2>1. cq' = [cq EXCEPT ![t] = r] /\ values' = values + 1 /\ UNCHANGED <<items, cqShutdown, missed>>
    BY <1>1 DEF CqEnqueue, CqInv, CqTyped
  <2>2. r \in CqRecords /\ ~r.notified /\ r.at \in {"out", "link"} /\ values' \in Nat
    <3>1. CASE cqShutdown
      BY <1>1, <2>1, <3>1 DEF CqEnqueue, CqInv, CqTyped
    <3>2. CASE ~cqShutdown
      <4>1. r = [at |-> "link", value |-> values + 1, notified |-> FALSE]
        BY <3>2, Zenon DEF Gone
      <4>2. values' \in Nat /\ values' = values + 1
        BY <2>1 DEF CqInv, CqTyped
      <4> HIDE DEF r
      <4> QED
        BY <4>1, <4>2
    <3> QED
      BY <3>1, <3>2
  <2> HIDE DEF r
  <2>3. ~Helps(cq[t]) /\ cq[t].at # "notifyAll"
    BY <1>1 DEF CqEnqueue, CqInv, CqTyped, Helps
  <2> QED
    BY <2>1, <2>2, <2>3, PlaceStep, Zenon DEF Unaware
<1>2. ASSUME NEW t \in CqThreads, CqLink(t) PROVE CqInv'
  <2> DEFINE r == [cq[t] EXCEPT !.at = "count"]
  <2>1. cq' = [cq EXCEPT ![t] = r] /\ UNCHANGED <<values, cqShutdown, missed>>
    BY <1>2 DEF CqLink, CqGo, CqInv, CqTyped
  <2>2. r \in CqRecords /\ ~r.notified /\ ~Unaware(r) /\ r.at = "count" /\ Helps(r)
    BY <1>2, Zenon DEF CqLink, CqInv, CqTyped, Unaware, Helps
  <2>3. ~Helps(cq[t]) /\ cq[t].at # "notifyAll"
    BY <1>2 DEF CqLink, CqInv, CqTyped, Helps
  <2>4. items' \in Seq(Nat) /\ Len(items') = Len(items) + 1
    BY <1>2 DEF CqLink, NodeValue, CqInv, CqTyped
  <2>5. cqShutdown' \in BOOLEAN /\ values' \in Nat
    BY <2>1 DEF CqInv, CqTyped
  <2> QED
    BY <2>1, <2>2, <2>3, <2>4, <2>5, OneThreadSteps, Zenon
<1>3. ASSUME NEW t \in CqThreads, CqCount(t) PROVE CqInv'
  <2> DEFINE r == [cq[t] EXCEPT !.at = "notify"]
  <2>1. cq' = [cq EXCEPT ![t] = r] /\ UNCHANGED <<items, values, cqShutdown, missed>>
    BY <1>3 DEF CqCount, CqGo, CqInv, CqTyped
  <2>2. r \in CqRecords /\ ~r.notified /\ ~Unaware(r) /\ r.at = "notify" /\ Helps(r)
    BY <1>3 DEF CqCount, CqInv, CqTyped, Unaware, Helps
  <2>3. cq[t].at # "notifyAll" /\ values' \in Nat
    BY <1>3, <2>1 DEF CqCount, CqInv, CqTyped
  <2> QED
    BY <2>1, <2>2, <2>3, PlaceStep, Zenon
<1>4. ASSUME NEW t \in CqThreads, CqTryDequeue(t) \/ WaitDequeue(t) PROVE CqInv'
  BY <1>4, TakeOrKeeps DEF CqTryDequeue, WaitDequeue
<1>5. ASSUME NEW t \in CqThreads, TestShutdown(t) PROVE CqInv'
  <2>1. CASE cqShutdown
    BY <1>5, <2>1, TakeOrKeeps DEF TestShutdown
  <2>2. CASE ~cqShutdown
    <3> DEFINE r == [cq[t] EXCEPT !.at = "look"]
    <3>1. cq' = [cq EXCEPT ![t] = r] /\ UNCHANGED <<items, values, cqShutdown, missed>>
      BY <1>5, <2>2 DEF TestShutdown, CqGo, CqInv, CqTyped
    <3>2. r \in CqRecords /\ ~r.notified /\ ~Unaware(r) /\ Helps(r)
      BY <1>5 DEF TestShutdown, CqInv, CqTyped, Unaware, Helps
    <3>3. values' \in Nat
      BY <3>1 DEF CqInv, CqTyped
    <3> QED
      BY <2>2, <3>1, <3>2, <3>3, PlaceStep, Zenon
  <2> QED
    BY <2>1, <2>2
<1>6. ASSUME NEW t \in CqThreads, LookAgain(t) PROVE CqInv'
  BY <1>6, TakeOrKeeps DEF LookAgain
<1>7. ASSUME NEW t \in CqThreads, SleepOrExpire(t) PROVE CqInv'
  <2> DEFINE s == [cq[t] EXCEPT !.at = "asleep", !.notified = FALSE]
  <2>1. PICK r \in {Gone, s} : cq' = [cq EXCEPT ![t] = r]
    BY <1>7, Zenon DEF SleepOrExpire, CqReturn, CqInv, CqTyped
  <2>2. r \in CqRecords /\ ~r.notified /\ r.at \in {"out", "asleep"}
    <3>1. s \in CqRecords /\ ~s.notified /\ s.at = "asleep"
      BY Zenon DEF CqInv, CqTyped
    <3>2. Gone \in CqRecords /\ ~Gone.notified /\ Gone.at = "out"
      BY DEF Gone
    <3> HIDE DEF s
    <3> QED
      BY <3>1, <3>2
  <2>3. cq[t].at = "relock" /\ Unaware(cq[t]) /\ ~Helps(cq[t])
    BY <1>7 DEF SleepOrExpire, CqInv, CqTyped, Unaware, Helps
  <2>4. UNCHANGED <<items, values, cqShutdown, missed>> /\ values' \in Nat
    BY <1>7 DEF SleepOrExpire, CqInv, CqTyped
  <2> QED
    BY <2>1, <2>2, <2>3, <2>4, PlaceStep, Zenon
<1>8. ASSUME NEW t \in CqThreads, WakeUp(t) PROVE CqInv'
  <2> DEFINE r == [cq[t] EXCEPT !.at = "test", !.notified = FALSE]
  <2>1. cq' = [cq EXCEPT ![t] = r] /\ UNCHANGED <<items, values, cqShutdown, missed>>
    BY <1>8, Zenon DEF WakeUp, CqInv, CqTyped
  <2>2. r \in CqRecords /\ ~r.notified /\ ~Unaware(r) /\ r.at = "test" /\ Helps(r)
    BY <1>8, Zenon DEF WakeUp, CqInv, CqTyped, Unaware, Helps
  <2>3. cq[t].at # "notifyAll" /\ values' \in Nat
    BY <1>8, <2>1 DEF WakeUp, CqInv, CqTyped
  <2> QED
    BY <2>1, <2>2, <2>3, PlaceStep, Zenon
<1>9. ASSUME NEW t \in CqThreads, Shutdown(t) PROVE CqInv'
  <2> DEFINE r == [cq[t] EXCEPT !.at = "notifyAll"]
  <2>1. cq' = [cq EXCEPT ![t] = r] /\ UNCHANGED <<items, values, missed>> /\ cqShutdown' = TRUE
    BY <1>9 DEF Shutdown, CqGo, CqInv, CqTyped
  <2>2. r \in CqRecords /\ ~r.notified /\ ~Unaware(r) /\ r.at = "notifyAll"
    BY <1>9 DEF Shutdown, CqInv, CqTyped, Unaware
  <2>3. ~Helps(cq[t]) /\ values' \in Nat
    BY <1>9, <2>1 DEF Shutdown, CqInv, CqTyped, Helps
  <2> QED
    BY <2>1, <2>2, <2>3, PlaceStep, Zenon
<1>10. CASE UNCHANGED cqVars
  BY <1>10 DEF cqVars, CqInv, CqTyped, EnoughHelpers, ShutdownTells, Helpers
<1> QED
  BY <1>1, <1>2, <1>3, <1>4, <1>5, <1>6, <1>7, <1>8, <1>9, <1>10, NotifyKeeps DEF CqNext

\* Where somebody sleeps over a value there is a helper, and after shutdown a notify_all to come.
LEMMA CqInvGivesHelp == CqInv => SleeperHasHelp
<1> SUFFICES ASSUME CqInv, NEW w \in Sleepers, ~missed PROVE
        /\ items # <<>> => \E t \in CqThreads :
               cq[t].at \in {"count", "notify", "test", "look", "notifyAll"} \/ cq[t].notified
        /\ cqShutdown => \E t \in CqThreads : cq[t].at = "notifyAll"
  BY DEF SleeperHasHelp
<1>1. w \in CqThreads /\ Unaware(cq[w])
  BY DEF Sleepers, Unaware
<1>2. cqShutdown => \E t \in CqThreads : cq[t].at = "notifyAll"
  BY <1>1 DEF CqInv, ShutdownTells
<1>3. ASSUME items # <<>> PROVE \E t \in CqThreads : Helps(cq[t])
  <2>1. Len(items) > 0 /\ Len(items) \in Nat
    BY <1>3 DEF CqInv, CqTyped
  <2>2. Len(items) <= Cardinality(Helpers)
    BY <1>1 DEF CqInv, EnoughHelpers
  <2>3. Helpers # {}
    BY <2>1, <2>2, FS_EmptySet
  <2> QED
    BY <2>3 DEF Helpers
<1> QED
  BY <1>2, <1>3 DEF Helps

\* concurrent_queue, for any finite number of threads and any number of values: as long as no
\* notification came between the look of a waiter and its sleep, a wait_dequeue that sleeps
\* while values are queued has an enqueue that will notify or a waiter that will look, and
\* nobody sleeps on once shutdown() has returned.
THEOREM SleepersAreHelped == CqSpec => []SleeperHasHelp
<1>1. CqInit => CqInv
  <2> SUFFICES ASSUME CqInit PROVE CqInv
    OBVIOUS
  <2>1. Gone \in CqRecords /\ ~Gone.notified /\ Gone.at = "out"
    BY DEF Gone, CqRecords, CqPlaces
  <2>2. \A t \in CqThreads : cq[t] = Gone
    BY DEF CqInit
  <2>3. CqTyped
    <3>1. cq \in [CqThreads -> CqRecords]
      BY <2>1 DEF CqInit
    <3>2. items \in Seq(Nat) /\ values \in Nat
      BY DEF CqInit
    <3>3. cqShutdown \in BOOLEAN /\ missed \in BOOLEAN
      BY Zenon DEF CqInit
    <3> QED
      BY <2>1, <2>2, <3>1, <3>2, <3>3 DEF CqTyped
  <2> QED
    BY <2>1, <2>2, <2>3 DEF CqInv, EnoughHelpers, ShutdownTells, Unaware
<1> QED
  BY <1>1, NextKeepsCqInv, CqInvGivesHelp, PTL DEF CqSpec

---------------------------------------------------------------------------
(* policy_queue.                                                          *)

PqPlaces == {"out", "overflow", "push", "test", "try", "block", "waiting"}
PqRecords == [at : PqPlaces, job : Nat, mode : {"mutex", "lock_free"}]

PqTyped ==
    /\ deque \in Seq(Nat) /\ offers \in Nat
    /\ pqMode \in {"mutex", "lock_free"} /\ pqStop \in BOOLEAN
    /\ pq \in [PqThreads -> PqRecords]
    /\ pqPast \in [stopped : BOOLEAN, switched : BOOLEAN]

\* The consumers that still look at the queue.
Looking == {t \in PqThreads : pq[t].at \in {"test", "try"}}

\* The consumers that saw an empty queue and wait, or are about to.
Resting(r) == r.at \in {"block", "waiting"}

LookersSuffice ==
    /\ \A t \in PqThreads : pq[t].at = "block" => deque = <<>>
    /\ ~pqPast.switched =>
          /\ pqMode = "mutex" /\ \A t \in PqThreads : pq[t].mode = "mutex"
          /\ Blocked # {} => Len(deque) <= Cardinality(Looking)

StopIsTold == pqStop /\ (\E t \in PqThreads : Resting(pq[t])) => pqPast.stopped

PqInv == PqTyped /\ LookersSuffice /\ StopIsTold

\* A step of one consumer or producer.
LEMMA PqOneSteps ==
    ASSUME PqInv, NEW t \in PqThreads, NEW r \in PqRecords, pq' = [pq EXCEPT ![t] = r],
           UNCHANGED <<pqMode, pqStop, pqPast>>, offers' \in Nat, deque' \in Seq(Nat),
           \/ Len(deque') <= Len(deque) /\ (pq[t].at \in {"test", "try"} => r.at \in {"test", "try"})
           \/ Len(deque') = Len(deque) - 1
           \/ deque' = <<>>
           \/ deque' = deque /\ pqPast.switched,
           r.at = "block" => deque' = <<>> /\ ~pqStop,
           r.at = "waiting" => pq[t].at = "block" /\ deque' = deque,
           r.mode \in {"mutex", pq[t].mode, pqMode}
    PROVE  PqInv'
<1> USE DEF PqInv
<1>1. pq'[t] = r /\ \A w \in PqThreads \ {t} : pq'[w] = pq[w]
  BY DEF PqTyped
<1>2. PqTyped'
  BY DEF PqTyped
<1>3. Len(deque) \in Nat /\ Len(deque') \in Nat /\ (deque = <<>> => Len(deque') = 0 \/ deque' # <<>>)
  BY DEF PqTyped
<1>4. \A w \in PqThreads : pq'[w].at = "block" => deque' = <<>>
  <2> SUFFICES ASSUME NEW w \in PqThreads \ {t}, pq'[w].at = "block" PROVE deque' = <<>>
    BY <1>1
  <2>1. deque = <<>>
    BY <1>1 DEF LookersSuffice
  <2>2. Len(deque') <= 0 \/ deque' = <<>>
    BY <1>3, <2>1
  <2> QED
    BY <1>3, <2>2
<1>5. ASSUME ~pqPast.switched
      PROVE  pqMode' = "mutex" /\ \A w \in PqThreads : pq'[w].mode = "mutex"
  BY <1>1, <1>5 DEF LookersSuffice
<1>6. ASSUME ~pqPast.switched, NEW w \in Blocked' PROVE Len(deque') <= Cardinality(Looking')
  <2> DEFINE old == Cardinality(Looking)
             new == Cardinality(Looking')
  <2>1. /\ old \in Nat /\ new \in Nat /\ new + 1 >= old
        /\ (pq[t].at \in {"test", "try"} => r.at \in {"test", "try"}) => new >= old
    <3>1. Looking \in SUBSET PqThreads /\ Looking' \in SUBSET PqThreads /\ Looking \ {t} = Looking' \ {t}
      BY <1>1 DEF Looking
    <3>2. (t \in Looking <=> pq[t].at \in {"test", "try"}) /\ (t \in Looking' <=> r.at \in {"test", "try"})
      BY <1>1 DEF Looking
    <3> HIDE DEF Looking
    <3> QED
      BY <3>1, <3>2, FinitePqThreads, CountStep
  <2> HIDE DEF old, new
  <2>2. w \in PqThreads /\ pq'[w].at = "waiting"
    BY DEF Blocked
  <2>3. CASE deque' = <<>>
    BY <2>1, <2>3 DEF new
  <2>4. CASE deque' # <<>>
    <3>1. w # t \/ (deque = <<>> /\ deque' = deque)
      BY <1>1, <2>2 DEF LookersSuffice
    <3>2. w \in Blocked
      BY <1>1, <2>2, <2>4, <3>1 DEF Blocked
    <3>3. Len(deque) <= old
      BY <1>6, <3>2 DEF LookersSuffice, old
    <3> QED
      BY <1>3, <1>6, <2>1, <2>4, <3>3 DEF new
  <2> QED
    BY <2>3, <2>4
<1>7. LookersSuffice'
  BY <1>4, <1>5, <1>6 DEF LookersSuffice
<1>8. StopIsTold'
  BY <1>1 DEF StopIsTold, Resting
<1> QED
  BY <1>2, <1>7, <1>8

\* A pop takes one job, if there is one.
LEMMA WithoutTyped ==
    ASSUME NEW s \in Seq(Nat)
    PROVE  Without(s) \in Seq(Nat) /\ Len(Without(s)) <= Len(s) /\ (Without(s) = <<>> \/ Len(Without(s)) = Len(s) - 1)
<1>1. CASE s = <<>>
  BY <1>1 DEF Without
<1>2. CASE s # <<>>
  <2>1. Without(s) = Tail(s) /\ Tail(s) \in Seq(Nat) /\ Len(Tail(s)) = Len(s) - 1 /\ Len(s) \in Nat
    BY <1>2 DEF Without
  <2> QED
    BY <2>1
<1> QED
  BY <1>1, <1>2

\* push: the job is queued and one of the blocked consumers is woken.
LEMMA PushKeeps == ASSUME PqInv, NEW t \in PqThreads, PqPush(t) PROVE PqInv'
<1> USE DEF PqInv
<1>1. UNCHANGED <<pqMode, pqStop, offers, pqPast>> /\ pq[t].at = "push" /\ pq[t].job \in Nat
  BY DEF PqPush, PqTyped, PqRecords
<1>2. Elsewhere \in PqRecords /\ Elsewhere.at = "out" /\ Elsewhere.mode = "mutex"
  BY DEF Elsewhere, PqRecords, PqPlaces
<1>3. CASE pqMode # "mutex"
  <2>1. pq' = [pq EXCEPT ![t] = Elsewhere] /\ UNCHANGED deque
    BY <1>3 DEF PqPush, PqReturn
  <2>2. deque' \in Seq(Nat) /\ Len(deque') <= Len(deque) /\ offers' \in Nat
    BY <1>1, <2>1 DEF PqTyped
  <2> QED
    BY <1>1, <1>2, <2>1, <2>2, PqOneSteps, Zenon
<1>4. CASE pqMode = "mutex"
  <2>1. deque' = Append(deque, pq[t].job) /\ \A u \in PqThreads : pq[u].at # "block"
    BY <1>4 DEF PqPush, PushedJob
  <2>2. PICK W \in SUBSET Blocked : /\ pq' = [u \in PqThreads |-> IF u = t THEN Elsewhere
                                              ELSE IF u \in W THEN [pq[u] EXCEPT !.at = "test"] ELSE pq[u]]
                                    /\ Blocked # {} => W # {}
    <3>1. CASE Blocked = {}
      <4>1. pq' = [pq EXCEPT ![t] = Elsewhere]
        BY <1>4, <3>1 DEF PqPush, AfterNotifyOne
      <4> QED
        BY <3>1, <4>1, Zenon DEF PqTyped
    <3>2. CASE Blocked # {}
      <4>1. PICK b \in Blocked : pq' = [[u \in PqThreads |-> IF u = b THEN [pq[u] EXCEPT !.at = "test"] ELSE pq[u]]
                                           EXCEPT ![t] = Elsewhere]
        BY <1>4, <3>2 DEF PqPush, AfterNotifyOne
      <4>2. pq' = [u \in PqThreads |-> IF u = t THEN Elsewhere
                                       ELSE IF u \in {b} THEN [pq[u] EXCEPT !.at = "test"] ELSE pq[u]]
        BY <4>1, Zenon
      <4> QED
        BY <4>2, Zenon
    <3> QED
      BY <3>1, <3>2
  <2>3. t \notin W /\ \A u \in W : u \in PqThreads /\ pq[u].at = "waiting"
    BY <1>1 DEF Blocked
  <2>4. \A u \in PqThreads : /\ pq[u] \in PqRecords /\ [pq[u] EXCEPT !.at = "test"] \in PqRecords
                             /\ [pq[u] EXCEPT !.at = "test"].at = "test"
                             /\ [pq[u] EXCEPT !.at = "test"].mode = pq[u].mode
    BY Zenon DEF PqTyped, PqRecords, PqPlaces
  <2>5. /\ pq' \in [PqThreads -> PqRecords] /\ pq'[t] = Elsewhere
        /\ \A u \in W : pq'[u].at = "test" /\ pq'[u].mode = pq[u].mode
        /\ \A u \in PqThreads \ {t} : u \notin W => pq'[u] = pq[u]
    BY <1>2, <2>2, <2>3, <2>4
  <2>6. Len(deque) \in Nat /\ deque' \in Seq(Nat) /\ Len(deque') = Len(deque) + 1
    BY <1>1, <2>1 DEF PqTyped
  <2>7. PqTyped'
    BY <1>1, <2>5, <2>6 DEF PqTyped
  <2>8. StopIsTold'
    BY <1>1, <1>2, <2>5 DEF StopIsTold, Resting
  <2>9. \A u \in PqThreads : pq'[u].at # "block" /\ (pq[u].mode = "mutex" => pq'[u].mode = "mutex")
    BY <1>2, <2>1, <2>5
  <2>10. ASSUME ~pqPast.switched, NEW w \in Blocked' PROVE Len(deque') <= Cardinality(Looking')
    <3>1. w \in Blocked /\ Len(deque) <= Cardinality(Looking)
      <4>1. w \in Blocked
        BY <1>2, <2>5 DEF Blocked
      <4> QED
        BY <2>10, <4>1 DEF LookersSuffice
    <3>2. PICK b \in W : TRUE
      BY <2>2, <3>1
    <3>3. b \in PqThreads /\ b \notin Looking /\ b \in Looking'
      BY <2>3, <2>5, <3>2 DEF Looking
    <3>4. Looking \cup {b} \subseteq Looking'
      BY <1>1, <2>3, <2>5, <3>3 DEF Looking
    <3>5. Looking \in SUBSET PqThreads /\ Looking' \in SUBSET PqThreads /\ Looking \cup {b} \in SUBSET PqThreads
      BY <3>3 DEF Looking
    <3>6. IsFiniteSet(Looking) /\ IsFiniteSet(Looking') /\ Cardinality(Looking) \in Nat /\ Cardinality(Looking') \in Nat
      BY <3>5, FinitePqThreads, FS_Subset, FS_CardinalityType
    <3>7. Cardinality(Looking \cup {b}) = Cardinality(Looking) + 1
      BY <3>3, <3>6, FS_AddElement, Zenon
    <3>8. Cardinality(Looking \cup {b}) <= Cardinality(Looking')
      BY <3>4, <3>6, FS_Subset
    <3> QED
      BY <2>6, <3>1, <3>6, <3>7, <3>8
  <2>11. LookersSuffice'
    BY <1>1, <2>9, <2>10 DEF LookersSuffice
  <2> QED
    BY <2>7, <2>8, <2>11
<1> QED
  BY <1>3, <1>4

\* Every step of a user of policy_queue keeps the invariant.
LEMMA NextKeepsPqInv == PqInv /\ [PqNext]_pqVars => PqInv'
<1> SUFFICES ASSUME PqInv, [PqNext]_pqVars PROVE PqInv'
  OBVIOUS
<1>0. /\ deque \in Seq(Nat) /\ Len(deque) \in Nat /\ offers \in Nat
      /\ \A t \in PqThreads : pq[t] \in PqRecords
      /\ Elsewhere \in PqRecords /\ Elsewhere.at = "out" /\ Elsewhere.mode = "mutex"
  BY DEF PqInv, PqTyped, Elsewhere, PqRecords, PqPlaces
<1>1. ASSUME NEW t \in PqThreads, PqEnqueue(t) PROVE PqInv'
  <2>1. PICK a \in {"overflow", "push"} : pq' = [pq EXCEPT ![t] = [Elsewhere EXCEPT !.job = offers + 1, !.at = a]]
    BY <1>1, Zenon DEF PqEnqueue
  <2> DEFINE r == [Elsewhere EXCEPT !.job = offers + 1, !.at = a]
  <2>2. UNCHANGED <<deque, pqMode, pqStop, pqPast>> /\ offers' \in Nat /\ pq[t].at = "out"
    BY <1>0, <1>1 DEF PqEnqueue
  <2>3. offers + 1 \in Nat
    BY <1>0
  <2>4. r \in PqRecords /\ r.at = a /\ r.mode = "mutex"
    BY <1>0, <2>3, Zenon DEF PqRecords, PqPlaces
  <2>5. Len(deque') <= Len(deque)
    BY <1>0, <2>2
  <2> HIDE DEF r
  <2>6. pq' = [pq EXCEPT ![t] = r]
    BY <2>1 DEF r
  <2> QED
    BY <1>0, <2>2, <2>4, <2>5, <2>6, PqOneSteps, Zenon
<1>2. ASSUME NEW t \in PqThreads, HandleOverflow(t) PROVE PqInv'
  <2> DEFINE r == IF rule = "drop_oldest" THEN [pq[t] EXCEPT !.at = "push"] ELSE Elsewhere
  <2>1. UNCHANGED <<offers, pqMode, pqStop, pqPast>> /\ pq[t].at = "overflow" /\ deque' \in {deque, Without(deque)}
    BY <1>2 DEF HandleOverflow
  <2>2. pq' = [pq EXCEPT ![t] = r]
    BY <1>2 DEF HandleOverflow, PqGo, PqReturn
  <2>3. r \in PqRecords /\ r.at \in {"push", "out"} /\ r.mode \in {"mutex", pq[t].mode}
    BY <1>0 DEF PqRecords, PqPlaces
  <2>4. deque' \in Seq(Nat) /\ Len(deque') <= Len(deque)
    BY <1>0, <2>1, WithoutTyped
  <2> HIDE DEF r
  <2> QED
    BY <1>0, <2>1, <2>2, <2>3, <2>4, PqOneSteps, Zenon
<1>3. ASSUME NEW t \in PqThreads, NEW wait \in BOOLEAN, PqDequeue(t, wait) PROVE PqInv'
  <2> DEFINE r == [pq[t] EXCEPT !.at = IF wait /\ pqMode = "mutex" THEN "test" ELSE "try", !.mode = pqMode]
  <2>1. UNCHANGED <<offers, deque, pqMode, pqStop, pqPast>> /\ pq' = [pq EXCEPT ![t] = r]
    BY <1>3, Zenon DEF PqDequeue
  <2>2. r \in PqRecords /\ r.at \in {"test", "try"} /\ r.mode = pqMode
    BY <1>0, Zenon DEF PqRecords, PqPlaces, PqInv, PqTyped
  <2>3. Len(deque') <= Len(deque)
    BY <1>0, <2>1
  <2> HIDE DEF r
  <2> QED
    BY <1>0, <2>1, <2>2, <2>3, PqOneSteps, Zenon
<1>4. ASSUME NEW t \in PqThreads, PqTry(t) PROVE PqInv'
  <2>1. UNCHANGED <<offers, pqMode, pqStop, pqPast>> /\ pq' = [pq EXCEPT ![t] = Elsewhere] /\ pq[t].at = "try"
    BY <1>4 DEF PqTry, PqReturn
  <2>2. CASE pq[t].mode = "mutex"
    <3>1. deque' = Without(deque)
      BY <1>4, <2>2 DEF PqTry
    <3>2. deque' \in Seq(Nat) /\ (deque' = <<>> \/ Len(deque') = Len(deque) - 1)
      BY <1>0, <3>1, WithoutTyped
    <3> QED
      BY <1>0, <2>1, <3>2, PqOneSteps, Zenon
  <2>3. CASE pq[t].mode # "mutex"
    <3>1. deque' = deque /\ pqPast.switched
      BY <1>4, <2>3 DEF PqTry, PqInv, LookersSuffice
    <3> QED
      BY <1>0, <2>1, <3>1, PqOneSteps, Zenon
  <2> QED
    BY <2>2, <2>3
<1>5. ASSUME NEW t \in PqThreads, PqTest(t) PROVE PqInv'
  <2>1. UNCHANGED <<offers, pqMode, pqStop, pqPast>>
    BY <1>5 DEF PqTest
  <2>2. CASE deque # <<>>
    <3>1. deque' = Tail(deque) /\ pq' = [pq EXCEPT ![t] = Elsewhere]
      BY <1>5, <2>2 DEF PqTest, PqReturn
    <3>2. deque' \in Seq(Nat) /\ Len(deque') = Len(deque) - 1
      BY <1>0, <2>2, <3>1
    <3> QED
      BY <1>0, <2>1, <3>1, <3>2, PqOneSteps, Zenon
  <2>3. CASE deque = <<>>
    <3> DEFINE r == IF pqStop THEN Elsewhere ELSE [pq[t] EXCEPT !.at = "block"]
    <3>1. deque' = <<>> /\ pq' = [pq EXCEPT ![t] = r]
      BY <1>5, <2>3 DEF PqTest, PqReturn, PqGo
    <3>2. r \in PqRecords /\ r.at \in {"out", "block"} /\ (r.at = "block" => ~pqStop) /\ r.mode \in {"mutex", pq[t].mode}
      BY <1>0 DEF PqRecords, PqPlaces
    <3> HIDE DEF r
    <3> QED
      BY <1>0, <2>1, <2>3, <3>1, <3>2, PqOneSteps, Zenon
  <2> QED
    BY <2>2, <2>3
<1>6. ASSUME NEW t \in PqThreads, PqBlock(t) PROVE PqInv'
  <2> DEFINE r == [pq[t] EXCEPT !.at = "waiting"]
  <2>1. /\ UNCHANGED <<offers, deque, pqMode, pqStop, pqPast>> /\ pq' = [pq EXCEPT ![t] = r]
        /\ pq[t].at = "block"
    BY <1>6 DEF PqBlock, PqGo
  <2>2. r \in PqRecords /\ r.at = "waiting" /\ r.mode = pq[t].mode
    BY <1>0 DEF PqRecords, PqPlaces
  <2>3. Len(deque') <= Len(deque)
    BY <1>0, <2>1
  <2> HIDE DEF r
  <2> QED
    BY <1>0, <2>1, <2>2, <2>3, PqOneSteps, Zenon
<1>7. CASE PqClear
  <2>1. UNCHANGED <<pqMode, pqStop, pq, offers, pqPast>> /\ (deque' = deque \/ deque' = <<>>)
    BY <1>7 DEF PqClear
  <2>2. PqTyped' /\ StopIsTold'
    <3>1. deque' \in Seq(Nat)
      <4>1. <<>> \in Seq(Nat)
        OBVIOUS
      <4> QED
        BY <1>0, <2>1, <4>1, Zenon
    <3> QED
      BY <2>1, <3>1 DEF PqInv, PqTyped, StopIsTold
  <2>3. Looking' = Looking /\ Blocked' = Blocked /\ Cardinality(Looking) \in Nat
    <3>1. Looking \in SUBSET PqThreads
      BY DEF Looking
    <3>2. Cardinality(Looking) \in Nat
      BY <3>1, FinitePqThreads, FS_Subset, FS_CardinalityType
    <3> QED
      BY <2>1, <3>2 DEF Looking, Blocked
  <2>4. deque' = deque \/ Len(deque') = 0
    BY <2>1
  <2>5. LookersSuffice'
    BY <2>1, <2>3, <2>4 DEF PqInv, LookersSuffice
  <2> QED
    BY <2>2, <2>5 DEF PqInv
<1>8. CASE PqStopAll
  <2> DEFINE b == \E t \in PqThreads : pq[t].at = "block"
  <2>1. /\ UNCHANGED <<deque, pqMode, offers>> /\ pqStop' = TRUE
        /\ pq' = AllWoken /\ pqPast' = [pqPast EXCEPT !.stopped = b]
    BY <1>8 DEF PqStopAll
  <2>2. /\ pqPast' \in [stopped : BOOLEAN, switched : BOOLEAN]
        /\ pqPast'.switched = pqPast.switched /\ pqPast'.stopped = b
    BY <2>1, Zenon DEF PqInv, PqTyped
  <2>3. ASSUME NEW t \in PqThreads
        PROVE  /\ [pq[t] EXCEPT !.at = "test"] \in PqRecords
               /\ [pq[t] EXCEPT !.at = "test"].at = "test" /\ [pq[t] EXCEPT !.at = "test"].mode = pq[t].mode
    BY <1>0 DEF PqRecords, PqPlaces
  <2>4. pq' = [t \in PqThreads |-> IF pq[t].at = "waiting" THEN [pq[t] EXCEPT !.at = "test"] ELSE pq[t]]
    BY <2>1 DEF AllWoken, Blocked
  <2>5. /\ pq' \in [PqThreads -> PqRecords] /\ \A t \in PqThreads : pq'[t].mode = pq[t].mode
        /\ \A t \in PqThreads : pq'[t].at # "waiting" /\ (pq'[t].at = "block" => pq[t].at = "block")
    BY <1>0, <2>3, <2>4
  <2>6. PqTyped'
    BY <2>1, <2>2, <2>5 DEF PqInv, PqTyped
  <2>7. StopIsTold'
    BY <2>2, <2>5 DEF StopIsTold, Resting
  <2>8. Blocked' = {}
    BY <2>5 DEF Blocked
  <2>9. LookersSuffice'
    BY <2>1, <2>2, <2>5, <2>8 DEF PqInv, LookersSuffice
  <2> QED
    BY <2>6, <2>7, <2>9 DEF PqInv
<1>9. CASE SwitchMode
  <2>1. /\ UNCHANGED <<deque, pq, pqStop, offers>> /\ pqMode' \in {"mutex", "lock_free"}
        /\ pqPast' = [pqPast EXCEPT !.switched = TRUE]
    BY <1>9 DEF SwitchMode
  <2>2. /\ pqPast' \in [stopped : BOOLEAN, switched : BOOLEAN]
        /\ pqPast'.switched /\ pqPast'.stopped = pqPast.stopped
    BY <2>1, Zenon DEF PqInv, PqTyped
  <2> QED
    BY <2>1, <2>2 DEF PqInv, PqTyped, LookersSuffice, StopIsTold
<1>10. CASE UNCHANGED pqVars
  BY <1>10 DEF pqVars, PqInv, PqTyped, LookersSuffice, StopIsTold, Blocked, Looking
<1> QED
  BY <1>1, <1>2, <1>3, <1>4, <1>5, <1>6, <1>7, <1>8, <1>9, <1>10, PushKeeps DEF PqNext

\* policy_queue, for any finite number of threads, any bound and any overflow policy: while
\* the mode was not switched over a waiting consumer, a dequeue that waits has at most as many
\* jobs before it as there are woken consumers still to look, and after stop() nobody waits
\* unless the stop came between the test of a consumer and its wait.
THEOREM WaitersAreServed == PqSpec => []WaitersHaveNothing
<1>1. PqInit => PqInv
  <2> SUFFICES ASSUME PqInit PROVE PqInv
    OBVIOUS
  <2>1. Elsewhere \in PqRecords /\ Elsewhere.at = "out" /\ Elsewhere.mode = "mutex"
    BY DEF Elsewhere, PqRecords, PqPlaces
  <2>2. \A t \in PqThreads : pq[t] = Elsewhere
    BY DEF PqInit
  <2>3. deque \in Seq(Nat) /\ offers \in Nat
    BY DEF PqInit
  <2>4. pq \in [PqThreads -> PqRecords] /\ pqStop \in BOOLEAN /\ pqPast \in [stopped : BOOLEAN, switched : BOOLEAN]
    BY <2>1, Zenon DEF PqInit
  <2>5. PqTyped
    BY <2>3, <2>4 DEF PqInit, PqTyped
  <2>6. Blocked = {}
    BY <2>1, <2>2 DEF Blocked
  <2>7. LookersSuffice /\ StopIsTold
    BY <2>1, <2>2, <2>6 DEF PqInit, LookersSuffice, StopIsTold, Resting
  <2> QED
    BY <2>5, <2>7 DEF PqInv
<1>2. PqInv => WaitersHaveNothing
  BY DEF PqInv, LookersSuffice, StopIsTold, WaitersHaveNothing, Looking, Blocked, Resting
<1> QED
  BY <1>1, <1>2, NextKeepsPqInv, PTL DEF PqSpec

=============================================================================
