-------------------------- MODULE AdaptiveQueueProofs --------------------------
(***************************************************************************)
(* adaptive_job_queue, for any threads, policies and jobs: an accepted job *)
(* is in one place, a queue or the hands of the one thread that migrates,  *)
(* until it is taken or cleared.  The invariant adds what makes this       *)
(* inductive: no queue holds a job twice, the migration mutex has one      *)
(* holder, and a job on its way into a queue is nowhere else.              *)
(***************************************************************************)
EXTENDS AdaptiveQueue, TLAPS

AqNumbers == 1..AqMaxJobs
AqModes == {"mutex", "lock_free"}
AqPlaces ==
    {"out", "put", "first", "second", "migrate", "move", "drop", "clearing", "guardCount", "guarded", "stopping"}
AqRecords ==
    [at : AqPlaces, job : Nat, mode : AqModes, target : AqModes, then : {"out", "guarded"}, batch : Seq(AqNumbers)]

AqTyped ==
    /\ mutexQ \in Seq(AqNumbers) /\ lockfreeQ \in Seq(AqNumbers)
    /\ aq \in [AqThreads -> AqRecords]
    /\ aqJobs \in 0..AqMaxJobs /\ aqMode \in AqModes
    /\ fates \in [AqNumbers -> {"none", "ok", "refused", "taken", "cleared", "lost"}]

\* No job is twice in a queue.
Single(s) == \A i, j \in 1..Len(s) : s[i] = s[j] => i = j
Singles == Single(mutexQ) /\ Single(lockfreeQ) /\ \A t \in AqThreads : Single(aq[t].batch)

\* The holder of the migration mutex.
Migrating(r) == r.at \in {"move", "drop", "clearing"}

\* What its place says about the jobs in a thread's hands.
BatchFits(r) ==
    /\ r.batch # <<>> => r.at \in {"move", "drop"}
    /\ r.at = "move" /\ r.target = "mutex" => r.batch = <<>>
    /\ r.at = "drop" => Len(r.batch) = 1

OneMigrates ==
    /\ \A t \in AqThreads : BatchFits(aq[t])
    /\ \A t, u \in AqThreads : Migrating(aq[t]) /\ Migrating(aq[u]) => t = u

\* A job on its way into a queue is new, and in the hands of one thread.
Putting(t) == aq[t].at = "put"
PutsAreNew ==
    /\ \A t \in AqThreads : Putting(t) => aq[t].job \in 1..aqJobs /\ fates[aq[t].job] = "none"
    /\ \A t, u \in AqThreads : Putting(t) /\ Putting(u) /\ aq[t].job = aq[u].job => t = u
    /\ \A j \in AqNumbers : j > aqJobs => fates[j] = "none"

\* Jobs in the hands of the others.
Others(t) == UNION {Elements(aq[u].batch) : u \in AqThreads \ {t}}

Apart ==
    /\ Elements(mutexQ) \cap Elements(lockfreeQ) = {}
    /\ \A t \in AqThreads : Elements(aq[t].batch) \cap (Elements(mutexQ) \cup Elements(lockfreeQ)) = {}

Accounted ==
    \A j \in AqNumbers :
        /\ fates[j] = "ok" <=> j \in Present \/ \E t \in AqThreads : j \in Elements(aq[t].batch)
        /\ fates[j] = "lost" => mqStopped

\* A step of thread t that leaves it with r in its hands: the queues stay well-formed, and
\* nothing is in two places.
HandsOver(t, r) ==
    /\ r \in AqRecords /\ aq' = [aq EXCEPT ![t] = r] /\ aqMode' \in AqModes
    /\ mutexQ' \in Seq(AqNumbers) /\ lockfreeQ' \in Seq(AqNumbers) /\ Single(mutexQ') /\ Single(lockfreeQ')
    /\ Single(r.batch) /\ BatchFits(r) /\ (Migrating(r) => Migrating(aq[t]) \/ MigrationMutexFree)
    /\ Elements(mutexQ') \cap Elements(lockfreeQ') = {}
    /\ Elements(r.batch) \cap (Elements(mutexQ') \cup Elements(lockfreeQ')) = {}

\* What the step does to the fates of the jobs.
Books(t, r) ==
    /\ aqJobs' \in 0..AqMaxJobs /\ aqJobs' >= aqJobs
    /\ fates' \in [AqNumbers -> {"none", "ok", "refused", "taken", "cleared", "lost"}]
    /\ r.at = "put" => /\ r.job \in 1..aqJobs' /\ fates'[r.job] = "none"
                       /\ \A u \in AqThreads \ {t} : Putting(u) => aq[u].job # r.job
    /\ \A u \in AqThreads \ {t} : Putting(u) => fates'[aq[u].job] = "none"
    /\ \A j \in AqNumbers : j > aqJobs' => fates'[j] = "none"
    /\ Others(t) \cap (Elements(mutexQ') \cup Elements(lockfreeQ')) = {}
    /\ \A j \in AqNumbers : fates'[j] = "ok" <=>
           j \in Elements(mutexQ') \cup Elements(lockfreeQ') \cup Elements(r.batch) \cup Others(t)
    /\ \A j \in AqNumbers : fates'[j] = "lost" => mqStopped'

\* The jobs of X leave with fate f, the others stay somewhere.
Leaves(t, r, X, f) ==
    /\ X \subseteq AqNumbers /\ f \in {"taken", "cleared", "lost"} /\ (f = "lost" => mqStopped')
    /\ r.at # "put" /\ (mqStopped => mqStopped') /\ aqJobs' = aqJobs
    /\ fates' = [j \in AqNumbers |-> IF j \in X THEN f ELSE fates[j]]
    /\ X \subseteq Elements(mutexQ) \cup Elements(lockfreeQ) \cup Elements(aq[t].batch)
    /\ Elements(mutexQ') \cup Elements(lockfreeQ') \cup Elements(r.batch) =
           (Elements(mutexQ) \cup Elements(lockfreeQ) \cup Elements(aq[t].batch)) \ X

AqInv == AqTyped /\ Singles /\ OneMigrates /\ PutsAreNew /\ Apart /\ Accounted

\* The elements of a queue after a push and after a pop.
LEMMA PushElements ==
    ASSUME NEW S, NEW s \in Seq(S), NEW x \in S
    PROVE  /\ Append(s, x) \in Seq(S) /\ Elements(Append(s, x)) = Elements(s) \cup {x}
           /\ Single(s) /\ x \notin Elements(s) => Single(Append(s, x))
<1> DEFINE a == Append(s, x)
<1>1. a \in Seq(S) /\ Len(a) = Len(s) + 1 /\ Len(s) \in Nat /\ DOMAIN a = 1..Len(a) /\ DOMAIN s = 1..Len(s)
  OBVIOUS
<1>2. \A i \in 1..Len(s) : a[i] = s[i] /\ i \in 1..Len(a)
  OBVIOUS
<1>3. a[Len(s) + 1] = x /\ Len(s) + 1 \in 1..Len(a)
  OBVIOUS
<1>4. \A i \in 1..Len(a) : i \in 1..Len(s) \/ i = Len(s) + 1
  BY <1>1
<1> HIDE DEF a
<1>5. Elements(a) = Elements(s) \cup {x}
  BY <1>1, <1>2, <1>3, <1>4 DEF Elements
<1>6. Single(s) /\ x \notin Elements(s) => Single(a)
  BY <1>1, <1>2, <1>3, <1>4 DEF Elements, Single
<1> QED
  BY <1>1, <1>5, <1>6 DEF a

\* The head of a queue leaves it, and only the head.
LEMMA PopElements ==
    ASSUME NEW S, NEW s \in Seq(S), s # <<>>, Single(s)
    PROVE  /\ Tail(s) \in Seq(S) /\ Head(s) \in S /\ Head(s) \in Elements(s) /\ Single(Tail(s))
           /\ Elements(Tail(s)) = Elements(s) \ {Head(s)}
<1> DEFINE a == Tail(s)
<1>1. /\ a \in Seq(S) /\ Head(s) = s[1] /\ Len(a) = Len(s) - 1 /\ Len(s) \in Nat /\ Len(s) >= 1
      /\ DOMAIN a = 1..Len(a) /\ DOMAIN s = 1..Len(s)
  OBVIOUS
<1>2. \A i \in 1..Len(a) : a[i] = s[i + 1] /\ i + 1 \in 1..Len(s) /\ i + 1 # 1
  OBVIOUS
<1>3. \A i \in 1..Len(s) : i = 1 \/ (i - 1 \in 1..Len(a) /\ a[i - 1] = s[i])
  BY <1>1, <1>2
<1>4. 1 \in 1..Len(s) /\ Head(s) \in S
  BY <1>1
<1> HIDE DEF a
<1>5. Elements(a) = Elements(s) \ {Head(s)}
  <2>1. ASSUME NEW i \in 1..Len(a) PROVE a[i] \in Elements(s) /\ a[i] # Head(s)
    BY <1>1, <1>2, <1>4 DEF Elements, Single
  <2>2. ASSUME NEW i \in 1..Len(s), s[i] # Head(s) PROVE s[i] \in Elements(a)
    BY <1>1, <1>3, <2>2 DEF Elements
  <2> QED
    BY <1>1, <2>1, <2>2, Zenon DEF Elements
<1>6. Single(a)
  BY <1>1, <1>2 DEF Single
<1> QED
  BY <1>1, <1>4, <1>5, <1>6, Zenon DEF a, Elements

\* The empty queue, and the queue of one job.
LEMMA FewElements ==
    /\ Elements(<<>>) = {} /\ Single(<<>>)
    /\ \A S : \A x \in S : <<x>> \in Seq(S) /\ Elements(<<x>>) = {x} /\ Single(<<x>>) /\ Len(<<x>>) = 1
    /\ \A S : <<>> \in Seq(S)
  BY DEF Elements, Single

\* What the invariant says about the places a job can be in, as sets.
LEMMA AqSets ==
    ASSUME AqInv, NEW t \in AqThreads
    PROVE  /\ Elements(mutexQ) \subseteq AqNumbers /\ Elements(lockfreeQ) \subseteq AqNumbers
           /\ Elements(aq[t].batch) \subseteq AqNumbers
           /\ Elements(mutexQ) \cap Elements(lockfreeQ) = {}
           /\ Elements(aq[t].batch) \cap (Elements(mutexQ) \cup Elements(lockfreeQ) \cup Others(t)) = {}
           /\ Others(t) \cap (Elements(mutexQ) \cup Elements(lockfreeQ)) = {}
           /\ Migrating(aq[t]) => Others(t) = {}
           /\ \A j \in AqNumbers : fates[j] = "ok" <=>
                 j \in Elements(mutexQ) \cup Elements(lockfreeQ) \cup Elements(aq[t].batch) \cup Others(t)
<1> USE DEF AqInv
<1>1. \A s \in Seq(AqNumbers) : Elements(s) \subseteq AqNumbers
  BY DEF Elements
<1>2. \A u \in AqThreads : aq[u].batch \in Seq(AqNumbers)
  BY DEF AqTyped, AqRecords
<1>3. ASSUME NEW u \in AqThreads \ {t}, NEW j \in Elements(aq[t].batch) PROVE j \notin Elements(aq[u].batch)
  <2>1. CASE aq[u].batch = <<>>
    BY <2>1, FewElements
  <2>2. CASE aq[u].batch # <<>>
    <3>1. aq[t].batch # <<>>
      BY <1>3, FewElements
    <3> QED
      BY <2>2, <3>1 DEF OneMigrates, BatchFits, Migrating
  <2> QED
    BY <2>1, <2>2
<1>4. Migrating(aq[t]) => Others(t) = {}
  <2> SUFFICES ASSUME Migrating(aq[t]), NEW u \in AqThreads \ {t} PROVE Elements(aq[u].batch) = {}
    BY Zenon DEF Others
  <2>1. aq[u].batch = <<>>
    BY DEF OneMigrates, BatchFits, Migrating
  <2> QED
    BY <2>1, FewElements
<1>5. Others(t) \cap (Elements(mutexQ) \cup Elements(lockfreeQ)) = {}
  BY Zenon DEF Others, Apart
<1>6. Elements(aq[t].batch) \cap Others(t) = {}
  BY <1>3, Zenon DEF Others
<1>7. \A j : j \in Others(t) <=> \E u \in AqThreads \ {t} : j \in Elements(aq[u].batch)
  BY Zenon DEF Others
<1>8. \A j \in AqNumbers : fates[j] = "ok" <=>
         j \in Elements(mutexQ) \cup Elements(lockfreeQ) \cup Elements(aq[t].batch) \cup Others(t)
  BY <1>7, Zenon DEF Accounted, Present
<1>9. Elements(mutexQ) \subseteq AqNumbers /\ Elements(lockfreeQ) \subseteq AqNumbers
  BY <1>1 DEF AqTyped
<1> QED
  BY <1>1, <1>2, <1>4, <1>5, <1>6, <1>8, <1>9 DEF Apart

\* What a step of one thread has to show.
LEMMA AqStep ==
    ASSUME AqInv, NEW t \in AqThreads, NEW r, HandsOver(t, r), Books(t, r)
    PROVE  AqInv'
<1> USE DEF AqInv
<1>1. /\ aq \in [AqThreads -> AqRecords] /\ r \in AqRecords /\ aq' = [aq EXCEPT ![t] = r]
      /\ aqJobs \in 0..AqMaxJobs /\ aqJobs' \in 0..AqMaxJobs /\ aqJobs' >= aqJobs
  BY DEF AqTyped, HandsOver, Books
<1>2. aq'[t] = r /\ \A u \in AqThreads \ {t} : aq'[u] = aq[u]
  BY <1>1
<1>3. AqTyped'
  <2>1. aq' \in [AqThreads -> AqRecords]
    BY <1>1
  <2> QED
    BY <1>1, <2>1, Zenon DEF AqTyped, HandsOver, Books
<1>4. Singles'
  BY <1>2, Zenon DEF Singles, HandsOver
<1>5. OneMigrates'
  <2>1. ASSUME NEW u \in AqThreads PROVE BatchFits(aq'[u])
    <3>1. CASE u = t
      BY <1>2, <3>1, Zenon DEF HandsOver
    <3>2. CASE u # t
      BY <1>2, <3>2, Zenon DEF OneMigrates
    <3> QED
      BY <3>1, <3>2
  <2>2. ASSUME NEW u \in AqThreads \ {t}, Migrating(r), Migrating(aq[u]) PROVE FALSE
    BY <2>2, Zenon DEF OneMigrates, HandsOver, MigrationMutexFree, Migrating
  <2>3. ASSUME NEW u \in AqThreads, NEW w \in AqThreads, Migrating(aq'[u]), Migrating(aq'[w]) PROVE u = w
    <3>1. CASE u = t /\ w # t
      BY <1>2, <2>2, <2>3, <3>1, Zenon
    <3>2. CASE w = t /\ u # t
      BY <1>2, <2>2, <2>3, <3>2, Zenon
    <3>3. CASE u # t /\ w # t
      <4>1. aq'[u] = aq[u] /\ aq'[w] = aq[w]
        BY <1>2, <3>3
      <4> QED
        BY <2>3, <4>1, Zenon DEF OneMigrates
    <3> QED
      BY <3>1, <3>2, <3>3
  <2> QED
    BY <2>1, <2>3, Zenon DEF OneMigrates
<1>6. PutsAreNew'
  <2>1. ASSUME NEW u \in AqThreads, Putting(u)'
        PROVE  aq'[u].job \in 1..aqJobs' /\ fates'[aq'[u].job] = "none"
    <3>1. CASE u = t
      BY <1>2, <2>1, <3>1, Zenon DEF Putting, Books
    <3>2. CASE u # t
      <4>1. aq'[u] = aq[u] /\ Putting(u)
        BY <1>2, <2>1, <3>2, Zenon DEF Putting
      <4>2. aq[u].job \in 1..aqJobs /\ fates'[aq[u].job] = "none"
        BY <3>2, <4>1, Zenon DEF PutsAreNew, Books
      <4>3. aq[u].job \in 1..aqJobs'
        BY <1>1, <4>2
      <4> QED
        BY <4>1, <4>2, <4>3
    <3> QED
      BY <3>1, <3>2
  <2>2. ASSUME NEW u \in AqThreads, NEW w \in AqThreads, Putting(u)', Putting(w)', aq'[u].job = aq'[w].job
        PROVE  u = w
    <3>1. ASSUME NEW v \in AqThreads \ {t}, Putting(v)', r.at = "put" PROVE aq'[v].job # r.job
      BY <1>2, <3>1, Zenon DEF Putting, Books
    <3>2. Putting(t)' => r.at = "put"
      BY <1>2, Zenon DEF Putting
    <3>3. CASE u # t /\ w # t
      <4>1. aq'[u] = aq[u] /\ aq'[w] = aq[w] /\ Putting(u) /\ Putting(w)
        BY <1>2, <2>2, <3>3, Zenon DEF Putting
      <4> QED
        BY <2>2, <4>1, Zenon DEF PutsAreNew
    <3>4. CASE u = t \/ w = t
      BY <1>2, <2>2, <3>1, <3>2, <3>4, Zenon
    <3> QED
      BY <3>3, <3>4
  <2>3. \A j \in AqNumbers : j > aqJobs' => fates'[j] = "none"
    BY Zenon DEF Books
  <2> QED
    BY <2>1, <2>2, <2>3, Zenon DEF PutsAreNew
<1>7. \A j : j \in Others(t) <=> \E u \in AqThreads \ {t} : j \in Elements(aq[u].batch)
  BY Zenon DEF Others
<1>8. Apart'
  <2>1. ASSUME NEW u \in AqThreads
        PROVE  Elements(aq'[u].batch) \cap (Elements(mutexQ') \cup Elements(lockfreeQ')) = {}
    <3>1. CASE u = t
      BY <1>2, <3>1, Zenon DEF HandsOver
    <3>2. CASE u # t
      <4>1. aq'[u] = aq[u] /\ Elements(aq[u].batch) \subseteq Others(t)
        BY <1>2, <1>7, <3>2, Zenon
      <4>2. Others(t) \cap (Elements(mutexQ') \cup Elements(lockfreeQ')) = {}
        BY Zenon DEF Books
      <4> QED
        BY <4>1, <4>2
    <3> QED
      BY <3>1, <3>2
  <2> QED
    BY <2>1, Zenon DEF Apart, Elements, HandsOver
<1>9. Accounted'
  <2>1. ASSUME NEW j \in AqNumbers
        PROVE  fates'[j] = "ok" <=> j \in Present' \/ \E u \in AqThreads : j \in Elements(aq'[u].batch)
    <3>1. ASSUME NEW u \in AqThreads, j \in Elements(aq'[u].batch) PROVE j \in Elements(r.batch) \cup Others(t)
      <4>1. u # t => aq'[u] = aq[u]
        BY <1>2
      <4> QED
        BY <1>2, <1>7, <3>1, <4>1, Zenon
    <3>2. ASSUME j \in Elements(r.batch) \cup Others(t) PROVE \E u \in AqThreads : j \in Elements(aq'[u].batch)
      <4>1. CASE j \in Elements(r.batch)
        BY <1>2, <4>1, Zenon
      <4>2. CASE j \in Others(t)
        <5>1. PICK u \in AqThreads \ {t} : j \in Elements(aq[u].batch)
          BY <1>7, <4>2
        <5>2. aq'[u] = aq[u]
          BY <1>2
        <5> QED
          BY <5>1, <5>2, Zenon
      <4> QED
        BY <3>2, <4>1, <4>2
    <3>3. Present' = Elements(mutexQ') \cup Elements(lockfreeQ')
      BY DEF Present, Elements
    <3> QED
      BY <3>1, <3>2, <3>3, Zenon DEF Books
  <2>2. \A j \in AqNumbers : fates'[j] = "lost" => mqStopped'
    BY Zenon DEF Books
  <2> QED
    BY <2>1, <2>2, Zenon DEF Accounted, Elements
<1> QED
  BY <1>3, <1>4, <1>5, <1>6, <1>8, <1>9

\* Jobs are moved between the queues and the hands of a migration, and some may leave.
LEMMA AqLeaves ==
    ASSUME AqInv, NEW t \in AqThreads, NEW r, HandsOver(t, r), NEW X, NEW f, Leaves(t, r, X, f)
    PROVE  AqInv'
<1> DEFINE M == Elements(mutexQ)
           L == Elements(lockfreeQ)
           B == Elements(aq[t].batch)
           O == Others(t)
           M1 == Elements(mutexQ')
           L1 == Elements(lockfreeQ')
           B1 == Elements(r.batch)
<1>1. /\ B \cap (M \cup L \cup O) = {} /\ O \cap (M \cup L) = {}
      /\ \A j \in AqNumbers : fates[j] = "ok" <=> j \in M \cup L \cup B \cup O
  BY AqSets
<1>2. /\ fates \in [AqNumbers -> {"none", "ok", "refused", "taken", "cleared", "lost"}]
      /\ aqJobs \in 0..AqMaxJobs
      /\ \A j \in AqNumbers : fates[j] = "lost" => mqStopped
  BY DEF AqInv, AqTyped, Accounted
<1>3. /\ \A u \in AqThreads : Putting(u) => aq[u].job \in AqNumbers /\ fates[aq[u].job] = "none"
      /\ \A j \in AqNumbers : j > aqJobs => fates[j] = "none"
  <2>1. \A j \in 1..aqJobs : j \in AqNumbers
    BY <1>2, AqBounds DEF AqNumbers
  <2> QED
    BY <2>1, Zenon DEF AqInv, PutsAreNew
<1> HIDE DEF M, L, B, O, M1, L1, B1
<1>4. X \subseteq M \cup L \cup B /\ M1 \cup L1 \cup B1 = (M \cup L \cup B) \ X
  BY Zenon DEF Leaves, M, L, B, M1, L1, B1
<1> DEFINE fate == [j \in AqNumbers |-> IF j \in X THEN f ELSE fates[j]]
<1>5. fates' = fate /\ f \in {"taken", "cleared", "lost"} /\ X \subseteq AqNumbers /\ aqJobs' = aqJobs
  BY Zenon DEF Leaves
<1>6. \A j \in AqNumbers : fates'[j] = IF j \in X THEN f ELSE fates[j]
  BY <1>5
<1>7. \A j \in AqNumbers : fates[j] = "none" => j \notin X
  BY <1>1, <1>4
<1>8. fates' \in [AqNumbers -> {"none", "ok", "refused", "taken", "cleared", "lost"}]
  BY <1>2, <1>5
<1>9. /\ \A u \in AqThreads \ {t} : Putting(u) => fates'[aq[u].job] = "none"
      /\ \A j \in AqNumbers : j > aqJobs' => fates'[j] = "none"
  BY <1>3, <1>7, <1>5, <1>6
<1>10. O \cap (M1 \cup L1) = {}
  BY <1>1, <1>4
<1>11. \A j \in AqNumbers : fates'[j] = "ok" <=> j \in M1 \cup L1 \cup B1 \cup O
  <2> TAKE j \in AqNumbers
  <2>1. CASE j \in X
    BY <1>1, <1>4, <1>5, <1>6, <2>1
  <2>2. CASE j \notin X
    BY <1>1, <1>4, <1>6, <2>2
  <2> QED
    BY <2>1, <2>2
<1>12. \A j \in AqNumbers : fates'[j] = "lost" => mqStopped'
  BY <1>2, <1>6, Zenon DEF Leaves
<1>13. aqJobs' \in 0..AqMaxJobs /\ aqJobs' >= aqJobs
  BY <1>2, <1>5
<1>14. Books(t, r)
  <2>1. r.at # "put"
    BY Zenon DEF Leaves
  <2> QED
    BY <1>8, <1>9, <1>10, <1>11, <1>12, <1>13, <2>1, Zenon DEF Books, M1, L1, B1, O
<1> QED
  BY <1>14, AqStep, Zenon

\* A thread without jobs in its hands goes on, and no job moves.
LEMMA AqPlaceStep ==
    ASSUME AqInv, NEW t \in AqThreads, NEW r \in AqRecords, aq' = [aq EXCEPT ![t] = r],
           UNCHANGED <<mutexQ, lockfreeQ, aqJobs, fates>>, aqMode' \in AqModes,
           mqStopped => mqStopped',
           aq[t].batch = <<>>, r.batch = <<>>, r.at \notin {"put", "drop"},
           Migrating(r) => Migrating(aq[t]) \/ MigrationMutexFree
    PROVE  AqInv'
<1>1. /\ mutexQ \in Seq(AqNumbers) /\ lockfreeQ \in Seq(AqNumbers) /\ Single(mutexQ) /\ Single(lockfreeQ)
      /\ fates = [j \in AqNumbers |-> IF j \in {} THEN "taken" ELSE fates[j]]
  BY DEF AqInv, AqTyped, Singles
<1>2. Elements(r.batch) = {} /\ Elements(aq[t].batch) = {} /\ Single(r.batch)
  BY FewElements
<1>3. BatchFits(r)
  BY DEF BatchFits
<1>4. Elements(mutexQ) \cap Elements(lockfreeQ) = {}
  BY AqSets
<1>5. HandsOver(t, r)
  BY <1>1, <1>2, <1>3, <1>4 DEF HandsOver
<1>6. Leaves(t, r, {}, "taken")
  BY <1>1, <1>2 DEF Leaves
<1> QED
  BY <1>5, <1>6, AqLeaves, Zenon

\* A thread outside of a migration has no jobs in its hands.
LEMMA EmptyHands ==
    ASSUME AqInv, NEW t \in AqThreads
    PROVE  /\ aq[t] \in AqRecords /\ (aq[t].at \notin {"move", "drop"} => aq[t].batch = <<>>)
           /\ NotHere \in AqRecords /\ NotHere.at = "out" /\ NotHere.batch = <<>>
           /\ mutexQ \in Seq(AqNumbers) /\ lockfreeQ \in Seq(AqNumbers) /\ Single(mutexQ) /\ Single(lockfreeQ)
           /\ aqMode \in AqModes
           /\ fates \in [AqNumbers -> {"none", "ok", "refused", "taken", "cleared", "lost"}]
<1>1. /\ aq[t] \in AqRecords /\ mutexQ \in Seq(AqNumbers) /\ lockfreeQ \in Seq(AqNumbers)
      /\ aqMode \in AqModes
      /\ fates \in [AqNumbers -> {"none", "ok", "refused", "taken", "cleared", "lost"}]
  BY DEF AqInv, AqTyped
<1>2. aq[t].at \notin {"move", "drop"} => aq[t].batch = <<>>
  BY DEF AqInv, OneMigrates, BatchFits
<1>3. <<>> \in Seq(AqNumbers)
  OBVIOUS
<1>4. NotHere \in AqRecords /\ NotHere.at = "out" /\ NotHere.batch = <<>>
  BY <1>3, Zenon DEF NotHere, AqRecords, AqPlaces, AqModes
<1>5. Single(mutexQ) /\ Single(lockfreeQ)
  BY DEF AqInv, Singles
<1> QED
  BY <1>1, <1>2, <1>4, <1>5

\* enqueue: a new job, refused or in the hands of the thread.
LEMMA AqEnqueueKeeps ==
    ASSUME AqInv, NEW t \in AqThreads, AqEnqueue(t)
    PROVE  AqInv'
<1> DEFINE n == aqJobs + 1
<1>1. /\ aq[t].at = "out" /\ aqJobs < AqMaxJobs /\ aqJobs' = n
      /\ UNCHANGED <<aqMode, mqStopped, mutexQ, lockfreeQ>>
  BY DEF AqEnqueue
<1>2. aqJobs \in 0..AqMaxJobs
  BY DEF AqInv, AqTyped
<1>3. n \in AqNumbers /\ n \in 1..n /\ n \in Nat /\ n > aqJobs /\ aqJobs' \in 0..AqMaxJobs /\ aqJobs' >= aqJobs
  BY <1>1, <1>2, AqBounds DEF AqNumbers
<1>4. fates[n] = "none" /\ \A j \in AqNumbers : j > n => fates[j] = "none"
  <2>1. \A j \in AqNumbers : j > n => j > aqJobs
    BY <1>2, AqBounds DEF AqNumbers
  <2> QED
    BY <1>3, <2>1 DEF AqInv, PutsAreNew
<1>5. \A u \in AqThreads : Putting(u) => aq[u].job # n /\ aq[u].job \in AqNumbers /\ fates[aq[u].job] = "none"
  <2>1. \A j \in 1..aqJobs : j # n /\ j \in AqNumbers
    BY <1>2, AqBounds DEF AqNumbers
  <2> QED
    BY <2>1 DEF AqInv, PutsAreNew
<1> DEFINE M == Elements(mutexQ)
           L == Elements(lockfreeQ)
           B == Elements(aq[t].batch)
           O == Others(t)
<1>6. /\ M \cap L = {} /\ O \cap (M \cup L) = {}
      /\ \A j \in AqNumbers : fates[j] = "ok" <=> j \in M \cup L \cup B \cup O
  BY AqSets
<1>7. B = {} /\ aq[t].batch = <<>> /\ Single(aq[t].batch)
  BY <1>1, EmptyHands, FewElements
<1>8. \A j \in AqNumbers : fates[j] = "lost" => mqStopped
  BY DEF AqInv, Accounted
<1> HIDE DEF n, M, L, B, O
<1>9. CASE aqStopped
  <2>1. fates' = [fates EXCEPT ![n] = "refused"] /\ aq' = aq
    BY <1>9 DEF AqEnqueue, n
  <2>2. fates' \in [AqNumbers -> {"none", "ok", "refused", "taken", "cleared", "lost"}]
    BY <1>3, <2>1, EmptyHands
  <2>3. fates'[n] = "refused" /\ \A j \in AqNumbers \ {n} : fates'[j] = fates[j]
    BY <1>3, <2>1, EmptyHands
  <2>4. aq' = [aq EXCEPT ![t] = aq[t]] /\ aq[t] \in AqRecords /\ BatchFits(aq[t])
    BY <2>1 DEF AqInv, AqTyped, OneMigrates
  <2>5. /\ \A u \in AqThreads \ {t} : Putting(u) => fates'[aq[u].job] = "none"
        /\ \A j \in AqNumbers : j > aqJobs' => fates'[j] = "none"
    <3>1. \A j \in AqNumbers : j > n => j # n
      BY <1>3
    <3> QED
      BY <1>1, <1>4, <1>5, <2>3, <3>1, Zenon
  <2>6. \A j \in AqNumbers : (fates'[j] = "ok" <=> j \in M \cup L \cup B \cup O) /\ (fates'[j] = "lost" => mqStopped)
    BY <1>4, <1>6, <1>8, <2>3
  <2>7. ~Migrating(aq[t]) /\ aq[t].at # "put"
    BY <1>1 DEF Migrating
  <2>8. HandsOver(t, aq[t])
    BY <1>1, <1>6, <1>7, <2>4, <2>7, EmptyHands DEF HandsOver, M, L, B, O
  <2>9. Books(t, aq[t])
    BY <1>1, <1>3, <1>6, <2>2, <2>5, <2>6, <2>7 DEF Books, M, L, B, O
  <2> QED
    BY <2>8, <2>9, AqStep, Zenon
<1>10. CASE ~aqStopped
  <2> DEFINE r == [NotHere EXCEPT !.at = "put", !.job = n, !.mode = aqMode]
  <2>1. fates' = fates /\ aq' = [aq EXCEPT ![t] = r]
    BY <1>10 DEF AqEnqueue, AqSet, n
  <2>2. r \in AqRecords /\ r.at = "put" /\ r.job = n /\ r.batch = <<>>
    BY <1>3, EmptyHands, Zenon DEF AqRecords, AqPlaces
  <2> HIDE DEF r
  <2>3. BatchFits(r) /\ ~Migrating(r) /\ Single(r.batch) /\ Elements(r.batch) = {}
    BY <2>2, FewElements DEF BatchFits, Migrating
  <2>4. /\ \A u \in AqThreads \ {t} : Putting(u) => fates'[aq[u].job] = "none"
        /\ \A j \in AqNumbers : j > aqJobs' => fates'[j] = "none"
    BY <1>1, <1>4, <1>5, <2>1
  <2>5. \A j \in AqNumbers : (fates'[j] = "ok" <=> j \in M \cup L \cup {} \cup O) /\ (fates'[j] = "lost" => mqStopped)
    BY <1>6, <1>7, <1>8, <2>1
  <2>6. HandsOver(t, r)
    BY <1>1, <1>6, <2>1, <2>2, <2>3, EmptyHands DEF HandsOver, M, L, O
  <2>7. Books(t, r)
    BY <1>1, <1>3, <1>4, <1>5, <1>6, <2>1, <2>2, <2>3, <2>4, <2>5, EmptyHands DEF Books, M, L, O
  <2> QED
    BY <2>6, <2>7, AqStep, Zenon
<1> QED
  BY <1>9, <1>10

\* The job reaches the queue of the mode that was read, or is refused.
LEMMA AqPutKeeps ==
    ASSUME AqInv, NEW t \in AqThreads, AqPut(t)
    PROVE  AqInv'
<1> DEFINE x == aq[t].job
           f == IF aq[t].mode = "mutex" /\ mqStopped THEN "refused" ELSE "ok"
           M == Elements(mutexQ)
           L == Elements(lockfreeQ)
           B == Elements(aq[t].batch)
           O == Others(t)
<1>1. /\ aq[t].at = "put" /\ aq' = [aq EXCEPT ![t] = NotHere] /\ fates' = [fates EXCEPT ![x] = f]
      /\ UNCHANGED <<aqMode, mqStopped, aqJobs>>
  BY DEF AqPut, AqSet
<1>2. aqJobs \in 0..AqMaxJobs /\ aqJobs' >= aqJobs
  BY <1>1 DEF AqInv, AqTyped
<1>3. x \in AqNumbers /\ fates[x] = "none"
  BY <1>1, AqBounds DEF AqInv, PutsAreNew, Putting, AqTyped, AqNumbers
<1>4. \A u \in AqThreads \ {t} : Putting(u) => aq[u].job # x /\ aq[u].job \in AqNumbers /\ fates[aq[u].job] = "none"
  BY <1>1, AqBounds DEF AqInv, PutsAreNew, Putting, AqTyped, AqNumbers
<1>5. \A j \in AqNumbers : (fates[j] = "lost" => mqStopped) /\ (j > aqJobs => fates[j] = "none")
  BY DEF AqInv, Accounted, PutsAreNew
<1>6. x <= aqJobs /\ \A j \in AqNumbers : j > aqJobs => j # x
  BY <1>1 DEF AqInv, PutsAreNew, Putting, AqTyped, AqNumbers
<1>7. /\ M \cap L = {} /\ O \cap (M \cup L) = {}
      /\ \A j \in AqNumbers : fates[j] = "ok" <=> j \in M \cup L \cup B \cup O
  BY AqSets
<1>8. B = {}
  BY <1>1, EmptyHands, FewElements
<1>9. f \in {"refused", "ok"}
  OBVIOUS
<1>10. \/ f = "refused" /\ UNCHANGED <<mutexQ, lockfreeQ>>
       \/ f = "ok" /\ mutexQ' = Append(mutexQ, x) /\ lockfreeQ' = lockfreeQ
       \/ f = "ok" /\ mutexQ' = mutexQ /\ lockfreeQ' = Append(lockfreeQ, x)
  <2>1. aq[t].mode \in {"mutex", "lock_free"}
    BY EmptyHands DEF AqRecords, AqModes
  <2> QED
    BY <2>1 DEF AqPut, PutJob
<1> HIDE DEF x, f
<1>11. /\ fates' \in [AqNumbers -> {"none", "ok", "refused", "taken", "cleared", "lost"}]
       /\ fates'[x] = f /\ \A j \in AqNumbers \ {x} : fates'[j] = fates[j]
  BY <1>1, <1>3, <1>9, EmptyHands
<1>12. /\ \A u \in AqThreads \ {t} : Putting(u) => fates'[aq[u].job] = "none"
       /\ \A j \in AqNumbers : j > aqJobs' => fates'[j] = "none"
  BY <1>1, <1>4, <1>5, <1>6, <1>11
<1>13. \A j \in AqNumbers : fates'[j] = "lost" => mqStopped'
  BY <1>1, <1>5, <1>9, <1>11
<1>14. ~Migrating(NotHere) /\ BatchFits(NotHere) /\ Single(NotHere.batch) /\ Elements(NotHere.batch) = {}
  BY EmptyHands, FewElements DEF Migrating, BatchFits
<1> DEFINE M1 == Elements(mutexQ')
           L1 == Elements(lockfreeQ')
<1>15. x \notin M /\ x \notin L /\ x \notin O
  BY <1>3, <1>7
<1>16. /\ mutexQ' \in Seq(AqNumbers) /\ lockfreeQ' \in Seq(AqNumbers) /\ Single(mutexQ') /\ Single(lockfreeQ')
       /\ \/ f = "refused" /\ M1 = M /\ L1 = L
          \/ f = "ok" /\ M1 = M \cup {x} /\ L1 = L
          \/ f = "ok" /\ M1 = M /\ L1 = L \cup {x}
  <2>1. CASE UNCHANGED <<mutexQ, lockfreeQ>> /\ f = "refused"
    BY <2>1, EmptyHands
  <2>2. CASE f = "ok" /\ mutexQ' = Append(mutexQ, x) /\ lockfreeQ' = lockfreeQ
    BY <1>3, <1>15, <2>2, EmptyHands, PushElements
  <2>3. CASE f = "ok" /\ mutexQ' = mutexQ /\ lockfreeQ' = Append(lockfreeQ, x)
    BY <1>3, <1>15, <2>3, EmptyHands, PushElements
  <2> QED
    BY <1>10, <2>1, <2>2, <2>3
<1> HIDE DEF M, L, B, O, M1, L1
<1>17. M1 \cap L1 = {} /\ O \cap (M1 \cup L1) = {}
  BY <1>7, <1>15, <1>16
<1>18. \A j \in AqNumbers : fates'[j] = "ok" <=> j \in M1 \cup L1 \cup {} \cup O
  BY <1>7, <1>8, <1>11, <1>15, <1>16
<1>19. HandsOver(t, NotHere)
  BY <1>1, <1>14, <1>16, <1>17, EmptyHands DEF HandsOver, M1, L1, O
<1>20. Books(t, NotHere)
  BY <1>1, <1>2, <1>11, <1>12, <1>13, <1>14, <1>17, <1>18, EmptyHands DEF Books, M1, L1, O
<1> QED
  BY <1>19, <1>20, AqStep, Zenon

\* dequeue takes the head of the queue it looks at, or goes on to the other one.
LEMMA AqTakeKeeps ==
    ASSUME AqInv, NEW t \in AqThreads, AqTake(t)
    PROVE  AqInv'
<1>1. aq[t].at \in {"first", "second"} /\ UNCHANGED <<aqMode, mqStopped, aqJobs>>
  BY DEF AqTake
<1>2. aq[t].batch = <<>> /\ Elements(aq[t].batch) = {}
  BY <1>1, EmptyHands, FewElements
<1>3. ~Migrating(NotHere) /\ BatchFits(NotHere) /\ Single(NotHere.batch) /\ Elements(NotHere.batch) = {}
  BY EmptyHands, FewElements DEF Migrating, BatchFits
<1>4. \/ /\ mutexQ # <<>> /\ mutexQ' = Tail(mutexQ) /\ lockfreeQ' = lockfreeQ
         /\ fates' = [fates EXCEPT ![Head(mutexQ)] = "taken"] /\ aq' = [aq EXCEPT ![t] = NotHere]
      \/ /\ lockfreeQ # <<>> /\ lockfreeQ' = Tail(lockfreeQ) /\ mutexQ' = mutexQ
         /\ fates' = [fates EXCEPT ![Head(lockfreeQ)] = "taken"] /\ aq' = [aq EXCEPT ![t] = NotHere]
      \/ /\ UNCHANGED <<mutexQ, lockfreeQ, fates>>
         /\ aq' = [aq EXCEPT ![t] = NotHere] \/ aq' = [aq EXCEPT ![t] = [aq[t] EXCEPT !.at = "second"]]
  BY Zenon DEF AqTake, AqSet, AqGo
<1>5. Elements(mutexQ) \cap Elements(lockfreeQ) = {}
  BY AqSets
<1>6. CASE /\ mutexQ # <<>> /\ mutexQ' = Tail(mutexQ) /\ lockfreeQ' = lockfreeQ
           /\ fates' = [fates EXCEPT ![Head(mutexQ)] = "taken"] /\ aq' = [aq EXCEPT ![t] = NotHere]
  <2> DEFINE x == Head(mutexQ)
  <2>1. /\ mutexQ' \in Seq(AqNumbers) /\ x \in AqNumbers /\ x \in Elements(mutexQ) /\ Single(mutexQ')
        /\ Elements(mutexQ') = Elements(mutexQ) \ {x}
    BY <1>6, EmptyHands, PopElements
  <2>2. fates' = [j \in AqNumbers |-> IF j \in {x} THEN "taken" ELSE fates[j]]
    BY <1>6, EmptyHands, Zenon
  <2> HIDE DEF x
  <2>3. /\ Elements(mutexQ') \cup Elements(lockfreeQ') \cup Elements(NotHere.batch) =
             (Elements(mutexQ) \cup Elements(lockfreeQ) \cup Elements(aq[t].batch)) \ {x}
        /\ Elements(mutexQ') \cap Elements(lockfreeQ') = {}
    BY <1>2, <1>3, <1>5, <1>6, <2>1
  <2>4. HandsOver(t, NotHere)
    BY <1>1, <1>3, <1>6, <2>1, <2>3, EmptyHands DEF HandsOver
  <2>5. Leaves(t, NotHere, {x}, "taken")
    BY <1>1, <2>1, <2>2, <2>3, EmptyHands DEF Leaves
  <2> QED
    BY <2>4, <2>5, AqLeaves, Zenon
<1>7. CASE /\ lockfreeQ # <<>> /\ lockfreeQ' = Tail(lockfreeQ) /\ mutexQ' = mutexQ
           /\ fates' = [fates EXCEPT ![Head(lockfreeQ)] = "taken"] /\ aq' = [aq EXCEPT ![t] = NotHere]
  <2> DEFINE x == Head(lockfreeQ)
  <2>1. /\ lockfreeQ' \in Seq(AqNumbers) /\ x \in AqNumbers /\ x \in Elements(lockfreeQ) /\ Single(lockfreeQ')
        /\ Elements(lockfreeQ') = Elements(lockfreeQ) \ {x}
    BY <1>7, EmptyHands, PopElements
  <2>2. fates' = [j \in AqNumbers |-> IF j \in {x} THEN "taken" ELSE fates[j]]
    BY <1>7, EmptyHands, Zenon
  <2> HIDE DEF x
  <2>3. /\ Elements(mutexQ') \cup Elements(lockfreeQ') \cup Elements(NotHere.batch) =
             (Elements(mutexQ) \cup Elements(lockfreeQ) \cup Elements(aq[t].batch)) \ {x}
        /\ Elements(mutexQ') \cap Elements(lockfreeQ') = {}
    BY <1>2, <1>3, <1>5, <1>7, <2>1
  <2>4. HandsOver(t, NotHere)
    BY <1>1, <1>3, <1>7, <2>1, <2>3, EmptyHands DEF HandsOver
  <2>5. Leaves(t, NotHere, {x}, "taken")
    BY <1>1, <2>1, <2>2, <2>3, EmptyHands DEF Leaves
  <2> QED
    BY <2>4, <2>5, AqLeaves, Zenon
<1>8. CASE UNCHANGED <<mutexQ, lockfreeQ, fates>> /\ aq' = [aq EXCEPT ![t] = NotHere]
  BY <1>1, <1>2, <1>3, <1>8, EmptyHands, AqPlaceStep, Zenon
<1>9. CASE UNCHANGED <<mutexQ, lockfreeQ, fates>> /\ aq' = [aq EXCEPT ![t] = [aq[t] EXCEPT !.at = "second"]]
  <2> DEFINE r == [aq[t] EXCEPT !.at = "second"]
  <2>1. r \in AqRecords /\ r.at = "second" /\ r.batch = <<>>
    BY <1>2, EmptyHands, Zenon DEF AqRecords, AqPlaces
  <2> HIDE DEF r
  <2>2. aq' = [aq EXCEPT ![t] = r] /\ ~Migrating(r)
    BY <1>9, <2>1 DEF r, Migrating
  <2> QED
    BY <1>1, <1>2, <1>9, <2>1, <2>2, EmptyHands, AqPlaceStep, Zenon
<1> QED
  BY <1>4, <1>6, <1>7, <1>8, <1>9

\* A thread goes to another place with empty hands.
LEMMA AqGoes ==
    ASSUME AqInv, NEW t \in AqThreads, NEW l \in AqPlaces \ {"put", "drop"}, aq[t].batch = <<>>,
           aq' = [aq EXCEPT ![t] = [aq[t] EXCEPT !.at = l]],
           UNCHANGED <<mutexQ, lockfreeQ, aqJobs, fates>>, aqMode' \in AqModes,
           mqStopped => mqStopped',
           l \in {"move", "clearing"} => Migrating(aq[t]) \/ MigrationMutexFree
    PROVE  AqInv'
<1> DEFINE r == [aq[t] EXCEPT !.at = l]
<1>1. r \in AqRecords /\ r.at = l /\ r.batch = <<>>
  BY EmptyHands, Zenon DEF AqRecords
<1> HIDE DEF r
<1>2. aq' = [aq EXCEPT ![t] = r] /\ (Migrating(r) => l \in {"move", "clearing"})
  BY <1>1 DEF r, Migrating
<1> QED
  BY <1>1, <1>2, AqPlaceStep, Zenon

\* migrate_to_mode, up to the first job.
LEMMA MigrateKeeps ==
    ASSUME AqInv, NEW t \in AqThreads, Migrate(t)
    PROVE  AqInv'
<1>1. aq[t].at = "migrate" /\ MigrationMutexFree /\ UNCHANGED <<mqStopped, lockfreeQ, aqJobs, fates>>
  BY DEF Migrate
<1>2. /\ aq[t].batch = <<>> /\ aq[t] \in AqRecords
      /\ aq[t].then \in {"out", "guarded"} /\ aq[t].target \in AqModes
  <2>1. aq[t].batch = <<>> /\ aq[t] \in AqRecords
    BY <1>1, EmptyHands
  <2> QED
    BY <2>1 DEF AqRecords
<1>3. \/ aq' = [aq EXCEPT ![t] = [aq[t] EXCEPT !.at = aq[t].then]] /\ UNCHANGED <<aqMode, mutexQ>>
      \/ /\ aq' = [aq EXCEPT ![t] = [aq[t] EXCEPT !.at = "move"]] /\ mutexQ' = mutexQ /\ aqMode' = aq[t].target
      \/ /\ aq' = [aq EXCEPT ![t] = [aq[t] EXCEPT !.at = "move", !.batch = mutexQ]]
         /\ mutexQ' = <<>> /\ aqMode' = aq[t].target /\ aq[t].target # "mutex"
  BY Zenon DEF Migrate, AqGo, AqSet, LeftByBatch
<1>4. CASE aq' = [aq EXCEPT ![t] = [aq[t] EXCEPT !.at = aq[t].then]] /\ UNCHANGED <<aqMode, mutexQ>>
  <2>1. aq[t].then \in AqPlaces \ {"put", "drop"} /\ aq[t].then \notin {"move", "clearing"}
    BY <1>2 DEF AqPlaces
  <2> QED
    BY <1>1, <1>2, <1>4, <2>1, EmptyHands, AqGoes, Zenon
<1>5. CASE aq' = [aq EXCEPT ![t] = [aq[t] EXCEPT !.at = "move"]] /\ mutexQ' = mutexQ /\ aqMode' = aq[t].target
  <2>1. "move" \in AqPlaces \ {"put", "drop"}
    BY DEF AqPlaces
  <2> QED
    BY <1>1, <1>2, <1>5, <2>1, EmptyHands, AqGoes, Zenon
<1>6. CASE /\ aq' = [aq EXCEPT ![t] = [aq[t] EXCEPT !.at = "move", !.batch = mutexQ]]
           /\ mutexQ' = <<>> /\ aqMode' = aq[t].target /\ aq[t].target # "mutex"
  <2> DEFINE r == [aq[t] EXCEPT !.at = "move", !.batch = mutexQ]
  <2>1. r \in AqRecords /\ r.at = "move" /\ r.batch = mutexQ /\ r.target = aq[t].target
    BY <1>2, EmptyHands, Zenon DEF AqRecords, AqPlaces
  <2> HIDE DEF r
  <2>2. aq' = [aq EXCEPT ![t] = r]
    BY <1>6 DEF r
  <2>3. BatchFits(r) /\ Single(r.batch)
    BY <1>6, <2>1, EmptyHands DEF BatchFits
  <2>4. /\ Elements(mutexQ') = {} /\ Single(mutexQ') /\ mutexQ' \in Seq(AqNumbers)
        /\ Elements(aq[t].batch) = {}
    BY <1>2, <1>6, FewElements
  <2>5. Elements(mutexQ) \cap Elements(lockfreeQ) = {}
    BY AqSets
  <2>6. fates' = [j \in AqNumbers |-> IF j \in {} THEN "taken" ELSE fates[j]]
    BY <1>1, EmptyHands
  <2>7. /\ Elements(mutexQ') \cup Elements(lockfreeQ') \cup Elements(r.batch) =
             (Elements(mutexQ) \cup Elements(lockfreeQ) \cup Elements(aq[t].batch)) \ {}
        /\ Elements(mutexQ') \cap Elements(lockfreeQ') = {}
        /\ Elements(r.batch) \cap (Elements(mutexQ') \cup Elements(lockfreeQ')) = {}
    BY <1>1, <2>1, <2>4, <2>5
  <2>8. HandsOver(t, r)
    BY <1>1, <1>2, <1>6, <2>1, <2>2, <2>3, <2>4, <2>7, EmptyHands, Zenon DEF HandsOver
  <2>9. Leaves(t, r, {}, "taken")
    BY <1>1, <2>1, <2>6, <2>7 DEF Leaves
  <2> QED
    BY <2>8, <2>9, AqLeaves, Zenon
<1> QED
  BY <1>3, <1>4, <1>5, <1>6

\* One job of a migration.
LEMMA MoveJobKeeps ==
    ASSUME AqInv, NEW t \in AqThreads, MoveJob(t)
    PROVE  AqInv'
<1>1. aq[t].at = "move" /\ UNCHANGED <<aqMode, mqStopped, mutexQ, aqJobs, fates>>
  BY DEF MoveJob
<1>2. /\ aq[t] \in AqRecords /\ aq[t].then \in {"out", "guarded"} /\ aq[t].batch \in Seq(AqNumbers)
      /\ aq[t].target = "mutex" => aq[t].batch = <<>>
      /\ Single(aq[t].batch) /\ Migrating(aq[t])
  BY <1>1, EmptyHands DEF AqInv, AqRecords, OneMigrates, BatchFits, Singles, Migrating
<1>3. /\ Elements(mutexQ) \cap Elements(lockfreeQ) = {}
      /\ Elements(aq[t].batch) \cap (Elements(mutexQ) \cup Elements(lockfreeQ)) = {}
  BY AqSets
<1>4. fates' = [j \in AqNumbers |-> IF j \in {} THEN "taken" ELSE fates[j]]
  BY <1>1, EmptyHands
<1>5. CASE ~MovesLeft(t)
  <2>1. aq' = [aq EXCEPT ![t] = [aq[t] EXCEPT !.at = aq[t].then]] /\ lockfreeQ' = lockfreeQ
    BY <1>5, Zenon DEF MoveJob, AqGo, AqSet
  <2>2. aq[t].batch = <<>>
    BY <1>2, <1>5 DEF MovesLeft
  <2>3. aq[t].then \in AqPlaces \ {"put", "drop"} /\ aq[t].then \notin {"move", "clearing"}
    BY <1>2 DEF AqPlaces
  <2> QED
    BY <1>1, <2>1, <2>2, <2>3, EmptyHands, AqGoes, Zenon
<1>6. CASE MovesLeft(t) /\ aq[t].target = "mutex"
  <2> DEFINE x == Head(lockfreeQ)
             r == [aq[t] EXCEPT !.at = "drop", !.batch = <<x>>]
  <2>1. lockfreeQ # <<>> /\ aq' = [aq EXCEPT ![t] = r] /\ lockfreeQ' = Tail(lockfreeQ)
    BY <1>6, Zenon DEF MoveJob, MovesLeft, AqSet
  <2>2. /\ lockfreeQ' \in Seq(AqNumbers) /\ x \in AqNumbers /\ x \in Elements(lockfreeQ) /\ Single(lockfreeQ')
        /\ Elements(lockfreeQ') = Elements(lockfreeQ) \ {x}
    BY <2>1, EmptyHands, PopElements
  <2>3. <<x>> \in Seq(AqNumbers) /\ Elements(<<x>>) = {x} /\ Single(<<x>>) /\ Len(<<x>>) = 1
    BY <2>2, FewElements
  <2>4. r \in AqRecords /\ r.at = "drop" /\ r.batch = <<x>>
    BY <1>2, <2>3, Zenon DEF AqRecords, AqPlaces
  <2>5. BatchFits(r) /\ Single(r.batch) /\ Elements(r.batch) = {x}
    BY <2>3, <2>4 DEF BatchFits
  <2>6. Elements(aq[t].batch) = {}
    BY <1>2, <1>6, FewElements
  <2> HIDE DEF x, r
  <2>7. /\ Elements(mutexQ') \cup Elements(lockfreeQ') \cup Elements(r.batch) =
             (Elements(mutexQ) \cup Elements(lockfreeQ) \cup Elements(aq[t].batch)) \ {}
        /\ Elements(mutexQ') \cap Elements(lockfreeQ') = {}
        /\ Elements(r.batch) \cap (Elements(mutexQ') \cup Elements(lockfreeQ')) = {}
    BY <1>1, <1>3, <2>2, <2>5, <2>6
  <2>8. HandsOver(t, r)
    <3>1. mutexQ' \in Seq(AqNumbers) /\ Single(mutexQ') /\ aqMode' \in AqModes
      BY <1>1, EmptyHands
    <3> QED
      BY <1>2, <2>1, <2>2, <2>4, <2>5, <2>7, <3>1, Zenon DEF HandsOver
  <2>9. Leaves(t, r, {}, "taken")
    BY <1>1, <1>4, <2>4, <2>7 DEF Leaves
  <2> QED
    BY <2>8, <2>9, AqLeaves, Zenon
<1>7. CASE MovesLeft(t) /\ aq[t].target # "mutex"
  <2> DEFINE x == Head(aq[t].batch)
             r == [aq[t] EXCEPT !.batch = Tail(aq[t].batch)]
  <2>1. aq[t].batch # <<>> /\ aq' = [aq EXCEPT ![t] = r] /\ lockfreeQ' = Append(lockfreeQ, x)
    BY <1>7, Zenon DEF MoveJob, MovesLeft, AqSet
  <2>2. /\ Tail(aq[t].batch) \in Seq(AqNumbers) /\ x \in AqNumbers /\ x \in Elements(aq[t].batch)
        /\ Single(Tail(aq[t].batch)) /\ Elements(Tail(aq[t].batch)) = Elements(aq[t].batch) \ {x}
    BY <1>2, <2>1, PopElements
  <2>3. /\ lockfreeQ' \in Seq(AqNumbers) /\ Elements(lockfreeQ') = Elements(lockfreeQ) \cup {x} /\ Single(lockfreeQ')
    BY <1>3, <2>1, <2>2, EmptyHands, PushElements
  <2>4. r \in AqRecords /\ r.at = "move" /\ r.batch = Tail(aq[t].batch) /\ r.target = aq[t].target
    BY <1>1, <1>2, <2>2, Zenon DEF AqRecords
  <2> HIDE DEF x, r
  <2>5. BatchFits(r) /\ Single(r.batch) /\ Elements(r.batch) = Elements(aq[t].batch) \ {x}
    BY <1>7, <2>2, <2>4 DEF BatchFits
  <2>6. /\ Elements(mutexQ') \cup Elements(lockfreeQ') \cup Elements(r.batch) =
             (Elements(mutexQ) \cup Elements(lockfreeQ) \cup Elements(aq[t].batch)) \ {}
        /\ Elements(mutexQ') \cap Elements(lockfreeQ') = {}
        /\ Elements(r.batch) \cap (Elements(mutexQ') \cup Elements(lockfreeQ')) = {}
    BY <1>1, <1>3, <2>2, <2>3, <2>5
  <2>7. HandsOver(t, r)
    <3>1. mutexQ' \in Seq(AqNumbers) /\ Single(mutexQ') /\ aqMode' \in AqModes
      BY <1>1, EmptyHands
    <3> QED
      BY <1>2, <2>1, <2>3, <2>4, <2>5, <2>6, <3>1, Zenon DEF HandsOver
  <2>8. Leaves(t, r, {}, "taken")
    BY <1>1, <1>4, <2>4, <2>6 DEF Leaves
  <2> QED
    BY <2>7, <2>8, AqLeaves, Zenon
<1> QED
  BY <1>5, <1>6, <1>7

\* The job in hand enters the mutex queue, or is lost when that is stopped.
LEMMA DropKeeps ==
    ASSUME AqInv, NEW t \in AqThreads, DropIntoMutexQueue(t)
    PROVE  AqInv'
<1> DEFINE x == aq[t].batch[1]
           r == [aq[t] EXCEPT !.at = "move", !.batch = <<>>]
<1>1. /\ aq[t].at = "drop" /\ aq' = [aq EXCEPT ![t] = r] /\ UNCHANGED <<aqMode, mqStopped, lockfreeQ, aqJobs>>
      /\ mutexQ' = IF mqStopped THEN mutexQ ELSE Append(mutexQ, x)
      /\ fates' = IF mqStopped THEN [fates EXCEPT ![x] = "lost"] ELSE fates
  BY Zenon DEF DropIntoMutexQueue, AqSet
<1>2. /\ aq[t] \in AqRecords /\ aq[t].batch \in Seq(AqNumbers) /\ Len(aq[t].batch) = 1 /\ Migrating(aq[t])
  BY <1>1, EmptyHands DEF AqInv, AqRecords, OneMigrates, BatchFits, Migrating
<1>3. x \in AqNumbers /\ Elements(aq[t].batch) = {x}
  <2>1. DOMAIN aq[t].batch = {1}
    BY <1>2
  <2> QED
    BY <1>2, <2>1 DEF Elements
<1>4. r \in AqRecords /\ r.at = "move" /\ r.batch = <<>>
  <2>1. <<>> \in Seq(AqNumbers)
    OBVIOUS
  <2> QED
    BY <1>2, <2>1, Zenon DEF AqRecords, AqPlaces
<1> HIDE DEF x, r
<1>5. BatchFits(r) /\ Single(r.batch) /\ Elements(r.batch) = {}
  BY <1>4, FewElements DEF BatchFits
<1>6. /\ Elements(mutexQ) \cap Elements(lockfreeQ) = {}
      /\ Elements(aq[t].batch) \cap (Elements(mutexQ) \cup Elements(lockfreeQ)) = {}
  BY AqSets
<1>7. CASE mqStopped
  <2>1. fates' = [j \in AqNumbers |-> IF j \in {x} THEN "lost" ELSE fates[j]]
    BY <1>1, <1>3, <1>7, EmptyHands, Zenon
  <2>2. mutexQ' = mutexQ /\ lockfreeQ' = lockfreeQ
    BY <1>1, <1>7
  <2>3. Elements(mutexQ') \cup Elements(lockfreeQ') \cup Elements(r.batch) =
            (Elements(mutexQ) \cup Elements(lockfreeQ) \cup Elements(aq[t].batch)) \ {x}
    BY <1>3, <1>5, <1>6, <2>2
  <2>4. HandsOver(t, r)
    BY <1>1, <1>2, <1>4, <1>5, <1>6, <2>2, EmptyHands DEF HandsOver
  <2>5. Leaves(t, r, {x}, "lost")
    BY <1>1, <1>3, <1>4, <1>7, <2>1, <2>3, Zenon DEF Leaves
  <2> QED
    BY <2>4, <2>5, AqLeaves, Zenon
<1>8. CASE ~mqStopped
  <2>1. fates' = [j \in AqNumbers |-> IF j \in {} THEN "taken" ELSE fates[j]]
    BY <1>1, <1>8, EmptyHands
  <2>2. mutexQ' \in Seq(AqNumbers) /\ Elements(mutexQ') = Elements(mutexQ) \cup {x} /\ Single(mutexQ')
    BY <1>1, <1>3, <1>6, <1>8, EmptyHands, PushElements
  <2>3. /\ Elements(mutexQ') \cup Elements(lockfreeQ') \cup Elements(r.batch) =
             (Elements(mutexQ) \cup Elements(lockfreeQ) \cup Elements(aq[t].batch)) \ {}
        /\ Elements(mutexQ') \cap Elements(lockfreeQ') = {}
    BY <1>1, <1>3, <1>5, <1>6, <2>2
  <2>4. HandsOver(t, r)
    BY <1>1, <1>2, <1>4, <1>5, <2>2, <2>3, EmptyHands DEF HandsOver
  <2>5. Leaves(t, r, {}, "taken")
    BY <1>1, <1>4, <2>1, <2>3 DEF Leaves
  <2> QED
    BY <2>4, <2>5, AqLeaves, Zenon
<1> QED
  BY <1>7, <1>8

\* clear, one queue after the other.
LEMMA ClearKeeps ==
    ASSUME AqInv, NEW t \in AqThreads, AqClear(t)
    PROVE  AqInv'
<1>1. aq[t].at \in {"out", "clearing"} /\ UNCHANGED <<aqMode, mqStopped, aqJobs>>
  BY Zenon DEF AqClear
<1>2. aq[t].batch = <<>> /\ Elements(aq[t].batch) = {} /\ aq[t] \in AqRecords
  BY <1>1, EmptyHands, FewElements
<1>3. /\ Elements(mutexQ) \cap Elements(lockfreeQ) = {}
      /\ Elements(mutexQ) \subseteq AqNumbers /\ Elements(lockfreeQ) \subseteq AqNumbers
  BY AqSets
<1>4. Elements(<<>>) = {} /\ Single(<<>>) /\ <<>> \in Seq(AqNumbers)
  BY FewElements
<1>5. CASE /\ MigrationMutexFree /\ mutexQ' = <<>> /\ fates' = Cleared(mutexQ) /\ lockfreeQ' = lockfreeQ
           /\ aq' = [aq EXCEPT ![t] = [aq[t] EXCEPT !.at = "clearing"]]
  <2> DEFINE r == [aq[t] EXCEPT !.at = "clearing"]
             X == Elements(mutexQ)
  <2>1. r \in AqRecords /\ r.at = "clearing" /\ r.batch = <<>>
    BY <1>2 DEF AqRecords, AqPlaces
  <2>2. fates' = [j \in AqNumbers |-> IF j \in X THEN "cleared" ELSE fates[j]]
    BY <1>5 DEF Cleared, AqNumbers
  <2> HIDE DEF r, X
  <2>3. BatchFits(r) /\ Single(r.batch) /\ Elements(r.batch) = {} /\ aq' = [aq EXCEPT ![t] = r]
    BY <1>4, <1>5, <2>1 DEF BatchFits, r
  <2>4. /\ X \in SUBSET AqNumbers /\ X \subseteq Elements(mutexQ)
        /\ Elements(mutexQ') \cup Elements(lockfreeQ') \cup Elements(r.batch) =
             (Elements(mutexQ) \cup Elements(lockfreeQ) \cup Elements(aq[t].batch)) \ X
        /\ Elements(mutexQ') \cap Elements(lockfreeQ') = {}
    BY <1>2, <1>3, <1>4, <1>5, <2>3 DEF X
  <2>5. HandsOver(t, r)
    BY <1>1, <1>4, <1>5, <2>1, <2>3, <2>4, EmptyHands, Zenon DEF HandsOver
  <2>6. Leaves(t, r, X, "cleared")
    BY <1>1, <2>1, <2>2, <2>4 DEF Leaves
  <2> QED
    BY <2>5, <2>6, AqLeaves, Zenon
<1>6. CASE /\ lockfreeQ' = <<>> /\ fates' = Cleared(lockfreeQ) /\ mutexQ' = mutexQ
           /\ aq' = [aq EXCEPT ![t] = NotHere]
  <2> DEFINE X == Elements(lockfreeQ)
  <2>1. fates' = [j \in AqNumbers |-> IF j \in X THEN "cleared" ELSE fates[j]]
    BY <1>6 DEF Cleared, AqNumbers
  <2>2. BatchFits(NotHere) /\ Single(NotHere.batch) /\ Elements(NotHere.batch) = {} /\ ~Migrating(NotHere)
    BY <1>4, EmptyHands DEF BatchFits, Migrating
  <2> HIDE DEF X
  <2>3. /\ X \in SUBSET AqNumbers /\ X \subseteq Elements(lockfreeQ)
        /\ Elements(mutexQ') \cup Elements(lockfreeQ') \cup Elements(NotHere.batch) =
             (Elements(mutexQ) \cup Elements(lockfreeQ) \cup Elements(aq[t].batch)) \ X
        /\ Elements(mutexQ') \cap Elements(lockfreeQ') = {}
    BY <1>2, <1>3, <1>4, <1>6, <2>2 DEF X
  <2>4. HandsOver(t, NotHere)
    BY <1>1, <1>4, <1>6, <2>2, <2>3, EmptyHands DEF HandsOver
  <2>5. Leaves(t, NotHere, X, "cleared")
    BY <1>1, <2>1, <2>3, EmptyHands DEF Leaves
  <2> QED
    BY <2>4, <2>5, AqLeaves, Zenon
<1> QED
  BY <1>5, <1>6, Zenon DEF AqClear, AqGo, AqSet

\* The calls that begin or end without touching a queue.
LEMMA AqCallsKeep ==
    ASSUME AqInv, NEW t \in AqThreads,
           \/ AqDequeue(t) \/ RequireAccuracy(t) \/ GuardCount(t) \/ ReleaseGuard(t) \/ AqStop(t)
           \/ \E m \in {"mutex", "lock_free"} : AqSwitchMode(t, m)
    PROVE  AqInv'
<1>1. aq[t].at \in {"out", "guardCount", "guarded", "stopping"}
  BY Zenon DEF AqDequeue, RequireAccuracy, GuardCount, ReleaseGuard, AqStop, AqSwitchMode
<1>2. /\ UNCHANGED <<mutexQ, lockfreeQ, aqJobs, fates, aqMode>>
      /\ mqStopped' = mqStopped \/ mqStopped' = TRUE
  BY Zenon DEF AqDequeue, RequireAccuracy, GuardCount, ReleaseGuard, AqStop, AqSwitchMode
<1>3. (mqStopped => mqStopped') /\ aqMode' \in AqModes
  <2>1. mqStopped => mqStopped'
    BY <1>2, Zenon
  <2> QED
    BY <1>2, <2>1, EmptyHands, Zenon
<1>4. aq[t].batch = <<>> /\ aq[t] \in AqRecords /\ aq[t].mode \in AqModes
  BY <1>1, EmptyHands, Zenon DEF AqRecords
<1>5. \/ aq' = [aq EXCEPT ![t] = NotHere]
      \/ \E l \in {"first", "guardCount"} : aq' = [aq EXCEPT ![t] = [NotHere EXCEPT !.at = l, !.mode = aqMode]]
      \/ \E l \in {"guarded", "stopping"} : aq' = [aq EXCEPT ![t] = [aq[t] EXCEPT !.at = l]]
      \/ \E m \in AqModes, h \in {"out", "guarded"} :
            aq' = [aq EXCEPT ![t] = [aq[t] EXCEPT !.at = "migrate", !.target = m, !.then = h]]
  <2>1. CASE AqDequeue(t) \/ RequireAccuracy(t)
    BY <2>1, Zenon DEF AqDequeue, RequireAccuracy, AqSet
  <2>2. CASE GuardCount(t)
    BY <2>2, Zenon DEF GuardCount, AqGo, AqSet, MigrateThen, AqModes
  <2>3. CASE ReleaseGuard(t)
    BY <1>4, <2>3, Zenon DEF ReleaseGuard, AqSet, MigrateThen, AqModes
  <2>4. CASE AqStop(t)
    BY <2>4, Zenon DEF AqStop, AqGo, AqSet
  <2>5. CASE \E m \in {"mutex", "lock_free"} : AqSwitchMode(t, m)
    <3>1. PICK m \in {"mutex", "lock_free"} : AqSwitchMode(t, m)
      BY <2>5
    <3>2. aq' = [aq EXCEPT ![t] = [aq[t] EXCEPT !.at = "migrate", !.target = m, !.then = "out"]]
      BY <3>1, Zenon DEF AqSwitchMode, AqSet, MigrateThen
    <3>3. m \in AqModes
      BY DEF AqModes
    <3> QED
      BY <3>2, <3>3, Zenon
  <2> QED
    BY <2>1, <2>2, <2>3, <2>4, <2>5, Zenon
<1> DEFINE Moves ==
             \E r \in AqRecords : /\ aq' = [aq EXCEPT ![t] = r] /\ r.batch = <<>>
                                  /\ r.at \in {"out", "first", "guardCount", "guarded", "stopping", "migrate"}
<1>6. Moves
  <2>1. CASE aq' = [aq EXCEPT ![t] = NotHere]
    BY <2>1, EmptyHands, Zenon
  <2>2. ASSUME NEW l \in {"first", "guardCount"}, aq' = [aq EXCEPT ![t] = [NotHere EXCEPT !.at = l, !.mode = aqMode]]
        PROVE  Moves
    <3> DEFINE r == [NotHere EXCEPT !.at = l, !.mode = aqMode]
    <3>1. r \in AqRecords /\ r.batch = <<>> /\ r.at = l
      BY EmptyHands, Zenon DEF AqRecords, AqPlaces
    <3> HIDE DEF r
    <3>2. aq' = [aq EXCEPT ![t] = r]
      BY <2>2 DEF r
    <3> QED
      BY <3>1, <3>2, Zenon
  <2>3. ASSUME NEW l \in {"guarded", "stopping"}, aq' = [aq EXCEPT ![t] = [aq[t] EXCEPT !.at = l]]
        PROVE  Moves
    <3> DEFINE r == [aq[t] EXCEPT !.at = l]
    <3>1. r \in AqRecords /\ r.batch = <<>> /\ r.at = l
      BY <1>4 DEF AqRecords, AqPlaces
    <3> HIDE DEF r
    <3>2. aq' = [aq EXCEPT ![t] = r]
      BY <2>3 DEF r
    <3> QED
      BY <3>1, <3>2, Zenon
  <2>4. ASSUME NEW m \in AqModes, NEW h \in {"out", "guarded"},
               aq' = [aq EXCEPT ![t] = [aq[t] EXCEPT !.at = "migrate", !.target = m, !.then = h]]
        PROVE  Moves
    <3> DEFINE r == [aq[t] EXCEPT !.at = "migrate", !.target = m, !.then = h]
    <3>1. r \in AqRecords /\ r.batch = <<>> /\ r.at = "migrate"
      BY <1>4, Zenon DEF AqRecords, AqPlaces
    <3> HIDE DEF r
    <3>2. aq' = [aq EXCEPT ![t] = r]
      BY <2>4 DEF r
    <3> QED
      BY <3>1, <3>2, Zenon
  <2> QED
    BY <1>5, <2>1, <2>2, <2>3, <2>4, Zenon
<1>7. PICK r \in AqRecords : /\ aq' = [aq EXCEPT ![t] = r] /\ r.batch = <<>>
                             /\ r.at \in {"out", "first", "guardCount", "guarded", "stopping", "migrate"}
  BY <1>6, Zenon
<1>8. r.at \notin {"put", "drop"} /\ ~Migrating(r)
  BY <1>7 DEF Migrating
<1> QED
  BY <1>2, <1>3, <1>4, <1>7, <1>8, AqPlaceStep, Zenon

\* adaptive_job_queue, for any threads, jobs, policies and calls: an accepted job is in exactly
\* one of the two queues or in the hands of the migration until it is taken or cleared, however
\* enqueue, dequeue, switch_mode, accuracy_guard and clear overlap; only a migration into a
\* stopped mutex queue loses one.
THEOREM AcceptedJobsAreKept == AqSpec => []AcceptedInOnePlace
<1>1. AqInit => AqInv
  <2> SUFFICES ASSUME AqInit PROVE AqInv
    OBVIOUS
  <2>1. <<>> \in Seq(AqNumbers)
    OBVIOUS
  <2>2. NotHere \in AqRecords /\ NotHere.at = "out" /\ NotHere.batch = <<>>
    BY <2>1, Zenon DEF NotHere, AqRecords, AqPlaces, AqModes
  <2>3. \A t \in AqThreads : aq[t] = NotHere
    BY DEF AqInit
  <2>4. AqTyped
    <3>1. aq \in [AqThreads -> AqRecords] /\ mutexQ \in Seq(AqNumbers) /\ lockfreeQ \in Seq(AqNumbers)
      BY <2>1, <2>2 DEF AqInit
    <3>2. aqJobs \in 0..AqMaxJobs
      BY AqBounds DEF AqInit
    <3>3. aqMode \in AqModes /\ fates \in [AqNumbers -> {"none", "ok", "refused", "taken", "cleared", "lost"}]
      BY DEF AqInit, AqModes, AqNumbers
    <3> QED
      BY <3>1, <3>2, <3>3, Zenon DEF AqTyped
  <2>5. Singles /\ Apart
    BY <2>2, <2>3, FewElements DEF AqInit, Singles, Apart
  <2>6. OneMigrates /\ \A t \in AqThreads : ~Putting(t)
    BY <2>2, <2>3 DEF OneMigrates, BatchFits, Migrating, Putting
  <2>7. \A j \in AqNumbers : fates[j] = "none"
    BY DEF AqInit, AqNumbers
  <2>8. PutsAreNew
    BY <2>6, <2>7 DEF PutsAreNew
  <2>9. Accounted
    BY <2>2, <2>3, <2>7, FewElements, Zenon DEF AqInit, Accounted, Present
  <2> QED
    BY <2>4, <2>5, <2>6, <2>8, <2>9 DEF AqInv
<1>2. AqInv /\ [AqNext]_aqVars => AqInv'
  <2> SUFFICES ASSUME AqInv, [AqNext]_aqVars PROVE AqInv'
    OBVIOUS
  <2>1. CASE UNCHANGED aqVars
    BY <2>1, Zenon DEF aqVars, AqInv, AqTyped, Singles, OneMigrates, PutsAreNew, Putting, Apart, Accounted, Present
  <2>2. CASE AqNext
    BY <2>2, AqEnqueueKeeps, AqPutKeeps, AqTakeKeeps, MigrateKeeps, MoveJobKeeps, DropKeeps, ClearKeeps, Zenon,
       AqCallsKeep, Zenon DEF AqNext
  <2> QED
    BY <2>1, <2>2
<1>3. AqInv => AcceptedInOnePlace
  <2> SUFFICES ASSUME AqInv, NEW j \in 1..aqJobs
               PROVE  /\ fates[j] = "ok" <=> \/ j \in Present
                                             \/ \E t \in AqThreads : j \in Elements(aq[t].batch)
                      /\ ~(j \in Elements(mutexQ) /\ j \in Elements(lockfreeQ))
                      /\ fates[j] = "lost" => mqStopped
    BY DEF AcceptedInOnePlace
  <2>1. j \in AqNumbers
    BY AqBounds DEF AqInv, AqTyped, AqNumbers
  <2> QED
    BY <2>1, Zenon DEF AqInv, Accounted, Apart
<1> QED
  BY <1>1, <1>2, <1>3, PTL DEF AqSpec
================================================================================
