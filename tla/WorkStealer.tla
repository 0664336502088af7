----------------------------- MODULE WorkStealer -----------------------------
(* numa_work_stealer with its work_affinity_tracker.  A thief selects                          *)
(* its victims from the sizes it reads, then tries one after the other while the deques go on   *)
(* changing; it takes one job or a batch, and records the cooperation.  Deques are their sizes:  *)
(* WorkStealingDeque models the deque itself.  Orders that the code draws at random, or that      *)
(* its sort leaves open, are any order.  Delays and statistics are left out.                      *)
EXTENDS Integers, Sequences, FiniteSets, FiniteSetsExt

CONSTANTS
    WkCount,        \* worker_count_; workers are 0..WkCount-1
    Tracked,        \* MAX_TRACKED_WORKERS
    NodeOf,         \* the NUMA node of each worker
    Dequeless,      \* workers whose accessor gives no deque
    StealPolicies,  \* steal policies that are tried
    MaxAttempts,    \* config_.max_steal_attempts
    MinBatch, MaxBatch,
    WkMaxJobs,      \* bound: jobs pushed
    WkMaxSteals     \* bound: calls of steal_for and steal_batch_for

VARIABLES
    deque,          \* per worker the number of jobs in its deque
    thief,          \* per worker its call: step, victims left, the jobs it may take
    pushed,         \* jobs their owners put in
    matrix,         \* cooperation_matrix_
    stealsDone,
    tried,          \* history: per worker the victims its running call got nothing from
    missed          \* history: a call with enough attempts gave up without having tried every
                    \* other worker

wkVars == <<deque, thief, pushed, matrix, stealsDone, tried, missed>>

Wks == 0..(WkCount - 1)
TrackedCount == IF WkCount <= Tracked THEN WkCount ELSE Tracked
Pairs2 == {p \in SUBSET (0..(TrackedCount - 1)) : Cardinality(p) = 2}
NoCall == [at |-> "none", victims |-> <<>>, most |-> 0, size |-> 0, full |-> FALSE]

WkInit ==
    /\ deque = [w \in Wks |-> 0] /\ pushed = 0
    /\ thief = [w \in Wks |-> NoCall]
    /\ matrix = [k \in 0..(Cardinality(Pairs2) - 1) |-> 0]
    /\ stealsDone = 0
    /\ tried = [w \in Wks |-> {}] /\ missed = FALSE

-----------------------------------------------------------------------------
(* work_affinity_tracker.                                                     *)

\* get_matrix_index: the upper triangle, row by row.
MatrixIndex(a, b) ==
    LET i == Min({a, b}) j == Max({a, b}) IN i * TrackedCount - (i * (i + 1)) \div 2 + j - i - 1

Affinity(a, b) == IF a < TrackedCount /\ b < TrackedCount /\ a # b THEN matrix[MatrixIndex(a, b)] ELSE 0

\* record_cooperation, with the pairs it leaves out.
Record(a, b) ==
    matrix' = IF a < TrackedCount /\ b < TrackedCount THEN [matrix EXCEPT ![MatrixIndex(a, b)] = @ + 1] ELSE matrix

-----------------------------------------------------------------------------
(* select_victims.                                                            *)

Size(v) == deque[v]
Orders(S) == {s \in [1..Cardinality(S) -> S] : \A i, k \in 1..Cardinality(S) : s[i] = s[k] => i = k}
SortedBy(S, score(_)) == {s \in Orders(S) : \A i \in 1..(Len(s) - 1) : score(s[i]) >= score(s[i + 1])}
FirstOf(s, n) == SubSeq(s, 1, IF n <= Len(s) THEN n ELSE Len(s))

Candidates(w) == Wks \ {w}

RoundRobin(w, start, n) ==
    FirstOf(SelectSeq([i \in 1..WkCount |-> (start + i - 1) % WkCount], LAMBDA v : v \in Candidates(w)), n)

\* The tracker's favourites, filled up with adaptive ones that are not among them yet.
Preferred(w, n) ==
    IF w >= TrackedCount THEN {<<>>}
    ELSE {FirstOf(s, n) : s \in SortedBy((0..(TrackedCount - 1)) \ {w}, LAMBDA v : Affinity(w, v))}

LocalityAware(w, n) ==
    UNION {{FirstOf(p \o SelectSeq(FirstOf(a, n - Len(p)), LAMBDA v : \A i \in DOMAIN p : p[i] # v), n) :
              a \in SortedBy(Candidates(w), Size)} : p \in Preferred(w, n)}

\* numa_aware weighs the size of a victim on another node with a penalty of two.
NumaScore(w, v) == IF NodeOf[w] = NodeOf[v] THEN 2 * Size(v) ELSE Size(v)

Hierarchical(w, n) ==
    {FirstOf(a \o b, n) : a \in Orders({v \in Candidates(w) : NodeOf[v] = NodeOf[w]}),
                          b \in Orders({v \in Candidates(w) : NodeOf[v] # NodeOf[w]})}

SelectVictims(policy, w, n) ==
    CASE policy = "random" -> {FirstOf(s, n) : s \in Orders(Candidates(w))}
      [] policy = "round_robin" -> {RoundRobin(w, k, n) : k \in Wks}
      [] policy = "adaptive" -> {FirstOf(s, n) : s \in SortedBy(Candidates(w), Size)}
      [] policy = "numa_aware" -> {FirstOf(s, n) : s \in SortedBy(Candidates(w), LAMBDA v : NumaScore(w, v))}
      [] policy = "locality_aware" -> LocalityAware(w, n)
      [] OTHER -> Hierarchical(w, n)

-----------------------------------------------------------------------------
(* steal_for (most = 0) and steal_batch_for.                                  *)

WkQuiet == UNCHANGED <<matrix, tried, missed>>

\* The policy lists every other worker when it may; locality_aware does for tracked ones.
Enough(policy) == MaxAttempts >= WkCount - 1 /\ (policy # "locality_aware" \/ WkCount <= Tracked)

StealFor(w, policy, most) ==
    /\ thief[w].at = "none" /\ stealsDone < WkMaxSteals /\ stealsDone' = stealsDone + 1 /\ WkCount > 1
    /\ \E vs \in SelectVictims(policy, w, MaxAttempts) :
          thief' = [thief EXCEPT ![w] = [NoCall EXCEPT !.at = "try", !.victims = vs, !.most = most, !.full = Enough(policy)]]
    /\ UNCHANGED <<deque, pushed>> /\ WkQuiet

Victim(w) == Head(thief[w].victims)
Pass(w) == [thief[w] EXCEPT !.at = "try", !.victims = Tail(@)]

Failed(w) ==
    /\ tried' = [tried EXCEPT ![w] = @ \cup {Victim(w)}] /\ thief' = [thief EXCEPT ![w] = Pass(w)]
    /\ UNCHANGED <<deque, pushed, matrix, stealsDone, missed>>

LeftBy(w, n) == deque[Victim(w)] - n

Won(w, n) ==
    /\ deque' = [deque EXCEPT ![Victim(w)] = LeftBy(w, n)]
    /\ Record(w, Victim(w)) /\ thief' = [thief EXCEPT ![w] = NoCall]
    /\ tried' = [tried EXCEPT ![w] = {}]
    /\ UNCHANGED <<pushed, stealsDone, missed>>

NoDeque(w) ==
    /\ thief[w].at = "try" /\ thief[w].victims # <<>> /\ Victim(w) \in Dequeless /\ Failed(w)

\* steal also fails when its exchange loses against another thread.
TryOne(w) ==
    /\ thief[w].at = "try" /\ thief[w].victims # <<>> /\ thief[w].most = 0 /\ Victim(w) \notin Dequeless
    /\ (deque[Victim(w)] > 0 /\ Won(w, 1)) \/ Failed(w)

\* calculate_batch_size: half of what is there, within the bounds, and what was asked for.
StealBatch(size, most) == Min({most, IF size \div 2 < MinBatch THEN MinBatch ELSE Min({size \div 2, MaxBatch})})

TryBatchSize(w) ==
    /\ thief[w].at = "try" /\ thief[w].victims # <<>> /\ thief[w].most > 0 /\ Victim(w) \notin Dequeless
    /\ IF deque[Victim(w)] = 0 THEN Failed(w)
       ELSE /\ thief' = [thief EXCEPT ![w].at = "batch", ![w].size = deque[Victim(w)]]
            /\ UNCHANGED <<deque, pushed, stealsDone>> /\ WkQuiet

\* steal_batch takes what is left of it by then.
BatchTaken(w) == Min({StealBatch(thief[w].size, thief[w].most), deque[Victim(w)]})

TryBatch(w) ==
    /\ thief[w].at = "batch"
    /\ (BatchTaken(w) > 0 /\ Won(w, BatchTaken(w))) \/ Failed(w)

\* Mutant: the call ends at the first failure.
OutOfVictimsAtFailure(w) == thief[w].victims = <<>> \/ tried[w] # {}

OutOfVictims(w) == thief[w].victims = <<>>

GiveUp(w) ==
    /\ thief[w].at = "try" /\ OutOfVictims(w)
    /\ thief' = [thief EXCEPT ![w] = NoCall] /\ tried' = [tried EXCEPT ![w] = {}]
    /\ missed' = (missed \/ (thief[w].full /\ tried[w] # Wks \ {w}))
    /\ UNCHANGED <<deque, pushed, matrix, stealsDone>>

\* The owners push and pop.
OwnerPushes(w) ==
    /\ w \notin Dequeless /\ pushed < WkMaxJobs /\ pushed' = pushed + 1
    /\ deque' = [deque EXCEPT ![w] = @ + 1]
    /\ UNCHANGED <<thief, stealsDone>> /\ WkQuiet

OwnerPops(w) ==
    /\ deque[w] > 0 /\ deque' = [deque EXCEPT ![w] = @ - 1]
    /\ UNCHANGED <<thief, pushed, stealsDone>> /\ WkQuiet

WkNext ==
    \E w \in Wks :
        \/ \E p \in StealPolicies, most \in {0, 1, 2} : StealFor(w, p, most)
        \/ NoDeque(w) \/ TryOne(w) \/ TryBatchSize(w) \/ TryBatch(w) \/ GiveUp(w) \/ OwnerPushes(w) \/ OwnerPops(w)

WkSpec == WkInit /\ [][WkNext]_wkVars

-----------------------------------------------------------------------------

\* A thief that may try everybody comes back empty-handed only after it tried every other
\* worker, whatever the policy and however the sizes it sorted by have changed.
NobodySkipped == ~missed

=============================================================================
