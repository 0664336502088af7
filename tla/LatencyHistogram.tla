--------------------------- MODULE LatencyHistogram ---------------------------
(* LatencyHistogram: record_ns and percentile, both without a lock, and reset.  Values,       *)
(* bucket counts and their differences are counted modulo 2^64 in the code and modulo          *)
(* HgWrap here; percentile is asked for p = n / HgParts and answers with a fraction of a         *)
(* bucket, kept here as the bucket and the numerator and denominator of the fraction.            *)
EXTENDS Integers, FiniteSets, FiniteSetsExt

CONSTANTS
    HgThreads,     \* threads that record
    HgValues,      \* values that are recorded
    HgBuckets,     \* BUCKET_COUNT
    HgParts,       \* denominators of p
    HgWrap,        \* 2^64
    HgMaxRecords   \* bound: calls of record_ns

VARIABLES
    cells,         \* buckets_
    seen,          \* total_count_
    least, most,   \* min_value_ and max_value_
    hg,            \* per thread the step of record_ns it is at and its value
    ask,           \* a thread in percentile: its step and its locals
    said,          \* what percentile answered
    recorded,      \* history: how often each value was recorded
    hgPast         \* history: reset ran; it ran during another call

hgVars == <<cells, seen, least, most, hg, ask, said, recorded, hgPast>>

HgIndex == 0..(HgBuckets - 1)
HgOut == [at |-> "out", value |-> 0]
NotAsking == [at |-> "out", target |-> 0, i |-> 0, sum |-> 0]
Answering == [NotAsking EXCEPT !.at = "said"]
NothingSaid == [bucket |-> -1, num |-> 0, den |-> 1]

HgInit ==
    /\ cells = [i \in HgIndex |-> 0] /\ seen = 0 /\ least = HgWrap - 1 /\ most = 0
    /\ hg = [t \in HgThreads |-> HgOut] /\ ask = NotAsking /\ said = NothingSaid
    /\ recorded = [v \in HgValues |-> 0] /\ hgPast = [reset |-> FALSE, crossed |-> FALSE]

HgLeast(a, b) == IF a <= b THEN a ELSE b

BucketLower(i) == IF i = 0 THEN 0 ELSE 2 ^ (i - 1)
BucketUpper(i) == IF i >= HgBuckets - 1 THEN HgWrap - 1 ELSE 2 ^ i

\* compute_bucket_index: one more than the highest bit.
BucketOf(v) == IF v = 0 THEN 0 ELSE HgLeast((CHOOSE b \in 0..v : 2 ^ b <= v /\ v < 2 ^ (b + 1)) + 1, HgBuckets - 1)

HgRunning == {t \in HgThreads : hg[t].at # "out"}
HgCalls == MapThenSumSet(LAMBDA v : recorded[v], HgValues)

-----------------------------------------------------------------------------
(* record_ns; the sum is left out.                                            *)

AddBucket(t, v) ==
    /\ hg[t].at = "out" /\ HgCalls < HgMaxRecords
    /\ hg' = [hg EXCEPT ![t] = [at |-> "count", value |-> v]]
    /\ cells' = [cells EXCEPT ![BucketOf(v)] = @ + 1] /\ recorded' = [recorded EXCEPT ![v] = @ + 1]
    /\ UNCHANGED <<seen, least, most, ask, said, hgPast>>

AddSeen(t) ==
    /\ hg[t].at = "count" /\ hg' = [hg EXCEPT ![t].at = "least"] /\ seen' = seen + 1
    /\ UNCHANGED <<cells, least, most, ask, said, recorded, hgPast>>

Lowers(t) == hg[t].value < least

\* The loops with compare_exchange: each ends with the value in, or with a better one there.
LowerLeast(t) ==
    /\ hg[t].at = "least" /\ hg' = [hg EXCEPT ![t].at = "most"]
    /\ least' = IF Lowers(t) THEN hg[t].value ELSE least
    /\ UNCHANGED <<cells, seen, most, ask, said, recorded, hgPast>>

RaiseMost(t) ==
    /\ hg[t].at = "most" /\ hg' = [hg EXCEPT ![t] = HgOut]
    /\ most' = IF hg[t].value > most THEN hg[t].value ELSE most
    /\ UNCHANGED <<cells, seen, least, ask, said, recorded, hgPast>>

\* reset, store by store in the code; here in one step, which crosses every call under way.
\* Calls that begin while it stores are left out.
HgReset ==
    /\ ~hgPast.reset /\ HgCalls > 0
    /\ cells' = [i \in HgIndex |-> 0] /\ seen' = 0 /\ least' = HgWrap - 1 /\ most' = 0
    /\ recorded' = [v \in HgValues |-> 0] /\ UNCHANGED said
    /\ hgPast' = [reset |-> TRUE, crossed |-> HgRunning # {} \/ ask.at \in {"walk", "within"}]
    /\ UNCHANGED <<hg, ask>>

-----------------------------------------------------------------------------
(* percentile, for p = n / HgParts; it changes nothing, so one call, at any moment, *)
(* stands for all.                                                                  *)

Ask(n) ==
    /\ ask.at = "out" /\ seen > 0
    /\ ask' = [NotAsking EXCEPT !.at = "walk", !.target = (n * seen + HgParts - 1) \div HgParts]
    /\ UNCHANGED <<cells, seen, least, most, hg, said, recorded, hgPast>>

\* Mutant: the bucket is taken only when the sum passes the target.
ReachedBeyond(sum) == sum > ask.target

Reached(sum) == sum >= ask.target

MoreBuckets == ask.i < HgBuckets - 1

WalkBucket ==
    /\ ask.at = "walk"
    /\ LET sum == ask.sum + cells[ask.i]
       IN CASE Reached(sum) -> ask' = [ask EXCEPT !.at = "within", !.sum = sum] /\ UNCHANGED said
            [] ~Reached(sum) /\ MoreBuckets -> ask' = [ask EXCEPT !.i = @ + 1, !.sum = sum] /\ UNCHANGED said
            [] OTHER -> ask' = Answering /\ said' = [bucket |-> HgBuckets, num |-> 0, den |-> 1]
    /\ UNCHANGED <<cells, seen, least, most, hg, recorded, hgPast>>

Place(b) == (ask.target - ((ask.sum - b) % HgWrap)) % HgWrap

\* The bucket is loaded again, and the answer is a fraction of it; the middle when it is empty.
AnswerWithin ==
    /\ ask.at = "within" /\ ask' = Answering
    /\ LET b == cells[ask.i]
       IN said' = IF b = 0 THEN [bucket |-> ask.i, num |-> 1, den |-> 2]
                  ELSE [bucket |-> ask.i, num |-> Place(b), den |-> b]
    /\ UNCHANGED <<cells, seen, least, most, hg, recorded, hgPast>>

HgNext ==
    \/ \E t \in HgThreads : (\E v \in HgValues : AddBucket(t, v)) \/ AddSeen(t) \/ LowerLeast(t) \/ RaiseMost(t)
    \/ HgReset \/ WalkBucket \/ AnswerWithin \/ \E n \in 0..HgParts : Ask(n)

HgSpec == HgInit /\ [][HgNext]_hgVars

-----------------------------------------------------------------------------

\* A percentile lies within its bucket, also while others record: the count is raised after
\* the bucket, so the walk always finds its target, and the differences that wrap come back
\* to a place in the bucket; and the bucket holds exactly the values between its published
\* bounds.  Only a reset that crosses a call breaks this.
PercentileInBucket ==
    ~hgPast.crossed =>
        /\ said.bucket < HgBuckets /\ said.num >= 0 /\ said.num <= said.den
        /\ \A i \in HgIndex :
              cells[i] = MapThenSumSet(LAMBDA v : recorded[v],
                                       {v \in HgValues : v >= BucketLower(i) /\ (v < BucketUpper(i) \/ i = HgBuckets - 1)})

=============================================================================
