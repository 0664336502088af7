---------------------------- MODULE SlidingWindow ----------------------------
(* SlidingWindowCounter.  Time is counted in bucket durations, so a bucket's timestamp is    *)
(* the tick it started at; the window is as many ticks as there are buckets.  increment       *)
(* reads the clock, advances the bucket with a compare-exchange and a store, and adds, with    *)
(* other threads and the clock between any two of these steps.                                 *)
EXTENDS Integers, FiniteSetsExt

CONSTANTS
    SwThreads,     \* threads that increment
    SwBuckets,     \* buckets_.size()
    SwMaxClock,    \* bound: ticks
    SwMaxAdds      \* bound: calls of increment

VARIABLES
    ticks,         \* the steady clock, from 1: timestamp 0 means never used
    bucket,        \* buckets_: count and timestamp
    total,         \* all_time_total_
    sw,            \* per thread the step of increment it is at and its locals
    added,         \* history: per tick the calls of increment that read it
    swPast         \* history: two calls overlapped, or the clock ticked during a call; reset
                   \* was called (once, at most), and during a call

swVars == <<ticks, bucket, total, sw, added, swPast>>

SwIndex == 0..(SwBuckets - 1)
SwOut == [at |-> "out", now |-> 0, old |-> 0]
SwRunning == {t \in SwThreads : sw[t].at # "out"}
SwCalls == MapThenSumSet(LAMBDA k : added[k], 1..SwMaxClock)

SwInit ==
    /\ ticks = 1 /\ bucket = [i \in SwIndex |-> [count |-> 0, stamp |-> 0]] /\ total = 0
    /\ sw = [t \in SwThreads |-> SwOut] /\ added = [k \in 1..SwMaxClock |-> 0]
    /\ swPast = [crossed |-> FALSE, reset |-> FALSE, lost |-> FALSE]

BucketIndex(now) == now % SwBuckets
Mine(t) == BucketIndex(sw[t].now)

SwTick ==
    /\ ticks < SwMaxClock /\ ticks' = ticks + 1
    /\ swPast' = [swPast EXCEPT !.crossed = @ \/ SwRunning # {}]
    /\ UNCHANGED <<bucket, total, sw, added>>

Increment(t) ==
    /\ sw[t].at = "out" /\ SwCalls < SwMaxAdds
    /\ sw' = [sw EXCEPT ![t] = [SwOut EXCEPT !.at = "advance", !.now = ticks]]
    /\ added' = [added EXCEPT ![ticks] = @ + 1]
    /\ swPast' = [swPast EXCEPT !.crossed = @ \/ SwRunning # {}]
    /\ UNCHANGED <<ticks, bucket, total>>

Older(t) == bucket[Mine(t)].stamp < sw[t].now

\* advance_bucket: the load.
LoadStamp(t) ==
    /\ sw[t].at = "advance"
    /\ sw' = [sw EXCEPT ![t].at = IF Older(t) THEN "exchange" ELSE "add",
                        ![t].old = bucket[Mine(t)].stamp]
    /\ UNCHANGED <<ticks, bucket, total, added, swPast>>

\* Only the winner clears.
AfterExchange(t) == IF bucket[Mine(t)].stamp = sw[t].old THEN "clear" ELSE "add"

ExchangeStamp(t) ==
    /\ sw[t].at = "exchange" /\ sw' = [sw EXCEPT ![t].at = AfterExchange(t)]
    /\ bucket' = [bucket EXCEPT ![Mine(t)].stamp = IF @ = sw[t].old THEN sw[t].now ELSE @]
    /\ UNCHANGED <<ticks, total, added, swPast>>

\* Mutant: the bucket keeps what it counted a window ago.
ClearedCountKept(t) == bucket[Mine(t)].count

ClearedCount(t) == 0

ClearBucket(t) ==
    /\ sw[t].at = "clear" /\ sw' = [sw EXCEPT ![t].at = "add"]
    /\ bucket' = [bucket EXCEPT ![Mine(t)].count = ClearedCount(t)]
    /\ UNCHANGED <<ticks, total, added, swPast>>

AddCount(t) ==
    /\ sw[t].at = "add" /\ sw' = [sw EXCEPT ![t].at = "total"]
    /\ bucket' = [bucket EXCEPT ![Mine(t)].count = @ + 1]
    /\ UNCHANGED <<ticks, total, added, swPast>>

NewTotal == total + 1

AddTotal(t) ==
    /\ sw[t].at = "total" /\ sw' = [sw EXCEPT ![t] = SwOut] /\ total' = NewTotal
    /\ UNCHANGED <<ticks, bucket, added, swPast>>

\* reset, store by store in the code; here in one step, which crosses every call under way.
\* Calls that begin while it stores are left out.
SwReset ==
    /\ ~swPast.reset /\ SwCalls > 0 /\ total' = 0 /\ bucket' = [i \in SwIndex |-> [count |-> 0, stamp |-> 0]]
    /\ added' = [k \in 1..SwMaxClock |-> 0] /\ swPast' = [swPast EXCEPT !.reset = TRUE, !.lost = SwRunning # {}]
    /\ UNCHANGED <<ticks, sw>>

SwNext ==
    \/ SwTick \/ SwReset
    \/ \E t \in SwThreads : Increment(t) \/ LoadStamp(t) \/ ExchangeStamp(t) \/ ClearBucket(t) \/ AddCount(t) \/ AddTotal(t)

SwSpec == SwInit /\ [][SwNext]_swVars

-----------------------------------------------------------------------------
\* is_bucket_valid.
BucketValid(i) == bucket[i].stamp # 0 /\ ticks - bucket[i].stamp < SwBuckets

TotalInWindow == MapThenSumSet(LAMBDA i : bucket[i].count, {i \in SwIndex : BucketValid(i)})
AddedInWindow == MapThenSumSet(LAMBDA k : added[k], {k \in 1..ticks : ticks - k < SwBuckets})

\* total_in_window counts exactly the increments of the last window when calls neither overlap
\* nor span a tick.
WindowExact == SwRunning = {} /\ ~swPast.crossed /\ ~swPast.lost => TotalInWindow = AddedInWindow

=============================================================================
