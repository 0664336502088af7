----------------------------- MODULE TokenBucket -----------------------------
(* token_bucket: lock-free acquisition of tokens that accrue with time.  Amounts *)
(* are units of 1/PRECISION_FACTOR token, time is counted in ticks, and a rate    *)
(* is in units per RateScale ticks, so that a short interval is worth less than   *)
(* one unit.  refill claims the interval since last_refill_ with one exchange and *)
(* credits it with a second one, which is tried once; both may fail spuriously.   *)
(* available_tokens, time_until_available and set_rate call refill as well.       *)
EXTENDS Integers, FiniteSets

CONSTANTS
    Callers,      \* threads that use the bucket
    Bursts,       \* burst sizes in tokens, given to set_burst_size
    Rates,        \* rates given to set_rate
    RateScale,    \* ticks in which a rate of 1 yields one unit
    Precision,    \* PRECISION_FACTOR
    MaxTime,      \* bound: ticks
    MaxUses       \* bound: calls

ASSUME BucketAssumption ==
    /\ Bursts \subseteq Nat /\ Rates \subseteq Nat
    /\ RateScale \in Nat \ {0} /\ Precision \in Nat \ {0}

VARIABLES
    clock,       \* steady_clock
    tokens,      \* tokens_
    maxTokens,   \* max_tokens_
    refillRate,  \* refill_rate_
    lastRefill,  \* last_refill_
    caller,      \* per thread: see Outside
    uses,        \* calls made
    ledger       \* history: units granted, units put in at once (burst, reset), the
                 \* highest rate so far, whether the burst changed within a refill,
                 \* and whether reset turned last_refill_ back

tbVars == <<clock, tokens, maxTokens, refillRate, lastRefill, caller, uses, ledger>>
shared == <<tokens, maxTokens, refillRate, lastRefill>>

Highest(S) == CHOOSE x \in S : \A y \in S : y <= x

\* then: what the call does after its refill; now, last, seen, most, gain: values read.
Outside == [at |-> "out", then |-> "none", now |-> 0, last |-> 0, seen |-> 0, most |-> 0, gain |-> 0]

TbInit ==
    /\ clock = 0 /\ lastRefill = 0
    /\ maxTokens \in {b * Precision : b \in Bursts} /\ tokens = maxTokens
    /\ refillRate \in Rates
    /\ caller = [c \in Callers |-> Outside] /\ uses = 0
    /\ ledger = [granted |-> 0, given |-> tokens, rate |-> refillRate, rewound |-> FALSE]

Step(c, fields) == caller' = [caller EXCEPT ![c] = fields]
To(c, l) == Step(c, [caller[c] EXCEPT !.at = l])

Tick ==
    /\ clock < MaxTime
    /\ clock' = clock + 1
    /\ UNCHANGED <<shared, caller, uses, ledger>>

-----------------------------------------------------------------------------
(* refill.                                                                    *)

\* After refill the call goes on; queries and set_rate have nothing more to wait for.
AfterRefill(c) == To(c, caller[c].then)

\* A call that refills first; the clock and last_refill_ are read one after the other.
Begin(c, then) ==
    /\ caller[c].at = "out" /\ uses < MaxUses /\ uses' = uses + 1
    /\ Step(c, [Outside EXCEPT !.at = "load", !.then = then, !.now = clock])
    /\ UNCHANGED <<clock, shared, ledger>>

LoadLast(c) ==
    /\ caller[c].at = "load"
    /\ IF caller[c].now <= lastRefill THEN AfterRefill(c)
       ELSE Step(c, [caller[c] EXCEPT !.at = "claim", !.last = lastRefill])
    /\ UNCHANGED <<clock, shared, uses, ledger>>

\* Mutant: last_refill_ is stored without comparing.
ClaimsAlways(c) == caller[c].at = "claim"

Claims(c) == lastRefill = caller[c].last

\* The conversion to int64_t cuts off what is less than a unit.
Gain(elapsed) == (elapsed * refillRate) \div RateScale

\* What last_refill_ is advanced to.
ClaimedUntil(c) == caller[c].now

ClaimInterval(c) ==
    /\ caller[c].at = "claim"
    /\ \/ /\ Claims(c)
          /\ lastRefill' = ClaimedUntil(c)
          /\ LET gain == Gain(caller[c].now - caller[c].last) IN
             IF gain <= 0 THEN AfterRefill(c)
             ELSE Step(c, [caller[c] EXCEPT !.at = "max", !.gain = gain])
       \/ AfterRefill(c) /\ UNCHANGED lastRefill
    /\ UNCHANGED <<clock, tokens, maxTokens, refillRate, uses, ledger>>

LoadMax(c) ==
    /\ caller[c].at = "max"
    /\ Step(c, [caller[c] EXCEPT !.at = "credit", !.most = maxTokens, !.seen = tokens])
    /\ UNCHANGED <<clock, shared, uses, ledger>>

Credited(c) == LET sum == caller[c].seen + caller[c].gain
               IN IF sum < caller[c].most THEN sum ELSE caller[c].most

StillSeen(c) == tokens = caller[c].seen

\* The second exchange: if tokens_ has changed the gain is lost.
Credit(c) ==
    /\ caller[c].at = "credit"
    /\ AfterRefill(c)
    /\ \/ StillSeen(c) /\ tokens' = Credited(c)
       \/ UNCHANGED tokens
    /\ UNCHANGED <<clock, maxTokens, refillRate, lastRefill, uses, ledger>>

-----------------------------------------------------------------------------
(* What the calls do after refill.                                            *)

\* try_acquire(1): load, then exchange until too few are left.
LoadTokens(c) ==
    /\ caller[c].at = "acquire"
    /\ IF tokens >= Precision THEN Step(c, [caller[c] EXCEPT !.at = "spend", !.seen = tokens])
                              ELSE To(c, "none")
    /\ UNCHANGED <<clock, shared, uses, ledger>>

Spend(c) ==
    /\ caller[c].at = "spend"
    /\ IF StillSeen(c)
       THEN /\ tokens' = caller[c].seen - Precision
            /\ ledger' = [ledger EXCEPT !.granted = @ + Precision]
            /\ Step(c, Outside)
       ELSE /\ IF tokens >= Precision THEN Step(c, [caller[c] EXCEPT !.seen = tokens]) ELSE To(c, "none")
            /\ UNCHANGED <<tokens, ledger>>
    /\ UNCHANGED <<clock, maxTokens, refillRate, lastRefill, uses>>

\* try_acquire_for tries again until its deadline; the others return.
RetryOrReturn(c) ==
    /\ caller[c].at = "none"
    /\ \/ Step(c, Outside)
       \/ caller[c].then = "acquire" /\ clock > caller[c].now
          /\ Step(c, [Outside EXCEPT !.at = "load", !.then = "acquire", !.now = clock])
    /\ UNCHANGED <<clock, shared, uses, ledger>>

SetRate(c, r) ==
    /\ caller[c].at = "rate"
    /\ refillRate' = r /\ Step(c, Outside)
    /\ ledger' = [ledger EXCEPT !.rate = Highest({@, r})]
    /\ UNCHANGED <<clock, tokens, maxTokens, lastRefill, uses>>

\* set_burst_size stores the maximum, then lowers the tokens to it.
SetBurstSize(c, b) ==
    /\ caller[c].at = "out" /\ uses < MaxUses /\ uses' = uses + 1
    /\ maxTokens' = b * Precision
    /\ Step(c, [Outside EXCEPT !.at = "trim", !.most = b * Precision])
    /\ UNCHANGED <<clock, tokens, refillRate, lastRefill, ledger>>

Trim(c) ==
    /\ caller[c].at = "trim"
    /\ tokens' = IF tokens > caller[c].most THEN caller[c].most ELSE tokens
    /\ Step(c, Outside)
    /\ UNCHANGED <<clock, maxTokens, refillRate, lastRefill, uses, ledger>>

\* reset: the tokens, then the time, which may be past when it is stored.
Reset(c) ==
    /\ caller[c].at = "out" /\ uses < MaxUses /\ uses' = uses + 1
    /\ tokens' = maxTokens
    /\ ledger' = [ledger EXCEPT !.given = @ + maxTokens - tokens]
    /\ Step(c, [Outside EXCEPT !.at = "stamp", !.now = clock])
    /\ UNCHANGED <<clock, maxTokens, refillRate, lastRefill>>

StampNow(c) ==
    /\ caller[c].at = "stamp"
    /\ lastRefill' = caller[c].now /\ Step(c, Outside)
    /\ ledger' = [ledger EXCEPT !.rewound = @ \/ lastRefill > caller[c].now]
    /\ UNCHANGED <<clock, tokens, maxTokens, refillRate, uses>>

TbNext ==
    \/ Tick
    \/ \E c \in Callers :
          \/ \E then \in {"acquire", "none", "rate"} : Begin(c, then)
          \/ LoadLast(c) \/ ClaimInterval(c) \/ LoadMax(c) \/ Credit(c)
          \/ LoadTokens(c) \/ Spend(c) \/ RetryOrReturn(c)
          \/ \E r \in Rates : SetRate(c, r)
          \/ \E b \in Bursts : SetBurstSize(c, b)
          \/ Trim(c) \/ Reset(c) \/ StampNow(c)

TbSpec == TbInit /\ [][TbNext]_tbVars

-----------------------------------------------------------------------------

\* The bucket never grants more than its first burst, its resets and the time that has
\* passed at the highest rate set allow: no interval is credited twice, and no two callers
\* spend the same units (unless reset stored a time older than the last refill).
NeverOverGrants ==
    ~ledger.rewound => RateScale * (ledger.granted + tokens) <= RateScale * ledger.given + clock * ledger.rate

=============================================================================
