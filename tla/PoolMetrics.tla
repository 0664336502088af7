----------------------------- MODULE PoolMetrics -----------------------------
(* metrics_service: the basic counters, and the enhanced metrics that are made when   *)
(* they are first wanted.  Every counter is an atomic of its own, so that each update  *)
(* and each read of a snapshot is a step; per-worker figures have a mutex.  Durations  *)
(* are small numbers; histograms and windows have modules of their own.                *)
EXTENDS Integers, FiniteSets

CONSTANTS
    PmThreads,    \* callers
    PmDepths,     \* queue depths that are recorded
    PmMaxCalls    \* bound: calls

VARIABLES
    pmBasic,      \* ThreadPoolMetrics: executed, failed, busy time
    pmMade,       \* enhanced_metrics_: objects made so far
    pmEnabled,    \* enhanced_enabled_
    pmEnhanced,   \* EnhancedThreadPoolMetrics: see PmZero
    pmCall,       \* per thread: see PmNone
    pmShot,       \* the last snapshot: its figures, and whether no other call overlapped it
    pmPast        \* history: calls so far; highest depth recorded; a reset overlapped a call

pmVars == <<pmBasic, pmMade, pmEnabled, pmEnhanced, pmCall, pmShot, pmPast>>

PmZero == [executed |-> 0, failed |-> 0, peak |-> 0, sum |-> 0, samples |-> 0, busy |-> 0, worker |-> 0]

\* arg: outcome, depth or flag of the call; seen: the peak it loaded.
PmNone == [pc |-> "idle", arg |-> 0, seen |-> 0]

PmInit ==
    /\ pmBasic = [executed |-> 0, failed |-> 0, busy |-> 0]
    /\ pmMade = 0 /\ pmEnabled = FALSE /\ pmEnhanced = PmZero
    /\ pmCall = [t \in PmThreads |-> PmNone]
    /\ pmShot = [peak |-> 0, samples |-> 0, sum |-> 0, alone |-> TRUE]
    /\ pmPast = [calls |-> 0, highest |-> 0, cut |-> FALSE]

ResetSteps == {"rBasic", "rCounts", "rPeak", "rSum", "rSamples", "rWorker"}
ShotSteps == {"sPeak", "sSamples", "sSum"}
InProgress(steps) == \E u \in PmThreads : pmCall[u].pc \in steps
OthersInProgress == \E u \in PmThreads : pmCall[u].pc # "idle"

PmCalls(t, pc, arg) ==
    /\ pmCall[t].pc = "idle" /\ pmPast.calls < PmMaxCalls
    /\ pmCall' = [pmCall EXCEPT ![t] = [PmNone EXCEPT !.pc = pc, !.arg = arg]]
    /\ pmPast' = [pmPast EXCEPT !.calls = @ + 1,
                      !.cut = @ \/ (OthersInProgress /\ (pc \in ResetSteps \/ InProgress(ResetSteps)))]
    /\ pmShot' = [pmShot EXCEPT !.alone = IF pc \in ShotSteps THEN ~OthersInProgress
                                          ELSE @ /\ ~InProgress(ShotSteps)]
    /\ UNCHANGED <<pmBasic, pmMade, pmEnabled, pmEnhanced>>

PmAt(t, from, to) ==
    /\ pmCall[t].pc = from
    /\ pmCall' = IF to = "idle" THEN [pmCall EXCEPT ![t] = PmNone] ELSE [pmCall EXCEPT ![t].pc = to]

Updates(e) == pmEnhanced' = e /\ UNCHANGED <<pmMade, pmEnabled, pmShot>>

-----------------------------------------------------------------------------
(* set_enhanced_metrics_enabled.                                              *)

\* The pointer is looked at without the mutex first.
SetEnhanced(t) ==
    \E on \in BOOLEAN :
       PmCalls(t, IF on /\ pmMade = 0 THEN "lock" ELSE "flag", IF on THEN 1 ELSE 0)

Makes == pmMade = 0

MakeEnhanced(t) ==
    /\ PmAt(t, "lock", "flag")
    /\ pmMade' = IF Makes THEN pmMade + 1 ELSE pmMade
    /\ pmEnhanced' = IF Makes THEN PmZero ELSE pmEnhanced
    /\ UNCHANGED <<pmBasic, pmEnabled, pmShot, pmPast>>

StoreFlag(t) ==
    /\ PmAt(t, "flag", "idle")
    /\ pmEnabled' = (pmCall[t].arg = 1)
    /\ UNCHANGED <<pmBasic, pmMade, pmEnhanced, pmShot, pmPast>>

-----------------------------------------------------------------------------
(* record_execution: the basic counters, then the enhanced ones.              *)

PmRecordExecution(t) == \E ok \in {0, 1} : PmCalls(t, "basic", ok)

CountBasic(t) ==
    /\ PmAt(t, "basic", "basicBusy")
    /\ pmBasic' = IF pmCall[t].arg = 1 THEN [pmBasic EXCEPT !.executed = @ + 1] ELSE [pmBasic EXCEPT !.failed = @ + 1]
    /\ UNCHANGED <<pmMade, pmEnabled, pmEnhanced, pmShot, pmPast>>

BusyBasic(t) ==
    /\ PmAt(t, "basicBusy", IF pmEnabled /\ pmMade > 0 THEN "enhanced" ELSE "idle")
    /\ pmBasic' = [pmBasic EXCEPT !.busy = @ + 1]
    /\ UNCHANGED <<pmMade, pmEnabled, pmEnhanced, pmShot, pmPast>>

Counted(ok) == IF ok = 1 THEN "executed" ELSE "failed"

CountEnhanced(t) ==
    /\ PmAt(t, "enhanced", "idle")
    /\ Updates([pmEnhanced EXCEPT ![Counted(pmCall[t].arg)] = @ + 1])
    /\ UNCHANGED <<pmBasic, pmPast>>

-----------------------------------------------------------------------------
(* record_queue_depth and record_worker_state.                                *)

PmRecordDepth(t) == \E d \in PmDepths : pmEnabled /\ pmMade > 0 /\ PmCalls(t, "load", d)

LoadPeak(t) ==
    /\ pmCall[t].pc = "load"
    /\ pmCall' = [pmCall EXCEPT ![t].pc = "peak", ![t].seen = pmEnhanced.peak]
    /\ UNCHANGED <<pmBasic, pmMade, pmEnabled, pmEnhanced, pmShot, pmPast>>

\* Mutant: the peak is stored, not exchanged.
PeakStored(t) == TRUE

\* The exchange finds the peak that was loaded.
PeakUnchanged(t) == pmEnhanced.peak = pmCall[t].seen

RaisePeak(t) ==
    /\ pmCall[t].pc = "peak"
    /\ IF pmCall[t].arg <= pmCall[t].seen
       THEN PmAt(t, "peak", "sum") /\ UNCHANGED <<pmEnhanced, pmShot, pmMade, pmEnabled>>
       ELSE IF PeakUnchanged(t)
            THEN PmAt(t, "peak", "sum") /\ Updates([pmEnhanced EXCEPT !.peak = pmCall[t].arg])
            ELSE /\ pmCall' = [pmCall EXCEPT ![t].seen = pmEnhanced.peak]
                 /\ UNCHANGED <<pmEnhanced, pmShot, pmMade, pmEnabled>>
    /\ UNCHANGED <<pmBasic, pmPast>>

AddSum(t) ==
    /\ PmAt(t, "sum", "samples")
    /\ Updates([pmEnhanced EXCEPT !.sum = @ + pmCall[t].arg])
    /\ UNCHANGED <<pmBasic, pmPast>>

SampleOf(d) == 1

AddSample(t) ==
    /\ PmAt(t, "samples", "idle")
    /\ Updates([pmEnhanced EXCEPT !.samples = @ + SampleOf(pmCall[t].arg)])
    /\ pmPast' = [pmPast EXCEPT !.highest = IF pmCall[t].arg > @ THEN pmCall[t].arg ELSE @]
    /\ UNCHANGED pmBasic

\* record_worker_state, busy or idle: the total first, then the worker's own figure under the
\* mutex, if the worker is known.
PmRecordState(t) == pmEnabled /\ pmMade > 0 /\ PmCalls(t, "busy", 1)

AddBusy(t) ==
    /\ PmAt(t, "busy", "worker")
    /\ Updates([pmEnhanced EXCEPT !.busy = @ + pmCall[t].arg])
    /\ UNCHANGED <<pmBasic, pmPast>>

AddWorker(t) ==
    /\ PmAt(t, "worker", "idle")
    /\ \E known \in {0, 1} : Updates([pmEnhanced EXCEPT !.worker = @ + known * pmCall[t].arg])
    /\ UNCHANGED <<pmBasic, pmPast>>

-----------------------------------------------------------------------------
(* reset, counter by counter, and snapshot, figure by figure.                 *)

PmReset(t) == PmCalls(t, "rBasic", 0)

ResetBasic(t) ==
    /\ PmAt(t, "rBasic", IF pmMade > 0 THEN "rCounts" ELSE "idle")
    /\ pmBasic' = [executed |-> 0, failed |-> 0, busy |-> 0]
    /\ UNCHANGED <<pmMade, pmEnabled, pmEnhanced, pmShot, pmPast>>

ResetCounts(t) ==
    /\ PmAt(t, "rCounts", "rPeak")
    /\ Updates([pmEnhanced EXCEPT !.executed = 0, !.failed = 0, !.busy = 0])
    /\ UNCHANGED <<pmBasic, pmPast>>

ResetDepths(t) ==
    /\ \/ PmAt(t, "rPeak", "rSum") /\ Updates([pmEnhanced EXCEPT !.peak = 0])
       \/ PmAt(t, "rSum", "rSamples") /\ Updates([pmEnhanced EXCEPT !.sum = 0])
       \/ PmAt(t, "rSamples", "rWorker") /\ Updates([pmEnhanced EXCEPT !.samples = 0])
    /\ UNCHANGED <<pmBasic, pmPast>>

ResetWorker(t) ==
    /\ PmAt(t, "rWorker", "idle")
    /\ Updates([pmEnhanced EXCEPT !.worker = 0])
    /\ pmPast' = [pmPast EXCEPT !.highest = 0]
    /\ UNCHANGED pmBasic

\* enhanced_snapshot, as far as the depths; one at a time.
PmSnapshot(t) == pmEnabled /\ pmMade > 0 /\ ~InProgress(ShotSteps) /\ PmCalls(t, "sPeak", 0)

ReadShot(t) ==
    /\ \/ PmAt(t, "sPeak", "sSamples") /\ pmShot' = [pmShot EXCEPT !.peak = pmEnhanced.peak]
       \/ PmAt(t, "sSamples", "sSum") /\ pmShot' = [pmShot EXCEPT !.samples = pmEnhanced.samples]
       \/ PmAt(t, "sSum", "idle") /\ pmShot' = [pmShot EXCEPT !.sum = IF pmShot.samples > 0 THEN pmEnhanced.sum ELSE 0]
    /\ UNCHANGED <<pmBasic, pmMade, pmEnabled, pmEnhanced, pmPast>>

PmNext ==
    \E t \in PmThreads :
       \/ SetEnhanced(t) \/ MakeEnhanced(t) \/ StoreFlag(t)
       \/ PmRecordExecution(t) \/ CountBasic(t) \/ BusyBasic(t) \/ CountEnhanced(t)
       \/ PmRecordDepth(t) \/ LoadPeak(t) \/ RaisePeak(t) \/ AddSum(t) \/ AddSample(t)
       \/ PmRecordState(t) \/ AddBusy(t) \/ AddWorker(t)
       \/ PmReset(t) \/ ResetBasic(t) \/ ResetCounts(t) \/ ResetDepths(t) \/ ResetWorker(t)
       \/ PmSnapshot(t) \/ ReadShot(t)

-----------------------------------------------------------------------------
(* Properties.                                                                *)

\* The peak depth is the highest one recorded since the last reset, whatever records crossed
\* each other at the exchange; only a reset that overlaps another call may leave less.
\* A snapshot that no other call overlaps shows it: its average depth is at most its peak.
PeakIsHighest ==
    ~pmPast.cut =>
        /\ ~InProgress(ResetSteps) => pmEnhanced.peak >= pmPast.highest
        /\ pmShot.alone /\ ~InProgress(ShotSteps) => pmShot.sum <= pmShot.peak * pmShot.samples

=============================================================================
