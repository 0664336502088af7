----------------------------- MODULE MCScheduling -----------------------------
(* What decides when a job may enter a pool, which job is next, who steals it and  *)
(* how many workers there are, and the diagnostics that look on, one at a time:     *)
(* `running` names the one whose steps are taken, the others stay as they began.    *)
EXTENDS BackpressureQueue, TokenBucket, TypedPool, Autoscaler, WorkStealer, Diagnostics, TLC

VARIABLE running

schedVars == <<bpVars, tbVars, tpVars, asVars, wkVars, dgVars, running>>

PoolWorkers == <<[types |-> <<"RealTime", "Batch">>], [types |-> <<"Batch">>]>>
PoolJobs == <<[type |-> "RealTime", kind |-> "plain"], [type |-> "Batch", kind |-> "aging"],
              [type |-> "Batch", kind |-> "typed"]>>

TwoNodes == [w \in 0..3 |-> w \div 2]
AllPolicies == {"random", "round_robin", "adaptive", "numa_aware", "locality_aware", "hierarchical"}

\* A component that does not run starts in one of its initial states only.
SchedInit ==
    /\ BpInit /\ TbInit /\ TpInit /\ AsInit /\ WkInit /\ DgInit
    /\ running \in {"backpressure", "bucket", "typed", "autoscaler", "stealer", "diagnostics"}
    /\ running # "backpressure" => policy = "block"
    /\ running # "bucket" => maxTokens = Precision /\ refillRate = 1
    /\ running # "autoscaler" => crew.size = MinWorkers
    /\ running # "diagnostics" => diagnosed = "tracing" /\ tracing.on

SchedNext ==
    /\ UNCHANGED running
    /\ \/ running = "backpressure" /\ BpNext /\ UNCHANGED <<tbVars, tpVars, asVars, wkVars, dgVars>>
       \/ running = "bucket" /\ TbNext /\ UNCHANGED <<bpVars, tpVars, asVars, wkVars, dgVars>>
       \/ running = "typed" /\ TpNext /\ UNCHANGED <<bpVars, tbVars, asVars, wkVars, dgVars>>
       \/ running = "autoscaler" /\ AsNext /\ UNCHANGED <<bpVars, tbVars, tpVars, wkVars, dgVars>>
       \/ running = "stealer" /\ WkNext /\ UNCHANGED <<bpVars, tbVars, tpVars, asVars, dgVars>>
       \/ running = "diagnostics" /\ DgNext /\ UNCHANGED <<bpVars, tbVars, tpVars, asVars, wkVars>>

SchedSpec == SchedInit /\ [][SchedNext]_schedVars

\* Producers and callers are interchangeable; the components share the same two.
SchedSymmetry == Permutations(Callers)
=============================================================================
