----------------------------- MODULE MCContainers -----------------------------
(* The containers of jobs, and the hazard records they use, one at a time:         *)
(* `container` names the one whose steps are taken, the others stay as they began. *)
EXTENDS WorkStealingDeque, ConcurrentQueue, LockfreeQueue, PolicyQueue, LockfreeSync, AdaptiveQueue, HazardRecords,
        TLC

VARIABLE container

containerVars == <<wsVars, cqVars, lfVars, pqVars, lsVars, aqVars, hrVars, container>>

ContainersInit ==
    /\ WsInit /\ CqInit /\ LfInit /\ PqInit /\ LsInit /\ AqInit /\ HrInit
    /\ container \in {"deque", "concurrent", "lockfree", "policy", "sync", "adaptive", "records"}
    /\ container # "policy" => rule = "reject"
    /\ container # "adaptive" => aqPolicy = "manual"

ContainersNext ==
    /\ UNCHANGED container
    /\ \/ container = "deque" /\ WsNext /\ UNCHANGED <<cqVars, lfVars, pqVars, lsVars, aqVars, hrVars>>
       \/ container = "concurrent" /\ CqNext /\ UNCHANGED <<wsVars, lfVars, pqVars, lsVars, aqVars, hrVars>>
       \/ container = "lockfree" /\ LfNext /\ UNCHANGED <<wsVars, cqVars, pqVars, lsVars, aqVars, hrVars>>
       \/ container = "policy" /\ PqNext /\ UNCHANGED <<wsVars, cqVars, lfVars, lsVars, aqVars, hrVars>>
       \/ container = "sync" /\ LsNext /\ UNCHANGED <<wsVars, cqVars, lfVars, pqVars, aqVars, hrVars>>
       \/ container = "adaptive" /\ AqNext /\ UNCHANGED <<wsVars, cqVars, lfVars, pqVars, lsVars, hrVars>>
       \/ container = "records" /\ HrNext /\ UNCHANGED <<wsVars, cqVars, lfVars, pqVars, lsVars, aqVars>>

ContainersSpec == ContainersInit /\ [][ContainersNext]_containerVars

\* The cfg uses the same three threads for the concurrent, the policy and the adaptive queue
\* and the hazard records, and the same two as thieves and for the lock-free queue.
ContainersSymmetry == Permutations(CqThreads) \cup Permutations(Thieves)
=============================================================================
