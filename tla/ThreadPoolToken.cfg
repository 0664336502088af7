SPECIFICATION Spec
CONSTANTS
    Callers = {c1}
    Workers = {w1}
    Operations = {"start", "stop", "stop_now", "add"}
    Spawns = {"ok"}
    MaxQueues = 2
    MaxJobs = 1
    MaxBatch = 1
    None = None
INVARIANTS
    StartsUncancelled
CHECK_DEADLOCK FALSE
