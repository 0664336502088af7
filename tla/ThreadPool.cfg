SPECIFICATION FairSpec
CONSTANTS
    Callers = {c1, c2}
    Workers = {w1, w2}
    Operations = {"start", "stop", "stop_now", "add", "health", "remove"}
    Spawns = {"ok"}
    MaxQueues = 1
    MaxJobs = 1
    MaxBatch = 1
    None = None
INVARIANTS
    StoppedMeansJoined

    
CHECK_DEADLOCK FALSE
