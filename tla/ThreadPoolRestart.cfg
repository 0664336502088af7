SPECIFICATION FairSpec
CONSTANTS
    Callers = {c1}
    Workers = {w1, w2}
    Operations = {"start", "stop", "stop_now", "add"}
    Spawns = {"ok", "fail"}
    MaxQueues = 2
    MaxJobs = 2
    MaxBatch = 2
    None = None
PROPERTIES
    ImplementsLifecycle
    
CHECK_DEADLOCK FALSE
