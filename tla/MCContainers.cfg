SPECIFICATION ContainersSpec
CONSTANTS
    Thieves = {u1, u2}
    MaxItems = 3
    LogInitialSize = 0
    BatchSizes = {2}
    None = None
    CqThreads = {t1, t2, t3}
    MaxValues = 3
    MaxTakes = 3
    LfThreads = {u1, u2}
    LfCalls = {"enqueue", "dequeue", "empty"}
    MaxPushed = 3
    MaxPops = 2
    MaxNodes = 3
    MaxRetries = 2
    PqThreads = {t1, t2, t3}
    OverflowRules = {"reject", "drop_newest", "drop_oldest"}
    PqBound = 1
    MaxOffers = 4
    MaxAsks = 2
    MaxSwitches = 1
    LsProducers = {prod1, prod2}
    LsConsumers = {cons1, cons2}
    LsMaxJobs = 2
    LsMaxCalls = 2
    AqThreads = {t1, t2, t3}
    AqPolicies = {"accuracy_first", "performance_first", "balanced", "manual"}
    AqMaxJobs = 2
    AqMaxCalls = 2
    HrThreads = {t1, t2, t3}
    HrNodes = 2
    HrSlots = {2}
    HrMaxGuards = 2
    HrBase = 1
    HrPerThread = 1
    HrMax = 2
SYMMETRY ContainersSymmetry
INVARIANTS
    TakenOnceUnlessOverlap
    SleeperHasHelp
    JobsOnceUnlessRecycled
    WaitersHaveNothing
    LsJobsOnce
    
    UsedNodeNotFreed
\* A bounded number of calls, after which everything rests.
CHECK_DEADLOCK FALSE
