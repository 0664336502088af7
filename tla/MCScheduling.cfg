SPECIFICATION SchedSpec
CONSTANTS
    Producers = {c1, c2}
    Policies = {"block", "drop_oldest", "drop_newest", "callback", "adaptive"}
    MaxSize = 2
    LowWatermark = 0
    HighWatermark = 1
    BatchSize = 2
    MaxIssued = 4
    Callers = {c1, c2}
    Bursts = {1, 2}
    Rates = {1, 2}
    RateScale = 2
    Precision = 2
    MaxTime = 3
    MaxUses = 3
    Priorities = {"RealTime", "Batch"}
    TypedWorkers <- PoolWorkers
    TypedJobs <- PoolJobs
    MaxBoost = 2
    MaxAgings = 2
    AsCallers = {c1, c2}
    MinWorkers = 1
    MaxWorkers = 2
    UpIncrement = 1
    DownIncrement = 3
    SizeT = 8
    AsMostWorkers = 4
    AsMaxCalls = 4
    WkCount = 3
    Tracked = 3
    NodeOf <- TwoNodes
    Dequeless = {2}
    StealPolicies <- AllPolicies
    MaxAttempts = 2
    MinBatch = 2
    MaxBatch = 2
    WkMaxJobs = 3
    WkMaxSteals = 2
    DgThreads = {c1, c2}
    DgMaxWorkers = 2
    DgDepths = {0, 19, 20}
    DgCapacity = 20
    DgMaxChanges = 2
    DgSizes = {1}
SYMMETRY SchedSymmetry
INVARIANTS
    AnswerMatchesFate
    RoomIsSignalled
    NeverOverGrants
    
    NeverBelowMinimum
    NobodySkipped
    ReportsAgree
    TraceIsWhole
\* A bounded number of calls, after which everything rests.
CHECK_DEADLOCK FALSE
