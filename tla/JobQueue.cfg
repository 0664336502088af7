CONSTANTS
    Producers = {p1, p2}
    Consumers = {c1, c2}
    MaxJobs = 3
    MaxBatch = 2
    NoLimit = NoLimit
    Limits = {2}
    SizeMod = 16
SPECIFICATION FairSpec
INVARIANTS
    NoSleepOverWork
PROPERTIES
    ImplementsFifo
    StopUnblocksDequeue
