CONSTANTS
    Queues = {q1, q2}
    MaxJobs = 3
    Observers = {o1, o2}
    None = None
SPECIFICATION FairSpec
INVARIANTS
    UsesLiveJobUnlessThrown
PROPERTIES
    LeavesOldQueue
