SPECIFICATION SvSpec
CONSTANTS
    EtThreads = {t1, t2}
    EtMaxCallbacks = 1
    EtMaxClock = 1
    CmThreads = {t1, t2}
    CmValues = {1, 2}
    Listeners = {l1}
    Subscribers = {h1, h2}
    CmMaxSets = 3
    CmMaxChanges = 2
    FtJobs = {1, 2}
    FtBuilt = {3}
    HdThreads = {t1, t2, t3}
    HdNodes = {1, 2}
    HdMaxScans = 1
    HdMaxExits = 1
    SwThreads = {t1, t2}
    SwBuckets = 2
    SwMaxClock = 4
    SwMaxAdds = 3
    HgThreads = {t1, t2}
    HgValues = {0, 1, 5}
    HgBuckets = 3
    HgParts = 2
    HgWrap = 16
    HgMaxRecords = 2
    SyThreads = {t1, t2, t3}
    SyMaxCalls = 2
    ExTasks = {1, 2}
    PmThreads = {t1, t2}
    PmDepths = {1, 2}
    PmMaxCalls = 5
    CsBytes = {0, 1, 128, 255}
    CsMaxBytes = 4
    CsChars = {0, 6, 63, 64, 65}
    CsMaxChars = 4
    CsLeads <- SvLeads
    CsMaxText = 4
SYMMETRY SvSymmetry
INVARIANTS
    
    
    
    ProtectedSparedByScan
    
    
    
    AnsweredWhenOver
    PeakIsHighest
    ConversionsExact
\* A bounded number of calls, after which everything rests.
CHECK_DEADLOCK FALSE
