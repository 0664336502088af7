CONSTANTS
    MaxJobs = 3
    MaxWorkers = 2
    Executors = {e1}
    Configs <- PolicyConfigs
    NewDeps <- JobDeps
    MaxRetries = 1
    None = None
SPECIFICATION Spec
INVARIANTS
    DependenciesFirst
    ReadinessNotLost
    OneWrapper
PROPERTIES
    ExecutionEnds
CHECK_DEADLOCK FALSE
