SPECIFICATION TpFairSpec
CONSTANTS
    Priorities = {"RealTime", "Batch"}
    TypedWorkers <- OneWorker
    TypedJobs <- OneJob
    MaxBoost = 2
    MaxAgings = 0
PROPERTY AcceptedJobsRun
CHECK_DEADLOCK FALSE
