CONSTANTS
    pool = pool
    worker = worker
    job = job
    Tokens = {pool, worker, job}
    Links <- PoolWorkerJob
    Callbacks = {a, b}
    Threads = {t1, t2}
    None = None
SPECIFICATION Spec
INVARIANTS
    LinkNotLost
CHECK_DEADLOCK FALSE
