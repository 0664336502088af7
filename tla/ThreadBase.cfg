CONSTANTS
    Callers = {c1}
    Builds = {TRUE, FALSE}
    max_consecutive_failures = 2
    MaxStarts = 3
    Spawns = {"ok", "bad_alloc"}
    HasInterval = TRUE
    MayThrow = TRUE
SPECIFICATION TbSpec
INVARIANTS
    StopNotLost
