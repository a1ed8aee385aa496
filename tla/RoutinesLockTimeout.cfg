CONSTANTS
    Instances = {i1, i2}
    Routines = {q1, q2}
    SkipIfActive = {q1, q2}
    Runs = {r1, r2}
    MaxConcurrentRuns = 1
    MaxOutages = 1
    None = None
SPECIFICATION Spec
PROPERTY CleanupFreesExpiredLocks
CHECK_DEADLOCK FALSE
