CONSTANTS
    Instances = {i1, i2}
    Routines = {q1}
    SkipIfActive = {}
    Runs = {r1, r2}
    MaxConcurrentRuns = 1
    MaxOutages = 1
    None = None
SPECIFICATION Spec
INVARIANTS OneExecutionPerRoutine RunningIsExecuted
PROPERTY PendingRunsStart
CHECK_DEADLOCK FALSE
