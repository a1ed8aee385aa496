CONSTANTS
    Calls = {c1}
    Components = {"logger", "cache"}
    FailingShutdown = {"cache"}
    ConcurrencyLimit = 2
    MaxQueued = 2
    None = None
SPECIFICATION Spec
INVARIANTS TaskLimits ReportedModeIsActive
