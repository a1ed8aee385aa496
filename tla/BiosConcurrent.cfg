CONSTANTS
    Calls = {c1, c2}
    Components = {"cache"}
    FailingShutdown = {"cache"}
    ConcurrencyLimit = 1
    MaxQueued = 0
    None = None
SPECIFICATION LiveSpec
INVARIANTS TransitionLock
PROPERTIES CriticalEndsInSafeMode TransitionEnds
