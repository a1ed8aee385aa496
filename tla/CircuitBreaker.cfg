CONSTANTS
    FailureThreshold = 2
    SuccessThreshold = 2
    HalfOpenMaxCalls = 3
    MaxInFlight = 3
    MaxCount = 3
    MaxOperations = 2
    None = None
SPECIFICATION LiveSpec
INVARIANTS ClosedBelowThreshold HalfOpenNotStuck
PROPERTIES OpenRests OpenClosesThroughHalfOpen CircuitMoves
