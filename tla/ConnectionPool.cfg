SPECIFICATION Spec
CONSTANTS
    Clients = {c1, c2}
    Entries = {e1, e2, e3}
    Handles = {h1, h2, h3}
    Rounds = {r1}
    MinConnections = 1
    MaxConnections = 1
    MaxFailures = 1
    MaxCalls = 1
    MaxTimeouts = 1
    MaxChecks = 1
    None = None
INVARIANTS
    HandlesAreExclusive
    PoolSizeBound
    IdleConnectionsAreClean
    OkMeansCommitted
PROPERTY CallsAndCloseEnd
CHECK_DEADLOCK FALSE
