SPECIFICATION Spec
CONSTANTS
    Clients = {c1}
    Entries = {e1, e2, e3}
    Handles = {h1, h2, h3}
    Rounds = {r1}
    MinConnections = 1
    MaxConnections = 2
    MaxFailures = 1
    MaxCalls = 1
    MaxTimeouts = 0
    MaxChecks = 0
    None = None
INVARIANT TransactionsAreAtomic
CHECK_DEADLOCK FALSE
