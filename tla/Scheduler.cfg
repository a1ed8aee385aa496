CONSTANTS
    OneShots = {a}
    Recurring = {b}
    Dependents = {b, c}
    MaxRetries = 1
    MaxRuns = 2
    None = None
SPECIFICATION LiveSpec
INVARIANTS TypeOK TasksAndRunsAgree
PROPERTIES DependenciesFirst DependentsStart OneShotsSettle
