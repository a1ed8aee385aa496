CONSTANTS
    a = a
    b = b
    c = c
    d = d
    Tasks = {a, b, c, d}
    Position <- MCPosition
    Dependencies <- MCDependencies
    Callers <- MCCallers
    MinPoolSize = 1
    MaxPoolSize = 2
    MaxResumes = 1
    MaxScalings = 2
    None = None
SPECIFICATION LiveSpec
INVARIANTS AgentsAndTasksAgree CompletedMeansAll
PROPERTIES LaunchesAreReady EverythingSettles
CHECK_DEADLOCK FALSE
