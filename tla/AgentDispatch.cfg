CONSTANTS
    t1 = t1
    a1 = a1
    Tasks = {t1, t2}
    Agents = {a1, a2}
    Levels = 2
    Level <- MCLevel
    Capable <- MCCapable
    MaxConcurrent = 1
    MaxQueueSize = 1
    MaxRegistrations = 2
    None = None
SPECIFICATION Spec
INVARIANTS TasksAreInOnePlace LoadIsOfRunningTasks
PROPERTIES PriorityOrder ActiveTasksEnd
CHECK_DEADLOCK FALSE
