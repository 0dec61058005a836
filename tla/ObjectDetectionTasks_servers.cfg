SPECIFICATION Spec
CONSTANTS
    t1 = t1
    t2 = t2
    Tasks <- MCTasks
    NoTask = NoTask
    Servers = {a, b}
    Concurrency = 1
    QueueSize = 1
    StageMaxRetries = 1
    MaxFaults = 1
    MaxCrashes = 1
SYMMETRY MCTaskSymmetry
INVARIANTS
    TypeOK
    SingleExecutor
    PendingIsScheduled
    FinishedRowsAgree
PROPERTIES
    Lifecycle
CHECK_DEADLOCK FALSE
