SPECIFICATION EitherSpec
CONSTANTS
    Tasks = {t1, t2}
    NoTask = NoTask
    Servers = {a, b}
    Concurrency = 1
    QueueSize = 1
    StageMaxRetries = 0
    MaxFaults = 0
    MaxCrashes = 1
    Executor = executor
PROPERTIES
    EveryTaskEnds
    MergedIsNotRecomputed
    StageSucceeds
CHECK_DEADLOCK FALSE
