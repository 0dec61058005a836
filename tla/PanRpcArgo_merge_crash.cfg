SPECIFICATION Spec
CONSTANTS
    Executors = {e1}
    NumAreas = 4
    StageMaxRetries = 1
    TaskPathIsolation = TRUE
    Budget <- MergeCrash
INVARIANT
    FailsForAReason
CHECK_DEADLOCK FALSE
