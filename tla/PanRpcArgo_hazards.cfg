SPECIFICATION Spec
CONSTANTS
    Executors = {e1, e2}
    NumAreas = 2
    StageMaxRetries = 0
    TaskPathIsolation = FALSE
    Budget <- AllOnce
SYMMETRY Symmetry
INVARIANTS
    TypeOK
    SuccessHasAllParts
CHECK_DEADLOCK FALSE
