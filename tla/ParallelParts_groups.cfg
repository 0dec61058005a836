SPECIFICATION FairSpec
CONSTANTS
    Executors = {e1, e2}
    NumParts <- FewParts
    Parallelism <- Places
    MaxRetries = 1
    Budget <- EachOnce
    Together <- SharedOrNot
INVARIANTS
    TypeOK
    SuccessHasAllParts
    ProgramsBounded
    FailsForAReason
PROPERTY StageEnds
CHECK_DEADLOCK FALSE
