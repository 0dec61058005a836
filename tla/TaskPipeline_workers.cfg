SPECIFICATION Spec
CONSTANTS
    Tasks = {t1}
    NoTask = NoTask
    API = api
    RSWorkers = {r1, r2}
    ODWorkers = {o1}
    RSConcurrency = 1
    ODConcurrency = 1
    Elsewhere = {}
    Serves <- OwnJobs
    NumPrep = 1
    StageMaxRetries = 0
    UseODWorker = TRUE
    DetectRequests = {TRUE, FALSE}
    Budget <- WorkerHazards
    MaxKinds = 2
SYMMETRY Symmetry
INVARIANTS
    TypeOK
    CompletedRanEveryStage
    PendingNotForgotten
    SingleDelivery
    FinishedRowsAgree
    DetectionAsRequested
PROPERTY Staged
CHECK_DEADLOCK FALSE
