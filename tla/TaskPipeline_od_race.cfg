SPECIFICATION Spec
CONSTANTS
    Tasks = {t1}
    NoTask = NoTask
    API = api
    RSWorkers = {r1, r2}
    ODWorkers = {o1, o2}
    RSConcurrency = 1
    ODConcurrency = 1
    Elsewhere = {}
    Serves <- OwnJobs
    NumPrep = 1
    StageMaxRetries = 0
    UseODWorker = TRUE
    DetectRequests = {TRUE}
    Budget <- Recoverable
    MaxKinds = 1
PROPERTY DetectionNotReopened
CHECK_DEADLOCK FALSE
