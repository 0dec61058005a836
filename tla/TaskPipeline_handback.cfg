SPECIFICATION Spec
CONSTANTS
    Tasks = {t1}
    NoTask = NoTask
    API = api
    RSWorkers = {r1, r2}
    ODWorkers = {o1}
    RSConcurrency = 1
    ODConcurrency = 1
    Elsewhere = {r2}
    Serves <- OwnJobs
    NumPrep = 1
    StageMaxRetries = 0
    UseODWorker = TRUE
    DetectRequests = {TRUE}
    Budget <- HandingBack
    MaxKinds = 1
INVARIANT HandedBackNotLost
CHECK_DEADLOCK FALSE
