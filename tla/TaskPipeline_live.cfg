SPECIFICATION FairSpec
CONSTANTS
    Tasks = {t1}
    NoTask = NoTask
    API = api
    RSWorkers = {r1, r2, r3}
    ODWorkers = {o1}
    RSConcurrency = 1
    ODConcurrency = 1
    Elsewhere = {r3}
    Serves <- OwnJobs
    NumPrep = 2
    StageMaxRetries = 0
    UseODWorker = TRUE
    DetectRequests = {TRUE}
    Budget <- Recoverable
    MaxKinds = 1
PROPERTIES
    EveryTaskFinishes
    DetectionNotReopened
CHECK_DEADLOCK FALSE
