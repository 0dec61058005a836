SPECIFICATION AnySpec
CONSTANTS
    Tasks = {t1}
    Pods = {p1, p2}
    NFS = nfs
    Deployments <- SomeDeployments
    Budget <- EachOnce
    Detections = {d1, d2}
    Gets = {g1, g2}
    Images <- OneImage
    MaxErrors = 1
    Clients = {c1, c2}
    BufferSize = 2
    MaxEvents = 4
    NoTask = NoTask
    API = api
    p3 = p3
INVARIANTS
    TypesOK
    InputsPresent
    NamedFilesPresent
    CountedOnceIfAlone
    StreamsComplete
    InlineSound
PROPERTIES
    SyncedIfAlone
    ClosedOnlyWhilePublishing
    PublishingEnds
CHECK_DEADLOCK FALSE
