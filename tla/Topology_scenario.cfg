SPECIFICATION EitherSpec
CONSTANTS
    r1 = r1
    r2 = r2
    r3 = r3
    r4 = r4
    r5 = r5
    Routers <- FiveRouters
    Centers = {r1}
    Graphs <- SomeGraphs
    Orbit <- TwoOrbits
    Rank <- SomeRank
    MaxHops = 3
    Imports = {i1, i2}
    Requests = {q1}
    Before = before
    NoRouter = none
    Csv <- TwoVersions
    Fragile = {r1}
    MaxErrors = 1
INVARIANTS
    TypesOK
    HopsAreDistances
    DrawnOnce
    ImportsAreWhole
    OneVersionShown
PROPERTY EverybodyEnds
CHECK_DEADLOCK FALSE
