SPECIFICATION FairSpec
CONSTANTS
    w1 = w1
    w2 = w2
    i1 = i1
    i2 = i2
    p1 = p1
    p2 = p2
    NoKey = NoKey
    UpdateID = {1, 2}
    Pair = {p1}
    Key = {}
    MaxTime = 0
    Worker = {w1, w2}
    Instance = {i1, i2}
    Host <- MCHost
    MaxFaults = 2
INVARIANTS
    TypeOK
    StatusMatchesResult
    ClaimsAreFenced
    LockedRowsStayPending
PROPERTIES
    LatestLeaseDecides
    FailedOnlyByProvider
    KeepsPromise
    EveryUpdateIsDecided
    StopCompletes
