SPECIFICATION Spec
CONSTANTS
    w1 = w1
    w2 = w2
    i1 = i1
    i2 = i2
    p1 = p1
    p2 = p2
    NoKey = NoKey
    UpdateID = {1, 2}
    Pair = {p1, p2}
    Key = {}
    MaxTime = 1
    Worker = {w1, w2}
    Instance = {i1, i2}
    Host <- MCHost
    MaxFaults = 1
PROPERTIES
    LatestFollowsCompletions
