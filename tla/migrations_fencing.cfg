SPECIFICATION MigrationSpec
CONSTANTS
    w1 = w1
    w2 = w2
    i1 = i1
    p1 = p1
    NoKey = NoKey
    UpdateID = {1}
    Pair = {p1}
    Key = {}
    MaxTime = 0
    Worker = {w1, w2}
    Instance = {i1}
    Host <- MCHost
    MaxFaults = 1
    LowestVersion = 4
    MaxMigrations = 6
PROPERTIES
    OldResultsAreDiscarded
