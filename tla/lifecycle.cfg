SPECIFICATION FairSpec
CONSTANTS
    Goroutine = {worker, recovery}
    Request = {r1, r2}
    ReadTimeout = 10
    DatabaseQueryTimeout = 3
    ShutdownTimeouts = {10, 14}
INVARIANTS
    TypeOK
    SuccessIsClean
    StopIsBounded
    TimelyRequestsAreAnswered

    
CHECK_DEADLOCK FALSE
