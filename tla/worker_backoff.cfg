SPECIFICATION Spec
CONSTANTS
    MaxDuration = 63
    PollIntervals = {1, 2, 3, 5, 7, 10, 11, 19, 20, 21, 22, 32, 40, 41, 62, 63}
    maxWorkerInfrastructureBackoff = 41
    MaxFailures = 8
INVARIANTS
    TypeOK
    BackoffIsCappedExponential
    JitterSpreads
PROPERTIES
    BackoffNeverShrinks
