SPECIFICATION Spec
CONSTANTS
    QueryTimeouts = {2, 3, 6}
    FrankfurterTimeout = 5
    FrankfurterMaxAttempts = 3
    FrankfurterMaxDelay = 5
    RecoveryInterval = 10
    ProcessingTimeout = 30
    SafetyMargin = 5
INVARIANTS
    TypeOK
    LeaseOutlivesFetch
    RecoveryIsTimely
PROPERTIES
    FittingIsNotRecovered
