SPECIFICATION Spec
CONSTANTS
    QueryTimeouts = {3}
    FrankfurterTimeout = 5
    FrankfurterMaxAttempts = 3
    FrankfurterMaxDelay = 5
    RecoveryInterval = 10
    ProcessingTimeout = 30
    SafetyMargin = 5
PROPERTIES
    ActiveIsNotRecovered
