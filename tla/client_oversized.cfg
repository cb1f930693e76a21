SPECIFICATION Spec
CONSTANTS
    MaxDuration = 15
    Second = 2
    Policies <- MCPolicies
    Headers <- MCHeaders
    FrankfurterTimeout = 1
    ProcessingTimeout = 15
    SafetyMargin = 1
PROPERTIES
    AnyRetryAfterIsHonoured
CHECK_DEADLOCK FALSE
