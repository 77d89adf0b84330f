CONSTANTS
    c1 = c1
    c2 = c2
    c3 = c3
    Calls <- MCCalls
    Threshold = 3
    MaxRetries = 3
SPECIFICATION Spec
INVARIANTS
    TypeOK
    OpenIffThreshold
    LateFailuresBounded
