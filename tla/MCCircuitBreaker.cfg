SPECIFICATION FairBreakerSpec
CONSTANTS
    c1 = c1
    c2 = c2
    c3 = c3
    Calls <- MCCalls
    Threshold = 3
    ResetTimeout = 2
INVARIANTS
    BreakerTypeOK
    Consistent
PROPERTIES
    FailFast
    ImplementsContract
    Recovery
