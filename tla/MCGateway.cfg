SPECIFICATION FairSpec
CONSTANTS
    c1 = c1
    c2 = c2
    NoRequest = NoRequest
    Calls <- MCCalls
    Routes <- MCRoutes
    Threshold = 2
    ResetTimeout = 1
PROPERTIES
    SoundIsServed
    Terminates
