SPECIFICATION FairSpec
CONSTANTS
    ask1 = ask1
    ask2 = ask2
    con1 = con1
    Asks <- MCAsks
    Connects <- MCConnects
    MaxRequests = 2
    Prefetch = 1
    MaxFaults = 2
INVARIANTS
    AccountedFor
    RowBound
PROPERTIES
    OpeningsFallBack
    EventuallyRecorded
CHECK_DEADLOCK FALSE
