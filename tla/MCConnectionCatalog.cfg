SPECIFICATION FairSpec
CONSTANTS
    a = a
    b = b
    w1 = w1
    w2 = w2
    w3 = w3
    NoConnection = NoConnection
    Connections <- MCConnections
    Tasks <- MCTasks
INVARIANTS
    TypeOK
    SerialListAgrees
PROPERTY
    EventuallyAgrees
