SPECIFICATION FairSpec
CONSTANTS
    c1 = c1
    s1 = s1
    s2 = s2
    w1 = w1
    w2 = w2
    NoConnection = NoConnection
    NoSession = NoSession
    Connections <- MCConnections
    SessionIds <- MCSessionIds
    Tasks <- MCTasks
INVARIANTS
    EndedServesNothing
PROPERTY
    EventuallyReleased
