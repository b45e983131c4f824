SPECIFICATION FairSpec
CONSTANTS
    t1 = t1
    t2 = t2
    w1 = w1
    w2 = w2
    v1 = v1
    v2 = v2
    Tables = {t1}
    Tasks <- MCTasks
    Forms <- MCForms
    MaxChanges = 1
INVARIANTS
    RefreshIsRecent
PROPERTIES
    EventuallyFresh
