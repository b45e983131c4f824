SPECIFICATION FairSpec
CONSTANTS
    a1 = a1
    a2 = a2
    f1 = f1
    f2 = f2
    f3 = f3
    c1 = c1
    c2 = c2
    o1 = o1
    o2 = o2
    r1 = r1
    r2 = r2
    d1 = d1
    d2 = d2
    u1 = u1
    u2 = u2
    s1 = s1
    NoAccount = NoAccount
    NoForm = NoForm
    Dashboard = Dashboard
    NoSession = NoSession
    NoOpening = NoOpening
    NoResult = NoResult
    Unreadable = Unreadable
    NoUrl = NoUrl
    Accounts <- MCAccounts
    Forms <- MCForms
    Connections <- MCConnections
    Openings <- MCOpenings
    Requests <- MCRequests
    MaxPages = 4
    UserConnections <- MCUserConnections
    Urls <- MCUrls
    Saves <- MCSaves
INVARIANTS
    SignInTypeOK
    OwnTokens
    QueryPageTypeOK
    SessionOfPage
    OneAtATime
    TurnedPageHasRows
    SavesTestedUrl
    CardsAgree
PROPERTIES
    FormComesBack
    Settles
