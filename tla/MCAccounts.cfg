SPECIFICATION FairSpec
CONSTANTS
    u1 = u1
    u2 = u2
    e1 = e1
    e2 = e2
    r1 = r1
    r2 = r2
    NoUser = NoUser
    NoEmail = NoEmail
    Users <- MCUsers
    Emails <- MCEmails
    Requests <- MCRequests
INVARIANTS
    TypeOK
    OneRowPerAddress
    TokensNameRows
    ErrorHasCause
PROPERTIES
    UndeletedByOverlap
    AccessEnds
