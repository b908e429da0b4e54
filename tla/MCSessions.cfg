SPECIFICATION Spec
CONSTANTS
    p1 = p1
    p2 = p2
    s1 = s1
    s2 = s2
    r1 = r1
    r2 = r2
    r3 = r3
    NoPassword = NoPassword
    NoSession = NoSession
    Passwords <- MCPasswords
    Formats <- MCAnyFormat
    SessionIds <- MCSessionIds
    MaxTokens = 6
    Requests <- MCRequests
SYMMETRY MCSymmetry
INVARIANTS
    TypeOK
    ExchangedOnce
    ReuseEndsSession
PROPERTIES
    OverForGood
    ChangeEndsSessions
CHECK_DEADLOCK FALSE
