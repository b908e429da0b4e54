SPECIFICATION Spec
CONSTANTS
    p1 = p1
    p2 = p2
    n1 = n1
    n2 = n2
    r1 = r1
    r2 = r2
    NoPassword = NoPassword
    NoName = NoName
    Passwords <- MCPasswords
    Names <- MCNames
    MaxLinks = 3
    Requests <- MCRequests
SYMMETRY MCSymmetry
INVARIANTS
    TypeOK
    LinkWorksOnce
    AccountFromItsLink
CHECK_DEADLOCK FALSE
