SPECIFICATION FairSpec
CONSTANTS
    u1 = u1
    u2 = u2
    u3 = u3
    r1 = r1
    r2 = r2
    NoUser = NoUser
    Users <- MCFewUsers
    Requests <- MCRequests
    MemberCap = 2
    MaxInvitations = 2
PROPERTIES
    AcceptanceEnds
CHECK_DEADLOCK FALSE
