SPECIFICATION Spec
CONSTANTS
    u1 = u1
    u2 = u2
    u3 = u3
    r1 = r1
    r2 = r2
    NoUser = NoUser
    Users <- MCUsers
    Requests <- MCRequests
    MemberCap = 2
    MaxInvitations = 2
SYMMETRY MCSymmetry
INVARIANTS
    MemberCapRespected
    AnsweredOnce
    IInv
PROPERTIES
    OwnersStay
    JoinsByInvitation
    ImplementsRoster
CHECK_DEADLOCK FALSE
