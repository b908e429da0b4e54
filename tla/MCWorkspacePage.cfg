SPECIFICATION FairSpec
CONSTANTS
    w1 = w1
    w2 = w2
    x1 = x1
    s1 = s1
    l1 = l1
    l2 = l2
    a1 = a1
    NoSearch = NoSearch
    None = None
    Workspaces <- MCWorkspaces
    Searches <- MCSearches
    Pages <- MCPages
    Addresses <- MCAddresses
    Loads <- MCLoads
    Acts <- MCActs
    MaxMoves = 3
INVARIANTS
    TypeOK
    MembersAnswerQuestion
    InvitationsOfWorkspace
PROPERTIES
    SpinnerEnds
CHECK_DEADLOCK FALSE
