SPECIFICATION Spec
CONSTANTS
    w1 = w1
    w2 = w2
    s1 = s1
    k1 = k1
    k2 = k2
    l1 = l1
    l2 = l2
    a1 = a1
    NoSearch = NoSearch
    ByActive = ByActive
    ByName = ByName
    None = None
    Workspaces <- MCWorkspaces
    Searches <- MCSearches
    Sorts <- MCSorts
    TeamPages <- MCTeamPages
    Asks <- MCAsks
    Applications <- MCApplications
    HomeOf <- MCHomeOf
    Own <- MCOwn
    Moderates <- MCModerates
    Matching <- MCMatching
    PageSize = 1
    PageNumbers <- MCPageNumbers
    Goals <- MCGoals
    Loads <- MCLoads
    Acts <- MCActs
    MaxMoves = 3
INVARIANTS
    TypeOK
    SettledIsFresh
    RowsAnswerQuery
CHECK_DEADLOCK FALSE
