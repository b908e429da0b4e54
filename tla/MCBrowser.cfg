SPECIFICATION FairSpec
CONSTANTS
    b1 = b1
    b2 = b2
    k1 = k1
    k2 = k2
    s1 = s1
    s2 = s2
    NoTask = NoTask
    NoSession = NoSession
    Tabs <- MCTabs
    Tasks <- MCTasks
    Placements <- MCPlacements
    SessionIds <- MCSessionIds
    MaxTokens = 2
    MaxFaults = 2
INVARIANTS
    TypeOK
    ReuseExplained
PROPERTIES
    OvertakenStaysOut
    RestorationEnds
CHECK_DEADLOCK FALSE
