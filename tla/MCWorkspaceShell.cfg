SPECIFICATION ShellSpec
CONSTANTS
    t1 = t1
    t2 = t2
    None = None
    Workspaces <- MCWorkspaces
    Owned <- MCOwned
    Unmade <- MCUnmade
    Tasks <- MCTasks
    MaxMoves = 5
SYMMETRY Symmetry
INVARIANTS
    ShellTypeOK
    InWorkspaceOfTheirs
    AnsweredLeavesInbox
CHECK_DEADLOCK FALSE
