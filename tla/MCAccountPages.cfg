SPECIFICATION Spec
CONSTANTS
    t1 = t1
    t2 = t2
    c1 = c1
    c2 = c2
    Tabs <- MCTabs
    Calls <- MCCalls
    Cooldown = 2
    Countdown = 2
    MaxLinks = 2
    MaxFaults = 1
    NoTab = NoTab
SYMMETRY Symmetry
INVARIANTS
    ResendIsHeard
CHECK_DEADLOCK FALSE
