SPECIFICATION AnalysisSpec
CONSTANTS
    a1 = a1
    r1 = r1
    r2 = r2
    r3 = r3
    Jobs <- MCJobs
    Requests <- MCRequests
    MaxEdits = 2
    MaxLost = 1
    NoJob = NoJob
SYMMETRY Symmetry
INVARIANTS
    AnalysisTypeOK
    ClashesExplained
CHECK_DEADLOCK FALSE
