CONSTANTS
    r1 = r1
    p1 = p1
    p2 = p2
    o1 = o1
    o2 = o2
    a1 = a1
    d1 = d1
    d2 = d2
    Nothing = Nothing
    Runs <- MCRuns
    Prompts <- MCPrompts
    Of <- MCOf
    Requests <- MCRequests
    Approvals <- MCApprovals
    Decisions <- MCDecisions
    MaxCrashes = 1
SPECIFICATION Spec
SYMMETRY Symmetry
INVARIANTS
    TypeOK
    CarriedOutOnce
    HistoryKept
PROPERTIES
    RunsMoveLegally
CHECK_DEADLOCK FALSE
