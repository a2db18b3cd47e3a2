CONSTANTS
    w1 = w1
    w2 = w2
    edit = edit
    retry = retry
    view = view
    i1 = i1
    i2 = i2
    Nobody = Nobody
    Inputs <- MCInputs
    SafeRepeat = {}
    Runtime <- MCRuntime
    Plans <- MCPlansOne
    Steps <- MCStepsOne
    Input <- MCInputOne
    Workers <- MCWorkers
    MaxSession = 1
    MaxRecovery = 2
    MaxSequence = 3
SPECIFICATION Spec
SYMMETRY Symmetry
INVARIANTS
    ProjectedIsCurrent
CHECK_DEADLOCK FALSE
