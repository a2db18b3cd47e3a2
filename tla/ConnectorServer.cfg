CONSTANTS
    w1 = w1
    w2 = w2
    edit = edit
    retry = retry
    view = view
    i1 = i1
    i2 = i2
    Nobody = Nobody
    Inputs <- MCInputs
    SafeRepeat = {}
    Runtime <- MCRuntime
    Plans <- MCPlans
    Steps <- MCSteps
    Input <- MCInput
    Workers = {}
    MaxSession = 2
    MaxRecovery = 1
    MaxSequence = 2
SPECIFICATION Spec
INVARIANTS
    TypeOK
    OpenPlansAreCurrent
    EquivalentsWait
    WritesRepeatedKnowingly
    VerdictsAreRecorded
PROPERTIES
    KeepsLifecycle
    OutcomesAreKept
CHECK_DEADLOCK FALSE
