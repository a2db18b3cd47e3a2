CONSTANTS
    edit = edit
    i1 = i1
    Nobody = Nobody
    Inputs <- MCInputs
    Workers = {}
    SafeRepeat = {}
    Runtime <- MCRuntime
    MaxSequence = 0
    Plans <- MCPlans
    Steps <- MCStepsBatch
    Input <- MCInput
    Batch <- MCBatch
    MaxSession = 2
    MaxRecovery = 1
    MaxFaults = 0
SPECIFICATION RuntimeSpec
INVARIANT SignedOutcomesVerify
CHECK_DEADLOCK FALSE
