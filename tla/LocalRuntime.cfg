CONSTANTS
    edit = edit
    i1 = i1
    Nobody = Nobody
    Inputs <- MCInputs
    Workers = {}
    SafeRepeat = {}
    Runtime <- MCRuntime
    MaxSequence = 0
    Plans <- MCPlans
    Steps <- MCSteps
    Input <- MCInput
    Batch = {}
    MaxSession = 6
    MaxRecovery = 5
    MaxFaults = 2
SPECIFICATION RuntimeLiveSpec
INVARIANTS
    RuntimeTypeOK
    CarriedOutOnce
    DeliveredIsClosed
    WorksOnOnePlan
PROPERTIES
    KeepsPromise
    PlanSettles
    HostWorksAgain
CHECK_DEADLOCK FALSE
