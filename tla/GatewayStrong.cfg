CONSTANTS
    c1 = c1
    c2 = c2
    c3 = c3
    Ops <- MCOps
    Scopes <- MCScopes
    Payloads <- MCPayloads
    Scope <- StrongScope
    Payload <- StrongPayload
    Caps <- MCCaps
    Cap <- MCCap
    Strong <- MCCaps
    Confirmed <- MCCaps
    Asynchronous <- None
    AgentCaps <- None
    Tokens <- MCTokens
    Token <- MCToken
    Approved <- MCApproved
    MaxInFlight = 2
    MaxCrashes = 1
SPECIFICATION Spec
INVARIANTS
    TypeOK
    ScopeDispatchedOnce
    ApprovalPaysOnce
    FailedAnswerIsTrue
    RejectionTellsItsClaim
    LeasesAreInFlight
PROPERTIES
    PromiseKept
CHECK_DEADLOCK FALSE
