CONSTANTS
    c1 = c1
    c2 = c2
    c3 = c3
    Ops <- Pair
    Scopes <- PairScopes
    Payloads <- PairPayloads
    Scope <- PairScope
    Payload <- PairPayload
    Caps <- MCCaps
    Cap <- PairCap
    Strong <- None
    Confirmed <- None
    Asynchronous <- MCCaps
    AgentCaps <- MCCaps
    Tokens <- MCTokens
    Token <- PairToken
    Approved <- MCApproved
    MaxInFlight = 2
    MaxCrashes = 1
SPECIFICATION Spec
INVARIANT
    CompletedAnswerIsTrue
PROPERTIES
    InvocationReturns
    AgentWriteSettles
CHECK_DEADLOCK FALSE
