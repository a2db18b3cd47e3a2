CONSTANTS
    o1 = o1
    o2 = o2
    o3 = o3
    Nobody = Nobody
    MaxRestarts = 1
    Ops <- MCOps
    Scopes <- MCScopes
    Payloads <- MCPayloads
    Scope <- MCScope
    Payload <- MCPayload
SPECIFICATION Spec
INVARIANTS
    TypeOK
    AuditMatchesOutcome
PROPERTIES
    VerdictNeverTakenBack
    EveryVerdictIsAudited
CHECK_DEADLOCK FALSE
