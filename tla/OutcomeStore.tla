---------------------------- MODULE OutcomeStore ----------------------------
(***************************************************************************)
(* The durable outcome table and the audit outbox of Capability V2         *)
(* (SqlOutcomeStore, backend/capability_v2/outcomes.py).                   *)
(*                                                                         *)
(* A row is identified by the operation id that ReliabilityCoordinator     *)
(* mints for each governed write; Ops is the set of those ids.  Two ids    *)
(* with the same Scope carry the same idempotency key of the same          *)
(* consumer, tenant, release and capability; Payload stands for the        *)
(* normalized payload hash.  Every operator below is one database          *)
(* transaction.                                                            *)
(***************************************************************************)
EXTENDS FiniteSets

CONSTANTS
    Ops,       \* operation ids, one for each write invocation
    Scopes,    \* idempotency scopes
    Payloads,  \* normalized payload hashes
    Scope,     \* [Ops -> Scopes]
    Payload    \* [Ops -> Payloads]

ASSUME RequestAssumption == /\ Scope \in [Ops -> Scopes]
                            /\ Payload \in [Ops -> Payloads]

VARIABLES
    outcome,   \* status column of the outcome row of each operation
    event,     \* status carried by the payload of its audit outbox row
    delivered  \* whether delivered_at of that outbox row is set

storeVars == <<outcome, event, delivered>>

Final == {"completed", "failed", "outcome_unknown"}

StoreTypeOK ==
    /\ outcome \in [Ops -> {"none", "started"} \cup Final]
    /\ event \in [Ops -> {"none"} \cup Final]
    /\ delivered \in [Ops -> BOOLEAN]

StoreInit ==
    /\ outcome = [o \in Ops |-> "none"]
    /\ event = [o \in Ops |-> "none"]
    /\ delivered = [o \in Ops |-> FALSE]

-----------------------------------------------------------------------------

\* find_by_idempotency: the rows that hold a scope.
Row(s) == {o \in Ops : outcome[o] # "none" /\ Scope[o] = s}

Verdict(ok) == IF ok THEN "completed" ELSE "failed"

\* Mutant of Begin: neither the lock nor the unique key on the scope.
BeginUnguarded(o) ==
    /\ outcome[o] = "none"
    /\ outcome' = [outcome EXCEPT ![o] = "started"]
    /\ UNCHANGED <<event, delivered>>

\* begin: SELECT ... FOR UPDATE by scope, then INSERT when there is no row.
Begin(o) ==
    /\ Row(Scope[o]) = {}
    /\ outcome' = [outcome EXCEPT ![o] = "started"]
    /\ UNCHANGED <<event, delivered>>

\* Outcome row and audit event change in one transaction; a new or upserted
\* event has delivered_at NULL.
Record(o, status) ==
    /\ outcome' = [outcome EXCEPT ![o] = status]
    /\ event' = [event EXCEPT ![o] = status]
    /\ delivered' = [delivered EXCEPT ![o] = FALSE]

\* Mutant of Complete: the audit event is not in the transaction.
CompleteWithoutEvent(o, ok) ==
    /\ outcome[o] = "started"
    /\ outcome' = [outcome EXCEPT ![o] = Verdict(ok)]
    /\ UNCHANGED <<event, delivered>>

\* complete and complete_in_transaction, for a row that is still started.
Complete(o, ok) ==
    /\ outcome[o] = "started"
    /\ Record(o, Verdict(ok))

\* The same durable result again: the stored record is returned as it is.
CompleteAgain(o, ok) ==
    /\ outcome[o] = Verdict(ok)
    /\ UNCHANGED storeVars

\* Mutant of MarkUnknown: the UPDATE has no AND status='started'.
MarkUnknownUnguarded(o) == outcome[o] # "none" /\ Record(o, "outcome_unknown")

\* mark_unknown: UPDATE ... WHERE status='started'.
MarkUnknown(o) ==
    /\ outcome[o] = "started"
    /\ Record(o, "outcome_unknown")

\* Mutant of ReconcileCompleted: a failed row is promoted as well.
ReconcileFailed(o) == outcome[o] # "none" /\ Record(o, "completed")

\* Mutant of ReconcileCompleted: only an unknown outcome is promoted.
ReconcileOnlyUnknown(o) ==
    \/ outcome[o] = "outcome_unknown" /\ Record(o, "completed")
    \/ outcome[o] = "completed" /\ UNCHANGED storeVars

\* Mutant of ReconcileCompleted: the event carries the status read before.
ReconcileWithOldStatus(o) ==
    /\ outcome[o] \in {"started", "outcome_unknown"}
    /\ outcome' = [outcome EXCEPT ![o] = "completed"]
    /\ event' = [event EXCEPT ![o] = outcome[o]]
    /\ delivered' = [delivered EXCEPT ![o] = FALSE]

\* Mutant of ReconcileCompleted: ON DUPLICATE KEY UPDATE without the payload.
ReconcileWithoutPayload(o) ==
    /\ outcome[o] \in {"started", "outcome_unknown"}
    /\ outcome' = [outcome EXCEPT ![o] = "completed"]
    /\ event' = [event EXCEPT ![o] = IF @ = "none" THEN "completed" ELSE @]
    /\ delivered' = [delivered EXCEPT ![o] = FALSE]

\* reconcile_completed: a completed row is returned as it is, a failed one is
\* refused (outcome_already_final).
ReconcileCompleted(o) ==
    \/ /\ outcome[o] \in {"started", "outcome_unknown"}
       /\ Record(o, "completed")
    \/ /\ outcome[o] = "completed"
       /\ UNCHANGED storeVars

\* Any client of the store, in any order: each disjunct is one transaction.
StoreNext ==
    \E o \in Ops : \/ Begin(o)
                   \/ \E ok \in BOOLEAN : Complete(o, ok) \/ CompleteAgain(o, ok)
                   \/ MarkUnknown(o)
                   \/ ReconcileCompleted(o)

-----------------------------------------------------------------------------

\* At most one row holds an idempotency scope, whatever the interleaving of
\* begin with every other transaction (UNIQUE KEY idempotency_scope).
OneRowPerScope ==
    \A o, p \in Ops :
        o \in Row(Scope[p]) /\ p \in Row(Scope[p]) => o = p

\* Outcome and audit event are written together: an operation that is not
\* final has no event, and the event of a final one carries its status.
AuditMatchesOutcome ==
    \A o \in Ops : event[o] = IF outcome[o] \in Final THEN outcome[o] ELSE "none"

\* The verdict of an operation is never taken back: only an unknown outcome
\* may still become completed, and completed and failed are for ever.
VerdictNeverTakenBack ==
    [][\A o \in Ops :
          /\ outcome[o] \in {"completed", "failed"} => outcome'[o] = outcome[o]
          /\ outcome[o] = "outcome_unknown" => outcome'[o] \in {"outcome_unknown", "completed"}
          /\ outcome[o] = "started" => outcome'[o] # "none"]_storeVars
=============================================================================
