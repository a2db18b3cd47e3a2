---------------------------- MODULE AuditDelivery ----------------------------
(***************************************************************************)
(* Delivery of the audit outbox into the audit ledger: SqlOutcomeStore.    *)
(* deliver_audit_outbox driven by deliver_capability_audit_once, while     *)
(* gateway workers and the Agent reconciler keep writing to the store.     *)
(* GET_LOCK admits one delivery worker at a time.                          *)
(***************************************************************************)
EXTENDS OutcomeStore, Naturals

CONSTANTS Nobody,      \* no event is between its send and its mark
          MaxRestarts  \* bound on the crashes of the delivery worker

ASSUME WorkerAssumption == Nobody \notin Ops /\ MaxRestarts \in Nat

VARIABLES
    batch,     \* the rows read by pending_audit_events, as they were read
    sent,      \* event that sender() accepted and that is not yet marked
    ledger,    \* status column of the ledger row of each event
    restarts   \* how often the worker has been killed

vars == <<outcome, event, delivered, batch, sent, ledger, restarts>>

EmptyBatch == [o \in Ops |-> "none"]

TypeOK ==
    /\ StoreTypeOK
    /\ batch \in [Ops -> {"none"} \cup Final]
    /\ sent \in Ops \cup {Nobody}
    /\ ledger \in [Ops -> {"none"} \cup Final]
    /\ restarts \in 0..MaxRestarts

Init ==
    /\ StoreInit
    /\ batch = EmptyBatch
    /\ sent = Nobody
    /\ ledger = [o \in Ops |-> "none"]
    /\ restarts = 0

Pending == {o \in Ops : event[o] # "none" /\ ~delivered[o]}

\* The SELECT that starts a run; the LIMIT of 100 exceeds every bounded Ops.
ReadPending ==
    /\ batch = EmptyBatch
    /\ Pending # {}
    /\ batch' = [o \in Ops |-> IF o \in Pending THEN event[o] ELSE "none"]
    /\ UNCHANGED <<storeVars, sent, ledger, restarts>>

\* INSERT IGNORE into the ledger, keyed by event id: the first payload stays.
Persist(o) == ledger' = [ledger EXCEPT ![o] = IF @ = "none" THEN batch[o] ELSE @]

Send(o) ==
    /\ sent = Nobody
    /\ batch[o] # "none"
    /\ Persist(o)
    /\ sent' = o
    /\ UNCHANGED <<storeVars, batch, restarts>>

\* The sender raises, with the INSERT applied or not: of the outbox row only
\* attempt_count and last_error_code change, and it stays undelivered.
SendFails(o) ==
    /\ sent = Nobody
    /\ batch[o] # "none"
    /\ Persist(o) \/ UNCHANGED ledger
    /\ batch' = [batch EXCEPT ![o] = "none"]
    /\ UNCHANGED <<storeVars, sent, restarts>>

\* UPDATE delivered_at ... WHERE event_id=... AND delivered_at IS NULL.
MarkDelivered ==
    /\ sent # Nobody
    /\ delivered' = [delivered EXCEPT ![sent] = TRUE]
    /\ batch' = [batch EXCEPT ![sent] = "none"]
    /\ sent' = Nobody
    /\ UNCHANGED <<outcome, event, ledger, restarts>>

\* The worker dies between two of its transactions, or the transaction that
\* follows a send raises and ends the run.
WorkerDies ==
    /\ restarts < MaxRestarts
    /\ batch # EmptyBatch
    /\ restarts' = restarts + 1
    /\ batch' = EmptyBatch
    /\ sent' = Nobody
    /\ UNCHANGED <<storeVars, ledger>>

Deliver == \/ ReadPending
           \/ \E o \in Ops : Send(o) \/ SendFails(o)
           \/ MarkDelivered
           \/ WorkerDies

Next == \/ StoreNext /\ UNCHANGED <<batch, sent, ledger, restarts>>
        \/ Deliver

\* The worker polls for ever, and its sends do not all fail: a send that is
\* possible again and again succeeds at last.
Fairness == /\ WF_vars(ReadPending)
            /\ WF_vars(MarkDelivered)
            /\ \A o \in Ops : SF_vars(Send(o))

Spec == Init /\ [][Next]_vars /\ Fairness

-----------------------------------------------------------------------------

\* The ledger never records a verdict the operation did not have: a ledger row
\* is the final status, or the unknown status the operation went through.
LedgerIsHonest ==
    \A o \in Ops : ledger[o] # "none" =>
        \/ ledger[o] = outcome[o]
        \/ ledger[o] = "outcome_unknown" /\ outcome[o] = "completed"

\* No event is dropped: what delivered_at calls delivered is in the ledger,
\* across failed sends, worker crashes and upserts that reset delivered_at.
DeliveredIsInLedger == \A o \in Ops : delivered[o] => ledger[o] # "none"

\* The ledger is append-only: a row, once written, is never changed.
LedgerIsImmutable ==
    [][\A o \in Ops : ledger[o] # "none" => ledger'[o] = ledger[o]]_vars

\* Every final outcome reaches the ledger and its event is marked delivered.
EveryVerdictIsAudited ==
    \A o \in Ops : outcome[o] \in Final ~> ledger[o] # "none" /\ delivered[o]

\* What deliver_capability_audit_once promises of the outbox: an event marked
\* delivered was delivered, so the ledger carries the payload of the event.
LedgerCarriesDeliveredEvent ==
    \A o \in Ops : delivered[o] => ledger[o] = event[o]
=============================================================================
