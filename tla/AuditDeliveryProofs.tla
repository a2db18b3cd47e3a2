------------------------- MODULE AuditDeliveryProofs -------------------------
(***************************************************************************)
(* Proofs about the outcome store and the delivery of its audit outbox,    *)
(* for every set of operations and scopes and any number of restarts.      *)
(***************************************************************************)
EXTENDS AuditDelivery, TLAPS

StoreInv == StoreTypeOK /\ OneRowPerScope /\ AuditMatchesOutcome

\* What the worker holds is what the operation is, or was while unknown; an
\* event between its send and its mark is in the ledger.
WorkerInv ==
    /\ \A o \in Ops : batch[o] # "none" =>
          \/ batch[o] = outcome[o]
          \/ batch[o] = "outcome_unknown" /\ outcome[o] = "completed"
    /\ sent # Nobody => ledger[sent] # "none"

Inv == TypeOK /\ StoreInv /\ WorkerInv /\ LedgerIsHonest /\ DeliveredIsInLedger

\* What one transaction of a store client can do to an operation.
StoreMonotone ==
    \A o \in Ops :
        /\ outcome[o] \in {"completed", "failed"} => outcome'[o] = outcome[o]
        /\ outcome[o] = "outcome_unknown" => outcome'[o] \in {"outcome_unknown", "completed"}
        /\ outcome[o] = "started" => outcome'[o] # "none"
        /\ delivered'[o] => delivered[o]

LEMMA StoreStep ==
    ASSUME StoreInv, StoreNext
    PROVE  StoreInv' /\ StoreMonotone
<1> USE DEF StoreInv, StoreTypeOK, OneRowPerScope, AuditMatchesOutcome, Row, Final,
            storeVars, StoreMonotone
<1>1. ASSUME NEW o \in Ops, Begin(o) PROVE StoreInv' /\ StoreMonotone
  BY <1>1 DEF Begin
<1>2. ASSUME NEW o \in Ops, NEW ok \in BOOLEAN, Complete(o, ok) PROVE StoreInv' /\ StoreMonotone
  BY <1>2 DEF Complete, Record, Verdict
<1>3. ASSUME NEW o \in Ops, NEW ok \in BOOLEAN, CompleteAgain(o, ok)
      PROVE  StoreInv' /\ StoreMonotone
  BY <1>3 DEF CompleteAgain
<1>4. ASSUME NEW o \in Ops, MarkUnknown(o) PROVE StoreInv' /\ StoreMonotone
  BY <1>4 DEF MarkUnknown, Record
<1>5. ASSUME NEW o \in Ops, ReconcileCompleted(o) PROVE StoreInv' /\ StoreMonotone
  <2>1. CASE UNCHANGED storeVars
    BY <2>1
  <2>2. CASE /\ outcome[o] \in {"started", "outcome_unknown"}
             /\ Record(o, "completed")
    BY <2>2 DEF Record
  <2> QED
    BY <1>5, <2>1, <2>2 DEF ReconcileCompleted
<1> QED
  BY <1>1, <1>2, <1>3, <1>4, <1>5 DEF StoreNext

LEMMA InvInit == Init => Inv
<1> SUFFICES ASSUME Init PROVE Inv
  OBVIOUS
<1>1. TypeOK /\ StoreInv
  BY WorkerAssumption DEF Init, StoreInit, TypeOK, StoreTypeOK, EmptyBatch, Final, StoreInv,
     OneRowPerScope, Row, AuditMatchesOutcome
<1>2. WorkerInv /\ LedgerIsHonest /\ DeliveredIsInLedger
  BY DEF Init, StoreInit, EmptyBatch, WorkerInv, LedgerIsHonest, DeliveredIsInLedger
<1> QED
  BY <1>1, <1>2 DEF Inv

LEMMA InvStep == Inv /\ [Next]_vars => Inv'
<1> SUFFICES ASSUME Inv, [Next]_vars PROVE Inv'
  OBVIOUS
<1> USE DEF Inv, TypeOK, WorkerInv, LedgerIsHonest, DeliveredIsInLedger
<1>1. CASE StoreNext /\ UNCHANGED <<batch, sent, ledger, restarts>>
  <2>1. StoreInv' /\ StoreMonotone
    BY <1>1, StoreStep
  <2> QED
    BY <1>1, <2>1 DEF StoreMonotone, StoreInv, StoreTypeOK, Final
<1> USE DEF StoreInv, StoreTypeOK, OneRowPerScope, AuditMatchesOutcome, Row, Final, storeVars
<1>2. CASE ReadPending
  BY <1>2 DEF ReadPending, Pending
<1>3. ASSUME NEW o \in Ops, Send(o) PROVE Inv'
  BY <1>3 DEF Send, Persist
<1>4. ASSUME NEW o \in Ops, SendFails(o) PROVE Inv'
  <2>1. CASE Persist(o)
    BY <1>4, <2>1 DEF SendFails, Persist
  <2>2. CASE ledger' = ledger
    BY <1>4, <2>2 DEF SendFails
  <2> QED
    BY <1>4, <2>1, <2>2 DEF SendFails
<1>5. CASE MarkDelivered
  BY <1>5, WorkerAssumption DEF MarkDelivered
<1>6. CASE WorkerDies
  BY <1>6, WorkerAssumption DEF WorkerDies, EmptyBatch
<1>7. CASE UNCHANGED vars
  BY <1>7 DEF vars
<1> QED
  BY <1>1, <1>2, <1>3, <1>4, <1>5, <1>6, <1>7 DEF Next, Deliver

LEMMA Invariance == Spec => []Inv
BY InvInit, InvStep, PTL DEF Spec

\* Every row of outcome table, outbox and ledger has a status the store writes.
THEOREM TypeCorrect == Spec => []TypeOK
<1>1. Inv => TypeOK
  BY DEF Inv
<1> QED
  BY <1>1, Invariance, PTL

\* SqlOutcomeStore.begin inserts at most one row for an idempotency scope.
THEOREM ScopeIsUnique == Spec => []OneRowPerScope
<1>1. Inv => OneRowPerScope
  BY DEF Inv, StoreInv
<1> QED
  BY <1>1, Invariance, PTL

\* Outcome row and audit event of an operation always tell the same story.
THEOREM AuditIsTransactional == Spec => []AuditMatchesOutcome
<1>1. Inv => AuditMatchesOutcome
  BY DEF Inv, StoreInv
<1> QED
  BY <1>1, Invariance, PTL

\* The audit ledger records only verdicts that the operation had.
THEOREM HonestLedger == Spec => []LedgerIsHonest
<1>1. Inv => LedgerIsHonest
  BY DEF Inv
<1> QED
  BY <1>1, Invariance, PTL

\* deliver_audit_outbox drops no event: one with delivered_at set is in the
\* ledger, however often the worker crashed on the way.
THEOREM NoEventDropped == Spec => []DeliveredIsInLedger
<1>1. Inv => DeliveredIsInLedger
  BY DEF Inv
<1> QED
  BY <1>1, Invariance, PTL

\* No transaction of the store takes a verdict back.
THEOREM VerdictsAreFinal == Spec => VerdictNeverTakenBack
<1>1. ASSUME Inv, [Next]_vars, NEW o \in Ops
      PROVE  /\ outcome[o] \in {"completed", "failed"} => outcome'[o] = outcome[o]
             /\ outcome[o] = "outcome_unknown" => outcome'[o] \in {"outcome_unknown", "completed"}
             /\ outcome[o] = "started" => outcome'[o] # "none"
  <2>1. CASE StoreNext
    BY <1>1, <2>1, StoreStep DEF Inv, StoreMonotone
  <2>2. CASE outcome' = outcome
    BY <2>2
  <2> QED
    BY <1>1, <2>1, <2>2 DEF Next, Deliver, ReadPending, Send, SendFails, MarkDelivered,
       WorkerDies, storeVars, vars
<1>2. Inv /\ [Next]_vars =>
        [\A o \in Ops :
           /\ outcome[o] \in {"completed", "failed"} => outcome'[o] = outcome[o]
           /\ outcome[o] = "outcome_unknown" => outcome'[o] \in {"outcome_unknown", "completed"}
           /\ outcome[o] = "started" => outcome'[o] # "none"]_storeVars
  BY <1>1
<1> QED
  BY <1>2, Invariance, PTL DEF Spec, VerdictNeverTakenBack

\* INSERT IGNORE: no delivery changes a row of the ledger.
THEOREM ImmutableLedger == Spec => LedgerIsImmutable
<1>1. Inv /\ [Next]_vars => [\A o \in Ops : ledger[o] # "none" => ledger'[o] = ledger[o]]_vars
  BY DEF Inv, TypeOK, Next, Deliver, ReadPending, Send, SendFails, Persist, MarkDelivered,
     WorkerDies, vars
<1> QED
  BY <1>1, Invariance, PTL DEF Spec, LedgerIsImmutable
=============================================================================
