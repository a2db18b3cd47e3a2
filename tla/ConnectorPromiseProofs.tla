----------------------- MODULE ConnectorPromiseProofs -----------------------
(***************************************************************************)
(* The local runtime and the connector server together: what one says of a *)
(* plan agrees with what the other has recorded and with what the viewer   *)
(* has done. For any number of plans and steps, crashes and lost calls.    *)
(*                                                                         *)
(* The argument: a verdict is *honest* if it agrees with the writes that   *)
(* have taken effect and none is still to come. The journal is honest      *)
(* about single steps (EntryInv), so the outcome it was signed for is, if  *)
(* the server's verification lets it pass (VerifiedIsHonest). Probes prove *)
(* nothing of the viewer; what they say is recorded only of plans that the *)
(* journal leaves in doubt, and marked as such (EvidenceOK). Requests left *)
(* behind are as good as when they were sent (LateInv). So every row that  *)
(* no probe and no owner has judged is honest (ServerStep, RowsAgree),     *)
(* which is what ConnectorPromise asks of a step. On the runtime's side    *)
(* every action does what LocalStep asks, and the two make the invariant   *)
(* inductive (Together).                                                   *)
(***************************************************************************)
EXTENDS LocalRuntimeProofs, ConnectorServerProofs

\* The verdict v agrees with the writes that have taken effect, and no other is to come.
Honest(p, v) ==
    /\ v = "succeeded" => done[p] = Writes(p)
    /\ v = "failed_without_effect" => done[p] = {}
    /\ v \in Terminal => pending[p] = {}

\* The runtime has signed an outcome, which does not settle the plan.
LeftInDoubt(p) == Local(p) # NoOutcome /\ Local(p).status \notin Terminal

\* Evidence is gathered only about a plan that the journal leaves in doubt.
EvidenceOK(p, v, n) ==
    /\ LeftInDoubt(p)
    /\ v \in Verdicts \ {"outcome_unknown"}
    /\ n \in Nat /\ n <= length

\* The journal knows only plans that were handed out, tells the truth about each step
\* and signs once, when nothing is open.
EntryInv(p) ==
    LET e == journal[p] IN
    /\ e.lease # "none" => plans[p].attempts = 1
    /\ e.lease # "acquired" => e.outcome = NoOutcome
    /\ e.marks # {} => e.outcome # NoOutcome
    /\ e.outcome # NoOutcome =>
           ~e.open /\ e.outcome = Signed(e.outcome.status, e.outcome.seq) /\ e.outcome.seq <= length
    /\ Last(e) <= Len(Steps[p])
    /\ done[p] \subseteq Writes(p) /\ pending[p] \subseteq Writes(p)
    /\ \A i \in 1..Len(e.results) : i \in Writes(p) =>
           /\ e.results[i] = "succeeded" => i \in done[p]
           /\ e.results[i] = "failed_without_effect" => i \notin done[p]

\* Unless somebody judged the plan, which takes a plan in doubt, its row agrees with
\* the viewer; and it agrees with what the runtime has signed.
PlanInv(p) ==
    LET r == plans[p] IN
    /\ r.reconciled \/ Honest(p, r.status)
    /\ r.reconciled => r.attempts = 1 /\ r.status # "leased"
    /\ pending[p] # {} => r.status \in Unresolved \/ r.reconciled
    /\ r.outcome.by = "runtime" => r.outcome = Local(p)
    /\ r.outcome.by = "server" => LeftInDoubt(p)
    /\ "acknowledged" \in journal[p].marks /\ Local(p).status \in Terminal => r.status \in Closed

\* What the host has signed before it delivers, reports or reconciles.
HostInv ==
    /\ host.at \in {"executing", "delivering", "reporting", "reconciling", "probed", "reconciled"}
           => host.plan \in Plans
    /\ host.at = "executing" => plans[host.plan].attempts = 1 /\ Local(host.plan) = NoOutcome
    /\ host.at = "delivering" => Local(host.plan).status \in Terminal
    /\ host.at \in {"reporting", "reconciling", "probed", "reconciled"} => LeftInDoubt(host.plan)
    /\ \A p \in host.todo : Local(p) # NoOutcome
    /\ host.at = "probed" => EvidenceOK(host.plan, host.evidence.verdict, host.evidence.seq)

\* Requests left behind are as good as when they were sent.
LateOK(m) ==
    /\ m.kind = "recovery" => m.plan \in Plans
    /\ m.kind = "outcome" =>
           m.plan \in Plans /\ Local(m.plan) # NoOutcome /\ Local(m.plan) = Signed(m.verdict, m.seq)
    /\ m.kind = "reconcile" => m.plan \in Plans /\ EvidenceOK(m.plan, m.verdict, m.seq)

LateInv == \A m \in late : LateOK(m)

\* The rest of RuntimeTypeOK, which Inv and LocalInv do not imply.
RestType ==
    /\ lastSeq <= length
    /\ saved \in 0..session.id
    /\ host \in Hosts
    /\ faults \in 0..MaxFaults

RuntimeInv ==
    /\ Inv /\ LocalInv /\ RestType
    /\ \A p \in Plans : EntryInv(p) /\ PlanInv(p)
    /\ HostInv /\ LateInv

-----------------------------------------------------------------------------
(* What the server records is honest, or marked as evidence.               *)

\* An outcome that a step records is the runtime's own, which is honest, or evidence.
Recorded(p) ==
    plans'[p].outcome # plans[p].outcome =>
        \/ /\ plans'[p].outcome = Local(p) /\ Honest(p, Local(p).status)
           /\ plans[p].status = "leased" /\ ~plans'[p].reconciled
        \/ plans'[p].outcome.by = "server" /\ LeftInDoubt(p) /\ plans'[p].reconciled

ServerFacts ==
    /\ StepFacts
    /\ lastSeq' <= length
    /\ \A p \in Plans : Recorded(p)

LEMMA EntryFacts ==
    ASSUME RuntimeInv, NEW p \in Plans
    PROVE  /\ journal[p] \in Entries /\ EntryInv(p) /\ PlanInv(p) /\ EntryOK(p)
           /\ journal[p].results \in Seq(Verdicts) /\ Len(journal[p].results) \in Nat
           /\ \A i \in 1..Len(journal[p].results) : journal[p].results[i] \in Verdicts
           /\ journal[p].open \in BOOLEAN /\ Current(p) \in Nat
           /\ Local(p) \in Outcomes \cup {NoOutcome}
           /\ length \in Nat
<1>1. LocalInv
  BY DEF RuntimeInv
<1>2. journal[p] \in Entries
  BY <1>1, EntryType
<1>3. Local(p) \in Outcomes \cup {NoOutcome}
  BY <1>2 DEF Entries, Local
<1>4. QED
  BY <1>1, <1>2, <1>3, EntryType DEF RuntimeInv, LocalInv, LocalType

\* What passes the server's verification agrees with the viewer.
LEMMA VerifiedIsHonest ==
    ASSUME RuntimeInv, NEW p \in Plans, NEW v, Local(p) # NoOutcome,
           VerifySteps(p, journal[p].results, v)
    PROVE  Honest(p, v)
<1> DEFINE results == journal[p].results
           n == Len(results)
<1>1. /\ n \in 1..Len(Steps[p])
      /\ \A i \in 1..(n - 1) : results[i] = "succeeded"
      /\ results[n] = v
      /\ v = "succeeded" => n = Len(Steps[p])
      /\ v = "failed_without_effect" => \A i \in 1..(n - 1) : Steps[p][i] # "write"
  BY DEF VerifySteps
<1>2. n \in Nat /\ n > 0
  BY <1>1, EntryFacts
<1>3. ~journal[p].open /\ Last(journal[p]) = n
  BY EntryFacts DEF EntryInv, Local, Last
<1>4. /\ done[p] \subseteq 1..n /\ done[p] \subseteq Writes(p)
      /\ \A i \in 1..n : i \in Writes(p) =>
             /\ results[i] = "succeeded" => i \in done[p]
             /\ results[i] = "failed_without_effect" => i \notin done[p]
  BY <1>3, EntryFacts DEF EntryOK, EntryInv, Covers
<1> HIDE DEF results, n
<1>5. v = "succeeded" => done[p] = Writes(p)
  <2> SUFFICES ASSUME v = "succeeded", NEW i \in Writes(p) PROVE i \in done[p]
    BY <1>4
  <2>1. i \in 1..n
    BY <1>1 DEF Writes, StepsOf
  <2>2. results[i] = "succeeded"
    BY <1>1, <1>2, <2>1
  <2>3. QED
    BY <1>4, <2>1, <2>2
<1>6. v = "failed_without_effect" => done[p] = {}
  <2> SUFFICES ASSUME v = "failed_without_effect", NEW i \in done[p] PROVE FALSE
    OBVIOUS
  <2>1. i \in 1..n /\ i \in Writes(p)
    BY <1>4
  <2>2. Steps[p][i] = "write"
    BY <2>1 DEF Writes
  <2>3. i = n
    BY <1>1, <1>2, <2>1, <2>2
  <2>4. QED
    BY <1>1, <1>4, <2>1, <2>3
<1>7. v \in Terminal => pending[p] = {}
  <2> SUFFICES ASSUME v \in Terminal, pending[p] # {} PROVE FALSE
    OBVIOUS
  <2>1. Doubt(journal[p])
    BY EntryFacts DEF EntryOK, Covers
  <2>2. results[n] = "outcome_unknown"
    BY <1>3, <2>1 DEF Doubt, results, n
  <2>3. QED
    BY <1>1, <2>2 DEF Terminal
<1>8. QED
  BY <1>5, <1>6, <1>7 DEF Honest

\* A step that records nothing.
LEMMA RecordsNothing ==
    ASSUME RuntimeInv, StepFacts, lastSeq' = lastSeq
    PROVE  ServerFacts
<1>1. ASSUME NEW p \in Plans PROVE Recorded(p)
  <2> SUFFICES ASSUME plans'[p].outcome # plans[p].outcome PROVE FALSE
    BY DEF Recorded
  <2>1. Records(p)
    BY OutcomesChange DEF RuntimeInv
  <2>2. \E n \in Nat : n > lastSeq /\ n <= lastSeq
    BY <2>1 DEF Records, Outcomes
  <2>3. QED
    BY <2>2, Facts DEF RuntimeInv
<1>2. QED
  BY <1>1 DEF ServerFacts, RuntimeInv, RestType

LEMMA ServerRests == RuntimeInv /\ UNCHANGED serverVars => ServerFacts
<1> SUFFICES ASSUME RuntimeInv, UNCHANGED serverVars PROVE ServerFacts
  OBVIOUS
<1>1. UNCHANGED <<gen, session, reserved, plans, recovery, lastSeq, intents, jobs, applied>>
  BY DEF serverVars, sessionVars, projectionVars
<1>2. StepFacts
  BY <1>1, Facts, QuietFacts DEF sessionVars, TypeOK, RuntimeInv
<1>3. QED
  BY <1>1, <1>2, RecordsNothing

\* The record of a verdict for one plan.
LEMMA RecordsOne ==
    ASSUME RuntimeInv, StepFacts, NEW p \in Plans, NEW o, NEW b, Record(p, o, b),
           o.seq <= length,
           \/ o = Local(p) /\ Honest(p, o.status) /\ plans[p].status = "leased" /\ ~b
           \/ o.by = "server" /\ LeftInDoubt(p) /\ b
    PROVE  ServerFacts
<1>1. plans \in [Plans -> Rows] /\ plans' \in [Plans -> Rows]
  BY Facts DEF RuntimeInv, StepFacts, TypeOK
<1>2. \A q \in Plans \ {p} : plans'[q] = plans[q]
  BY <1>1 DEF Record
<1>3. plans'[p].outcome = o /\ plans'[p].reconciled = b
  BY <1>1 DEF Record, Rows
<1>4. \A q \in Plans : Recorded(q)
  BY <1>2, <1>3 DEF Recorded
<1>5. lastSeq' = o.seq
  BY DEF Record
<1>6. QED
  BY <1>4, <1>5 DEF ServerFacts

\* The outcome that the runtime has signed, whenever it arrives.
LEMMA CompleteIsHonest ==
    ASSUME RuntimeInv, NEW p \in Plans, NEW t, NEW v, NEW n,
           Local(p) # NoOutcome, Local(p) = Signed(v, n),
           Complete(t, p, journal[p].results, v, n)
    PROVE  ServerFacts
<1>1. Local(p) \in Outcomes /\ Local(p).seq <= length
  BY EntryFacts DEF EntryInv, Local
<1>2. v \in Verdicts /\ n \in Nat /\ n <= length /\ v = Local(p).status
  BY <1>1 DEF Signed, Outcomes
<1>3. StepFacts
  BY <1>2, CompleteFacts DEF RuntimeInv
<1>4. /\ Record(p, Local(p), FALSE) /\ VerifySteps(p, journal[p].results, v)
      /\ plans[p].status = "leased"
  BY DEF Complete, CanComplete, Reportable
<1>5. Honest(p, Local(p).status)
  BY <1>2, <1>4, VerifiedIsHonest
<1>6. QED
  BY <1>1, <1>3, <1>4, <1>5, RecordsOne

\* The evidence of probes, whenever it arrives.
LEMMA ReconcileIsMarked ==
    ASSUME RuntimeInv, NEW p \in Plans, NEW t, NEW v, NEW n,
           EvidenceOK(p, v, n), Reconcile(t, p, v, n)
    PROVE  ServerFacts
<1> DEFINE o == [by |-> "server", status |-> v, seq |-> n,
                 original |-> plans[p].outcome.original]
<1>1. StepFacts
  BY ReconcileFacts DEF RuntimeInv, EvidenceOK
<1>2. Record(p, o, TRUE)
  BY DEF Reconcile
<1>3. o.seq <= length /\ o.status = v /\ o.by = "server"
  BY DEF EvidenceOK
<1>4. LeftInDoubt(p)
  BY DEF EvidenceOK
<1> HIDE DEF o
<1>5. QED
  BY <1>1, <1>2, <1>3, <1>4, RecordsOne

-----------------------------------------------------------------------------
(* Every step of the whole system is one of these for the server.          *)

LEMMA RecordingSettling ==
    ASSUME RuntimeInv, NEW p \in Plans,
           Deliver(p) \/ RecoveryCall(p) \/ AcknowledgeCall(p) \/ Report(p) \/ SendEvidence(p)
    PROVE  ServerFacts
<1>1. CASE UNCHANGED serverVars
  BY <1>1, ServerRests
<1>2. Inv /\ (Local(p) # NoOutcome => Local(p) = Signed(Local(p).status, Local(p).seq))
  BY EntryFacts DEF RuntimeInv, EntryInv, Local
<1>3. ASSUME Local(p) # NoOutcome,
             \E t : Complete(t, p, journal[p].results, Local(p).status, Local(p).seq)
      PROVE  ServerFacts
  BY <1>2, <1>3, CompleteIsHonest
<1>4. CASE Deliver(p)
  <2>1. Local(p) # NoOutcome
    BY <1>4 DEF Deliver, RuntimeInv, HostInv, Terminal, NoOutcome
  <2>2. QED
    BY <1>1, <1>3, <1>4, <2>1 DEF Deliver, Refused, Lost
<1>5. CASE Report(p)
  <2>1. Local(p) # NoOutcome
    BY <1>5 DEF Report, RuntimeInv, HostInv, LeftInDoubt
  <2>2. QED
    BY <1>1, <1>3, <1>5, <2>1 DEF Report, Refused, Lost
<1>6. CASE RecoveryCall(p)
  <2>1. CASE RegisterRecovery(gen, p)
    <3>1. StepFacts
      BY <1>2, <2>1, RecoveryFacts
    <3>2. lastSeq' = lastSeq
      BY <2>1 DEF RegisterRecovery
    <3>3. QED
      BY <3>1, <3>2, RecordsNothing
  <2>2. QED
    BY <1>1, <1>6, <2>1 DEF RecoveryCall, Refused, Lost
<1>7. CASE AcknowledgeCall(p)
  <2>1. ASSUME NEW t, NEW v, NEW n, Acknowledge(t, p, v, n) PROVE ServerFacts
    <3>1. StepFacts
      BY <1>2, <2>1, AcknowledgeFacts
    <3>2. lastSeq' = lastSeq
      BY <2>1 DEF Acknowledge
    <3>3. QED
      BY <3>1, <3>2, RecordsNothing
  <2>2. QED
    BY <1>1, <1>7, <2>1 DEF AcknowledgeCall, Refused, Lost
<1>8. CASE SendEvidence(p)
  <2>1. EvidenceOK(p, host.evidence.verdict, host.evidence.seq)
    BY <1>8 DEF SendEvidence, RuntimeInv, HostInv
  <2>2. ASSUME NEW t, Reconcile(t, p, host.evidence.verdict, host.evidence.seq)
        PROVE  ServerFacts
    BY <2>1, <2>2, ReconcileIsMarked
  <2>3. QED
    BY <1>1, <1>8, <2>2 DEF SendEvidence, Refused, Lost
<1>9. QED
  BY <1>4, <1>5, <1>6, <1>7, <1>8

LEMMA ServeIsHonest ==
    ASSUME RuntimeInv, NEW m \in late, ServeLate(m) PROVE ServerFacts
<1>1. Inv /\ LateOK(m) /\ Serve(m)
  BY DEF RuntimeInv, LateInv, ServeLate
<1>2. ASSUME StepFacts, lastSeq' = lastSeq PROVE ServerFacts
  BY <1>2, RecordsNothing
<1>3. CASE Restart(m.token) \/ Register(gen, TRUE)
  <2>1. StepFacts
    BY <1>1, <1>3, SessionFacts
  <2>2. QED
    BY <1>2, <1>3, <2>1 DEF Restart, Register
<1>4. CASE m.kind = "recovery" /\ RegisterRecovery(gen, m.plan)
  <2>1. StepFacts
    BY <1>1, <1>4, RecoveryFacts DEF LateOK
  <2>2. QED
    BY <1>2, <1>4, <2>1 DEF RegisterRecovery
<1>5. CASE LeaseNothing(m.token) \/ \E p \in Plans : Lease(m.token, p)
  <2>1. StepFacts
    BY <1>1, <1>5, LeaseNothingFacts, LeaseFacts
  <2>2. QED
    BY <1>2, <1>5, <2>1 DEF LeaseNothing, Lease
<1>6. CASE /\ m.kind = "outcome"
           /\ Complete(m.token, m.plan, journal[m.plan].results, m.verdict, m.seq)
  BY <1>1, <1>6, CompleteIsHonest DEF LateOK
<1>7. CASE Acknowledge(m.token, m.plan, m.verdict, m.seq)
  <2>1. StepFacts
    BY <1>1, <1>7, AcknowledgeFacts
  <2>2. QED
    BY <1>2, <1>7, <2>1 DEF Acknowledge
<1>8. CASE m.kind = "reconcile" /\ Reconcile(m.token, m.plan, m.verdict, m.seq)
  BY <1>1, <1>8, ReconcileIsMarked DEF LateOK
<1>9. QED
  BY <1>1, <1>3, <1>4, <1>5, <1>6, <1>7, <1>8 DEF Serve

LEMMA ServerStep == RuntimeInv /\ [RuntimeNext]_vars => ServerFacts
<1> SUFFICES ASSUME RuntimeInv, [RuntimeNext]_vars PROVE ServerFacts
  OBVIOUS
<1>1. CASE UNCHANGED serverVars
  BY <1>1, ServerRests
<1>2. ASSUME StepFacts, lastSeq' = lastSeq PROVE ServerFacts
  BY <1>2, RecordsNothing
<1>3. Inv
  BY DEF RuntimeInv
<1>4. CASE RegisterCall
  <2>1. CASE Restart(saved) \/ Register(gen, TRUE)
    <3>1. StepFacts
      BY <1>3, <2>1, SessionFacts
    <3>2. QED
      BY <1>2, <2>1, <3>1 DEF Restart, Register
  <2>2. QED
    BY <1>1, <1>4, <2>1 DEF RegisterCall, Lost
<1>5. CASE LeaseCall
  <2>1. CASE LeaseNothing(saved) \/ \E p \in Plans : Lease(saved, p)
    <3>1. StepFacts
      BY <1>3, <2>1, LeaseNothingFacts, LeaseFacts
    <3>2. QED
      BY <1>2, <2>1, <3>1 DEF LeaseNothing, Lease
  <2>2. QED
    BY <1>1, <1>5, <2>1 DEF LeaseCall, Refused, Lost
<1>6. CASE Settling
  BY <1>1, <1>6, RecordingSettling DEF Settling, Settle, Probe, CloseReconciliation, Refused
<1>7. CASE Start \/ Execution \/ Crash \/ (\E p \in Plans : TakesEffect(p)) \/ UNCHANGED vars
  <2>1. UNCHANGED serverVars
    BY <1>7 DEF Start, Execution, Receive, Acquire, StepNotStarted, Invoke, StepReturns, Abort,
                Finish, Crash, TakesEffect, Refused, vars
  <2>2. QED
    BY <1>1, <2>1
<1>8. CASE \E m \in late : ServeLate(m)
  BY <1>8, ServeIsHonest
<1>9. CASE TimePasses
  <2>1. SessionExpires \/ RecoveryExpires \/ \E p \in Plans : LeaseExpires(p) \/ PlanExpires(p)
    BY <1>9 DEF TimePasses, SessionLapses, RecoveryLapses, PlanLapses
  <2>2. StepFacts
    BY <1>3, <2>1, ClockFacts
  <2>3. QED
    BY <1>2, <2>1, <2>2 DEF SessionExpires, RecoveryExpires, LeaseExpires, PlanExpires
<1>10. CASE Cloud \/ Owner
  <2>1. PICK p \in Plans : Insert(p) \/ Resolve(p, plans[p].outcome)
    BY <1>10 DEF Cloud, Owner
  <2>2. StepFacts
    BY <1>3, <2>1, InsertFacts, ResolveFacts
  <2>3. QED
    BY <1>2, <2>1, <2>2 DEF Insert, Resolve
<1>11. QED
  BY <1>4, <1>5, <1>6, <1>7, <1>8, <1>9, <1>10 DEF RuntimeNext

-----------------------------------------------------------------------------
(* The rows stay in agreement with what the viewer has done.               *)

\* A plan that was not handed out, or only reads, has left nothing behind.
LEMMA Untouchable ==
    ASSUME RuntimeInv, NEW p \in Plans, plans[p].attempts = 0 \/ ReadOnly(p)
    PROVE  done[p] = {} /\ pending[p] = {}
<1>1. EntryInv(p) /\ EntryOK(p) /\ journal[p].open \in BOOLEAN
  BY EntryFacts
<1>2. CASE plans[p].attempts = 0
  <2>1. journal[p].lease = "none"
    BY <1>1, <1>2 DEF EntryInv
  <2>2. Last(journal[p]) = 0 /\ ~Doubt(journal[p])
    BY <1>1, <2>1 DEF EntryOK, Covers, Doubt, Last
  <2>3. QED
    BY <1>1, <2>2 DEF EntryOK, Covers
<1>3. CASE ReadOnly(p)
  <2>1. \A i \in StepsOf(p) : Steps[p][i] \in {"read"}
    BY <1>3 DEF ReadOnly, StepKinds, StepsOf
  <2>2. Writes(p) = {}
    BY <2>1 DEF Writes
  <2>3. QED
    BY <1>1, <2>2 DEF EntryInv
<1>4. QED
  BY <1>2, <1>3

\* The row after a step, seen with what the viewer and the journal held before it.
Kept(p) ==
    LET s == plans'[p] IN
    /\ s.reconciled \/ Honest(p, s.status)
    /\ s.reconciled => s.attempts = 1 /\ s.status # "leased"
    /\ pending[p] # {} => s.status \in Unresolved \/ s.reconciled
    /\ plans[p].reconciled => s.reconciled
    /\ s.reconciled => plans[p].reconciled \/ plans[p].status \in Unresolved
    /\ plans[p].attempts = 1 => s.attempts = 1
    /\ s.outcome.by = "runtime" => s.outcome = Local(p)
    /\ s.outcome.by = "server" => LeftInDoubt(p)
    /\ plans[p].status \in Closed => s.status \in Closed

LEMMA RowsAgree ==
    ASSUME RuntimeInv, ServerFacts, NEW p \in Plans
    PROVE  Kept(p)
<1> DEFINE r == plans[p]
           s == plans'[p]
<1>1. Inv /\ StepFacts
  BY DEF RuntimeInv, ServerFacts
<1>2. r \in Rows /\ s \in Rows /\ RowOK(p) /\ Moves(p)
  BY <1>1, Facts DEF StepFacts, TypeOK
<1>3. /\ r.reconciled \/ Honest(p, r.status)
      /\ r.reconciled => r.attempts = 1 /\ r.status # "leased"
      /\ pending[p] # {} => r.status \in Unresolved \/ r.reconciled
      /\ r.outcome.by = "runtime" => r.outcome = Local(p)
      /\ r.outcome.by = "server" => LeftInDoubt(p)
  BY EntryFacts DEF PlanInv
<1>4. r.status \in Closed => s.status \in Closed
  BY <1>1, MovesKeep
<1>5. r.attempts = 0 \/ ReadOnly(p) => done[p] = {} /\ pending[p] = {}
  BY Untouchable
<1>6. CASE Stays(p) \/ Ages(p)
  <2>1. /\ s.status = r.status /\ s.outcome = r.outcome /\ s.attempts = r.attempts
        /\ s.reconciled = r.reconciled
    BY <1>2, <1>6 DEF Stays, Ages, Rows
  <2>2. QED
    BY <1>3, <2>1 DEF Kept
<1>7. CASE Closes(p)
  <2>1. /\ s.status = "failed_without_effect" /\ s.outcome = r.outcome
        /\ s.attempts = r.attempts /\ s.reconciled = r.reconciled
    BY <1>2, <1>7 DEF Closes, Rows
  <2>2. r.attempts = 0 \/ ReadOnly(p)
    BY <1>2, <1>7 DEF Closes, RowOK
  <2>3. QED
    BY <1>3, <1>4, <1>5, <2>1, <2>2 DEF Kept, Honest
<1>8. CASE Queues(p)
  <2>1. s.status = "queued" /\ s.outcome = NoOutcome /\ ~s.reconciled
    BY <1>8 DEF Queues, NoPlan
  <2>2. r.status = "none" /\ r.attempts = 0
    BY <1>2, <1>8 DEF Queues, RowOK
  <2>3. QED
    BY <1>3, <1>5, <2>1, <2>2 DEF Kept, Honest, NoOutcome, Closed, Terminal
<1>9. CASE Issues(p)
  <2>1. s.status = "leased" /\ s.outcome = r.outcome /\ s.reconciled = r.reconciled
    BY <1>2, <1>9 DEF Issues, Rows
  <2>2. r.status = "queued" /\ r.attempts = 0
    BY <1>2, <1>9 DEF Issues, RowOK
  <2>3. QED
    BY <1>3, <1>5, <2>1, <2>2 DEF Kept, Honest, Closed, Terminal
<1>10. CASE Lapses(p)
  <2>1. /\ s.status = "outcome_unknown" /\ s.outcome = r.outcome /\ s.attempts = r.attempts
        /\ s.reconciled = r.reconciled
    BY <1>2, <1>10 DEF Lapses, Rows
  <2>2. QED
    BY <1>3, <1>4, <2>1 DEF Kept, Honest, Terminal, Unresolved, Uncertain
<1>11. CASE Drops(p)
  <2>1. /\ s.status = "expired" /\ s.outcome = r.outcome /\ s.attempts = r.attempts
        /\ s.reconciled = r.reconciled
    BY <1>2, <1>11 DEF Drops, Rows
  <2>2. r.attempts = 0
    BY <1>2, <1>11 DEF Drops, RowOK
  <2>3. QED
    BY <1>3, <1>4, <1>5, <2>1, <2>2 DEF Kept, Honest, Terminal
<1>12. CASE Records(p)
  <2>1. PICK o \in Outcomes :
            /\ o.seq > lastSeq
            /\ s.status = o.status /\ s.outcome = o /\ s.attempts = r.attempts
    BY <1>2, <1>12 DEF Records, Rows
  <2>2. r.outcome.seq <= lastSeq /\ lastSeq \in Nat /\ o.seq \in Nat
    BY <1>1, <1>2, Facts DEF RowOK, Outcomes
  <2>3. s.outcome # r.outcome
    BY <2>1, <2>2
  <2>4. r.status \in Unresolved /\ r.attempts = 1
    BY <1>2, <1>12 DEF Records, RowOK
  <2>5. s.status \in Terminal \cup Unresolved /\ s.status # "leased"
    BY <2>1 DEF Outcomes, Verdicts, Terminal, Unresolved, Uncertain
  <2>6. CASE /\ s.outcome = Local(p) /\ Honest(p, Local(p).status)
             /\ r.status = "leased" /\ ~s.reconciled
    <3>1. s.outcome.by # "server"
      <4>1. Local(p) # NoOutcome
        BY <2>1, <2>2, <2>6 DEF NoOutcome
      <4>2. Local(p) = Signed(Local(p).status, Local(p).seq)
        BY <4>1, EntryFacts DEF EntryInv, Local
      <4>3. QED
        BY <2>6, <4>2 DEF Signed
    <3>2. Honest(p, s.status) /\ ~r.reconciled
      BY <1>3, <2>1, <2>6
    <3> HIDE DEF r, s
    <3>3. QED
      BY <1>4, <2>1, <2>4, <2>5, <2>6, <3>1, <3>2 DEF Kept, Honest, r, s
  <2>7. CASE s.outcome.by = "server" /\ LeftInDoubt(p) /\ s.reconciled
    BY <1>4, <2>1, <2>4, <2>5, <2>7 DEF Kept
  <2>8. QED
    BY <2>3, <2>6, <2>7 DEF ServerFacts, Recorded
<1>13. CASE Resolves(p)
  <2>1. /\ s.status = "cancelled" /\ s.outcome = r.outcome /\ s.attempts = r.attempts
        /\ s.reconciled /\ r.status \in Unresolved
    BY <1>2, <1>13 DEF Resolves, Rows
  <2>2. QED
    BY <1>2, <1>3, <1>4, <2>1 DEF Kept, RowOK
<1>14. QED
  BY <1>2, <1>6, <1>7, <1>8, <1>9, <1>10, <1>11, <1>12, <1>13 DEF Moves

-----------------------------------------------------------------------------
(* What a step must do on the runtime's side to keep the invariant.        *)

\* What is signed stays signed.
Settled(p) == Local(p) # NoOutcome => journal'[p].outcome = Local(p)

\* The journal forgets a plan that the server has closed, or a plan in doubt.
Marked(p) ==
    "acknowledged" \in journal'[p].marks =>
        \/ "acknowledged" \in journal[p].marks /\ Local(p) # NoOutcome
        \/ journal'[p].outcome.status \notin Terminal
        \/ plans'[p].status \in Closed

\* Whether the viewer does anything, or is asked for anything, that a closed plan
\* which nobody judged must not see.
Works(p) ==
    \/ done'[p] = done[p] /\ pending'[p] \subseteq pending[p]
    \/ plans'[p].status \in Unresolved \/ plans'[p].reconciled

PlanSteps(p) ==
    Settled(p) /\ Marked(p) /\ EntryInv(p)' /\ Works(p)

LocalStep ==
    /\ \A p \in Plans : PlanSteps(p)
    /\ HostInv' /\ host' \in Hosts
    /\ length <= length'
    /\ \A m \in late' \ late : LateOK(m)
    /\ saved' \in {saved, session'.id}
    /\ faults' \in 0..MaxFaults

\* Evidence stays what it is, and so do the requests left behind.
LEMMA EvidenceKept ==
    ASSUME RuntimeInv, LocalInv', length <= length', NEW p \in Plans, Settled(p), NEW v, NEW n,
           EvidenceOK(p, v, n)
    PROVE  EvidenceOK(p, v, n)'
<1>1. length \in Nat /\ length' \in Nat
  BY DEF RuntimeInv, LocalInv, LocalType
<1>2. LeftInDoubt(p)'
  BY DEF Settled, EvidenceOK, LeftInDoubt, Local
<1>3. n \in Nat /\ n <= length'
  BY <1>1 DEF EvidenceOK
<1>4. QED
  BY <1>2, <1>3 DEF EvidenceOK

LEMMA LateKept ==
    ASSUME RuntimeInv, LocalInv', LocalStep PROVE LateInv'
<1> SUFFICES ASSUME NEW m \in late' PROVE LateOK(m)'
  BY DEF LateInv
<1>1. LateOK(m)
  BY DEF LocalStep, RuntimeInv, LateInv
<1>2. ASSUME NEW p \in Plans PROVE Settled(p)
  BY DEF LocalStep, PlanSteps
<1>3. CASE m.kind = "outcome"
  BY <1>1, <1>2, <1>3 DEF LateOK, Settled, Local
<1>4. CASE m.kind = "reconcile"
  BY <1>1, <1>2, <1>4, EvidenceKept DEF LateOK, LocalStep
<1>5. QED
  BY <1>1, <1>3, <1>4 DEF LateOK

LEMMA PlanInvKept ==
    ASSUME RuntimeInv, LocalStep, NEW p \in Plans, Kept(p) PROVE PlanInv(p)'
<1>1. PlanSteps(p) /\ PlanInv(p)
  BY EntryFacts DEF LocalStep
<1>2. Writes(p)' = Writes(p)
  BY DEF Writes, StepsOf
<1>3. plans'[p].reconciled \/ Honest(p, plans[p].status)'
  <2>1. CASE done'[p] = done[p] /\ pending'[p] \subseteq pending[p]
    BY <1>2, <2>1 DEF Kept, Honest
  <2>2. CASE plans'[p].status \in Unresolved \/ plans'[p].reconciled
    BY <2>2 DEF Honest, Unresolved, Uncertain, Terminal
  <2>3. QED
    BY <1>1, <2>1, <2>2 DEF PlanSteps, Works
<1>4. plans'[p].reconciled => plans'[p].attempts = 1 /\ plans'[p].status # "leased"
  BY DEF Kept
<1>5. pending'[p] # {} => plans'[p].status \in Unresolved \/ plans'[p].reconciled
  BY <1>1 DEF Kept, PlanSteps, Works
<1>6. plans'[p].outcome.by = "runtime" => plans'[p].outcome = journal'[p].outcome
  BY <1>1 DEF Kept, PlanSteps, Settled, NoOutcome
<1>7. plans'[p].outcome.by = "server" => LeftInDoubt(p)'
  BY <1>1 DEF Kept, PlanSteps, Settled, LeftInDoubt, Local
<1>8. "acknowledged" \in journal'[p].marks /\ journal'[p].outcome.status \in Terminal
          => plans'[p].status \in Closed
  <2> SUFFICES ASSUME "acknowledged" \in journal'[p].marks,
                      journal'[p].outcome.status \in Terminal,
                      plans'[p].status \notin Closed
               PROVE  FALSE
    OBVIOUS
  <2>1. "acknowledged" \in journal[p].marks /\ Local(p) # NoOutcome
    BY <1>1 DEF PlanSteps, Marked
  <2>2. journal'[p].outcome = Local(p)
    BY <1>1, <2>1 DEF PlanSteps, Settled
  <2>3. plans[p].status \in Closed
    BY <1>1, <2>1, <2>2 DEF PlanInv
  <2>4. QED
    BY <2>3 DEF Kept
<1>9. QED
  BY <1>3, <1>4, <1>5, <1>6, <1>7, <1>8 DEF PlanInv, Local

LEMMA Together ==
    ASSUME RuntimeInv, ServerFacts, LocalStep, LocalInv' PROVE RuntimeInv'
<1>1. Inv'
  BY InvKept DEF RuntimeInv, ServerFacts
<1>2. \A p \in Plans : EntryInv(p)' /\ PlanInv(p)'
  BY RowsAgree, PlanInvKept DEF LocalStep, PlanSteps
<1>3. RestType'
  <2>1. /\ lastSeq' \in Nat /\ length \in Nat /\ length' \in Nat
        /\ session.id \in Nat /\ session'.id \in Nat
    BY <1>1, Facts DEF RuntimeInv, LocalInv, LocalType, Inv, TypeOK
  <2>2. lastSeq' <= length'
    BY <2>1 DEF ServerFacts, LocalStep
  <2>3. session.id <= session'.id
    BY <2>1 DEF ServerFacts, StepFacts, Sessions
  <2>4. saved \in 0..session.id
    BY DEF RuntimeInv, RestType
  <2>5. saved' \in 0..session'.id
    BY <2>1, <2>3, <2>4 DEF LocalStep
  <2>6. QED
    BY <2>2, <2>5 DEF RestType, LocalStep
<1>4. LateInv'
  BY LateKept
<1>5. QED
  BY <1>1, <1>2, <1>3, <1>4 DEF RuntimeInv, LocalStep

-----------------------------------------------------------------------------
(* Steps that leave the work itself alone.                                 *)

\* Nothing is added to an entry but marks, and those only for a reason.
SameEntry(p) ==
    /\ journal'[p].lease = journal[p].lease /\ journal'[p].results = journal[p].results
    /\ journal'[p].open = journal[p].open /\ journal'[p].outcome = journal[p].outcome
    /\ \/ journal'[p].marks = journal[p].marks
       \/ /\ Local(p) # NoOutcome
          /\ \/ "acknowledged" \notin journal'[p].marks \ journal[p].marks
             \/ Local(p).status \notin Terminal
             \/ plans'[p].status \in Closed

Calm ==
    /\ UNCHANGED <<done, pending>>
    /\ length' \in Nat /\ length <= length'
    /\ \A p \in Plans : SameEntry(p)

\* A call that is answered, refused or lost leaves only what may be left behind.
Called ==
    /\ \A m \in late' \ late : LateOK(m)
    /\ faults' \in 0..MaxFaults
    /\ saved' \in {saved, session'.id}

LEMMA EntryKept ==
    ASSUME RuntimeInv, NEW p \in Plans, Kept(p), length' \in Nat, length <= length',
           done'[p] = done[p], pending'[p] = pending[p],
           journal'[p].lease = journal[p].lease, journal'[p].results = journal[p].results,
           journal'[p].open = journal[p].open, journal'[p].outcome = journal[p].outcome,
           journal'[p].marks = journal[p].marks \/ Local(p) # NoOutcome
    PROVE  EntryInv(p)'
<1>1. EntryInv(p) /\ length \in Nat
  BY EntryFacts
<1>2. Writes(p)' = Writes(p)
  BY DEF Writes, StepsOf
<1>3. Last(journal[p])' = Last(journal[p])
  BY DEF Last
<1>4. journal[p].lease # "none" => plans'[p].attempts = 1
  BY <1>1 DEF EntryInv, Kept
<1>5. journal[p].outcome # NoOutcome => journal[p].outcome.seq <= length'
  <2>1. journal[p].outcome # NoOutcome => journal[p].outcome.seq \in Nat
    BY EntryFacts DEF Local, Outcomes
  <2>2. QED
    BY <1>1, <2>1 DEF EntryInv
<1>6. Len(Steps[p])' = Len(Steps[p])
  OBVIOUS
<1>7. QED
  BY <1>1, <1>2, <1>3, <1>4, <1>5 DEF EntryInv, Local

LEMMA CalmKeeps ==
    ASSUME RuntimeInv, ServerFacts, Calm, NEW p \in Plans
    PROVE  PlanSteps(p)
<1>1. SameEntry(p) /\ Kept(p) /\ EntryInv(p)
  BY RowsAgree, EntryFacts DEF Calm
<1>2. EntryInv(p)'
  BY <1>1, EntryKept DEF Calm, SameEntry
<1>3. Settled(p)
  BY <1>1 DEF SameEntry, Settled, Local
<1>4. Marked(p)
  BY <1>1 DEF SameEntry, Marked, EntryInv, Local
<1>5. QED
  BY <1>2, <1>3, <1>4 DEF PlanSteps, Works, Calm

\* The host remembers what it did, of sessions at most something else.
LEMMA HostStays ==
    ASSUME RuntimeInv, ServerFacts, LocalInv', length <= length',
           \A p \in Plans : Settled(p),
           host'.at = host.at, host'.plan = host.plan, host'.todo = host.todo,
           host'.evidence = host.evidence,
           host.at = "executing" => journal'[host.plan].outcome = NoOutcome
    PROVE  HostInv'
<1>1. HostInv /\ host.todo \subseteq Plans
  BY DEF RuntimeInv, RestType, Hosts
<1>2. ASSUME host.plan \in Plans, LeftInDoubt(host.plan) PROVE LeftInDoubt(host.plan)'
  BY <1>2 DEF LeftInDoubt, Settled, Local
<1>3. host.at = "executing" => plans'[host.plan].attempts = 1
  BY <1>1, RowsAgree DEF HostInv, Kept
<1>4. host.at = "delivering" => Local(host.plan)'.status \in Terminal
  BY <1>1 DEF HostInv, Settled, Local, NoOutcome, Terminal
<1>5. \A p \in host.todo : Local(p)' # NoOutcome
  BY <1>1 DEF HostInv, Settled, Local
<1>6. host.at = "probed"
          => EvidenceOK(host.plan, host.evidence.verdict, host.evidence.seq)'
  BY <1>1, EvidenceKept DEF HostInv, EvidenceOK, LeftInDoubt
<1>7. QED
  BY <1>1, <1>2, <1>3, <1>4, <1>5, <1>6 DEF HostInv, Local

LEMMA HostStops == host' = Down => HostInv' /\ host' \in Hosts
<1> SUFFICES ASSUME host' = Down PROVE HostInv' /\ host' \in Hosts
  OBVIOUS
<1>1. host' \in Hosts
  BY DEF Down, Hosts, NoEvidence
<1>2. QED
  BY <1>1 DEF Down, HostInv

\* A host that turns to other work; what is left to settle stays signed.
LEMMA HostTurns ==
    ASSUME host'.at \in {"register", "idle", "recovering"},
           \A p \in host'.todo : journal'[p].outcome # NoOutcome
    PROVE  HostInv'
BY DEF HostInv, Local

LEMMA HostProceeds ==
    ASSUME RuntimeInv, NEW p \in Plans, Proceed(p), \A q \in Plans : Settled(q)
    PROVE  HostInv' /\ host' \in Hosts
<1>1. host.todo \subseteq Plans /\ \A q \in host.todo : journal'[q].outcome # NoOutcome
  BY DEF RuntimeInv, RestType, Hosts, HostInv, Settled
<1>2. CASE host' = Down
  BY <1>2, HostStops
<1>3. CASE host' = [Down EXCEPT !.at = "recovering", !.todo = host.todo \ {p}]
  <2>1. host'.at = "recovering" /\ host'.todo = host.todo \ {p} /\ host' \in Hosts
    BY <1>1, <1>3 DEF Down, Hosts, NoEvidence
  <2>2. QED
    BY <1>1, <2>1, HostTurns
<1>4. CASE host' = [Down EXCEPT !.at = "idle"]
  <2>1. host'.at = "idle" /\ host'.todo = {} /\ host' \in Hosts
    BY <1>4 DEF Down, Hosts, NoEvidence
  <2>2. QED
    BY <2>1, HostTurns
<1>5. QED
  BY <1>2, <1>3, <1>4 DEF Proceed

\* Calls, from the requests that they leave behind.
LEMMA CallIs ==
    ASSUME RuntimeInv, Answered \/ Refused \/ (\E m : Lost(m) /\ LateOK(m)),
           saved' \in {saved, session'.id}
    PROVE  Called
<1>1. MaxFaults \in Nat /\ faults \in 0..MaxFaults
  BY RuntimeAssumption DEF RuntimeInv, RestType
<1>2. CASE Answered \/ Refused
  BY <1>1, <1>2 DEF Answered, Refused, Called
<1>3. CASE \E m : Lost(m) /\ LateOK(m)
  <2>1. PICK m : Lost(m) /\ LateOK(m)
    BY <1>3
  <2>2. faults' \in 0..MaxFaults
    BY <1>1, <2>1 DEF Lost
  <2>3. late' \ late \subseteq {m}
    BY <2>1 DEF Lost
  <2>4. QED
    BY <2>1, <2>2, <2>3 DEF Called
<1>4. QED
  BY <1>2, <1>3

\* Requests that speak of no plan's work.
LEMMA PlainRequest ==
    ASSUME NEW k \in {"register", "restart", "lease", "acknowledge"}, NEW t, NEW p, NEW v, NEW n
    PROVE  LateOK(Request(k, t, p, v, n))
BY DEF LateOK, Request

LEMMA CalmStep ==
    ASSUME RuntimeInv, ServerFacts, Calm, Called, HostInv', host' \in Hosts
    PROVE  LocalStep
BY CalmKeeps DEF Calm, Called, LocalStep

-----------------------------------------------------------------------------
(* Registering, leasing and delivery.                                      *)

\* The journal stays as it is.
LEMMA Unwritten ==
    ASSUME RuntimeInv, LocalInv', UNCHANGED <<journal, done, pending>>, length <= length'
    PROVE  Calm
BY DEF Calm, SameEntry, LocalInv, LocalType

\* The process stops.
LEMMA DownStep ==
    ASSUME RuntimeInv, ServerFacts, LocalInv', Called,
           UNCHANGED <<journal, length, done, pending>>, host' = Down
    PROVE  LocalStep
<1>1. length <= length'
  BY DEF RuntimeInv, LocalInv, LocalType
<1>2. Calm
  BY <1>1, Unwritten
<1>3. QED
  BY <1>2, HostStops, CalmStep

\* The process goes on, and remembers at most other sessions.
LEMMA WaitStep ==
    ASSUME RuntimeInv, ServerFacts, LocalInv', Called,
           UNCHANGED <<journal, length, done, pending>>, host' \in Hosts,
           host'.at = host.at, host'.plan = host.plan, host'.todo = host.todo,
           host'.evidence = host.evidence
    PROVE  LocalStep
<1>1. length <= length'
  BY DEF RuntimeInv, LocalInv, LocalType
<1>2. Calm
  BY <1>1, Unwritten
<1>3. \A p \in Plans : Settled(p)
  BY <1>2, CalmKeeps DEF PlanSteps
<1>4. host.at = "executing" => journal'[host.plan].outcome = NoOutcome
  BY DEF RuntimeInv, HostInv, Local
<1>5. HostInv'
  BY <1>1, <1>3, <1>4, HostStays
<1>6. QED
  BY <1>2, <1>5, CalmStep

\* The process does nothing.
LEMMA IdleStep ==
    ASSUME RuntimeInv, ServerFacts, LocalInv', Called,
           UNCHANGED <<journal, length, done, pending, host>>
    PROVE  LocalStep
BY WaitStep DEF RuntimeInv, RestType

\* A plan that the server has closed, or whose outcome is in doubt, is forgotten.
LEMMA AcknowledgedKeeps ==
    ASSUME RuntimeInv, ServerFacts, LocalInv', Answered \/ Refused, NEW p \in Plans,
           Acknowledged(p), Local(p) # NoOutcome,
           plans'[p].status \in Closed \/ Local(p).status \notin Terminal
    PROVE  LocalStep
<1>1. /\ Mark(p, {"acknowledged"}) /\ Proceed(p)
      /\ UNCHANGED <<length, saved, done, pending>>
  BY DEF Acknowledged, viewerVars
<1>2. journal \in [Plans -> Entries] /\ length \in Nat
  BY DEF RuntimeInv, LocalInv, LocalType
<1>3. ASSUME NEW q \in Plans PROVE SameEntry(q)
  <2>1. CASE q = p
    <3>1. journal[p] \in Entries
          /\ journal'[p] = [journal[p] EXCEPT !.marks = @ \cup {"acknowledged"}]
      BY <1>1, <1>2 DEF Mark, Append1
    <3>2. QED
      BY <2>1, <3>1 DEF SameEntry, Entries
  <2>2. CASE q # p
    BY <1>1, <1>2, <2>2 DEF Mark, Append1, SameEntry
  <2>3. QED
    BY <2>1, <2>2
<1>4. Calm
  BY <1>1, <1>2, <1>3 DEF Calm
<1>5. Called
  BY <1>1, CallIs
<1>6. HostInv' /\ host' \in Hosts
  <2>1. \A q \in Plans : Settled(q)
    BY <1>4, CalmKeeps DEF PlanSteps
  <2>2. QED
    BY <1>1, <2>1, HostProceeds
<1>7. QED
  BY <1>4, <1>5, <1>6, CalmStep

LEMMA RegisterKeeps ==
    ASSUME RuntimeInv, ServerFacts, LocalInv', RegisterCall PROVE LocalStep
<1>1. UNCHANGED <<journal, length, done, pending>>
  BY DEF RegisterCall, viewerVars
<1>2. CASE Answered /\ saved' = session'.id /\ Goto("idle")
  <2>1. Called
    BY <1>1, <1>2, CallIs
  <2>2. Calm
    <3>1. length <= length'
      BY <1>1 DEF RuntimeInv, LocalInv, LocalType
    <3>2. QED
      BY <1>1, <3>1, Unwritten
  <2>3. host' \in Hosts /\ host'.at = "idle" /\ host'.todo = host.todo
    BY <1>2 DEF Goto, RuntimeInv, RestType, Hosts
  <2>4. HostInv'
    BY <1>1, <2>3, HostTurns DEF RuntimeInv, HostInv, Local
  <2>5. QED
    BY <2>1, <2>2, <2>3, <2>4, CalmStep
<1>3. CASE UNCHANGED <<saved, host>> /\ \E m : Lost(m) /\ LateOK(m)
  <2>1. Called
    BY <1>1, <1>3, CallIs
  <2>2. QED
    BY <1>1, <1>3, <2>1, IdleStep
<1>4. QED
  BY <1>2, <1>3, PlainRequest DEF RegisterCall

\* A leased plan is new to the journal.
LEMMA LeaseKeeps ==
    ASSUME RuntimeInv, ServerFacts, LocalInv', LeaseCall PROVE LocalStep
<1>1. UNCHANGED <<journal, length, saved, done, pending>>
  BY DEF LeaseCall, viewerVars
<1>2. CASE UNCHANGED host /\ (Answered \/ \E m : Lost(m) /\ LateOK(m))
  <2>1. Called
    BY <1>1, <1>2, CallIs
  <2>2. QED
    BY <1>1, <1>2, <2>1, IdleStep
<1>3. CASE Refused /\ Stop
  <2>1. Called
    BY <1>1, <1>3, CallIs
  <2>2. QED
    BY <1>1, <1>3, <2>1, DownStep DEF Stop
<1>4. CASE Answered /\ \E p \in Plans : /\ Lease(saved, p)
                                       /\ host' = [host EXCEPT !.at = "executing", !.plan = p]
  <2>1. PICK p \in Plans : /\ Lease(saved, p)
                           /\ host' = [host EXCEPT !.at = "executing", !.plan = p]
    BY <1>4
  <2>2. Called
    BY <1>1, <1>4, CallIs
  <2>3. Calm
    <3>1. length <= length'
      BY <1>1 DEF RuntimeInv, LocalInv, LocalType
    <3>2. QED
      BY <1>1, <3>1, Unwritten
  <2>4. /\ host' \in Hosts /\ host'.at = "executing" /\ host'.plan = p
        /\ host'.todo = host.todo
    BY <2>1 DEF RuntimeInv, RestType, Hosts
  <2>5. plans[p].status = "queued" /\ plans[p].attempts = 0
    BY <2>1, Facts DEF Lease, Leasable, RuntimeInv, RowOK
  <2>6. Local(p) = NoOutcome
    BY <2>5, EntryFacts DEF EntryInv, Local
  <2>7. plans'[p].attempts = 1
    <3>1. plans'[p] = [Swept[p] EXCEPT !.status = "leased", !.live = TRUE,
                                       !.fresh = FALSE, !.attempts = @ + 1]
      BY <2>1 DEF Lease, Swept
    <3>2. Swept[p] = plans[p] /\ plans[p] \in Rows
      BY <2>1, <2>5, Facts DEF Swept, LeaseLapsed, Lease, Leasable, RuntimeInv
    <3>3. QED
      BY <2>5, <3>1, <3>2 DEF Rows
  <2>8. HostInv'
    BY <1>1, <2>4, <2>6, <2>7 DEF RuntimeInv, HostInv, Local
  <2>9. QED
    BY <2>2, <2>3, <2>4, <2>8, CalmStep
<1>5. QED
  BY <1>2, <1>3, <1>4, PlainRequest DEF LeaseCall

\* A plan with a signed outcome was handed out.
LEMMA SignedWasIssued ==
    ASSUME RuntimeInv, NEW p \in Plans, Local(p) # NoOutcome
    PROVE  /\ plans[p].attempts = 1
           /\ Local(p) = Signed(Local(p).status, Local(p).seq)
           /\ plans[p].status \notin {"none", "queued", "expired"}
           /\ plans[p].status \in Unresolved \cup Closed
<1>1. EntryInv(p) /\ RowOK(p) /\ plans[p] \in Rows
  BY EntryFacts, Facts DEF RuntimeInv
<1>2. plans[p].attempts = 1 /\ Local(p) = Signed(Local(p).status, Local(p).seq)
  BY <1>1 DEF EntryInv, Local
<1>3. plans[p].status \notin {"none", "queued", "expired"}
  BY <1>1, <1>2 DEF RowOK
<1>4. QED
  BY <1>1, <1>2, <1>3 DEF Rows

LEMMA OutcomeRequestOK ==
    ASSUME RuntimeInv, NEW p \in Plans, Local(p) # NoOutcome, NEW t
    PROVE  LateOK(Request("outcome", t, p, Local(p).status, Local(p).seq))
BY SignedWasIssued DEF LateOK, Request

LEMMA SettleKeeps ==
    ASSUME RuntimeInv, ServerFacts, LocalInv', NEW p \in Plans, Settle(p) PROVE LocalStep
<1>1. /\ UNCHANGED <<journal, length, saved, done, pending>> /\ Refused
      /\ p \in host.todo /\ Local(p) # NoOutcome
  BY DEF Settle, viewerVars, RuntimeInv, HostInv
<1>2. Called
  BY <1>1, CallIs
<1>3. Calm
  <2>1. length <= length'
    BY <1>1 DEF RuntimeInv, LocalInv, LocalType
  <2>2. QED
    BY <1>1, <2>1, Unwritten
<1>4. /\ host'.plan = p /\ host'.todo = host.todo
      /\ host'.at = IF Local(p).status \in Terminal THEN "delivering" ELSE "reconciling"
  BY DEF Settle, RuntimeInv, RestType, Hosts
<1>5. host' \in Hosts
  <2>1. saved \in Nat
    <3>1. session.id \in Nat
      BY Facts DEF RuntimeInv
    <3>2. QED
      BY <3>1 DEF RuntimeInv, RestType
  <2>2. host \in Hosts
    BY DEF RuntimeInv, RestType
  <2> DEFINE o == IF saved = plans[p].session THEN saved ELSE 0
             a == IF Local(p).status \in Terminal THEN "delivering" ELSE "reconciling"
  <2>3. o \in Nat /\ a \in {"delivering", "reconciling"}
    BY <2>1
  <2>4. host' = [host EXCEPT !.plan = p, !.right = 0, !.original = o, !.at = a]
    BY DEF Settle
  <2> HIDE DEF o, a
  <2>5. QED
    BY <2>2, <2>3, <2>4 DEF Hosts
<1>6. HostInv'
  BY <1>1, <1>4 DEF HostInv, RuntimeInv, LeftInDoubt, Local
<1>7. QED
  BY <1>2, <1>3, <1>5, <1>6, CalmStep

LEMMA DeliverKeeps ==
    ASSUME RuntimeInv, ServerFacts, LocalInv', NEW p \in Plans, Deliver(p) PROVE LocalStep
<1> DEFINE o == Local(p)
<1>1. /\ o.status \in Terminal /\ o # NoOutcome
      /\ host.at = "delivering" /\ host.plan = p
  BY DEF Deliver, RuntimeInv, RestType, HostInv, Terminal, NoOutcome
<1>2. CASE Acknowledged(p) /\ Answered /\ \E t : Complete(t, p, journal[p].results, o.status, o.seq)
  <2>1. plans'[p].status = o.status
    <3>1. plans \in [Plans -> Rows]
      BY Facts DEF RuntimeInv, TypeOK
    <3>2. QED
      BY <1>2, <3>1 DEF Complete, Record, Signed, Rows
  <2>2. plans'[p].status \in Closed
    BY <1>1, <2>1 DEF Terminal, Closed
  <2>3. QED
    BY <1>1, <1>2, <2>2, AcknowledgedKeeps
<1>3. CASE Acknowledged(p) /\ Refused /\ \E t : AlreadyRecorded(t, p, o.status, o.seq)
  <2>1. plans[p].outcome = Signed(o.status, o.seq)
    BY <1>3 DEF AlreadyRecorded
  <2>2. RowOK(p)
    BY Facts DEF RuntimeInv
  <2>3. plans[p].status \notin Unresolved
    BY <1>1, <2>1, <2>2 DEF RowOK, Unresolved, Uncertain, Terminal, Signed, NoOutcome
  <2>4. plans[p].status \in Closed
    BY <1>1, <2>3, SignedWasIssued
  <2>5. plans' = plans
    BY <1>3 DEF Refused, serverVars
  <2>6. QED
    BY <1>1, <1>3, <2>4, <2>5, AcknowledgedKeeps
<1>4. CASE Refused /\ UNCHANGED <<journal, length, saved, viewerVars>> /\ Stop
  <2>1. Called
    BY <1>4, CallIs
  <2>2. QED
    BY <1>4, <2>1, DownStep DEF Stop, viewerVars
<1>5. CASE /\ Refused /\ UNCHANGED <<journal, length, saved, viewerVars>>
           /\ Forget("original")
  <2>1. Called
    BY <1>1, <1>5, CallIs
  <2>2. /\ host' \in Hosts /\ host'.at = host.at /\ host'.plan = host.plan
        /\ host'.todo = host.todo /\ host'.evidence = host.evidence
    BY <1>5 DEF Forget, RuntimeInv, RestType, Hosts
  <2>3. QED
    BY <1>5, <2>1, <2>2, WaitStep DEF viewerVars
<1>6. CASE /\ \E t : Lost(Request("outcome", t, p, o.status, o.seq))
           /\ UNCHANGED <<journal, length, saved, host, viewerVars>>
  <2>1. \E m : Lost(m) /\ LateOK(m)
    BY <1>1, <1>6, OutcomeRequestOK
  <2>2. Called
    BY <1>1, <1>6, <2>1, CallIs DEF viewerVars
  <2>3. QED
    BY <1>6, <2>2, IdleStep DEF viewerVars
<1>7. QED
  BY <1>2, <1>3, <1>4, <1>5, <1>6 DEF Deliver

LEMMA RecoveryCallKeeps ==
    ASSUME RuntimeInv, ServerFacts, LocalInv', NEW p \in Plans, RecoveryCall(p) PROVE LocalStep
<1>1. /\ Local(p) # NoOutcome
      /\ host.at \in {"delivering", "reconciling"} /\ host.plan = p
  BY DEF RecoveryCall, Recovering, RuntimeInv, RestType, HostInv, Terminal, NoOutcome, LeftInDoubt
<1>2. CASE /\ host' = [host EXCEPT !.right = recovery'.id]
           /\ Answered /\ UNCHANGED <<journal, length, saved, viewerVars>>
  <2>1. Called
    BY <1>1, <1>2, CallIs DEF viewerVars
  <2>2. recovery'.id \in Nat
    BY DEF ServerFacts, StepFacts, TypeOK, Recoveries
  <2>3. /\ host' \in Hosts /\ host'.at = host.at /\ host'.plan = host.plan
        /\ host'.todo = host.todo /\ host'.evidence = host.evidence
    BY <1>2, <2>2 DEF RuntimeInv, RestType, Hosts
  <2>4. QED
    BY <1>2, <2>1, <2>3, WaitStep DEF viewerVars
<1>3. CASE SessionOver(gen) /\ ~Recoverable(p) /\ Refused /\ Acknowledged(p)
  <2>1. RowOK(p) /\ (plans[p].live => session.live)
    BY Facts DEF RuntimeInv
  <2>2. plans[p].status \notin Unresolved
    BY <1>3, <2>1 DEF SessionOver, Recoverable, LeaseLapsed, RowOK, Open, Unresolved, Uncertain
  <2>3. plans[p].status \in Closed
    BY <1>1, <2>2, SignedWasIssued
  <2>4. plans' = plans
    BY <1>3 DEF Refused, serverVars
  <2>5. QED
    BY <1>1, <1>3, <2>3, <2>4, AcknowledgedKeeps
<1>4. CASE /\ Lost(Request("recovery", 0, p, "none", 0))
           /\ UNCHANGED <<journal, length, saved, host, viewerVars>>
  <2>1. LateOK(Request("recovery", 0, p, "none", 0))
    BY DEF LateOK, Request
  <2>2. Called
    BY <1>1, <1>4, <2>1, CallIs DEF viewerVars
  <2>3. QED
    BY <1>4, <2>2, IdleStep DEF viewerVars
<1>5. QED
  BY <1>2, <1>3, <1>4 DEF RecoveryCall

LEMMA AcknowledgeCallKeeps ==
    ASSUME RuntimeInv, ServerFacts, LocalInv', NEW p \in Plans, AcknowledgeCall(p)
    PROVE  LocalStep
<1> DEFINE o == Local(p)
<1>1. /\ Local(p) # NoOutcome
      /\ host.at = "delivering" /\ host.plan = p
  BY DEF AcknowledgeCall, Recovering, RuntimeInv, RestType, HostInv, Terminal, NoOutcome
<1>2. CASE Answered /\ Acknowledged(p) /\ \E t : Acknowledge(t, p, o.status, o.seq)
  <2>1. plans'[p].status \in Closed
    BY <1>2 DEF Acknowledge, CanAcknowledge, Closed
  <2>2. QED
    BY <1>1, <1>2, <2>1, AcknowledgedKeeps
<1>3. CASE Refused /\ UNCHANGED <<journal, length, saved, viewerVars>> /\ Stop
  <2>1. Called
    BY <1>3, CallIs
  <2>2. QED
    BY <1>3, <2>1, DownStep DEF Stop, viewerVars
<1>4. CASE /\ Refused /\ UNCHANGED <<journal, length, saved, viewerVars>>
           /\ Forget("right")
  <2>1. Called
    BY <1>1, <1>4, CallIs
  <2>2. /\ host' \in Hosts /\ host'.at = host.at /\ host'.plan = host.plan
        /\ host'.todo = host.todo /\ host'.evidence = host.evidence
    BY <1>4 DEF Forget, RuntimeInv, RestType, Hosts
  <2>3. QED
    BY <1>4, <2>1, <2>2, WaitStep DEF viewerVars
<1>5. CASE /\ \E t : Lost(Request("acknowledge", t, p, o.status, o.seq))
           /\ UNCHANGED <<journal, length, saved, host, viewerVars>>
  <2>1. Called
    BY <1>1, <1>5, PlainRequest, CallIs DEF viewerVars
  <2>2. QED
    BY <1>5, <2>1, IdleStep DEF viewerVars
<1>6. QED
  BY <1>2, <1>3, <1>4, <1>5 DEF AcknowledgeCall

LEMMA ReportKeeps ==
    ASSUME RuntimeInv, ServerFacts, LocalInv', NEW p \in Plans, Report(p) PROVE LocalStep
<1>1. Local(p) # NoOutcome
  BY DEF Report, RuntimeInv, HostInv, LeftInDoubt
<1>2. Answered \/ Refused \/ \E m : Lost(m) /\ LateOK(m)
  BY <1>1, OutcomeRequestOK DEF Report
<1>3. UNCHANGED <<journal, length, saved, done, pending>> /\ host' = Down
  BY DEF Report, Stop, viewerVars
<1>4. Called
  BY <1>2, <1>3, CallIs
<1>5. QED
  BY <1>3, <1>4, DownStep

-----------------------------------------------------------------------------
(* Reconciliation.                                                         *)

LEMMA ProbeKeeps ==
    ASSUME RuntimeInv, ServerFacts, LocalInv', NEW p \in Plans, Probe(p) PROVE LocalStep
<1>1. /\ LeftInDoubt(p)
      /\ host.at = "reconciling" /\ host.plan = p /\ Refused
  BY DEF Probe, RuntimeInv, HostInv
<1>2. CASE Acknowledged(p)
  BY <1>1, <1>2, AcknowledgedKeeps DEF LeftInDoubt
<1>3. CASE Stop /\ UNCHANGED <<journal, length, saved, viewerVars>>
  <2>1. Called
    BY <1>1, <1>3, CallIs DEF viewerVars
  <2>2. QED
    BY <1>1, <1>3, <2>1, DownStep DEF Stop, viewerVars
<1>4. CASE /\ \E seen \in Sights(p) :
                  host' = [host EXCEPT
                      !.at = "probed",
                      !.evidence = [seq |-> lastSeq + 1, verdict |-> Reconciled(p, seen),
                          inconclusive |-> \E i \in Probed(p) : seen[i] = "inconclusive"]]
           /\ length' = length + 1
           /\ UNCHANGED <<journal, saved, viewerVars>>
  <2>1. PICK seen \in Sights(p) :
            host' = [host EXCEPT
                !.at = "probed",
                !.evidence = [seq |-> lastSeq + 1, verdict |-> Reconciled(p, seen),
                    inconclusive |-> \E i \in Probed(p) : seen[i] = "inconclusive"]]
    BY <1>4
  <2>2. PICK v, n : v = Reconciled(p, seen) /\ n = lastSeq + 1
    OBVIOUS
  <2> DEFINE b == \E i \in Probed(p) : seen[i] = "inconclusive"
             e == [seq |-> n, verdict |-> v, inconclusive |-> b]
  <2>3. v \in Verdicts \ {"outcome_unknown"}
    BY <2>2 DEF Reconciled, Verdicts
  <2>4. lastSeq \in Nat /\ length \in Nat /\ lastSeq <= length /\ b \in BOOLEAN
    BY Facts DEF RuntimeInv, LocalInv, LocalType, RestType
  <2>5. UNCHANGED <<journal, saved, done, pending>> /\ length' = length + 1 /\ length <= length'
        /\ n \in Nat /\ n <= length'
    BY <1>4, <2>2, <2>4 DEF viewerVars
  <2>6. e.verdict = v /\ e.seq = n
        /\ e \in [seq : Nat, verdict : Verdicts \cup {"none"}, inconclusive : BOOLEAN]
    <3> HIDE DEF b
    <3>1. QED
      BY <2>3, <2>4, <2>5
  <2>7. /\ host' \in Hosts /\ host'.at = "probed" /\ host'.plan = p /\ host'.todo = host.todo
        /\ host'.evidence = e
    <3>1. host \in Hosts /\ host' = [host EXCEPT !.at = "probed", !.evidence = e]
      BY <2>1, <2>2 DEF RuntimeInv, RestType
    <3> HIDE DEF e
    <3>2. QED
      BY <1>1, <2>6, <3>1 DEF Hosts
  <2>8. Called /\ Calm
    BY <1>1, <2>5, CallIs, Unwritten
  <2>9. EvidenceOK(p, v, n)'
    BY <1>1, <2>3, <2>5 DEF EvidenceOK, LeftInDoubt, Local
  <2>10. host'.evidence.verdict = v /\ host'.evidence.seq = n
    BY <2>6, <2>7
  <2>11. EvidenceOK(host.plan, host.evidence.verdict, host.evidence.seq)'
    BY <2>7, <2>9, <2>10 DEF EvidenceOK, LeftInDoubt, Local
  <2>12. HostInv'
    <3>1. \A q \in host'.todo : Local(q)' # NoOutcome
      BY <2>5, <2>7 DEF HostInv, RuntimeInv, Local
    <3>2. LeftInDoubt(host.plan)'
      BY <2>11 DEF EvidenceOK
    <3>3. QED
      BY <2>7, <2>11, <3>1, <3>2 DEF HostInv
  <2>13. QED
    BY <2>7, <2>8, <2>12, CalmStep
<1>5. QED
  BY <1>1, <1>2, <1>3, <1>4 DEF Probe

\* A mark that does not forget the plan.
LEMMA MarkedKeeps ==
    ASSUME RuntimeInv, LocalInv', NEW p \in Plans, LeftInDoubt(p), NEW m, Mark(p, m),
           UNCHANGED <<length, done, pending>>
    PROVE  Calm
<1>1. journal \in [Plans -> Entries] /\ length \in Nat
  BY DEF RuntimeInv, LocalInv, LocalType
<1>2. ASSUME NEW q \in Plans PROVE SameEntry(q)
  <2>1. CASE q = p
    <3>1. journal[p] \in Entries /\ journal'[p] = [journal[p] EXCEPT !.marks = @ \cup m]
      BY <1>1 DEF Mark, Append1
    <3>2. QED
      BY <2>1, <3>1 DEF SameEntry, Entries, LeftInDoubt
  <2>2. CASE q # p
    BY <1>1, <2>2 DEF Mark, Append1, SameEntry
  <2>3. QED
    BY <2>1, <2>2
<1>3. QED
  BY <1>1, <1>2 DEF Calm

LEMMA SendEvidenceKeeps ==
    ASSUME RuntimeInv, ServerFacts, LocalInv', NEW p \in Plans, SendEvidence(p)
    PROVE  LocalStep
<1> DEFINE e == host.evidence
<1>1. /\ EvidenceOK(p, e.verdict, e.seq) /\ LeftInDoubt(p)
      /\ host.at = "probed" /\ host.plan = p
  BY DEF SendEvidence, RuntimeInv, HostInv
<1>2. CASE Acknowledged(p) /\ Refused
  BY <1>1, <1>2, AcknowledgedKeeps DEF LeftInDoubt
<1>3. CASE /\ Stop /\ UNCHANGED <<journal, length, saved, viewerVars>>
           /\ Refused \/ Lost(Request("reconcile", host.right, p, e.verdict, e.seq))
  <2>1. LateOK(Request("reconcile", host.right, p, e.verdict, e.seq))
    BY <1>1 DEF LateOK, Request
  <2>2. Called
    BY <1>1, <1>3, <2>1, CallIs DEF viewerVars
  <2>3. QED
    BY <1>1, <1>3, <2>2, DownStep DEF Stop, viewerVars
<1>4. CASE /\ Answered /\ Mark(p, {"reconciled"}) /\ Goto("reconciled")
           /\ UNCHANGED <<length, saved, viewerVars>>
  <2>1. Called
    BY <1>1, <1>4, CallIs DEF viewerVars
  <2>2. Calm
    BY <1>1, <1>4, MarkedKeeps DEF viewerVars
  <2>3. /\ host' \in Hosts /\ host'.at = "reconciled" /\ host'.plan = p
        /\ host'.todo = host.todo
    BY <1>1, <1>4 DEF Goto, RuntimeInv, RestType, Hosts
  <2>4. \A q \in Plans : journal'[q].outcome = Local(q)
    BY <2>2 DEF Calm, SameEntry, Local
  <2>5. HostInv'
    BY <1>1, <2>3, <2>4 DEF HostInv, RuntimeInv, RestType, Hosts, LeftInDoubt, Local
  <2>6. QED
    BY <2>1, <2>2, <2>3, <2>5, CalmStep
<1>5. QED
  BY <1>2, <1>3, <1>4 DEF SendEvidence

LEMMA CloseReconciliationKeeps ==
    ASSUME RuntimeInv, ServerFacts, LocalInv', NEW p \in Plans, CloseReconciliation(p)
    PROVE  LocalStep
<1>1. /\ LeftInDoubt(p) /\ Refused /\ Proceed(p)
      /\ UNCHANGED <<length, saved, done, pending>>
  BY DEF CloseReconciliation, viewerVars, RuntimeInv, HostInv
<1>2. Calm
  <2>1. \E m : Mark(p, m)
    BY DEF CloseReconciliation
  <2>2. QED
    BY <1>1, <2>1, MarkedKeeps
<1>3. Called
  BY <1>1, CallIs
<1>4. HostInv' /\ host' \in Hosts
  <2>1. \A q \in Plans : Settled(q)
    BY <1>2, CalmKeeps DEF PlanSteps
  <2>2. QED
    BY <1>1, <2>1, HostProceeds
<1>5. QED
  BY <1>2, <1>3, <1>4, CalmStep

LEMMA SettlingKeeps == RuntimeInv /\ ServerFacts /\ LocalInv' /\ Settling => LocalStep
BY SettleKeeps, DeliverKeeps, RecoveryCallKeeps, AcknowledgeCallKeeps, ReportKeeps, ProbeKeeps,
   SendEvidenceKeeps, CloseReconciliationKeeps DEF Settling

-----------------------------------------------------------------------------
(* Execution.                                                              *)

\* The executing host's plan was handed out and is not signed.
LEMMA ExecutingIs ==
    ASSUME RuntimeInv, NEW p \in Plans, Executing(p)
    PROVE  /\ plans[p].attempts = 1 /\ Local(p) = NoOutcome /\ journal[p].marks = {}
           /\ host.at = "executing" /\ host.plan = p /\ host.todo = {}
           /\ length \in Nat
<1>1. /\ host.at = "executing" /\ host.plan = p
      /\ plans[p].attempts = 1 /\ Local(p) = NoOutcome /\ host.todo = {}
  BY DEF Executing, RuntimeInv, HostInv, LocalInv, TodoOK
<1>2. journal[p].marks = {}
  BY <1>1, EntryFacts DEF EntryInv, Local
<1>3. QED
  BY <1>1, <1>2, EntryFacts

\* The other plans, while the host works on one.
LEMMA OthersKept ==
    ASSUME RuntimeInv, ServerFacts, NEW p \in Plans, NEW e, Append1(p, e),
           length' \in Nat, length <= length', NEW q \in Plans, q # p,
           done'[q] = done[q], pending'[q] = pending[q]
    PROVE  PlanSteps(q)
<1>1. journal'[q] = journal[q] /\ Kept(q) /\ EntryInv(q)
  BY RowsAgree, EntryFacts DEF Append1, RuntimeInv, LocalInv, LocalType
<1>2. EntryInv(q)'
  BY <1>1, EntryKept
<1>3. Settled(q) /\ Marked(q)
  BY <1>1 DEF Settled, Marked, Local, EntryInv
<1>4. QED
  BY <1>2, <1>3 DEF PlanSteps, Works

\* A step of the executing host, which rewrites the entry of its plan.
LEMMA WorkStep ==
    ASSUME RuntimeInv, ServerFacts, LocalInv', NEW p \in Plans, Executing(p), Refused,
           NEW e \in Entries, Append1(p, e), e.outcome = NoOutcome, e.marks = {},
           Last(e) <= Len(Steps[p]),
           \A i \in 1..Len(e.results) : i \in Writes(p) =>
               /\ e.results[i] = "succeeded" => i \in done[p]
               /\ e.results[i] = "failed_without_effect" => i \notin done[p],
           UNCHANGED <<length, saved, host, done>>,
           NEW w \in SUBSET Writes(p), pending' = [pending EXCEPT ![p] = w],
           w \subseteq pending[p] \/ plans[p].status \in Unresolved
    PROVE  LocalStep
<1>1. /\ journal'[p] = e /\ length' \in Nat /\ length <= length' /\ plans' = plans
      /\ pending'[p] = w /\ \A q \in Plans \ {p} : pending'[q] = pending[q]
  BY DEF Append1, RuntimeInv, LocalInv, LocalType, Refused, serverVars
<1>2. Writes(p)' = Writes(p) /\ EntryInv(p) /\ Kept(p)
  BY RowsAgree, EntryFacts DEF Writes, StepsOf
<1>3. EntryInv(p)'
  BY <1>1, <1>2, ExecutingIs DEF EntryInv, Kept, Last
<1>4. PlanSteps(p)
  BY <1>1, <1>3, ExecutingIs DEF PlanSteps, Settled, Marked, Works
<1>5. \A q \in Plans : PlanSteps(q)
  BY <1>1, <1>4, OthersKept
<1>6. HostInv'
  BY <1>1, <1>5, ExecutingIs, HostStays DEF PlanSteps
<1>7. Called /\ host' \in Hosts
  BY CallIs DEF RuntimeInv, RestType
<1>8. QED
  BY <1>1, <1>5, <1>6, <1>7 DEF LocalStep, Called

\* ... and asks nothing of the viewer.
LEMMA QuietWork ==
    ASSUME RuntimeInv, ServerFacts, LocalInv', NEW p \in Plans, Executing(p), Refused,
           NEW e \in Entries, Append1(p, e), e.outcome = NoOutcome, e.marks = {},
           Last(e) <= Len(Steps[p]),
           \A i \in 1..Len(e.results) : i \in Writes(p) =>
               /\ e.results[i] = "succeeded" => i \in done[p]
               /\ e.results[i] = "failed_without_effect" => i \notin done[p],
           UNCHANGED <<length, saved, host, viewerVars>>
    PROVE  LocalStep
<1>1. pending[p] \in SUBSET Writes(p) /\ pending' = [pending EXCEPT ![p] = pending[p]]
  BY EntryFacts DEF EntryInv, viewerVars, RuntimeInv, LocalInv, LocalType
<1>2. QED
  BY <1>1, WorkStep DEF viewerVars

LEMMA ReceiveKeeps ==
    ASSUME RuntimeInv, ServerFacts, LocalInv', NEW p \in Plans, Receive(p) PROVE LocalStep
<1> DEFINE e == [Blank EXCEPT !.lease = "received"]
<1>1. /\ e \in Entries /\ e.results = <<>> /\ ~e.open /\ Len(e.results) = 0
      /\ e.outcome = NoOutcome /\ e.marks = {}
  BY BlankType DEF Entries, Blank
<1>2. /\ Executing(p) /\ Append1(p, e) /\ Refused
      /\ UNCHANGED <<length, saved, host, viewerVars>>
  BY DEF Receive
<1>3. Len(Steps[p]) \in Nat
  BY ConnectorAssumption
<1> HIDE DEF e
<1>4. Last(e) <= Len(Steps[p])
  BY <1>1, <1>3 DEF Last
<1>5. QED
  BY <1>1, <1>2, <1>4, QuietWork

LEMMA AcquireKeeps ==
    ASSUME RuntimeInv, ServerFacts, LocalInv', NEW p \in Plans, Acquire(p) PROVE LocalStep
<1> DEFINE e == [journal[p] EXCEPT !.lease = "acquired"]
<1>1. /\ e \in Entries /\ e.results = journal[p].results /\ e.open = journal[p].open
      /\ e.outcome = Local(p) /\ e.marks = journal[p].marks
  BY EntryFacts DEF Entries, Local
<1>2. /\ Executing(p) /\ Append1(p, e) /\ Refused
      /\ UNCHANGED <<length, saved, host, viewerVars>>
  BY DEF Acquire
<1> HIDE DEF e
<1>3. Last(e) = Last(journal[p])
  BY <1>1 DEF Last
<1>4. QED
  BY <1>1, <1>2, <1>3, EntryFacts, ExecutingIs, QuietWork DEF EntryInv

\* A host that is ready for another step has one left, and no write on the way.
LEMMA ReadyIs ==
    ASSUME RuntimeInv, NEW p \in Plans, Ready(p)
    PROVE  /\ Executing(p) /\ ~journal[p].open /\ journal[p].lease = "acquired"
           /\ pending[p] = {}
           /\ Len(journal[p].results) + 1 <= Len(Steps[p])
           /\ NextStep(p) \in StepsOf(p)
           /\ done[p] \subseteq 1..Len(journal[p].results)
           /\ NextStep(p) \notin done[p]
<1> DEFINE n == Len(journal[p].results)
<1>1. /\ Executing(p) /\ ~journal[p].open /\ journal[p].lease = "acquired"
      /\ n # Len(Steps[p]) /\ pending[p] = {} /\ done[p] \subseteq 1..n
  BY ReadyIsQuiet DEF Ready, Finished, RuntimeInv
<1>2. n \in Nat /\ Len(Steps[p]) \in Nat /\ n <= Len(Steps[p])
  BY <1>1, EntryFacts, ConnectorAssumption DEF EntryInv, Last
<1>3. n + 1 <= Len(Steps[p]) /\ n + 1 \in 1..Len(Steps[p])
  BY <1>1, <1>2
<1>4. n + 1 \notin done[p]
  BY <1>1, <1>2
<1>5. QED
  BY <1>1, <1>3, <1>4 DEF NextStep, StepsOf

\* One more result.
LEMMA AppendedIs ==
    ASSUME RuntimeInv, NEW p \in Plans, NEW r \in Verdicts,
           NextStep(p) \in Writes(p) =>
               /\ r = "succeeded" => NextStep(p) \in done[p]
               /\ r = "failed_without_effect" => NextStep(p) \notin done[p]
    PROVE  LET s == Append(journal[p].results, r) IN
           /\ s \in Seq(Verdicts) /\ Len(s) = Len(journal[p].results) + 1
           /\ s[Len(s)] = r
           /\ \A i \in 1..Len(s) : i \in Writes(p) =>
                  /\ s[i] = "succeeded" => i \in done[p]
                  /\ s[i] = "failed_without_effect" => i \notin done[p]
<1> DEFINE n == Len(journal[p].results)
           s == Append(journal[p].results, r)
<1>1. /\ n \in Nat /\ s \in Seq(Verdicts) /\ Len(s) = n + 1 /\ s[n + 1] = r
      /\ \A i \in 1..n : s[i] = journal[p].results[i]
  BY EntryFacts
<1>2. ASSUME NEW i \in 1..Len(s), i \in Writes(p)
      PROVE  /\ s[i] = "succeeded" => i \in done[p]
             /\ s[i] = "failed_without_effect" => i \notin done[p]
  <2>1. CASE i \in 1..n
    BY <1>1, <1>2, <2>1, EntryFacts DEF EntryInv
  <2>2. CASE i = n + 1
    BY <1>1, <1>2, <2>2 DEF NextStep
  <2> HIDE DEF s, n
  <2>3. QED
    BY <1>1, <2>1, <2>2
<1> HIDE DEF s
<1>3. QED
  BY <1>1, <1>2 DEF s

LEMMA StepNotStartedKeeps ==
    ASSUME RuntimeInv, ServerFacts, LocalInv', NEW p \in Plans, StepNotStarted(p)
    PROVE  LocalStep
<1> DEFINE s == Append(journal[p].results, "failed_without_effect")
           e == [journal[p] EXCEPT !.results = s]
<1>1. Ready(p) /\ Append1(p, e) /\ Refused /\ UNCHANGED <<length, saved, host, viewerVars>>
  BY DEF StepNotStarted
<1>2. /\ s \in Seq(Verdicts) /\ Len(s) = Len(journal[p].results) + 1
      /\ \A i \in 1..Len(s) : i \in Writes(p) =>
             /\ s[i] = "succeeded" => i \in done[p]
             /\ s[i] = "failed_without_effect" => i \notin done[p]
  BY <1>1, ReadyIs, AppendedIs DEF Verdicts
<1> HIDE DEF s
<1>3. /\ e \in Entries /\ e.results = s /\ e.open = journal[p].open
      /\ e.outcome = Local(p) /\ e.marks = journal[p].marks
  BY <1>2, EntryFacts DEF Entries, Local
<1> HIDE DEF e
<1>4. Last(e) <= Len(Steps[p])
  BY <1>1, <1>2, <1>3, ReadyIs DEF Last
<1>5. QED
  BY <1>1, <1>2, <1>3, <1>4, ReadyIs, ExecutingIs, QuietWork

LEMMA InvokeKeeps ==
    ASSUME RuntimeInv, ServerFacts, LocalInv', NEW p \in Plans, Invoke(p) PROVE LocalStep
<1> DEFINE e == [journal[p] EXCEPT !.open = TRUE]
           w == pending[p] \cup ({NextStep(p)} \cap Writes(p))
<1>1. /\ Ready(p) /\ Append1(p, e) /\ Refused /\ plans[p].live
      /\ UNCHANGED <<length, saved, host, done>>
      /\ pending' = [pending EXCEPT ![p] = w]
  BY DEF Invoke, Asked
<1>2. /\ e \in Entries /\ e.results = journal[p].results /\ e.open
      /\ e.outcome = Local(p) /\ e.marks = journal[p].marks
  BY EntryFacts DEF Entries, Local
<1> HIDE DEF e
<1>3. Last(e) = NextStep(p) /\ Last(e) <= Len(Steps[p])
  BY <1>1, <1>2, ReadyIs DEF Last, NextStep
<1>4. w \in SUBSET Writes(p)
  BY EntryFacts DEF EntryInv
<1>5. plans[p].status \in Unresolved
  BY <1>1, Facts DEF RuntimeInv, RowOK
<1> HIDE DEF w
<1>6. /\ Executing(p) /\ e.outcome = NoOutcome /\ e.marks = {}
      /\ \A i \in 1..Len(e.results) : i \in Writes(p) =>
             /\ e.results[i] = "succeeded" => i \in done[p]
             /\ e.results[i] = "failed_without_effect" => i \notin done[p]
  BY <1>1, <1>2, ReadyIs, ExecutingIs, EntryFacts DEF EntryInv
<1>7. QED
  BY <1>1, <1>2, <1>3, <1>4, <1>5, <1>6, WorkStep

LEMMA StepReturnsKeeps ==
    ASSUME RuntimeInv, ServerFacts, LocalInv', NEW p \in Plans, StepReturns(p) PROVE LocalStep
<1>1. PICK r \in Results(p) :
          /\ Append1(p, [journal[p] EXCEPT !.results = Append(@, r), !.open = FALSE])
          /\ pending' = [pending EXCEPT ![p] = IF r = "outcome_unknown" THEN @ ELSE {}]
  BY DEF StepReturns
<1> DEFINE s == Append(journal[p].results, r)
           w == IF r = "outcome_unknown" THEN pending[p] ELSE {}
           e == [journal[p] EXCEPT !.results = s, !.open = FALSE]
<1>2. /\ Executing(p) /\ journal[p].open /\ Refused /\ Append1(p, e)
      /\ UNCHANGED <<length, saved, host, done>>
  BY <1>1 DEF StepReturns
<1>3. NextStep(p) \in Writes(p) =>
          /\ r = "succeeded" => NextStep(p) \in done[p]
          /\ r = "failed_without_effect" => NextStep(p) \notin done[p]
  <2> SUFFICES ASSUME NextStep(p) \in Writes(p)
               PROVE  /\ r = "succeeded" => NextStep(p) \in done[p]
                      /\ r = "failed_without_effect" => NextStep(p) \notin done[p]
    OBVIOUS
  <2>1. Steps[p][NextStep(p)] = "write"
    BY DEF Writes
  <2>2. r \in {IF NextStep(p) \in done[p] THEN "succeeded" ELSE "failed_without_effect",
               "outcome_unknown"}
    BY <2>1 DEF Results
  <2>3. QED
    BY <2>2
<1>4. /\ s \in Seq(Verdicts) /\ Len(s) = Len(journal[p].results) + 1
      /\ \A i \in 1..Len(s) : i \in Writes(p) =>
             /\ s[i] = "succeeded" => i \in done[p]
             /\ s[i] = "failed_without_effect" => i \notin done[p]
  BY <1>3, ResultTypes, AppendedIs
<1> HIDE DEF s
<1>5. /\ e \in Entries /\ e.results = s /\ ~e.open
      /\ e.outcome = Local(p) /\ e.marks = journal[p].marks
  BY <1>4, EntryFacts DEF Entries, Local
<1> HIDE DEF e
<1>6. Last(e) = Last(journal[p])
  BY <1>2, <1>4, <1>5 DEF Last
<1>7. Last(e) <= Len(Steps[p])
  BY <1>6, EntryFacts DEF EntryInv
<1>8. /\ pending' = [pending EXCEPT ![p] = w]
      /\ w \in SUBSET Writes(p) /\ w \subseteq pending[p]
  BY <1>1, EntryFacts DEF EntryInv
<1> HIDE DEF w
<1>9. QED
  BY <1>2, <1>4, <1>5, <1>7, <1>8, ExecutingIs, WorkStep

LEMMA AbortKeeps ==
    ASSUME RuntimeInv, ServerFacts, LocalInv', NEW p \in Plans, Abort(p) PROVE LocalStep
<1>1. /\ Refused /\ UNCHANGED <<journal, length, saved, done, pending>>
      /\ host' = Down
  BY DEF Abort, Stop, viewerVars
<1>2. Called
  BY <1>1, CallIs
<1>3. QED
  BY <1>1, <1>2, DownStep

\* An outcome that is signed now.
LEMMA SignedIs ==
    ASSUME NEW results, NEW n \in Nat
    PROVE  LET o == Signed(Overall(results), n) IN
           /\ o \in Outcomes /\ o # NoOutcome /\ o.seq = n
           /\ o = Signed(o.status, o.seq)
           /\ o.status \in Terminal \cup {"outcome_unknown"}
<1>1. Overall(results) \in Terminal \cup {"outcome_unknown"}
  BY DEF Overall, Terminal
<1> HIDE DEF Overall
<1>2. QED
  BY <1>1, SignedType DEF Signed, NoOutcome

LEMMA FinishKeeps ==
    ASSUME RuntimeInv, ServerFacts, LocalInv', NEW p \in Plans, Finish(p) PROVE LocalStep
<1> DEFINE v == Overall(journal[p].results)
           o == Signed(v, length + 1)
           e == [journal[p] EXCEPT !.results = journal[p].results, !.open = FALSE, !.outcome = o]
<1>1. /\ Executing(p) /\ journal[p].lease = "acquired" /\ ~journal[p].open
      /\ Append1(p, e) /\ Refused /\ length' = length + 1
      /\ UNCHANGED <<saved, pending, done>>
  BY DEF Finish, WithOutcome, viewerVars
<1>2. /\ o \in Outcomes /\ o # NoOutcome /\ o.seq = length + 1 /\ o.status = v
      /\ o = Signed(o.status, o.seq) /\ v \in Terminal \cup {"outcome_unknown"}
      /\ length \in Nat
  BY <1>1, SignedIs, ExecutingIs DEF Signed
<1> HIDE DEF o, v
<1>3. /\ e \in Entries /\ e.results = journal[p].results /\ ~e.open /\ e.outcome = o
      /\ e.marks = journal[p].marks /\ e.lease = journal[p].lease
  BY <1>2, EntryFacts DEF Entries
<1> HIDE DEF e
<1>4. /\ journal'[p] = e /\ length' \in Nat /\ length <= length' /\ plans' = plans
      /\ \A q \in Plans \ {p} : journal'[q] = journal[q]
  BY <1>1, <1>2 DEF Append1, RuntimeInv, LocalInv, LocalType, Refused, serverVars
<1>5. Writes(p)' = Writes(p) /\ EntryInv(p) /\ Kept(p)
  BY RowsAgree, EntryFacts DEF Writes, StepsOf
<1>6. EntryInv(p)'
  <2>1. Last(e) = Last(journal[p])
    BY <1>1, <1>3 DEF Last
  <2>2. o.seq <= length'
    BY <1>1, <1>2
  <2>3. Last(e) <= Len(Steps[p])
    BY <1>5, <2>1 DEF EntryInv
  <2>4. plans'[p].attempts = 1 /\ e.lease = "acquired"
    BY <1>1, <1>3, <1>5, ExecutingIs DEF Kept
  <2>5. /\ done'[p] \subseteq Writes(p)
        /\ \A i \in 1..Len(e.results) : i \in Writes(p) =>
               /\ e.results[i] = "succeeded" => i \in done'[p]
               /\ e.results[i] = "failed_without_effect" => i \notin done'[p]
    BY <1>1, <1>3, <1>5 DEF EntryInv
  <2>6. pending'[p] \subseteq Writes(p)
    BY <1>1, <1>5 DEF EntryInv
  <2>7. QED
    BY <1>2, <1>3, <1>4, <1>5, <2>1, <2>2, <2>3, <2>4, <2>5, <2>6 DEF EntryInv, Last
<1>7. PlanSteps(p)
  BY <1>1, <1>3, <1>4, <1>6, ExecutingIs DEF PlanSteps, Settled, Marked, Works
<1>8. /\ host' \in Hosts /\ host'.plan = p /\ host'.todo = {}
      /\ host'.at = IF v \in Terminal THEN "delivering" ELSE "reporting"
  <2>1. saved \in Nat
    <3>1. session.id \in Nat
      BY Facts DEF RuntimeInv
    <3>2. QED
      BY <3>1 DEF RuntimeInv, RestType
  <2> DEFINE a == IF v \in Terminal THEN "delivering" ELSE "reporting"
  <2>2. a \in {"delivering", "reporting"}
    OBVIOUS
  <2>3. host \in Hosts /\ host' = [host EXCEPT !.original = saved, !.at = a]
    BY DEF Finish, RuntimeInv, RestType, v
  <2>4. host.plan = p /\ host.todo = {}
    BY <1>1, ExecutingIs
  <2> HIDE DEF a
  <2>5. host' \in Hosts /\ host'.plan = p /\ host'.todo = {} /\ host'.at = a
    BY <2>1, <2>2, <2>3, <2>4 DEF Hosts
  <2>6. QED
    BY <2>5 DEF a
<1>9. \A q \in Plans : PlanSteps(q)
  BY <1>1, <1>4, <1>7, OthersKept
<1>10. HostInv'
  <2>1. Local(p)' = o
    BY <1>3, <1>4 DEF Local
  <2>2. v \notin Terminal => LeftInDoubt(p)'
    BY <1>2, <2>1 DEF LeftInDoubt
  <2>3. v \in Terminal => Local(p)'.status \in Terminal
    BY <1>2, <2>1
  <2>4. CASE v \in Terminal
    BY <1>8, <2>3, <2>4 DEF HostInv
  <2>5. CASE v \notin Terminal
    BY <1>8, <2>2, <2>5 DEF HostInv
  <2>6. QED
    BY <2>4, <2>5
<1>11. Called
  BY <1>1, CallIs
<1>12. QED
  BY <1>4, <1>8, <1>9, <1>10, <1>11 DEF LocalStep, Called

LEMMA ExecutionKeeps == RuntimeInv /\ ServerFacts /\ LocalInv' /\ Execution => LocalStep
BY ReceiveKeeps, AcquireKeeps, StepNotStartedKeeps, InvokeKeeps, StepReturnsKeeps, AbortKeeps,
   FinishKeeps DEF Execution

\* A write that the viewer still carries out belongs to the last step of its entry,
\* which the journal leaves in doubt.
LEMMA EffectKeeps ==
    ASSUME RuntimeInv, ServerFacts, LocalInv', NEW p \in Plans, TakesEffect(p) PROVE LocalStep
<1>1. PICK i \in pending[p] : /\ pending' = [pending EXCEPT ![p] = @ \ {i}]
                              /\ done' = [done EXCEPT ![p] = @ \cup {i}]
  BY DEF TakesEffect
<1>2. Refused /\ UNCHANGED <<journal, length, saved, host>>
  BY DEF TakesEffect
<1>3. /\ done \in [Plans -> SUBSET Nat] /\ pending \in [Plans -> SUBSET Nat]
      /\ length \in Nat
  BY DEF RuntimeInv, LocalInv, LocalType
<1>4. /\ done'[p] = done[p] \cup {i} /\ \A q \in Plans \ {p} : done'[q] = done[q]
      /\ pending'[p] = pending[p] \ {i} /\ \A q \in Plans \ {p} : pending'[q] = pending[q]
  BY <1>1, <1>3
<1>5. length' \in Nat /\ length <= length'
  BY <1>2, <1>3
<1>6. ASSUME NEW q \in Plans, q # p PROVE PlanSteps(q)
  <2>1. Append1(p, journal[p])
    BY <1>2 DEF Append1, RuntimeInv, LocalInv, LocalType
  <2>2. QED
    BY <1>4, <1>5, <1>6, <2>1, OthersKept
<1>7. PlanSteps(p)
  <2>1. EntryInv(p) /\ Kept(p) /\ Writes(p)' = Writes(p) /\ journal'[p] = journal[p]
    BY <1>2, RowsAgree, EntryFacts DEF Writes, StepsOf
  <2>2. \A k \in 1..Len(journal[p].results) :
            k \in Writes(p) /\ journal[p].results[k] = "failed_without_effect" => k # i
    <3>1. i = Last(journal[p]) /\ Doubt(journal[p])
      BY EntryFacts DEF EntryOK, Covers
    <3>2. QED
      BY <3>1, EntryFacts DEF Doubt, Last
  <2>3. /\ done'[p] \subseteq Writes(p) /\ pending'[p] \subseteq Writes(p)
        /\ \A k \in 1..Len(journal[p].results) : k \in Writes(p) =>
               /\ journal[p].results[k] = "succeeded" => k \in done'[p]
               /\ journal[p].results[k] = "failed_without_effect" => k \notin done'[p]
    BY <1>4, <2>1, <2>2 DEF EntryInv
  <2>4. EntryInv(p)'
    BY <1>2, <2>1, <2>3 DEF EntryInv, Kept, Last
  <2>5. Settled(p) /\ Marked(p)
    BY <1>2, <2>1 DEF Settled, Marked, Local, EntryInv
  <2>6. Works(p)
    BY <2>1 DEF Kept, Works
  <2>7. QED
    BY <2>4, <2>5, <2>6 DEF PlanSteps
<1>8. \A q \in Plans : PlanSteps(q)
  BY <1>6, <1>7
<1>9. HostInv'
  BY <1>2, <1>5, <1>8, HostStays DEF PlanSteps, RuntimeInv, HostInv, Local
<1>10. Called /\ host' \in Hosts
  BY <1>2, CallIs DEF RuntimeInv, RestType
<1>11. QED
  BY <1>5, <1>8, <1>9, <1>10 DEF LocalStep, Called

-----------------------------------------------------------------------------
(* Starting anew, and the invariant.                                       *)

\* What a new process reads out of the journal is true: a started invocation leaves
\* doubt, a step that was not started has done nothing.
LEMMA RecoveredIsTrue ==
    ASSUME RuntimeInv, NEW p \in Plans
    PROVE  LET s == RecoveredResults(p) IN
           /\ s \in Seq(Verdicts) /\ Len(s) <= Len(Steps[p])
           /\ \A i \in 1..Len(s) : i \in Writes(p) =>
                  /\ s[i] = "succeeded" => i \in done[p]
                  /\ s[i] = "failed_without_effect" => i \notin done[p]
<1> DEFINE results == journal[p].results
           n == Len(results)
<1>1. n \in Nat /\ Len(Steps[p]) \in Nat /\ EntryInv(p) /\ EntryOK(p)
  BY EntryFacts, ConnectorAssumption
<1>2. CASE journal[p].open
  <2>1. RecoveredResults(p) = Append(results, "outcome_unknown")
    BY <1>2 DEF RecoveredResults
  <2>2. n + 1 <= Len(Steps[p])
    BY <1>1, <1>2 DEF EntryInv, Last
  <2>3. QED
    BY <2>1, <2>2, AppendedIs DEF Verdicts
<1>3. CASE ~journal[p].open /\ RecoveredResults(p) = results
  <2>1. n <= Len(Steps[p])
    BY <1>1, <1>3 DEF EntryInv, Last
  <2>2. QED
    BY <1>1, <1>3, <2>1, EntryFacts DEF EntryInv
<1>4. CASE ~journal[p].open /\ RecoveredResults(p) # results
  <2>1. /\ RecoveredResults(p) = Append(results, "failed_without_effect")
        /\ n < Len(Steps[p])
    BY <1>4 DEF RecoveredResults
  <2>2. NextStep(p) \notin done[p]
    BY <1>1, <1>4 DEF EntryOK, Covers, Last, NextStep
  <2>3. n + 1 <= Len(Steps[p])
    BY <1>1, <2>1
  <2>4. "failed_without_effect" \in Verdicts
    BY DEF Verdicts
  <2> DEFINE s == Append(results, "failed_without_effect")
  <2>5. /\ s \in Seq(Verdicts) /\ Len(s) = n + 1
        /\ \A i \in 1..Len(s) : i \in Writes(p) =>
               /\ s[i] = "succeeded" => i \in done[p]
               /\ s[i] = "failed_without_effect" => i \notin done[p]
    BY <2>2, <2>4, AppendedIs
  <2> HIDE DEF s
  <2>6. QED
    BY <2>1, <2>3, <2>5 DEF s
<1>5. QED
  BY <1>2, <1>3, <1>4

LEMMA StartKeeps ==
    ASSUME RuntimeInv, ServerFacts, LocalInv', Start PROVE LocalStep
<1> DEFINE left == {p \in Unsettled : journal[p].outcome = NoOutcome}
<1>1. /\ UNCHANGED <<done, pending, saved, late, faults>>
      /\ length' = IF left = {} THEN length ELSE length + 1
  BY DEF Start, viewerVars
<1>2. length \in Nat /\ length' \in Nat /\ length <= length'
  BY <1>1 DEF RuntimeInv, LocalInv, LocalType
<1>3. ASSUME NEW p \in Plans, p \notin left PROVE PlanSteps(p)
  <2>1. journal'[p] = journal[p] /\ Kept(p) /\ EntryInv(p)
    BY <1>3, RowsAgree, EntryFacts DEF Start
  <2>2. EntryInv(p)'
    BY <1>1, <1>2, <2>1, EntryKept
  <2>3. QED
    BY <1>1, <2>1, <2>2 DEF PlanSteps, Settled, Marked, Works, Local, EntryInv
<1>4. ASSUME NEW p \in Plans, p \in left
      PROVE  PlanSteps(p) /\ journal'[p].outcome # NoOutcome
  <2> DEFINE s == RecoveredResults(p)
             o == Signed(Overall(s), length + 1)
             e == [journal[p] EXCEPT !.results = s, !.open = FALSE, !.outcome = o]
  <2>1. journal'[p] = e
    BY <1>4 DEF Start, WithOutcome
  <2>2. /\ o \in Outcomes /\ o # NoOutcome /\ o.seq = length + 1
        /\ o = Signed(o.status, o.seq)
    BY <1>2, SignedIs
  <2>3. /\ s \in Seq(Verdicts) /\ Len(s) <= Len(Steps[p])
        /\ \A i \in 1..Len(s) : i \in Writes(p) =>
               /\ s[i] = "succeeded" => i \in done[p]
               /\ s[i] = "failed_without_effect" => i \notin done[p]
    BY RecoveredIsTrue
  <2> HIDE DEF s, o
  <2>4. /\ e.results = s /\ ~e.open /\ e.outcome = o
        /\ e.marks = journal[p].marks /\ e.lease = journal[p].lease
    BY EntryFacts DEF Entries
  <2> HIDE DEF e
  <2>5. /\ Local(p) = NoOutcome /\ journal[p].lease = "acquired"
        /\ "acknowledged" \notin journal[p].marks
    BY <1>4 DEF Unsettled, Local
  <2>6. EntryInv(p) /\ Kept(p) /\ Writes(p)' = Writes(p)
    BY RowsAgree, EntryFacts DEF Writes, StepsOf
  <2>7. length' = length + 1
    BY <1>1, <1>4
  <2>8. EntryInv(p)'
    <3>1. plans'[p].attempts = 1 /\ e.lease = "acquired"
      BY <2>4, <2>5, <2>6 DEF EntryInv, Kept
    <3>2. o.seq <= length' /\ Last(e) <= Len(Steps[p])
      BY <1>2, <2>2, <2>3, <2>4, <2>7 DEF Last
    <3>3. /\ done'[p] \subseteq Writes(p) /\ pending'[p] \subseteq Writes(p)
          /\ \A i \in 1..Len(e.results) : i \in Writes(p) =>
                 /\ e.results[i] = "succeeded" => i \in done'[p]
                 /\ e.results[i] = "failed_without_effect" => i \notin done'[p]
      BY <1>1, <2>3, <2>4, <2>6 DEF EntryInv
    <3>4. QED
      BY <2>1, <2>2, <2>4, <2>6, <3>1, <3>2, <3>3 DEF EntryInv, Last
  <2>9. QED
    BY <1>1, <2>1, <2>2, <2>4, <2>5, <2>8 DEF PlanSteps, Settled, Marked, Works
<1>5. \A p \in Plans : PlanSteps(p)
  BY <1>3, <1>4
<1>6. host' \in Hosts /\ host'.at \in {"register", "recovering"} /\ host'.todo = Unsettled
  <2> DEFINE a == IF Unsettled = {} THEN "register" ELSE "recovering"
  <2>1. a \in {"register", "recovering"} /\ Unsettled \subseteq Plans
    BY DEF Unsettled
  <2>2. host' = [Down EXCEPT !.at = a, !.todo = Unsettled]
    BY DEF Start
  <2> HIDE DEF a
  <2>3. QED
    BY <2>1, <2>2 DEF Down, Hosts, NoEvidence
<1>7. HostInv'
  <2>1. \A p \in Unsettled : journal'[p].outcome # NoOutcome
    <3> SUFFICES ASSUME NEW p \in Unsettled PROVE journal'[p].outcome # NoOutcome
      OBVIOUS
    <3>1. p \in Plans
      BY DEF Unsettled
    <3>2. CASE p \in left
      BY <1>4, <3>1, <3>2
    <3>3. CASE p \notin left
      BY <3>1, <3>3 DEF Start
    <3>4. QED
      BY <3>2, <3>3
  <2>2. QED
    BY <1>6, <2>1, HostTurns
<1>8. Called
  BY <1>1, CallIs DEF Answered
<1>9. QED
  BY <1>2, <1>5, <1>6, <1>7, <1>8 DEF LocalStep, Called

LEMMA RuntimeStep == RuntimeInv /\ [RuntimeNext]_vars => RuntimeInv' /\ LocalStep
<1> SUFFICES ASSUME RuntimeInv, [RuntimeNext]_vars PROVE RuntimeInv' /\ LocalStep
  OBVIOUS
<1>1. ServerFacts
  BY ServerStep
<1>2. LocalInv'
  BY LocalInvStep DEF RuntimeInv
<1> SUFFICES LocalStep
  BY <1>1, <1>2, Together
<1>3. faults \in 0..MaxFaults /\ MaxFaults \in Nat
  BY RuntimeAssumption DEF RuntimeInv, RestType
<1>4. CASE RegisterCall \/ LeaseCall
  BY <1>1, <1>2, <1>4, RegisterKeeps, LeaseKeeps
<1>5. CASE Execution \/ Settling \/ Start
  BY <1>1, <1>2, <1>5, ExecutionKeeps, SettlingKeeps, StartKeeps
<1>6. CASE \E p \in Plans : TakesEffect(p)
  BY <1>1, <1>2, <1>6, EffectKeeps
<1>7. CASE Crash
  <2>1. Called
    <3>1. faults' = faults + 1 /\ faults < MaxFaults /\ late' = late /\ saved' = saved
      BY <1>7 DEF Crash
    <3>2. faults' \in 0..MaxFaults
      BY <1>3, <3>1
    <3>3. QED
      BY <3>1, <3>2 DEF Called
  <2>2. QED
    BY <1>1, <1>2, <1>7, <2>1, DownStep DEF Crash, Stop, viewerVars
<1>8. CASE (\E m \in late : ServeLate(m)) \/ TimePasses \/ Cloud \/ Owner \/ UNCHANGED vars
  <2>1. UNCHANGED <<journal, length, done, pending, host, saved>> /\ late' \subseteq late
    BY <1>8 DEF ServeLate, TimePasses, SessionLapses, RecoveryLapses, PlanLapses, Cloud, Owner,
                vars, localVars, viewerVars
  <2>2. faults' \in 0..MaxFaults
    <3>1. CASE faults' = faults
      BY <1>3, <3>1
    <3>2. CASE \E c : Costs(c)
      BY <1>3, <3>2 DEF Costs
    <3>3. QED
      BY <1>8, <3>1, <3>2 DEF ServeLate, TimePasses, SessionLapses, RecoveryLapses, PlanLapses,
                              Cloud, Owner, vars, localVars
  <2>3. Called
    BY <1>3, <2>1, <2>2 DEF Called
  <2>4. QED
    BY <1>1, <1>2, <2>1, <2>3, IdleStep
<1>9. QED
  BY <1>4, <1>5, <1>6, <1>7, <1>8 DEF RuntimeNext

LEMMA RuntimeBegins == RuntimeInit => RuntimeInv
<1> SUFFICES ASSUME RuntimeInit PROVE RuntimeInv
  OBVIOUS
<1>1. Inv /\ LocalInv
  BY InitInv, Initially DEF RuntimeInit
<1>2. ASSUME NEW p \in Plans PROVE EntryInv(p) /\ PlanInv(p)
  <2>1. /\ journal[p] = Blank /\ done[p] = {} /\ pending[p] = {} /\ plans[p] = NoPlan
        /\ Len(Steps[p]) \in Nat
    BY ConnectorAssumption DEF RuntimeInit, Init
  <2>2. Last(Blank) = 0
    BY DEF Last, Blank
  <2>3. EntryInv(p)
    BY <2>1, <2>2 DEF EntryInv, Blank
  <2>4. PlanInv(p)
    BY <2>1 DEF PlanInv, NoPlan, NoOutcome, Honest, Terminal, Blank, Local
  <2>5. QED
    BY <2>3, <2>4
<1>3. lastSeq <= length /\ saved \in 0..session.id
  BY DEF RuntimeInit, Init
<1>4. host \in Hosts /\ faults \in 0..MaxFaults
  <2>1. host \in Hosts
    BY DEF RuntimeInit, Hosts, Down, NoEvidence
  <2>2. faults \in 0..MaxFaults
    BY RuntimeAssumption DEF RuntimeInit
  <2>3. QED
    BY <2>1, <2>2
<1>5. HostInv /\ LateInv
  BY DEF RuntimeInit, HostInv, LateInv, Down
<1>6. QED
  BY <1>1, <1>2, <1>3, <1>4, <1>5 DEF RuntimeInv, RestType

\* The invariant holds of the runtime and its server together, for any plans and any
\* number of crashes, lost calls and late requests.
THEOREM RuntimeInvariance == RuntimeSpec => []RuntimeInv
  BY RuntimeBegins, RuntimeStep, PTL DEF RuntimeSpec

-----------------------------------------------------------------------------
(* What follows.                                                           *)

\* The records of both sides have their types, and the sequence of an outcome that the
\* server has recorded was journalled before.
THEOREM RuntimeTypes == RuntimeSpec => []RuntimeTypeOK
<1>1. RuntimeInv => RuntimeTypeOK
  <2> SUFFICES ASSUME RuntimeInv PROVE RuntimeTypeOK
    OBVIOUS
  <2>1. TypeOK /\ LocalType /\ RestType
    BY DEF RuntimeInv, Inv, LocalInv
  <2>2. QED
    BY <2>1 DEF RuntimeTypeOK, LocalType, RestType
<1>2. QED
  BY <1>1, RuntimeInvariance, PTL

\* An executed plan is forgotten only when the server has closed it, with the verdict
\* that the runtime has signed unless its owner decided or a read was given up: an
\* acknowledgement is never lost, mistaken for another, or given too early.
THEOREM DeliveryCloses == RuntimeSpec => []DeliveredIsClosed
<1>1. RuntimeInv => DeliveredIsClosed
  <2> SUFFICES ASSUME RuntimeInv, NEW p \in Plans,
                      "acknowledged" \in journal[p].marks, Local(p).status \in Terminal
               PROVE  /\ plans[p].status \in Closed
                      /\ plans[p].status # "cancelled" /\ ~ReadOnly(p)
                             => plans[p].status = Local(p).status
    BY DEF DeliveredIsClosed
  <2>1. Local(p) # NoOutcome
    BY DEF Terminal, NoOutcome
  <2>2. /\ plans[p].status \in Closed \ {"expired"} /\ plans[p].attempts = 1
    BY <2>1, EntryFacts, SignedWasIssued DEF PlanInv
  <2>3. RowOK(p) /\ plans[p] \in Rows
    BY Facts DEF RuntimeInv
  <2>4. SUFFICES ASSUME plans[p].status # "cancelled", ~ReadOnly(p)
                 PROVE  plans[p].status = Local(p).status
    BY <2>2
  <2>5. plans[p].outcome.status = plans[p].status
    BY <2>2, <2>3, <2>4 DEF RowOK, Closed
  <2>6. plans[p].outcome \in Outcomes
    BY <2>2, <2>3, <2>5 DEF Rows, Closed, NoOutcome
  <2>7. plans[p].outcome.by # "server"
    BY EntryFacts DEF PlanInv, LeftInDoubt
  <2>8. plans[p].outcome = Local(p)
    BY <2>6, <2>7, EntryFacts DEF PlanInv, Outcomes
  <2>9. QED
    BY <2>5, <2>8
<1>2. QED
  BY <1>1, RuntimeInvariance, PTL

\* Nothing but the viewer changes the viewer's model.
LEMMA OnlyEffects ==
    [RuntimeNext]_vars => UNCHANGED done \/ \E p \in Plans : TakesEffect(p)
<1> SUFFICES ASSUME [RuntimeNext]_vars, ~\E p \in Plans : TakesEffect(p) PROVE UNCHANGED done
  OBVIOUS
<1>1. CASE Execution
  BY <1>1 DEF Execution, Receive, Acquire, StepNotStarted, Invoke, StepReturns, Abort, Finish,
              viewerVars
<1>2. CASE Settling
  BY <1>2 DEF Settling, Settle, Deliver, RecoveryCall, AcknowledgeCall, Report, Probe,
              SendEvidence, CloseReconciliation, Acknowledged, viewerVars
<1>3. CASE ~Execution /\ ~Settling
  BY <1>3 DEF RuntimeNext, Start, RegisterCall, LeaseCall, Crash, ServeLate, TimePasses,
              SessionLapses, RecoveryLapses, PlanLapses, Cloud, Owner, vars, localVars, viewerVars
<1>4. QED
  BY <1>1, <1>2, <1>3

\* A plan that somebody else has looked at or closed was handed out, and is in doubt or
\* has a verdict.
LEMMA JudgedFate ==
    ASSUME NEW r \in Rows, r.attempts = 1, r.status # "leased",
           r.status \in {"none", "queued", "expired"} => r.attempts = 0
    PROVE  Fate(r) \in {"uncertain"} \cup Lifecycle!Verdict
<1>1. r.status \in Uncertain \cup {"succeeded", "failed_without_effect", "cancelled"}
  BY DEF Rows, Unresolved, Closed, Uncertain
<1>2. QED
  BY <1>1 DEF Fate, Uncertain, Lifecycle!Verdict

\* A write takes effect while its plan is handed out or in doubt, or after somebody has
\* judged it who could not know, and at no other time.
LEMMA EffectIsPromised ==
    ASSUME RuntimeInv, NEW p \in Plans, TakesEffect(p) PROVE Promise!TakesEffect(p)
<1> DEFINE fate == [q \in Plans |-> Fate(plans[q])]
           judged == {q \in Plans : plans[q].reconciled}
<1>1. PICK i \in pending[p] : done' = [done EXCEPT ![p] = @ \cup {i}]
  BY DEF TakesEffect
<1>2. i \in Writes(p) \ done[p]
  BY EntryFacts DEF EntryInv, EntryOK, Covers
<1>3. plans[p].status \in Unresolved \/ plans[p].reconciled
  BY EntryFacts DEF PlanInv
<1>4. fate[p] \in Promise!Outstanding \/ (p \in judged /\ fate[p] \in Promise!Verdict)
  <2>1. CASE plans[p].status \in Unresolved
    BY <2>1 DEF Fate, Unresolved, Uncertain, Promise!Outstanding
  <2>2. CASE plans[p].reconciled
    <3>1. plans[p].attempts = 1 /\ plans[p].status # "leased" /\ RowOK(p) /\ plans[p] \in Rows
      BY <2>2, EntryFacts, Facts DEF RuntimeInv, PlanInv
    <3>2. Fate(plans[p]) \in {"uncertain"} \cup Lifecycle!Verdict
      BY <3>1, JudgedFate DEF RowOK
    <3>3. QED
      BY <2>2, <3>2 DEF Promise!Outstanding, Promise!Verdict, Lifecycle!Verdict
  <2>3. QED
    BY <1>3, <2>1, <2>2
<1>5. fate' = fate /\ judged' = judged
  BY DEF TakesEffect, Refused, serverVars
<1> HIDE DEF fate, judged
<1>6. \E k \in Writes(p) \ done[p] : done' = [done EXCEPT ![p] = @ \cup {k}]
  BY <1>1, <1>2
<1>7. QED
  BY <1>4, <1>5, <1>6 DEF Promise!TakesEffect, fate, judged

\* A verdict of the executing host is recorded only in agreement with the viewer, and
\* only a plan in doubt comes to be judged by others.
LEMMA VerdictIsTruthful ==
    ASSUME RuntimeInv, ServerFacts, RuntimeInv', NEW p \in Plans
    PROVE  Promise!Truthful(p) /\ Promise!Judged(p)
<1> DEFINE s == plans'[p]
           fate == [q \in Plans |-> Fate(plans[q])]
           judged == {q \in Plans : plans[q].reconciled}
<1>1. Kept(p) /\ s \in Rows /\ fate'[p] = Fate(s) /\ fate[p] = Fate(plans[p])
  BY RowsAgree DEF ServerFacts, StepFacts, TypeOK
<1>2. Fate(s) = "succeeded" => s.status = "succeeded"
  BY <1>1 DEF Fate
<1>3. Fate(s) = "failed" => s.status \in {"failed_without_effect", "expired"}
  BY <1>1 DEF Fate, Rows, Unresolved, Uncertain, Closed
<1>4. Fate(s) = "failed" => s.status = "failed_without_effect"
  <2>1. s.status = "expired" => s.attempts = 0
    BY DEF RuntimeInv, Inv, RowOK
  <2>2. s.status = "expired" => Fate(s) = "dropped"
    BY <2>1 DEF Fate, Uncertain
  <2>3. QED
    BY <1>3, <2>2
<1>5. s.reconciled => Fate(s) \in {"uncertain"} \cup Lifecycle!Verdict
  <2>1. s.status \in {"none", "queued", "expired"} => s.attempts = 0
    BY DEF RuntimeInv, Inv, RowOK
  <2> HIDE DEF s
  <2>2. s.reconciled => s.attempts = 1 /\ s.status # "leased"
    BY <1>1 DEF Kept, s
  <2>3. QED
    BY <1>1, <2>1, <2>2, JudgedFate
<1>6. s.reconciled => plans[p].reconciled \/ Fate(plans[p]) \in Lifecycle!Outstanding
  BY <1>1 DEF Kept, Fate, Unresolved, Uncertain, Lifecycle!Outstanding
<1>7. p \in judged <=> plans[p].reconciled
  OBVIOUS
<1>8. p \in judged' <=> s.reconciled
  OBVIOUS
<1> HIDE DEF s, fate, judged
<1>9. Promise!Truthful(p)
  BY <1>1, <1>2, <1>4, <1>8 DEF Promise!Truthful, Kept, Honest, s, fate, judged
<1>10. Promise!Judged(p)
  BY <1>1, <1>5, <1>6, <1>7, <1>8
     DEF Promise!Judged, Kept, Promise!Outstanding, Promise!Verdict, Lifecycle!Outstanding,
         Lifecycle!Verdict, s, fate, judged
<1>11. QED
  BY <1>9, <1>10

LEMMA StepsArePromised == RuntimeInv /\ [RuntimeNext]_vars => Promise!PromiseNext
<1> SUFFICES ASSUME RuntimeInv, [RuntimeNext]_vars PROVE Promise!PromiseNext
  OBVIOUS
<1>1. CASE \E p \in Plans : TakesEffect(p)
  BY <1>1, EffectIsPromised DEF Promise!PromiseNext
<1>2. CASE UNCHANGED done
  <2>1. ServerFacts /\ RuntimeInv'
    BY ServerStep, RuntimeStep
  <2>2. Lifecycle!Next
    BY <2>1, StepRefines DEF RuntimeInv, ServerFacts
  <2>3. Promise!Next
    BY <2>2 DEF Promise!Next, Promise!Fates, Promise!Moves, Promise!Outstanding, Promise!Verdict,
                Lifecycle!Next, Lifecycle!Fates, Lifecycle!Moves, Lifecycle!Outstanding,
                Lifecycle!Verdict
  <2>4. \A p \in Plans : Promise!Truthful(p) /\ Promise!Judged(p)
    BY <2>1, VerdictIsTruthful
  <2>5. QED
    BY <1>2, <2>3, <2>4 DEF Promise!PromiseNext
<1>3. QED
  BY <1>1, <1>2, OnlyEffects

\* The runtime and its server keep what a plan promises: it is handed out once and its
\* verdict is never taken back. Where the host that executed the plan gave the verdict,
\* a success means that every write has taken effect, a failure that none has, and none
\* follows either. A verdict by probes or by the owner is marked, concerns only a plan
\* that was left in doubt, and promises nothing of the writes, which may still follow.
THEOREM PromiseIsKept == RuntimeSpec => KeepsPromise
<1>1. RuntimeInit => Promise!PromiseInit
  <2> SUFFICES ASSUME RuntimeInit PROVE Promise!PromiseInit
    OBVIOUS
  <2>1. plans = [p \in Plans |-> NoPlan] /\ done = [p \in Plans |-> {}]
    BY DEF RuntimeInit, Init
  <2>2. [p \in Plans |-> Fate(plans[p])] = [p \in Plans |-> "absent"]
    <3>1. NoPlan.status = "none"
      BY DEF NoPlan
    <3>2. Fate(NoPlan) = "absent"
      BY <3>1 DEF Fate, Uncertain
    <3>3. \A p \in Plans : plans[p] = NoPlan
      BY <2>1
    <3>4. QED
      BY <3>2, <3>3
  <2>3. QED
    BY <2>1, <2>2 DEF Promise!PromiseInit, Promise!Init, NoPlan
<1>2. RuntimeInv /\ [RuntimeNext]_vars => [Promise!PromiseNext]_(Promise!promiseVars)
  BY StepsArePromised
<1>3. QED
  BY <1>1, <1>2, RuntimeInvariance, PTL DEF RuntimeSpec, KeepsPromise, Promise!PromiseSpec

-----------------------------------------------------------------------------
(* Which signed outcomes the server can record. Of a plan that is no batch *)
(* the first failure is the last result, but for the failure that a new    *)
(* process adds to it (RecoveredResults), and a failure after a write is   *)
(* refused: success and doubt always pass the verification.                *)

Recordable(p) ==
    Local(p) # NoOutcome /\ (Local(p).status # "failed_without_effect" \/ Len(Steps[p]) = 1)
        => VerifySteps(p, journal[p].results, Local(p).status)

ResultsOK(p) ==
    LET e == journal[p]
        n == Len(e.results)
    IN
    /\ \A i \in 1..n : e.results[i] # "manual_review_required"
    /\ e.outcome = NoOutcome =>
           /\ \A i \in 1..n : i < n => e.results[i] = "succeeded"
           /\ e.open => \A i \in 1..n : e.results[i] = "succeeded"
    /\ Recordable(p)

RecordableInv == \A p \in Plans \ Batch : ResultsOK(p)

\* Results that end with their first failure, and the verdict over them.
LEMMA OverallVerifies ==
    ASSUME NEW p \in Plans, NEW s \in Seq(Verdicts), Len(s) \in 1..Len(Steps[p]),
           \A i \in 1..Len(s) : s[i] # "manual_review_required",
           \A i \in 1..Len(s) : i < Len(s) => s[i] = "succeeded",
           s[Len(s)] = "succeeded" => Len(s) = Len(Steps[p]),
           Overall(s) # "failed_without_effect" \/ Len(Steps[p]) = 1
    PROVE  VerifySteps(p, s, Overall(s))
<1> DEFINE n == Len(s)
<1>1. n \in Nat /\ n \in 1..n /\ Len(Steps[p]) \in Nat
  BY ConnectorAssumption
<1>2. s[n] \in {"succeeded", "failed_without_effect", "outcome_unknown"}
  BY <1>1 DEF Verdicts
<1>3. \A i \in 1..n : i # n => s[i] = "succeeded"
  BY <1>1
<1>4. Overall(s) = s[n]
  <2> DEFINE seen == {s[i] : i \in 1..n}
  <2>1. \A x : x \in seen => x = "succeeded" \/ x = s[n]
    BY <1>3
  <2>2. s[n] \in seen
    BY <1>1
  <2>3. Overall(s) = IF "outcome_unknown" \in seen THEN "outcome_unknown"
                     ELSE IF "failed_without_effect" \in seen THEN "failed_without_effect"
                     ELSE "succeeded"
    BY DEF Overall
  <2> HIDE DEF seen, n
  <2>4. QED
    BY <1>2, <2>1, <2>2, <2>3
<1>5. s[n] = "failed_without_effect" => n = 1
  <2>1. n \in 1..Len(Steps[p])
    OBVIOUS
  <2>2. Len(Steps[p]) = 1 => n = 1
    BY <1>1, <2>1
  <2> HIDE DEF n, Overall
  <2>3. QED
    BY <1>4, <2>2
<1>6. \A i \in 1..(n - 1) : s[i] = "succeeded"
  BY <1>1, <1>3
<1>7. s[n] = "failed_without_effect" => \A i \in 1..(n - 1) : Steps[p][i] # "write"
  <2> HIDE DEF n
  <2>1. QED
    BY <1>1, <1>5
<1> HIDE DEF Overall
<1>8. QED
  BY <1>1, <1>4, <1>6, <1>7 DEF VerifySteps

\* An entry of which only the lease or the marks change.
LEMMA ResultsKept ==
    ASSUME NEW p \in Plans, ResultsOK(p), journal'[p].results = journal[p].results,
           journal'[p].open = journal[p].open, journal'[p].outcome = journal[p].outcome
    PROVE  ResultsOK(p)'
BY DEF ResultsOK, Recordable, Local, VerifySteps

\* One more result of a plan that is executed, or none.
LEMMA ResultsGrow ==
    ASSUME RuntimeInv, NEW p \in Plans, ResultsOK(p), Local(p) = NoOutcome,
           journal'[p].outcome = NoOutcome,
           \A i \in 1..Len(journal[p].results) : journal[p].results[i] = "succeeded",
           \/ journal'[p].results = journal[p].results
           \/ /\ ~journal'[p].open
              /\ \E r \in Verdicts \ {"manual_review_required"} :
                     journal'[p].results = Append(journal[p].results, r)
    PROVE  ResultsOK(p)'
<1> DEFINE results == journal[p].results
           n == Len(results)
<1>1. results \in Seq(Verdicts) /\ n \in Nat
  BY EntryFacts
<1>2. CASE journal'[p].results = results
  BY <1>2 DEF ResultsOK, Recordable, Local
<1>3. CASE /\ ~journal'[p].open
           /\ \E r \in Verdicts \ {"manual_review_required"} :
                  journal'[p].results = Append(results, r)
  <2>1. PICK r \in Verdicts \ {"manual_review_required"} :
            journal'[p].results = Append(results, r)
    BY <1>3
  <2> DEFINE s == journal'[p].results
  <2>2. /\ Len(s) = n + 1 /\ s[n + 1] = r
        /\ \A i \in 1..n : s[i] = "succeeded"
    BY <1>1, <2>1
  <2> HIDE DEF s, n
  <2>3. /\ \A i \in 1..Len(s) : s[i] # "manual_review_required"
        /\ \A i \in 1..Len(s) : i < Len(s) => s[i] = "succeeded"
    BY <1>1, <2>2
  <2>4. QED
    BY <1>3, <2>3 DEF ResultsOK, Recordable, Local, s
<1>4. QED
  BY <1>2, <1>3

\* What is ready for another step has had only successes.
LEMMA ReadySucceeds ==
    ASSUME RuntimeInv, NEW p \in Plans \ Batch, ResultsOK(p), Ready(p)
    PROVE  /\ \A i \in 1..Len(journal[p].results) : journal[p].results[i] = "succeeded"
           /\ Local(p) = NoOutcome
<1> DEFINE n == Len(journal[p].results)
<1>1. Local(p) = NoOutcome
  BY ExecutingIs DEF Ready
<1>2. n \in Nat
  BY EntryFacts
<1>3. n > 0 => journal[p].results[n] = "succeeded"
  BY DEF Ready, Finished
<1>4. \A i \in 1..n : i < n => journal[p].results[i] = "succeeded"
  BY <1>1 DEF ResultsOK, Local
<1>5. QED
  BY <1>1, <1>2, <1>3, <1>4

LEMMA SignedVerifies ==
    ASSUME RuntimeInv, NEW p \in Plans, NEW s \in Seq(Verdicts),
           journal'[p].results = s, journal'[p].outcome = Signed(Overall(s), length + 1),
           \A i \in 1..Len(s) : s[i] # "manual_review_required",
           Overall(s) # "failed_without_effect" \/ Len(Steps[p]) = 1 =>
               VerifySteps(p, s, Overall(s))
    PROVE  ResultsOK(p)'
<1>1. journal'[p].outcome # NoOutcome /\ journal'[p].outcome.status = Overall(s)
  BY DEF Signed, NoOutcome
<1>2. Recordable(p)'
  BY <1>1 DEF Recordable, Local, VerifySteps
<1>3. QED
  BY <1>1, <1>2 DEF ResultsOK

\* Every way to sign: after the last step, and in a new process.
LEMMA FinishVerifies ==
    ASSUME RuntimeInv, NEW p \in Plans \ Batch, ResultsOK(p), Finish(p) PROVE ResultsOK(p)'
<1> DEFINE s == journal[p].results
           n == Len(s)
<1>1. Executing(p) /\ Local(p) = NoOutcome /\ ~journal[p].open /\ Finished(p)
  BY ExecutingIs DEF Finish
<1>2. /\ journal'[p].results = s /\ journal'[p].outcome = Signed(Overall(s), length + 1)
      /\ s \in Seq(Verdicts) /\ n \in Nat /\ n <= Len(Steps[p]) /\ Len(Steps[p]) \in Nat \ {0}
  <2> DEFINE o == Signed(Overall(s), length + 1)
  <2>1. Append1(p, [journal[p] EXCEPT !.results = s, !.open = FALSE, !.outcome = o])
    BY DEF Finish, WithOutcome
  <2> HIDE DEF o
  <2>2. journal'[p] = [journal[p] EXCEPT !.results = s, !.open = FALSE, !.outcome = o]
    BY <2>1 DEF Append1, RuntimeInv, LocalInv, LocalType
  <2>3. journal'[p].results = s /\ journal'[p].outcome = o
    BY <2>2, EntryFacts DEF Entries
  <2>4. n <= Len(Steps[p])
    BY <1>1, EntryFacts DEF EntryInv, Last
  <2>5. QED
    BY <2>3, <2>4, EntryFacts, ConnectorAssumption DEF o
<1>3. /\ \A i \in 1..n : s[i] # "manual_review_required"
      /\ \A i \in 1..n : i < n => s[i] = "succeeded"
  BY <1>1 DEF ResultsOK, Local
<1>4. n \in 1..Len(Steps[p]) /\ (s[n] = "succeeded" => n = Len(Steps[p]))
  BY <1>1, <1>2 DEF Finished
<1> HIDE DEF s
<1>5. QED
  BY <1>2, <1>3, <1>4, OverallVerifies, SignedVerifies

LEMMA StartVerifies ==
    ASSUME RuntimeInv, NEW p \in Plans \ Batch, ResultsOK(p), Start PROVE ResultsOK(p)'
<1> DEFINE results == journal[p].results
           n == Len(results)
           s == RecoveredResults(p)
           left == {q \in Unsettled : journal[q].outcome = NoOutcome}
<1>1. CASE p \notin left
  <2>1. journal'[p] = journal[p]
    BY <1>1 DEF Start
  <2>2. QED
    BY <2>1, ResultsKept
<1>2. CASE p \in left
  <2>1. journal[p].outcome = NoOutcome
    BY <1>2
  <2>2. journal'[p].results = s /\ journal'[p].outcome = Signed(Overall(s), length + 1)
    <3> DEFINE o == Signed(Overall(s), length + 1)
    <3>1. journal'[p] = [journal[p] EXCEPT !.results = s, !.open = FALSE, !.outcome = o]
      BY <1>2 DEF Start, WithOutcome
    <3> HIDE DEF s, o
    <3>2. journal'[p].results = s /\ journal'[p].outcome = o
      BY <3>1, EntryFacts DEF Entries
    <3>3. QED
      BY <3>2 DEF o
  <2>3. /\ results \in Seq(Verdicts) /\ n \in Nat /\ Len(Steps[p]) \in Nat \ {0}
        /\ s \in Seq(Verdicts) /\ Len(s) <= Len(Steps[p])
    BY EntryFacts, RecoveredIsTrue, ConnectorAssumption
  <2>4. /\ \A i \in 1..n : results[i] # "manual_review_required"
        /\ \A i \in 1..n : i < n => results[i] = "succeeded"
        /\ journal[p].open => \A i \in 1..n : results[i] = "succeeded"
    BY <2>1 DEF ResultsOK
  <2>5. CASE journal[p].open
    <3>1. s = Append(results, "outcome_unknown")
      BY <2>5 DEF RecoveredResults
    <3>2. /\ Len(s) = n + 1 /\ s[n + 1] = "outcome_unknown"
          /\ \A i \in 1..n : s[i] = "succeeded"
      BY <2>3, <2>4, <2>5, <3>1
    <3> HIDE DEF s, n
    <3>3. /\ Len(s) \in 1..Len(Steps[p])
          /\ \A i \in 1..Len(s) : s[i] # "manual_review_required"
          /\ \A i \in 1..Len(s) : i < Len(s) => s[i] = "succeeded"
          /\ s[Len(s)] # "succeeded"
      BY <2>3, <3>2
    <3>4. QED
      BY <2>2, <2>3, <3>3, OverallVerifies, SignedVerifies
  <2>6. CASE ~journal[p].open /\ s = results
    <3>1. n = Len(Steps[p]) \/ \E i \in 1..n : results[i] = "outcome_unknown"
      <4>1. SUFFICES ASSUME n < Len(Steps[p]), ~\E i \in 1..n : results[i] = "outcome_unknown"
                     PROVE  FALSE
        BY <2>3, <2>6
      <4>2. s = Append(results, "failed_without_effect")
        BY <2>6, <4>1 DEF RecoveredResults
      <4>3. Len(s) = n + 1
        BY <2>3, <4>2
      <4>4. QED
        BY <2>3, <2>6, <4>3
    <3>2. n \in 1..Len(Steps[p])
      BY <2>3, <2>6, <3>1
    <3>3. results[n] = "succeeded" => n = Len(Steps[p])
      BY <2>3, <2>4, <3>1
    <3> HIDE DEF s, results
    <3>4. QED
      BY <2>2, <2>3, <2>4, <2>6, <3>2, <3>3, OverallVerifies, SignedVerifies
  <2>7. CASE ~journal[p].open /\ s # results
    <3>1. /\ s = Append(results, "failed_without_effect") /\ n < Len(Steps[p])
          /\ ~\E i \in 1..n : results[i] = "outcome_unknown"
      BY <2>7 DEF RecoveredResults
    <3>2. /\ Len(s) = n + 1 /\ s[n + 1] = "failed_without_effect"
          /\ \A i \in 1..n : s[i] = results[i]
      BY <2>3, <3>1
    <3>3. /\ \A i \in 1..Len(s) : s[i] # "manual_review_required" /\ s[i] # "outcome_unknown"
          /\ n + 1 \in 1..Len(s)
      BY <2>3, <2>4, <3>1, <3>2
    <3> HIDE DEF s, results
    <3>4. Overall(s) = "failed_without_effect"
      <4> DEFINE seen == {s[i] : i \in 1..Len(s)}
      <4>1. "failed_without_effect" \in seen /\ "outcome_unknown" \notin seen
        BY <3>2, <3>3
      <4>2. Overall(s) = IF "outcome_unknown" \in seen THEN "outcome_unknown"
                         ELSE IF "failed_without_effect" \in seen THEN "failed_without_effect"
                         ELSE "succeeded"
        BY DEF Overall
      <4> HIDE DEF seen
      <4>3. QED
        BY <4>1, <4>2
    <3>5. Len(Steps[p]) = 1 => /\ Len(s) \in 1..Len(Steps[p])
                               /\ \A i \in 1..Len(s) : i < Len(s) => s[i] = "succeeded"
                               /\ s[Len(s)] # "succeeded"
      BY <2>3, <3>1, <3>2
    <3>6. Len(Steps[p]) = 1 => VerifySteps(p, s, Overall(s))
      BY <2>3, <3>3, <3>5, OverallVerifies
    <3>7. QED
      BY <2>2, <2>3, <3>3, <3>4, <3>6, SignedVerifies
  <2>8. QED
    BY <2>5, <2>6, <2>7
<1>3. QED
  BY <1>1, <1>2

LEMMA ExecutionVerifies ==
    ASSUME RuntimeInv, NEW p \in Plans \ Batch, ResultsOK(p),
           Receive(p) \/ Acquire(p) \/ StepNotStarted(p) \/ Invoke(p) \/ StepReturns(p)
               \/ Abort(p) \/ Finish(p)
    PROVE  ResultsOK(p)'
<1>1. /\ journal[p] \in Entries /\ journal[p].results \in Seq(Verdicts)
      /\ Len(journal[p].results) \in Nat /\ journal[p].open \in BOOLEAN
  BY EntryFacts
<1>2. \A e : Append1(p, e) => journal'[p] = e
  BY DEF Append1, RuntimeInv, LocalInv, LocalType
<1>3. CASE Receive(p)
  <2>1. journal'[p] = [Blank EXCEPT !.lease = "received"]
    BY <1>2, <1>3 DEF Receive
  <2>2. journal'[p].results = <<>> /\ journal'[p].outcome = NoOutcome /\ Len(<<>>) = 0
    BY <2>1 DEF Blank
  <2>3. QED
    BY <2>2 DEF ResultsOK, Recordable, Local
<1>4. CASE Acquire(p)
  <2>1. journal'[p] = [journal[p] EXCEPT !.lease = "acquired"]
    BY <1>2, <1>4 DEF Acquire
  <2>2. QED
    BY <1>1, <2>1, ResultsKept DEF Entries
<1>5. CASE StepNotStarted(p)
  <2> DEFINE s == Append(journal[p].results, "failed_without_effect")
  <2>1. journal'[p] = [journal[p] EXCEPT !.results = s] /\ Ready(p)
    BY <1>2, <1>5 DEF StepNotStarted
  <2>2. /\ Local(p) = NoOutcome /\ ~journal[p].open
        /\ \A i \in 1..Len(journal[p].results) : journal[p].results[i] = "succeeded"
    BY <2>1, ReadyIs, ReadySucceeds
  <2>3. /\ journal'[p].results = s /\ ~journal'[p].open /\ journal'[p].outcome = NoOutcome
    <3> HIDE DEF s
    <3>1. QED
      BY <1>1, <2>1, <2>2 DEF Entries, Local
  <2>4. "failed_without_effect" \in Verdicts \ {"manual_review_required"}
    BY DEF Verdicts
  <2>5. QED
    BY <2>2, <2>3, <2>4, ResultsGrow
<1>6. CASE Invoke(p)
  <2>1. journal'[p] = [journal[p] EXCEPT !.open = TRUE] /\ Ready(p)
    BY <1>2, <1>6 DEF Invoke
  <2>2. /\ Local(p) = NoOutcome
        /\ \A i \in 1..Len(journal[p].results) : journal[p].results[i] = "succeeded"
    BY <2>1, ReadySucceeds
  <2>3. journal'[p].results = journal[p].results /\ journal'[p].outcome = NoOutcome
    BY <1>1, <2>1, <2>2 DEF Entries, Local
  <2>4. QED
    BY <2>2, <2>3, ResultsGrow
<1>7. CASE StepReturns(p)
  <2>1. PICK r \in Results(p) :
            journal'[p] = [journal[p] EXCEPT !.results = Append(journal[p].results, r),
                                             !.open = FALSE]
    BY <1>2, <1>7 DEF StepReturns
  <2> DEFINE s == Append(journal[p].results, r)
  <2>2. /\ Local(p) = NoOutcome /\ journal[p].open
        /\ \A i \in 1..Len(journal[p].results) : journal[p].results[i] = "succeeded"
    BY <1>7, ExecutingIs DEF StepReturns, ResultsOK, Local
  <2>3. journal'[p].results = s /\ ~journal'[p].open /\ journal'[p].outcome = NoOutcome
    <3>1. journal'[p] = [journal[p] EXCEPT !.results = s, !.open = FALSE]
      BY <2>1
    <3> HIDE DEF s
    <3>2. QED
      BY <1>1, <2>2, <3>1 DEF Entries, Local
  <2>4. r \in Verdicts \ {"manual_review_required"}
    BY DEF Results, Verdicts
  <2>5. QED
    BY <2>2, <2>3, <2>4, ResultsGrow
<1>8. CASE Abort(p)
  BY <1>8, ResultsKept DEF Abort
<1>9. CASE Finish(p)
  BY <1>9, FinishVerifies
<1>10. QED
  BY <1>3, <1>4, <1>5, <1>6, <1>7, <1>8, <1>9

LEMMA RecordableStep ==
    RuntimeInv /\ RecordableInv /\ [RuntimeNext]_vars => RecordableInv'
<1> SUFFICES ASSUME RuntimeInv, RecordableInv, [RuntimeNext]_vars, NEW p \in Plans \ Batch
             PROVE  ResultsOK(p)'
  BY DEF RecordableInv
<1>1. ResultsOK(p) /\ journal \in [Plans -> Entries]
  BY DEF RecordableInv, RuntimeInv, LocalInv, LocalType
<1>2. ASSUME journal' = journal \/ (\E q \in Plans : \E e : q # p /\ Append1(q, e))
                 \/ \E q \in Plans : \E m : Mark(q, m)
      PROVE  ResultsOK(p)'
  <2>1. /\ journal'[p].results = journal[p].results /\ journal'[p].open = journal[p].open
        /\ journal'[p].outcome = journal[p].outcome
    <3>1. CASE journal' = journal
      BY <3>1
    <3>2. CASE \E q \in Plans : \E e : q # p /\ Append1(q, e)
      BY <1>1, <3>2 DEF Append1
    <3>3. CASE \E q \in Plans : \E m : Mark(q, m)
      <4>1. PICK q, m : q \in Plans /\ Mark(q, m)
        BY <3>3
      <4>2. CASE q = p
        <5>1. journal[p] \in Entries /\ journal'[p] = [journal[p] EXCEPT !.marks = @ \cup m]
          BY <1>1, <4>1, <4>2 DEF Mark, Append1
        <5>2. QED
          BY <5>1 DEF Entries
      <4>3. CASE q # p
        BY <1>1, <4>1, <4>3 DEF Mark, Append1
      <4>4. QED
        BY <4>2, <4>3
    <3>4. QED
      BY <1>2, <3>1, <3>2, <3>3
  <2>2. QED
    BY <1>1, <2>1, ResultsKept
<1>3. CASE Start
  BY <1>1, <1>3, StartVerifies
<1>4. CASE Execution
  <2>1. PICK q \in Plans : Receive(q) \/ Acquire(q) \/ StepNotStarted(q) \/ Invoke(q)
                               \/ StepReturns(q) \/ Abort(q) \/ Finish(q)
    BY <1>4 DEF Execution
  <2>2. CASE q = p
    BY <1>1, <2>1, <2>2, ExecutionVerifies
  <2>3. CASE q # p
    <3>1. journal' = journal \/ \E e : Append1(q, e)
      BY <2>1 DEF Receive, Acquire, StepNotStarted, Invoke, StepReturns, Abort, Finish
    <3>2. QED
      BY <1>2, <2>3, <3>1
  <2>4. QED
    BY <2>2, <2>3
<1>5. CASE Settling
  <2>1. journal' = journal \/ \E q \in Plans : \E m : Mark(q, m)
    BY <1>5 DEF Settling, Settle, Deliver, RecoveryCall, AcknowledgeCall, Report, Probe,
                SendEvidence, CloseReconciliation, Acknowledged
  <2>2. QED
    BY <1>2, <2>1
<1>6. CASE ~Start /\ ~Execution /\ ~Settling
  <2>1. journal' = journal
    BY <1>6 DEF RuntimeNext, RegisterCall, LeaseCall, Crash, TakesEffect, ServeLate, TimePasses,
                SessionLapses, RecoveryLapses, PlanLapses, Cloud, Owner, vars, localVars
  <2>2. QED
    BY <1>2, <2>1
<1>7. QED
  BY <1>3, <1>4, <1>5, <1>6

\* Of a plan that is no batch every outcome that may have left an effect passes the
\* server's verification, and so does every outcome of a single step: only a failure of
\* several steps, which the runs and findings are about, can be refused for good.
THEOREM DoubtIsRecordable == RuntimeSpec => [](\A p \in Plans \ Batch : Recordable(p))
<1>1. RuntimeInit => RecordableInv
  <2> SUFFICES ASSUME RuntimeInit, NEW p \in Plans \ Batch PROVE ResultsOK(p)
    BY DEF RecordableInv
  <2>1. journal[p].results = <<>> /\ journal[p].outcome = NoOutcome /\ Len(<<>>) = 0
    BY DEF RuntimeInit, Blank
  <2>2. QED
    BY <2>1 DEF ResultsOK, Recordable, Local
<1>2. RecordableInv => \A p \in Plans \ Batch : Recordable(p)
  BY DEF RecordableInv, ResultsOK
<1>3. QED
  BY <1>1, <1>2, RecordableStep, RuntimeInvariance, PTL DEF RuntimeSpec

=============================================================================
