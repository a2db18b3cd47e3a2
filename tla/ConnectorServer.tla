--------------------------- MODULE ConnectorServer ---------------------------
(***************************************************************************)
(* The server side of Connector V2 for one device: runtime sessions, plans *)
(* and their leases, signed outcomes, recovery sessions, the disposition   *)
(* of uncertain plans by their owner, and the outbox that projects         *)
(* outcomes into the domain. Every writer first locks the device's row     *)
(* (FOR UPDATE), so each repository method is one action; a method that    *)
(* raises is rolled back and changes nothing.                              *)
(*                                                                         *)
(* Next lets any caller send any request at any time, with any token that  *)
(* was ever handed out: what holds here holds whatever requests are lost,  *)
(* delayed, repeated or reordered on their way.                            *)
(***************************************************************************)
EXTENDS Naturals, Sequences, FiniteSets

CONSTANTS Plans, Inputs, Workers,
          Steps,       \* the kinds of each plan's steps: "read", "publish", "write"
          Input,       \* tenant, actor, capability and normalized input of each plan
          SafeRepeat,  \* plans that may repeat a write of an earlier runtime
          Runtime(_),  \* generation and instance id with which a session is installed
          Nobody,      \* the SQL NULL of lease_owner and plan_id
          MaxSession, MaxRecovery, MaxSequence   \* bounds of the counters below

Kinds == {"read", "publish", "write"}

ASSUME ConnectorAssumption ==
    /\ Steps \in [Plans -> Seq(Kinds)] /\ \A p \in Plans : Len(Steps[p]) > 0
    /\ Input \in [Plans -> Inputs]
    /\ SafeRepeat \subseteq Plans
    /\ Nobody \notin Workers \cup Plans
    /\ MaxSession \in Nat /\ MaxRecovery \in Nat /\ MaxSequence \in Nat

VARIABLES
    gen,        \* runtime_generation
    session,    \* the installed session, and whether it has not expired
    reserved,   \* takeover_instance_id is set
    plans,      \* one row for each plan
    recovery,   \* the device's recovery session
    lastSeq,    \* last_journal_sequence
    intents,    \* projection outbox: one row for each plan with an outcome
    jobs,       \* what each projection worker has claimed
    applied     \* the outcome of each plan that the domain has applied last

sessionVars == <<gen, session, reserved>>
projectionVars == <<intents, jobs, applied>>
serverVars == <<sessionVars, plans, recovery, lastSeq, projectionVars>>

Verdicts == {"succeeded", "failed_without_effect", "outcome_unknown", "manual_review_required"}
Unresolved == {"leased", "outcome_unknown", "manual_review_required"}
Uncertain == {"outcome_unknown", "manual_review_required"}
Closed == {"succeeded", "failed_without_effect", "expired", "cancelled"}

\* A row's outcome_hash: who signed the record, its verdict and journal sequence,
\* and whether it is, or carries, the runtime's own outcome.
NoOutcome == [by |-> "none", status |-> "none", seq |-> 0, original |-> FALSE]
Outcomes == [by : {"runtime", "server"}, status : Verdicts, seq : Nat, original : BOOLEAN]
Signed(v, n) == [by |-> "runtime", status |-> v, seq |-> n, original |-> TRUE]

NoPlan == [status |-> "none", session |-> 0, attempts |-> 0, live |-> FALSE, fresh |-> FALSE,
           outcome |-> NoOutcome, reconciled |-> FALSE]
Rows == [status : {"none", "queued"} \cup Unresolved \cup Closed,
         session : Nat, attempts : Nat,
         live : BOOLEAN,        \* unresolved, and lease_until > now
         fresh : BOOLEAN,       \* queued, and expires_at > now
         outcome : Outcomes \cup {NoOutcome},
         reconciled : BOOLEAN]  \* reconciled_at is set
Recoveries == [id : Nat, live : BOOLEAN, consumed : BOOLEAN, session : Nat,
               plan : Plans \cup {Nobody}]
Intents == [status : {"none", "pending", "projecting", "retryable_failed", "projected",
                      "reconciliation_required"},
            owner : Workers \cup {Nobody}, live : BOOLEAN]
NoIntent == [status |-> "none", owner |-> Nobody, live |-> FALSE]
Pending == [status |-> "pending", owner |-> Nobody, live |-> FALSE]
Idle == [at |-> "idle", plan |-> Nobody, outcome |-> NoOutcome]
Jobs == {Idle} \cup [at : {"claimed", "read", "applied", "failed"},
                     plan : Plans, outcome : Outcomes \cup {NoOutcome}]

TypeOK ==
    /\ gen \in Nat \ {0}
    /\ session \in [id : Nat, live : BOOLEAN]
    /\ reserved \in BOOLEAN
    /\ plans \in [Plans -> Rows] /\ \A p \in Plans : plans[p].live => session.live
    /\ recovery \in Recoveries
    /\ lastSeq \in Nat
    /\ intents \in [Plans -> Intents]
    /\ jobs \in [Workers -> Jobs]
    /\ applied \in [Plans -> Outcomes \cup {NoOutcome}]

\* A paired device that has never registered a session.
Init ==
    /\ gen = 1
    /\ session = [id |-> 0, live |-> FALSE]
    /\ reserved = FALSE
    /\ plans = [p \in Plans |-> NoPlan]
    /\ recovery = [id |-> 0, live |-> FALSE, consumed |-> FALSE, session |-> 0, plan |-> Nobody]
    /\ lastSeq = 0
    /\ intents = [p \in Plans |-> NoIntent]
    /\ jobs = [w \in Workers |-> Idle]
    /\ applied = [p \in Plans |-> NoOutcome]

-----------------------------------------------------------------------------
(* Runtime sessions.                                                       *)

StepKinds(p) == {Steps[p][i] : i \in 1..Len(Steps[p])}

\* Plans whose steps can all be abandoned: reads that publish nothing.
ReadOnly(p) == StepKinds(p) \subseteq {"read"}
Writing(p) == "write" \in StepKinds(p)

Authentic(t) == session.live /\ session.id = t

UnresolvedPlans == {p \in Plans : plans[p].status \in Unresolved}

\* Mutant of Retirable: a write whose lease has run out is retired too.
RetirableAny(p, restarted) ==
    /\ plans[p].status \in Unresolved
    /\ restarted \/ plans[p].status = "outcome_unknown" \/ ~plans[p].live

Retirable(p, restarted) ==
    /\ plans[p].status \in Unresolved
    /\ ReadOnly(p)
    /\ restarted \/ plans[p].status = "outcome_unknown" \/ ~plans[p].live

\* Mutant of NeverIssued: the plans queued for the old session stay queued.
NeverIssuedKept(p) == FALSE

NeverIssued(p) ==
    plans[p].status = "queued" /\ plans[p].session = session.id /\ plans[p].attempts = 0

\* Rows after the plans in P are closed without effect.
Abandoned(P) ==
    [p \in Plans |-> IF p \in P
                     THEN [plans[p] EXCEPT !.status = "failed_without_effect",
                                           !.live = FALSE, !.fresh = FALSE]
                     ELSE plans[p]]

\* _install_runtime_session: a new token; the old session's queue goes with it.
Install(g, live, retired) ==
    /\ session.id < MaxSession
    /\ gen' = g
    /\ session' = [id |-> session.id + 1, live |-> live]
    /\ plans' = Abandoned(retired \cup {p \in Plans : NeverIssued(p)})

CanRestart(t) ==
    /\ Authentic(t)
    /\ \A p \in UnresolvedPlans : Retirable(p, TRUE)

Restart(t) ==
    /\ CanRestart(t)
    /\ Install(gen, TRUE, {p \in Plans : Retirable(p, TRUE)})
    /\ UNCHANGED <<reserved, recovery, lastSeq, projectionVars>>

Available == ~session.live

CanRegister(g, mine) ==
    /\ g = gen
    /\ Available
    /\ \A p \in UnresolvedPlans : Retirable(p, FALSE)
    /\ reserved => mine

\* "mine": the caller is the instance a takeover has reserved the device for.
Register(g, mine) ==
    /\ CanRegister(g, mine)
    /\ Install(gen, TRUE, {p \in Plans : Retirable(p, FALSE)})
    /\ reserved' = FALSE
    /\ UNCHANGED <<recovery, lastSeq, projectionVars>>

\* The provider has read generation g and token t before the device was locked.
TakeoverAllowed(g, t) == g = gen /\ t = session.id /\ UnresolvedPlans = {}

\* The installed session is expired at once: its instance must register.
ForceTakeover(g, t) ==
    /\ TakeoverAllowed(g, t)
    /\ Install(gen + 1, FALSE, {})
    /\ reserved' = TRUE
    /\ UNCHANGED <<recovery, lastSeq, projectionVars>>

-----------------------------------------------------------------------------
(* Recovery sessions: the right to reconcile or acknowledge one plan.      *)

\* A crashed executor's lease has run out with its session.
LeaseLapsed(p) ==
    plans[p].status = "leased" /\ plans[p].session = session.id /\ ~plans[p].live

Recoverable(p) ==
    /\ plans[p].session = session.id
    /\ \/ LeaseLapsed(p)
       \/ plans[p].status \in Uncertain
       \/ /\ plans[p].status \in {"succeeded", "failed_without_effect"}
          /\ plans[p].outcome # NoOutcome
          /\ ~plans[p].reconciled

SessionOver(g) == g = gen /\ session.id # 0 /\ ~session.live
RecoveryBusy == recovery.live /\ ~recovery.consumed

RegisterRecovery(g, p) ==
    /\ recovery.id < MaxRecovery
    /\ SessionOver(g) /\ Recoverable(p) /\ ~RecoveryBusy
    /\ plans' = [plans EXCEPT ![p].status = IF LeaseLapsed(p) THEN "outcome_unknown" ELSE @]
    /\ recovery' = [id |-> recovery.id + 1, live |-> TRUE, consumed |-> FALSE,
                    session |-> session.id, plan |-> p]
    /\ UNCHANGED <<sessionVars, lastSeq, projectionVars>>

AuthenticRecovery(t, p) ==
    /\ recovery.id = t /\ recovery.live /\ ~recovery.consumed
    /\ recovery.session = session.id
    /\ recovery.plan = p

-----------------------------------------------------------------------------
(* Queueing and leasing plans.                                             *)

Equivalents(p) == {q \in Plans \ {p} : Input[q] = Input[p]}

\* An earlier attempt that may be closed because it could not leave an effect.
Superseded(q) ==
    /\ ReadOnly(q)
    /\ \/ plans[q].status \in Uncertain
       \/ (plans[q].status = "leased" /\ ~plans[q].live)
       \/ (plans[q].status = "queued" /\ ~plans[q].fresh)

\* Mutant of Repeatable: an uncertain write may be repeated.
RepeatableUncertain(p, q) ==
    plans[q].status \in {"queued", "leased"} => Superseded(q)

\* Mutant of Repeatable: a write that has succeeded may be repeated.
RepeatableSucceeded(p, q) ==
    plans[q].status \in Unresolved \cup {"queued"} => Superseded(q)

\* Whether plan p may be queued although q asks for the same. A caller that registers
\* with the instance id it had before is the same runtime in a new session.
Repeatable(p, q) ==
    /\ plans[q].status \in Unresolved \cup {"queued"} => Superseded(q)
    /\ plans[q].status = "succeeded" /\ Writing(p)
       /\ Runtime(plans[q].session) # Runtime(session.id)
           => p \in SafeRepeat

Insert(p) ==
    /\ session.live
    /\ plans[p].status = "none"
    /\ \A q \in Equivalents(p) : Repeatable(p, q)
    /\ plans' = [Abandoned({q \in Equivalents(p) : Superseded(q)}) EXCEPT
                     ![p] = [NoPlan EXCEPT !.status = "queued", !.session = session.id,
                                           !.fresh = TRUE]]
    /\ UNCHANGED <<sessionVars, recovery, lastSeq, projectionVars>>

\* Mutant of Swept: the sweep leaves expired plans in the queue.
SweptLeases ==
    [p \in Plans |-> IF LeaseLapsed(p) THEN [plans[p] EXCEPT !.status = "outcome_unknown"]
                     ELSE plans[p]]

\* Rows after the sweep that precedes every lease.
Swept ==
    [p \in Plans |->
        IF LeaseLapsed(p) THEN [plans[p] EXCEPT !.status = "outcome_unknown"]
        ELSE IF plans[p].status = "queued" /\ plans[p].session = session.id /\ ~plans[p].fresh
             THEN [plans[p] EXCEPT !.status = "expired"]
             ELSE plans[p]]

\* Mutant of LeaseFree: a plan of uncertain outcome does not hold up the next.
LeaseFreeWhenUncertain == \A p \in Plans : plans[p].status # "leased" \/ LeaseLapsed(p)

LeaseFree == UnresolvedPlans = {}

Leasable(p) ==
    /\ LeaseFree
    /\ plans[p].status = "queued" /\ plans[p].fresh /\ plans[p].session = session.id

\* Plans are handed out in the order of their creation; the order is left open.
Lease(t, p) ==
    /\ Authentic(t)
    /\ Leasable(p)
    /\ plans' = [Swept EXCEPT ![p].status = "leased", ![p].live = TRUE,
                              ![p].fresh = FALSE, ![p].attempts = @ + 1]
    /\ UNCHANGED <<sessionVars, recovery, lastSeq, projectionVars>>

\* The sweep is committed although nothing can be leased.
LeaseNothing(t) ==
    /\ Authentic(t)
    /\ \A p \in Plans : ~Leasable(p)
    /\ plans' = Swept
    /\ UNCHANGED <<sessionVars, recovery, lastSeq, projectionVars>>

-----------------------------------------------------------------------------
(* Outcomes.                                                               *)

\* Results of a prefix of the plan's steps.
StepResults(p) == UNION {[1..n -> Verdicts] : n \in 1..Len(Steps[p])}

\* OutcomeVerifier.verify_steps: only the last step may have gone wrong, and an
\* operation failed without effect only if no earlier step has changed anything.
VerifySteps(p, results, verdict) ==
    LET n == Len(results) IN
    /\ n \in 1..Len(Steps[p])
    /\ \A i \in 1..(n - 1) : results[i] = "succeeded"
    /\ results[n] = verdict
    /\ verdict = "succeeded" => n = Len(Steps[p])
    /\ verdict = "failed_without_effect" => \A i \in 1..(n - 1) : Steps[p][i] # "write"

\* The record is of this plan's lease in the installed session.
Bound(p) == plans[p].session = session.id /\ plans[p].attempts > 0

Reportable(p) ==
    plans[p].status = "leased" /\ plans[p].outcome = NoOutcome /\ plans[p].live

Projectable(p) == intents[p].status # "projecting"

Record(p, o, reconciled) ==
    /\ plans' = [plans EXCEPT ![p].status = o.status, ![p].outcome = o,
                              ![p].reconciled = reconciled,
                              ![p].live = @ /\ o.status \in Unresolved]
    /\ lastSeq' = o.seq
    /\ intents' = [intents EXCEPT ![p] = Pending]

CanComplete(t, p, results, v, n) ==
    /\ Authentic(t) /\ Bound(p)
    /\ VerifySteps(p, results, v)
    /\ n > lastSeq
    /\ Reportable(p) /\ Projectable(p)

Complete(t, p, results, v, n) ==
    /\ CanComplete(t, p, results, v, n)
    /\ Record(p, Signed(v, n), FALSE)
    /\ UNCHANGED <<sessionVars, recovery, jobs, applied>>

\* A repeated delivery of the recorded outcome is answered and changes nothing.
AlreadyRecorded(t, p, v, n) ==
    Authentic(t) /\ Bound(p) /\ plans[p].outcome = Signed(v, n)

Doubtful(p) ==
    plans[p].status \in Uncertain \/ (plans[p].status = "leased" /\ ~plans[p].live)

\* The token of a live session, or of the recovery session once it is over.
ReconcilerFor(p, t) ==
    IF session.live THEN Authentic(t) ELSE session.id # 0 /\ AuthenticRecovery(t, p)

\* Mutant of Reconcilable: probes may correct a verdict that nobody acknowledged.
ReconcilableAcknowledged(p) ==
    /\ Doubtful(p) \/ (plans[p].status = "succeeded" /\ ~plans[p].reconciled)
    /\ Projectable(p)

Reconcilable(p) ==
    /\ Doubtful(p)
    /\ Projectable(p)

\* mark_reconciled, with the verdict v that the evidence of the probes amounts to.
\* The evidence is bound to the sequence it was asked for.
Reconcile(t, p, v, n) ==
    /\ ReconcilerFor(p, t) /\ Bound(p)
    /\ v \in Verdicts \ {"outcome_unknown"}
    /\ n = lastSeq + 1
    /\ Reconcilable(p)
    /\ Record(p, [by |-> "server", status |-> v, seq |-> n,
                  original |-> plans[p].outcome.original], TRUE)
    /\ recovery' = IF ~session.live /\ v # "manual_review_required"
                   THEN [recovery EXCEPT !.consumed = TRUE] ELSE recovery
    /\ UNCHANGED <<sessionVars, jobs, applied>>

\* acknowledge_v2_outcome: the recovery session learns that the outcome is there.
CanAcknowledge(p, v, n) ==
    /\ plans[p].status = v /\ v \in {"succeeded", "failed_without_effect"}
    /\ ~plans[p].reconciled
    /\ plans[p].outcome = Signed(v, n)

Acknowledge(t, p, v, n) ==
    /\ AuthenticRecovery(t, p)
    /\ CanAcknowledge(p, v, n)
    /\ recovery' = [recovery EXCEPT !.consumed = TRUE]
    /\ UNCHANGED <<sessionVars, plans, lastSeq, projectionVars>>

\* resolve_manual_recovery: the owner decides on the outcome that was shown.
Resolve(p, shown) ==
    /\ Doubtful(p)
    /\ plans[p].outcome = shown
    /\ plans' = [plans EXCEPT ![p].status = "cancelled", ![p].reconciled = TRUE,
                              ![p].live = FALSE]
    /\ UNCHANGED <<sessionVars, recovery, lastSeq, projectionVars>>

-----------------------------------------------------------------------------
(* Projection of outcomes: workers that claim, read, apply and settle.     *)

SetIntent(p, i) == intents' = [intents EXCEPT ![p] = i]
SetJob(w, j) == jobs' = [jobs EXCEPT ![w] = j]
Holds(w) ==
    LET i == intents[jobs[w].plan] IN
    i.status = "projecting" /\ i.owner = w /\ i.live

ClaimProjection(w, p) ==
    /\ jobs[w].at = "idle"
    /\ intents[p].status \in {"pending", "retryable_failed"}
    /\ SetIntent(p, [status |-> "projecting", owner |-> w, live |-> TRUE])
    /\ SetJob(w, [at |-> "claimed", plan |-> p, outcome |-> NoOutcome])
    /\ UNCHANGED <<sessionVars, plans, recovery, lastSeq, applied>>

\* read_projection_payload: plan and outcome under the claim.
ReadProjection(w) ==
    /\ jobs[w].at = "claimed"
    /\ SetJob(w, IF Holds(w)
                 THEN [jobs[w] EXCEPT !.at = "read", !.outcome = plans[jobs[w].plan].outcome]
                 ELSE [jobs[w] EXCEPT !.at = "failed"])
    /\ UNCHANGED <<sessionVars, plans, recovery, lastSeq, intents, applied>>

\* verified_v2_projection: the domain asks again before it applies the outcome.
Verified(p, o) ==
    intents[p].status = "projecting" /\ intents[p].live /\ plans[p].outcome = o

Apply(w) ==
    LET p == jobs[w].plan IN
    /\ jobs[w].at = "read"
    /\ \/ /\ Verified(p, jobs[w].outcome)
          /\ applied' = [applied EXCEPT ![p] = jobs[w].outcome]
          /\ SetJob(w, [jobs[w] EXCEPT !.at = "applied"])
       \/ /\ SetJob(w, [jobs[w] EXCEPT !.at = "failed"])
          /\ UNCHANGED applied
    /\ UNCHANGED <<sessionVars, plans, recovery, lastSeq, intents>>

\* Mutant of Settles: a claim that was lost is settled all the same.
SettlesAnyone(w) == intents[jobs[w].plan].status = "projecting"

Settles(w) == Holds(w)

\* finish_projection or fail_projection, refused when the claim is gone.
SettleProjection(w) ==
    LET p == jobs[w].plan IN
    /\ jobs[w].at \in {"applied", "failed"}
    /\ SetJob(w, Idle)
    /\ IF Settles(w)
       THEN \E s \in IF jobs[w].at = "applied" THEN {"projected"}
                     ELSE {"retryable_failed", "reconciliation_required"} :
                SetIntent(p, [Pending EXCEPT !.status = s])
       ELSE UNCHANGED intents
    /\ UNCHANGED <<sessionVars, plans, recovery, lastSeq, applied>>

\* reclaim_stale_projections, run by any worker before it claims.
ReclaimProjection(p) ==
    /\ intents[p].status = "projecting" /\ ~intents[p].live
    /\ SetIntent(p, [Pending EXCEPT !.status = "retryable_failed"])
    /\ UNCHANGED <<sessionVars, plans, recovery, lastSeq, jobs, applied>>

-----------------------------------------------------------------------------
(* The clock. A lease ends no later than its session and its plan.         *)

\* Mutant of SessionExpires: the leases of the session live on.
SessionExpiresAlone ==
    /\ session.live
    /\ session' = [session EXCEPT !.live = FALSE]
    /\ UNCHANGED <<gen, reserved, plans, recovery, lastSeq, projectionVars>>

SessionExpires ==
    /\ session.live
    /\ session' = [session EXCEPT !.live = FALSE]
    /\ plans' = [p \in Plans |-> [plans[p] EXCEPT !.live = FALSE]]
    /\ UNCHANGED <<gen, reserved, recovery, lastSeq, projectionVars>>

LeaseExpires(p) ==
    /\ plans[p].live
    /\ plans' = [plans EXCEPT ![p].live = FALSE]
    /\ UNCHANGED <<sessionVars, recovery, lastSeq, projectionVars>>

PlanExpires(p) ==
    /\ plans[p].fresh
    /\ plans' = [plans EXCEPT ![p].fresh = FALSE]
    /\ UNCHANGED <<sessionVars, recovery, lastSeq, projectionVars>>

RecoveryExpires ==
    /\ recovery.live
    /\ recovery' = [recovery EXCEPT !.live = FALSE]
    /\ UNCHANGED <<sessionVars, plans, lastSeq, projectionVars>>

ProjectionLapses(p) ==
    /\ intents[p].live
    /\ SetIntent(p, [intents[p] EXCEPT !.live = FALSE])
    /\ UNCHANGED <<sessionVars, plans, recovery, lastSeq, jobs, applied>>

Tick ==
    \/ SessionExpires \/ RecoveryExpires
    \/ \E p \in Plans : LeaseExpires(p) \/ PlanExpires(p) \/ ProjectionLapses(p)

Projector ==
    \/ \E w \in Workers :
           ReadProjection(w) \/ Apply(w) \/ SettleProjection(w)
               \/ \E p \in Plans : ClaimProjection(w, p)
    \/ \E p \in Plans : ReclaimProjection(p)

-----------------------------------------------------------------------------
(* Any caller.                                                             *)

SessionRequest ==
    \/ \E t \in 1..MaxSession : Restart(t)
    \/ \E g \in 1..MaxSession, mine \in BOOLEAN : Register(g, mine)
    \/ \E g \in 1..MaxSession, t \in 0..MaxSession : ForceTakeover(g, t)
    \/ \E g \in 1..MaxSession, p \in Plans : RegisterRecovery(g, p)

PlanRequest ==
    \/ \E p \in Plans : Insert(p)
    \/ \E t \in 1..MaxSession : LeaseNothing(t) \/ \E p \in Plans : Lease(t, p)
    \/ \E p \in Plans : Resolve(p, plans[p].outcome)

OutcomeRequest ==
    \E p \in Plans, v \in Verdicts, n \in 1..MaxSequence :
        \/ \E t \in 1..MaxSession, results \in StepResults(p) : Complete(t, p, results, v, n)
        \/ \E t \in 1..(MaxSession + MaxRecovery) : Reconcile(t, p, v, n)
        \/ \E t \in 1..MaxRecovery : Acknowledge(t, p, v, n)

Next == SessionRequest \/ PlanRequest \/ OutcomeRequest \/ Tick \/ Projector

Spec == Init /\ [][Next]_serverVars

-----------------------------------------------------------------------------
(* Properties.                                                             *)

\* What a row tells of its plan.
Fate(row) ==
    CASE row.status = "none" -> "absent"
      [] row.status = "queued" -> "queued"
      [] row.status = "leased" -> "handed"
      [] row.status \in Uncertain -> "uncertain"
      [] row.status = "succeeded" -> "succeeded"
      [] row.status = "cancelled" -> "abandoned"
      [] OTHER -> IF row.attempts = 0 THEN "dropped" ELSE "failed"

Lifecycle == INSTANCE PlanLifecycle WITH fate <- [p \in Plans |-> Fate(plans[p])]

\* The repository implements the lifecycle of a plan (PlanLifecycle).
KeepsLifecycle == Lifecycle!Spec

\* The device works on one plan at a time: while one is leased or its outcome
\* uncertain nothing else is leased (_has_unresolved_plans), whatever expires,
\* restarts or is taken over in between.
OneUnresolved ==
    \A p, q \in UnresolvedPlans : p = q

\* A replaced session leaves nothing behind: open plans belong to the installed
\* session, so nobody but its runtime, or a recovery of it, can report on them.
OpenPlansAreCurrent ==
    \A p \in Plans : plans[p].status \in Unresolved \cup {"queued"} =>
        plans[p].session = session.id /\ session.id # 0

\* A plan is handed to a runtime at most once, so no retry of the protocol can
\* make a runtime execute it again (lease_v2_plan, attempts).
LeasedOnce ==
    \A p \in Plans : plans[p].attempts <= 1

\* While the fate of a request is open, no equivalent plan is queued (insert_v2_plan).
EquivalentsWait ==
    \A p, q \in Plans :
        /\ Input[p] = Input[q] /\ p # q
        /\ plans[p].status \in Unresolved \cup {"queued"}
        => plans[q].status \notin Unresolved \cup {"queued"}

\* A write that has succeeded is carried out again in a later session of another
\* runtime only if its repetition is known to be safe (insert_v2_plan, safe_repeat).
WritesRepeatedKnowingly ==
    \A p, q \in Plans :
        /\ Input[p] = Input[q] /\ Writing(p)
        /\ plans[p].status = "succeeded" /\ plans[q].status = "succeeded"
        /\ plans[q].session < plans[p].session
        /\ Runtime(plans[q].session) # Runtime(plans[p].session)
        => p \in SafeRepeat

\* The server never guesses the fate of work that was handed out: success, and
\* failure without effect of anything but a pure read, are recorded verdicts.
VerdictsAreRecorded ==
    \A p \in Plans :
        /\ plans[p].status = "succeeded" => plans[p].outcome.status = "succeeded"
        /\ plans[p].status = "failed_without_effect" /\ plans[p].attempts > 0 /\ ~ReadOnly(p)
               => plans[p].outcome.status = "failed_without_effect"

\* A projected intent means that the domain has applied the outcome that is
\* recorded now, although claims lapse and outcomes are replaced meanwhile.
ProjectedIsCurrent ==
    \A p \in Plans : intents[p].status = "projected" => applied[p] = plans[p].outcome

\* A closed plan keeps its status and its outcome: late reports, acknowledgements,
\* recoveries and dispositions do not reopen it.
ClosedIsFinal ==
    [][\A p \in Plans : plans[p].status \in Closed =>
           plans'[p].status = plans[p].status /\ plans'[p].outcome = plans[p].outcome]_serverVars

\* An outcome is replaced only while uncertain, by the evidence of later probes,
\* and the runtime's own record stays part of it.
OutcomesAreKept ==
    [][\A p \in Plans : plans[p].outcome # NoOutcome /\ plans'[p].outcome # plans[p].outcome =>
           /\ plans[p].outcome.status \in Uncertain
           /\ plans'[p].outcome.by = "server"
           /\ plans'[p].outcome.seq > plans[p].outcome.seq
           /\ plans'[p].outcome.original = plans[p].outcome.original]_serverVars
=============================================================================
