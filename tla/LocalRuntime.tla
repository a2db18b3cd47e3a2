---------------------------- MODULE LocalRuntime ----------------------------
(***************************************************************************)
(* The AppHost of the local runtime together with the connector server: it *)
(* leases plans, executes their steps against the viewer, journals every   *)
(* step durably, delivers the signed outcome, and after a restart settles  *)
(* what its journal leaves open, by delivery or by read-only probes.       *)
(*                                                                         *)
(* A call to the server is one action when its answer arrives. A call      *)
(* without an answer leaves the request behind, and the server may still   *)
(* serve it at any later time (late). The host may crash at any moment.    *)
(* The viewer is a process of its own: a write it was asked for may take   *)
(* effect after the call has timed out and after the host has gone.        *)
(* MaxFaults bounds the crashes and lost calls of a behaviour.             *)
(***************************************************************************)
EXTENDS ConnectorServer

CONSTANTS Batch,      \* file batches, which go on after a file that failed
          MaxFaults

ASSUME RuntimeAssumption == Batch \subseteq Plans /\ MaxFaults \in Nat

VARIABLES
    journal,   \* what AppPlanJournal holds of each plan
    length,    \* number of journalled outcomes and evidences
    saved,     \* token of the session in the credential store
    host,      \* the process: where it stands and what it remembers
    pending,   \* invoked writes of each plan that the viewer may yet carry out
    done,      \* steps whose write has taken effect
    runs,      \* how often the viewer carried out each step
    late,      \* requests left behind
    faults

localVars == <<journal, length, saved, host, pending, done, runs, late, faults>>
viewerVars == <<pending, done, runs>>
vars == <<serverVars, localVars>>

Marks == {"reconciled", "manual_review_required", "acknowledged"}
Terminal == {"succeeded", "failed_without_effect"}
StepsOf(p) == 1..Len(Steps[p])
Writes(p) == {i \in StepsOf(p) : Steps[p][i] = "write"}

Blank == [lease |-> "none", results |-> <<>>, open |-> FALSE, outcome |-> NoOutcome, marks |-> {}]
Entries == [lease : {"none", "received", "acquired"},
            results : Seq(Verdicts),
            open : BOOLEAN,            \* invocation_started without step_terminal
            outcome : Outcomes \cup {NoOutcome},
            marks : SUBSET Marks]

NoEvidence == [seq |-> 0, verdict |-> "none", inconclusive |-> FALSE]
Down == [at |-> "down", plan |-> Nobody, todo |-> {}, original |-> 0, right |-> 0,
         evidence |-> NoEvidence]
Hosts == [at : {"down", "recovering", "register", "idle", "executing", "delivering",
                "reconciling", "probed", "reconciled", "reporting"},
          plan : Plans \cup {Nobody},
          todo : SUBSET Plans,         \* recovered outcomes still to be settled
          original : Nat, right : Nat, \* the session and recovery session to deliver with
          evidence : [seq : Nat, verdict : Verdicts \cup {"none"}, inconclusive : BOOLEAN]]

Request(kind, token, p, v, n) ==
    [kind |-> kind, token |-> token, plan |-> p, verdict |-> v, seq |-> n]

RuntimeTypeOK ==
    /\ TypeOK
    /\ journal \in [Plans -> Entries]
    /\ length \in Nat /\ lastSeq <= length
    /\ saved \in 0..session.id
    /\ host \in Hosts
    /\ pending \in [Plans -> SUBSET Nat]
    /\ done \in [Plans -> SUBSET Nat]
    /\ runs \in [Plans -> Nat]
    /\ faults \in 0..MaxFaults

RuntimeInit ==
    /\ Init
    /\ journal = [p \in Plans |-> Blank]
    /\ length = 0
    /\ saved = 0
    /\ host = Down
    /\ pending = [p \in Plans |-> {}]
    /\ done = [p \in Plans |-> {}]
    /\ runs = [p \in Plans |-> 0]
    /\ late = {}
    /\ faults = 0

-----------------------------------------------------------------------------
(* Calls.                                                                  *)

Goto(place) == host' = [host EXCEPT !.at = place]
Stop == host' = Down

\* The call gets no answer; the server may yet receive it.
Lost(m) ==
    /\ faults < MaxFaults
    /\ faults' = faults + 1
    /\ late' \in {late, late \cup {m}}
    /\ UNCHANGED serverVars

Answered == UNCHANGED <<late, faults>>
Refused == UNCHANGED <<serverVars, late, faults>>

Serve(m) ==
    \/ m.kind = "restart" /\ Restart(m.token)
    \/ m.kind = "register" /\ Register(gen, TRUE)
    \/ m.kind = "recovery" /\ RegisterRecovery(gen, m.plan)
    \/ m.kind = "lease" /\ (LeaseNothing(m.token) \/ \E p \in Plans : Lease(m.token, p))
    \/ m.kind = "outcome" /\ Complete(m.token, m.plan, journal[m.plan].results, m.verdict, m.seq)
    \/ m.kind = "acknowledge" /\ Acknowledge(m.token, m.plan, m.verdict, m.seq)
    \/ m.kind = "reconcile" /\ Reconcile(m.token, m.plan, m.verdict, m.seq)

ServeLate(m) ==
    /\ m \in late
    /\ Serve(m)
    /\ late' = late \ {m}
    /\ UNCHANGED <<journal, length, saved, host, viewerVars, faults>>

-----------------------------------------------------------------------------
(* The journal.                                                            *)

Append1(p, e) == journal' = [journal EXCEPT ![p] = e]

\* PersistOutcome: the verdict over all step results.
Overall(results) ==
    LET seen == {results[i] : i \in 1..Len(results)} IN
    IF "outcome_unknown" \in seen THEN "outcome_unknown"
    ELSE IF "failed_without_effect" \in seen THEN "failed_without_effect"
    ELSE "succeeded"

WithOutcome(p, results) ==
    [journal[p] EXCEPT !.results = results, !.open = FALSE,
                       !.outcome = Signed(Overall(results), length + 1)]

\* What the journal proves about a plan without an outcome: a started invocation may
\* have had its effect; a step that was not started has had none.
RecoveredResults(p) ==
    LET results == journal[p].results
        unknown == \E i \in 1..Len(results) : results[i] = "outcome_unknown"
    IN  IF journal[p].open THEN Append(results, "outcome_unknown")
        ELSE IF ~unknown /\ Len(results) < Len(Steps[p])
             THEN Append(results, "failed_without_effect")
             ELSE results

Unsettled ==
    {p \in Plans :
        /\ journal[p].lease = "acquired"
        /\ "acknowledged" \notin journal[p].marks
        /\ "reconciled" \in journal[p].marks => "manual_review_required" \in journal[p].marks}

Mark(p, marks) ==
    Append1(p, [journal[p] EXCEPT !.marks = @ \cup marks])

-----------------------------------------------------------------------------
(* Starting, registering and leasing.                                      *)

\* Mutant of Start: a new process does not look at its journal.
StartBlind ==
    /\ host.at = "down"
    /\ host' = [Down EXCEPT !.at = "register"]
    /\ UNCHANGED <<serverVars, journal, length, saved, viewerVars, late, faults>>

\* Recover signs an outcome for the plan the last process left without one.
Start ==
    LET open == {p \in Unsettled : journal[p].outcome = NoOutcome} IN
    /\ host.at = "down"
    /\ host' = [Down EXCEPT !.at = IF Unsettled = {} THEN "register" ELSE "recovering",
                            !.todo = Unsettled]
    /\ journal' = [p \in Plans |-> IF p \in open THEN WithOutcome(p, RecoveredResults(p))
                                   ELSE journal[p]]
    /\ length' = IF open = {} THEN length ELSE length + 1
    /\ UNCHANGED <<serverVars, saved, viewerVars, late, faults>>

\* A session saved by the last process is replaced if it is still alive; a refusal
\* (unresolved plans, a live session) is tried again.
RegisterCall ==
    /\ host.at = "register"
    /\ UNCHANGED <<journal, length, viewerVars>>
    /\ \/ /\ Answered
          /\ \/ Restart(saved)
             \/ Register(gen, TRUE)
          /\ saved' = session'.id
          /\ Goto("idle")
       \/ /\ \/ Lost(Request("register", 0, Nobody, "none", 0))
             \/ saved # 0 /\ Lost(Request("restart", saved, Nobody, "none", 0))
          /\ UNCHANGED <<saved, host>>

LeaseCall ==
    /\ host.at = "idle"
    /\ UNCHANGED <<journal, length, saved, viewerVars>>
    /\ \/ /\ Answered
          /\ \E p \in Plans : Lease(saved, p) /\ host' = [host EXCEPT !.at = "executing", !.plan = p]
       \/ Answered /\ LeaseNothing(saved) /\ UNCHANGED host
       \/ Refused /\ ~Authentic(saved) /\ Stop
       \/ Lost(Request("lease", saved, Nobody, "none", 0)) /\ UNCHANGED host

-----------------------------------------------------------------------------
(* Execution of the leased plan.                                           *)

Executing(p) == host.at = "executing" /\ host.plan = p
NextStep(p) == Len(journal[p].results) + 1

\* Mutant of Fresh: a plan found in the journal is executed once more.
FreshAlways(p) == TRUE

Fresh(p) == journal[p].lease = "none"

\* plan_received, then lease_acquired; a plan already in the journal is refused.
Receive(p) ==
    /\ Executing(p) /\ Fresh(p)
    /\ Append1(p, [Blank EXCEPT !.lease = "received"])
    /\ Refused /\ UNCHANGED <<length, saved, host, viewerVars>>

Acquire(p) ==
    /\ Executing(p) /\ journal[p].lease = "received"
    /\ Append1(p, [journal[p] EXCEPT !.lease = "acquired"])
    /\ Refused /\ UNCHANGED <<length, saved, host, viewerVars>>

\* The steps end with the first that did not succeed; a batch goes on after a file
\* that has failed.
Finished(p) ==
    LET results == journal[p].results
        n == Len(results)
    IN  \/ n = Len(Steps[p])
        \/ /\ n > 0 /\ results[n] # "succeeded"
           /\ ~(p \in Batch /\ Steps[p][n] = "publish" /\ results[n] = "failed_without_effect")

Ready(p) ==
    /\ Executing(p) /\ journal[p].lease = "acquired"
    /\ ~journal[p].open /\ ~Finished(p)

\* The remaining budget is spent, or an artifact cannot be materialized.
StepNotStarted(p) ==
    /\ Ready(p)
    /\ Append1(p, [journal[p] EXCEPT !.results = Append(@, "failed_without_effect")])
    /\ Refused /\ UNCHANGED <<length, saved, host, viewerVars>>

\* The viewer is asked for the next step, if that changes anything.
Asked(p) == pending' = [pending EXCEPT ![p] = @ \cup ({NextStep(p)} \cap Writes(p))]

\* Mutant of Invoke: the invocation is journalled with its result only.
InvokeUnrecorded(p) ==
    /\ Ready(p) /\ plans[p].live /\ pending[p] = {}
    /\ Asked(p)
    /\ Refused /\ UNCHANGED <<journal, length, saved, host, done, runs>>

\* invocation_started is durable before the adapter is called.
Invoke(p) ==
    /\ Ready(p) /\ plans[p].live
    /\ Append1(p, [journal[p] EXCEPT !.open = TRUE])
    /\ Asked(p)
    /\ Refused /\ UNCHANGED <<length, saved, host, done, runs>>

\* The viewer carries out a write it was asked for, whatever has become of the host.
TakesEffect(p) ==
    /\ \E i \in pending[p] :
           /\ pending' = [pending EXCEPT ![p] = @ \ {i}]
           /\ done' = [done EXCEPT ![p] = @ \cup {i}]
    /\ runs' = [runs EXCEPT ![p] = @ + 1]
    /\ Refused /\ UNCHANGED <<journal, length, saved, host>>

\* What the adapter's answer may amount to: success, a proof that nothing was done,
\* or neither, and then the call may go on; a pure read cannot have left anything.
Results(p) ==
    LET i == NextStep(p) IN
    CASE Steps[p][i] = "read" -> {"succeeded", "failed_without_effect"}
      [] Steps[p][i] = "publish" -> {"succeeded", "failed_without_effect", "outcome_unknown"}
      [] OTHER -> {IF i \in done[p] THEN "succeeded" ELSE "failed_without_effect",
                   "outcome_unknown"}

StepReturns(p) ==
    /\ Executing(p) /\ journal[p].open
    /\ \E r \in Results(p) :
           /\ Append1(p, [journal[p] EXCEPT !.results = Append(@, r), !.open = FALSE])
           /\ pending' = [pending EXCEPT ![p] = IF r = "outcome_unknown" THEN @ ELSE {}]
    /\ Refused /\ UNCHANGED <<length, saved, host, done, runs>>

\* The lease has run out between two steps: ExecuteAsync throws and the host stops.
Abort(p) ==
    /\ Ready(p) /\ ~plans[p].live
    /\ Stop
    /\ Refused /\ UNCHANGED <<journal, length, saved, viewerVars>>

Finish(p) ==
    /\ Executing(p) /\ journal[p].lease = "acquired"
    /\ ~journal[p].open /\ Finished(p)
    /\ Append1(p, WithOutcome(p, journal[p].results))
    /\ length' = length + 1
    /\ host' = [host EXCEPT !.original = saved,
                            !.at = IF Overall(journal[p].results) \in Terminal
                                   THEN "delivering" ELSE "reporting"]
    /\ Refused /\ UNCHANGED <<saved, viewerVars>>

-----------------------------------------------------------------------------
(* Delivery.                                                               *)

Local(p) == journal[p].outcome

\* Recovered plans are settled one after the other; then the host stops. A host
\* that was working goes on, or stops if it needs a fresh process or session.
Proceed(p) ==
    IF p \in host.todo
    THEN host' = IF host.todo = {p} THEN Down
                 ELSE [Down EXCEPT !.at = "recovering", !.todo = host.todo \ {p}]
    ELSE host' \in {Down} \cup IF session.live THEN {[Down EXCEPT !.at = "idle"]} ELSE {}

Acknowledged(p) ==
    /\ Mark(p, {"acknowledged"})
    /\ Proceed(p)
    /\ UNCHANGED <<length, saved, viewerVars>>

Settle(p) ==
    /\ host.at = "recovering" /\ p \in host.todo
    /\ host' = [host EXCEPT
                   !.plan = p, !.right = 0,
                   !.original = IF saved = plans[p].session THEN saved ELSE 0,
                   !.at = IF Local(p).status \in Terminal THEN "delivering" ELSE "reconciling"]
    /\ Refused /\ UNCHANGED <<journal, length, saved, viewerVars>>

Forget(field) == host' = [host EXCEPT ![field] = 0]

\* Why the server refuses the outcome for good, in the order of its checks.
Unacceptable(p) ==
    /\ Bound(p)
    /\ \/ ~VerifySteps(p, journal[p].results, Local(p).status)
       \/ Local(p).seq <= lastSeq
       \/ plans[p].outcome # NoOutcome

\* Mutant of Deliver: the journal is marked before the server has answered.
DeliverHastily(p) ==
    /\ host.at = "delivering" /\ host.plan = p /\ host.original # 0
    /\ Lost(Request("outcome", host.original, p, Local(p).status, Local(p).seq))
    /\ Acknowledged(p)

\* POST plans/{id}/outcome in the session the plan was executed in.
Deliver(p) ==
    LET o == Local(p)
        t == host.original
    IN
    /\ host.at = "delivering" /\ host.plan = p /\ t # 0
    /\ \/ /\ Complete(t, p, journal[p].results, o.status, o.seq)
          /\ Answered /\ Acknowledged(p)
       \/ AlreadyRecorded(t, p, o.status, o.seq) /\ Refused /\ Acknowledged(p)
       \/ /\ Refused /\ UNCHANGED <<journal, length, saved, viewerVars>>
          /\ IF Authentic(t) /\ Unacceptable(p)
             THEN ~AlreadyRecorded(t, p, o.status, o.seq) /\ Stop
             ELSE (~Authentic(t) \/ ~Reportable(p)) /\ Forget("original")
       \/ /\ Lost(Request("outcome", t, p, o.status, o.seq))
          /\ UNCHANGED <<journal, length, saved, host, viewerVars>>

Recovering(p) ==
    /\ host.plan = p
    /\ \/ host.at = "reconciling"
       \/ host.at = "delivering" /\ (host.original = 0 \/ ~session.live)

\* Mutant of RecoveryCall: a plan that the server has closed is asked for for ever.
RecoveryCallOnly(p) ==
    /\ Recovering(p) /\ host.right = 0
    /\ RegisterRecovery(gen, p)
    /\ host' = [host EXCEPT !.right = recovery'.id]
    /\ Answered /\ UNCHANGED <<journal, length, saved, viewerVars>>

\* A recovery session for the plan, unless the server has closed it already.
RecoveryCall(p) ==
    /\ Recovering(p) /\ host.right = 0
    /\ \/ /\ RegisterRecovery(gen, p)
          /\ host' = [host EXCEPT !.right = recovery'.id]
          /\ Answered /\ UNCHANGED <<journal, length, saved, viewerVars>>
       \/ SessionOver(gen) /\ ~Recoverable(p) /\ Refused /\ Acknowledged(p)
       \/ /\ Lost(Request("recovery", 0, p, "none", 0))
          /\ UNCHANGED <<journal, length, saved, host, viewerVars>>

\* POST plans/{id}/acknowledge: was the outcome recorded before its answer was lost?
AcknowledgeCall(p) ==
    LET o == Local(p)
        t == host.right
    IN
    /\ host.at = "delivering" /\ Recovering(p) /\ t # 0
    /\ \/ Acknowledge(t, p, o.status, o.seq) /\ Answered /\ Acknowledged(p)
       \/ /\ Refused /\ UNCHANGED <<journal, length, saved, viewerVars>>
          /\ \/ ~AuthenticRecovery(t, p) /\ Forget("right")
             \/ AuthenticRecovery(t, p) /\ ~CanAcknowledge(p, o.status, o.seq) /\ Stop
       \/ /\ Lost(Request("acknowledge", t, p, o.status, o.seq))
          /\ UNCHANGED <<journal, length, saved, host, viewerVars>>

\* An uncertain outcome is reported once; whatever comes of it, the host stops, and
\* leaves to the viewer what it was asked for.
Report(p) ==
    LET o == Local(p) IN
    /\ host.at = "reporting" /\ host.plan = p
    /\ \/ Complete(saved, p, journal[p].results, o.status, o.seq) /\ Answered
       \/ ~CanComplete(saved, p, journal[p].results, o.status, o.seq) /\ Refused
       \/ Lost(Request("outcome", saved, p, o.status, o.seq))
    /\ Stop
    /\ UNCHANGED <<journal, length, saved, viewerVars>>

-----------------------------------------------------------------------------
(* Reconciliation by read-only probes.                                     *)

\* probe_context: the steps that were, or may have been, invoked.
Invoked(p) ==
    IF plans[p].outcome.original THEN 1..Len(journal[p].results) ELSE StepsOf(p)
Probed(p) == Invoked(p) \cap Writes(p)
Completed(p) ==
    IF plans[p].outcome.original
    THEN {i \in Invoked(p) : journal[p].results[i] = "succeeded"} ELSE {}

\* ReconciliationService.reconcile, from what the probes have seen.
Reconciled(p, seen) ==
    IF /\ Probed(p) # {} /\ \A i \in Probed(p) : seen[i] = "succeeded"
       /\ Invoked(p) = StepsOf(p) /\ StepsOf(p) \subseteq Probed(p) \cup Completed(p)
    THEN "succeeded"
    ELSE IF Probed(p) # {} /\ \A i \in Probed(p) : seen[i] = "failed_without_effect"
    THEN "failed_without_effect" ELSE "manual_review_required"

\* A probe compares the viewer as it is now with what the write was to bring about.
\* Either answer is possible, done or not: the document may be closed since, the view
\* may have been so before, and a call that goes on is still to change it.
Sights(p) ==
    [Probed(p) -> {"succeeded", "failed_without_effect", "inconclusive"}]

\* GET plans/{id}/probe, the probes, and the journalled evidence.
Probe(p) ==
    /\ host.at = "reconciling" /\ host.plan = p /\ host.right # 0
    /\ IF ReconcilerFor(p, host.right) /\ plans[p].status \in Uncertain
       THEN /\ \E seen \in Sights(p) :
                   host' = [host EXCEPT
                       !.at = "probed",
                       !.evidence = [seq |-> lastSeq + 1, verdict |-> Reconciled(p, seen),
                                     inconclusive |-> \E i \in Probed(p) : seen[i] = "inconclusive"]]
            /\ length' = length + 1
            /\ Refused /\ UNCHANGED <<journal, saved, viewerVars>>
       ELSE IF ReconcilerFor(p, host.right)
       THEN Refused /\ Acknowledged(p)
       ELSE Stop /\ Refused /\ UNCHANGED <<journal, length, saved, viewerVars>>

\* POST plans/{id}/reconcile. Evidence for a plan that the server has closed
\* meanwhile settles the plan; without an answer the host stops.
SendEvidence(p) ==
    LET e == host.evidence IN
    /\ host.at = "probed" /\ host.plan = p
    /\ \/ /\ Reconcile(host.right, p, e.verdict, e.seq) /\ Answered
          /\ Mark(p, {"reconciled"}) /\ Goto("reconciled")
          /\ UNCHANGED <<length, saved, viewerVars>>
       \/ /\ Refused
          /\ IF ReconcilerFor(p, host.right) /\ e.seq = lastSeq + 1
             THEN ~Doubtful(p) /\ Acknowledged(p)
             ELSE Stop /\ UNCHANGED <<journal, length, saved, viewerVars>>
       \/ /\ Lost(Request("reconcile", host.right, p, e.verdict, e.seq))
          /\ Stop /\ UNCHANGED <<journal, length, saved, viewerVars>>

\* An inconclusive probe keeps the plan open for the next process.
CloseReconciliation(p) ==
    /\ host.at = "reconciled" /\ host.plan = p
    /\ Mark(p, {IF host.evidence.inconclusive THEN "manual_review_required" ELSE "acknowledged"})
    /\ Proceed(p)
    /\ Refused /\ UNCHANGED <<length, saved, viewerVars>>

-----------------------------------------------------------------------------
(* The whole system.                                                       *)

Crash ==
    /\ host.at # "down" /\ faults < MaxFaults
    /\ faults' = faults + 1
    /\ Stop
    /\ UNCHANGED <<serverVars, journal, length, saved, viewerVars, late>>

Settling ==
    \E p \in Plans :
        \/ Settle(p) \/ Deliver(p) \/ RecoveryCall(p) \/ AcknowledgeCall(p) \/ Report(p)
        \/ Probe(p) \/ SendEvidence(p) \/ CloseReconciliation(p)

Execution ==
    \E p \in Plans :
        \/ Receive(p) \/ Acquire(p) \/ StepNotStarted(p) \/ Invoke(p) \/ StepReturns(p)
        \/ Abort(p) \/ Finish(p)

\* An idle host renews its session and a settling one uses its recovery session at
\* once: only a partition, which is a fault, lets them expire.
Costs(c) == faults' = faults + (IF c THEN 1 ELSE 0) /\ faults' <= MaxFaults

SessionLapses ==
    /\ SessionExpires
    /\ Costs(host.at = "idle")
    /\ UNCHANGED <<journal, length, saved, host, viewerVars, late>>

RecoveryLapses ==
    /\ RecoveryExpires
    /\ Costs(host.right = recovery.id)
    /\ UNCHANGED <<journal, length, saved, host, viewerVars, late>>

PlanLapses ==
    /\ \E p \in Plans : LeaseExpires(p) \/ PlanExpires(p)
    /\ UNCHANGED localVars

TimePasses == SessionLapses \/ RecoveryLapses \/ PlanLapses

Cloud ==
    /\ \E p \in Plans : Insert(p)
    /\ UNCHANGED localVars

Owner ==
    /\ \E p \in Plans : Resolve(p, plans[p].outcome)
    /\ UNCHANGED localVars

RuntimeNext ==
    \/ Start \/ RegisterCall \/ LeaseCall
    \/ Execution \/ Settling \/ Crash
    \/ \E p \in Plans : TakesEffect(p)
    \/ \E m \in late : ServeLate(m)
    \/ TimePasses \/ Cloud \/ Owner

RuntimeSpec == RuntimeInit /\ [][RuntimeNext]_vars

\* The user's desktop starts the host again, its loops go on, the clock advances, and
\* the owner decides on what the runtime cannot prove.
RuntimeFairness ==
    /\ WF_vars(Start) /\ WF_vars(RegisterCall) /\ WF_vars(LeaseCall)
    /\ WF_vars(Execution) /\ WF_vars(Settling)
    /\ WF_vars(SessionLapses) /\ WF_vars(RecoveryLapses) /\ WF_vars(PlanLapses)
    /\ WF_vars(Owner)

RuntimeLiveSpec == RuntimeSpec /\ RuntimeFairness

-----------------------------------------------------------------------------
(* Properties.                                                             *)

Promise == INSTANCE ConnectorPromise WITH
               fate <- [p \in Plans |-> Fate(plans[p])], effects <- done,
               judged <- {p \in Plans : plans[p].reconciled}

\* Server and runtime together keep what a plan promises (ConnectorPromise).
KeepsPromise == Promise!PromiseSpec

\* No crash, restart, lost answer or recovery makes the viewer carry out a step of
\* a plan twice (ExecuteAsync, Recover).
CarriedOutOnce ==
    \A p \in Plans : runs[p] = Cardinality(done[p])

\* The runtime forgets an executed plan only when the server has closed it, with the
\* same verdict unless its owner decided or a read was given up.
DeliveredIsClosed ==
    \A p \in Plans :
        "acknowledged" \in journal[p].marks /\ Local(p).status \in Terminal =>
            /\ plans[p].status \in Closed
            /\ plans[p].status # "cancelled" /\ ~ReadOnly(p) => plans[p].status = Local(p).status

\* Before the host takes new work it has settled everything it ever executed.
WorksOnOnePlan ==
    host.at \in {"register", "idle"} => Unsettled = {}

\* A queued plan is closed in the end, whatever crashes and losses it meets
\* (TryDeliverAsync, ReconcileAsync, resolve_manual_recovery).
PlanSettles ==
    \A p \in Plans : plans[p].status = "queued" ~> plans[p].status \in Closed

\* The host is never starved by the plans it has to settle: it always gets back to
\* asking for work.
HostWorksAgain ==
    []<>(host.at = "idle")

\* Every outcome the runtime signs passes the server's verification, partial batches
\* included: otherwise it can never be recorded.
SignedOutcomesVerify ==
    \A p \in Plans :
        Local(p) # NoOutcome => VerifySteps(p, journal[p].results, Local(p).status)
=============================================================================
