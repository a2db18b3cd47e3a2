------------------------ MODULE ConnectorServerProofs ------------------------
(***************************************************************************)
(* Proofs about the connector server, for every set of plans, inputs and   *)
(* workers, every bound of the counters, and any requests in any order.    *)
(*                                                                         *)
(* The argument: Moves lists what a request may do to one row; every       *)
(* action moves rows in these ways only (StepMoves); the facts about       *)
(* single rows (RowOK), and the properties of steps, follow from Moves     *)
(* alone, and the facts about pairs of plans from what is also asked of    *)
(* the step that opens one of them.                                        *)
(***************************************************************************)
EXTENDS ConnectorServer, TLAPS

Open == Unresolved \cup {"queued"}

\* What a row tells of its plan, given the installed session and journal position.
RowOK(p) ==
    LET r == plans[p] IN
    /\ r.status \in {"none", "queued", "expired"} => r.attempts = 0 /\ r.outcome = NoOutcome
    /\ r.attempts <= 1
    /\ r.status \in Unresolved => r.attempts = 1
    /\ r.live => r.status \in Unresolved
    /\ r.fresh => r.status = "queued"
    /\ r.status = "leased" => r.outcome = NoOutcome
    /\ r.status \in Uncertain => r.outcome = NoOutcome \/ r.outcome.status \in Uncertain
    /\ r.status = "succeeded" => r.outcome.status = "succeeded"
    /\ r.status = "failed_without_effect" /\ r.attempts > 0 /\ ~ReadOnly(p)
           => r.outcome.status = "failed_without_effect"
    /\ r.outcome.seq <= lastSeq
    /\ r.session <= session.id
    /\ r.status \in Open => r.session = session.id /\ session.id # 0

\* Of two equal writes the later session's was queued in knowledge of the earlier's.
RepeatsAreSafe ==
    \A p, q \in Plans :
        /\ Input[p] = Input[q] /\ Writing(p)
        /\ plans[p].status # "none" /\ plans[q].status = "succeeded"
        /\ plans[q].session < plans[p].session
        /\ Runtime(plans[q].session) # Runtime(plans[p].session)
        => p \in SafeRepeat

Inv ==
    /\ TypeOK
    /\ session.live => session.id # 0
    /\ \A p \in Plans : RowOK(p)
    /\ OneUnresolved
    /\ EquivalentsWait
    /\ RepeatsAreSafe

-----------------------------------------------------------------------------
(* What a request may do to one row.                                       *)

Closes(p) ==
    /\ plans[p].status = "queued" \/ (plans[p].status \in Unresolved /\ ReadOnly(p))
    /\ plans'[p] = [plans[p] EXCEPT !.status = "failed_without_effect",
                                    !.live = FALSE, !.fresh = FALSE]

Queues(p) ==
    /\ plans[p].status = "none"
    /\ session.id # 0
    /\ plans'[p] = [NoPlan EXCEPT !.status = "queued", !.session = session.id, !.fresh = TRUE]

Issues(p) ==
    /\ plans[p].status = "queued"
    /\ session.live /\ session'.live
    /\ plans'[p] = [plans[p] EXCEPT !.status = "leased", !.live = TRUE, !.fresh = FALSE,
                                    !.attempts = @ + 1]

Lapses(p) ==
    /\ plans[p].status = "leased"
    /\ plans'[p] = [plans[p] EXCEPT !.status = "outcome_unknown"]

Drops(p) ==
    /\ plans[p].status = "queued" /\ ~plans[p].fresh
    /\ plans'[p] = [plans[p] EXCEPT !.status = "expired"]

Records(p) ==
    /\ plans[p].status \in Unresolved
    /\ \E o \in Outcomes, b \in BOOLEAN :
           /\ plans[p].outcome = NoOutcome
                  \/ (o.by = "server" /\ o.original = plans[p].outcome.original)
           /\ o.seq > lastSeq /\ o.seq <= lastSeq'
           /\ plans'[p] = [plans[p] EXCEPT !.status = o.status, !.outcome = o,
                                           !.reconciled = b,
                                           !.live = @ /\ o.status \in Unresolved]

Resolves(p) ==
    /\ plans[p].status \in Unresolved
    /\ plans'[p] = [plans[p] EXCEPT !.status = "cancelled", !.reconciled = TRUE, !.live = FALSE]

Ages(p) ==
    plans'[p] \in {[plans[p] EXCEPT !.live = FALSE], [plans[p] EXCEPT !.fresh = FALSE]}

Stays(p) == plans'[p] = plans[p]

Moves(p) ==
    \/ Stays(p) \/ Ages(p) \/ Closes(p) \/ Queues(p) \/ Issues(p) \/ Lapses(p) \/ Drops(p)
    \/ Records(p) \/ Resolves(p)

\* What a step does to the rest: sessions and the journal position only advance, a
\* new session finds no open plan, and a plan is opened or handed out with care.
Sessions ==
    \/ session'.id = session.id
    \/ session'.id = session.id + 1 /\ \A p \in Plans : plans'[p].status \notin Open

Careful ==
    /\ \A p \in Plans : Issues(p) =>
           UnresolvedPlans = {} /\ \A q \in Plans : Issues(q) => q = p
    /\ \A p \in Plans : Queues(p) => \A q \in Plans \ {p} : Input[q] = Input[p] =>
           /\ plans'[q].status \notin Open
           /\ plans'[q].status = "succeeded" =>
                  /\ plans[q].status = "succeeded"
                  /\ Writing(p) /\ Runtime(plans[q].session) # Runtime(session.id)
                     => p \in SafeRepeat

StepFacts ==
    /\ TypeOK'
    /\ (session.live => session.id # 0)'
    /\ \A p \in Plans : Moves(p)
    /\ Sessions
    /\ lastSeq <= lastSeq'
    /\ Careful

-----------------------------------------------------------------------------
(* The facts about rows follow from what a request may do to them.         *)

LEMMA InitInv == Init => Inv
<1> SUFFICES ASSUME Init PROVE Inv
  OBVIOUS
<1>1. /\ \A p \in Plans : /\ plans[p] = NoPlan /\ plans[p].status = "none"
                          /\ plans[p].attempts = 0 /\ plans[p].session = 0
                          /\ ~plans[p].live /\ ~plans[p].fresh
                          /\ plans[p].outcome = NoOutcome
      /\ NoOutcome.seq = 0
      /\ session.id = 0 /\ ~session.live /\ lastSeq = 0
  BY DEF Init, NoPlan, NoOutcome
<1>2. TypeOK
  <2>1. NoIntent \in Intents /\ Idle \in Jobs /\ NoPlan \in Rows /\ recovery \in Recoveries
    BY DEF Init, NoIntent, Intents, Idle, Jobs, NoPlan, Rows, Recoveries
  <2>2. plans \in [Plans -> Rows] /\ \A p \in Plans : plans[p].live => session.live
    BY <1>1, <2>1 DEF Init
  <2>3. session \in [id : Nat, live : BOOLEAN]
    BY DEF Init
  <2>4. gen \in Nat \ {0} /\ reserved \in BOOLEAN /\ lastSeq \in Nat
    <3>1. gen = 1 /\ lastSeq = 0
      BY DEF Init
    <3>2. reserved = FALSE
      BY Zenon DEF Init
    <3>3. gen \in Nat \ {0} /\ lastSeq \in Nat
      BY <3>1
    <3> QED
      BY <3>2, <3>3, Zenon
  <2>5. /\ intents \in [Plans -> Intents] /\ jobs \in [Workers -> Jobs]
        /\ applied \in [Plans -> Outcomes \cup {NoOutcome}]
    <3>1. /\ intents = [p \in Plans |-> NoIntent] /\ jobs = [w \in Workers |-> Idle]
          /\ applied = [p \in Plans |-> NoOutcome]
      BY DEF Init
    <3> QED
      BY <2>1, <3>1
  <2> QED
    BY <2>1, <2>2, <2>3, <2>4, <2>5 DEF TypeOK
<1>4. \A p \in Plans : RowOK(p)
  BY <1>1 DEF RowOK, Unresolved, Uncertain, Open
<1>5. OneUnresolved /\ EquivalentsWait /\ RepeatsAreSafe
  BY <1>1 DEF OneUnresolved, UnresolvedPlans, EquivalentsWait, RepeatsAreSafe, Unresolved
<1> QED
  BY <1>2, <1>4, <1>5 DEF Inv, Init

LEMMA RowsKeep ==
    ASSUME Inv, StepFacts, NEW p \in Plans
    PROVE  RowOK(p)'
<1> DEFINE r == plans[p]
           s == plans'[p]
<1>1. /\ r \in Rows /\ s \in Rows
      /\ session.id \in Nat /\ session'.id \in Nat /\ lastSeq \in Nat /\ lastSeq' \in Nat
  BY DEF Inv, StepFacts, TypeOK
<1>2. /\ RowOK(p) /\ Moves(p)
      /\ session.id <= session'.id /\ lastSeq <= lastSeq'
      /\ s.status \in Open => session'.id = session.id
  BY <1>1 DEF Inv, StepFacts, Sessions
<1> USE <1>1, <1>2 DEF RowOK, Rows, Outcomes, NoOutcome, Unresolved, Uncertain, Closed, Open
<1>3. CASE Stays(p)
  BY <1>3 DEF Stays
<1>4. CASE Ages(p)
  BY <1>4 DEF Ages
<1>5. CASE Closes(p)
  BY <1>5 DEF Closes
<1>6. CASE Queues(p)
  BY <1>6 DEF Queues, NoPlan
<1>7. CASE Issues(p)
  BY <1>7 DEF Issues
<1>8. CASE Lapses(p)
  BY <1>8 DEF Lapses
<1>9. CASE Drops(p)
  BY <1>9 DEF Drops
<1>10. CASE Records(p)
  BY <1>10 DEF Records, Verdicts
<1>11. CASE Resolves(p)
  BY <1>11 DEF Resolves
<1> QED
  BY <1>2, <1>3, <1>4, <1>5, <1>6, <1>7, <1>8, <1>9, <1>10, <1>11 DEF Moves

-----------------------------------------------------------------------------
(* Every step moves rows in these ways only.                               *)

LEMMA AbandonedRows ==
    ASSUME NEW P, NEW p \in Plans
    PROVE  Abandoned(P)[p] = IF p \in P
                             THEN [plans[p] EXCEPT !.status = "failed_without_effect",
                                                   !.live = FALSE, !.fresh = FALSE]
                             ELSE plans[p]
BY DEF Abandoned

\* Installing a session closes what the old one leaves, if that may be retired.
LEMMA InstallMoves ==
    ASSUME Inv, NEW g \in Nat \ {0}, NEW live \in BOOLEAN, NEW R,
           Install(g, live, R),
           R \subseteq UnresolvedPlans, UnresolvedPlans \subseteq R,
           \A p \in R : ReadOnly(p),
           \A p \in Plans \ R : ~plans[p].live
    PROVE  /\ plans' \in [Plans -> Rows]
           /\ \A p \in Plans : ~plans'[p].live
           /\ \A p \in Plans : Stays(p) \/ Closes(p)
           /\ session' = [id |-> session.id + 1, live |-> live]
           /\ \A p \in Plans : plans'[p].status \notin Open
<1> DEFINE P == R \cup {p \in Plans : NeverIssued(p)}
<1>1. plans' = Abandoned(P) /\ session' = [id |-> session.id + 1, live |-> live]
  BY DEF Install
<1>2. plans \in [Plans -> Rows] /\ \A p \in Plans : RowOK(p)
  BY DEF Inv, TypeOK
<1>3. ASSUME NEW p \in Plans
      PROVE  /\ plans'[p] \in Rows
             /\ ~plans'[p].live
             /\ Stays(p) \/ Closes(p)
             /\ plans'[p].status \notin Open
  <2>1. CASE p \in P
    <3>1. plans'[p] = [plans[p] EXCEPT !.status = "failed_without_effect",
                                       !.live = FALSE, !.fresh = FALSE]
      BY <1>1, <2>1, AbandonedRows
    <3>2. plans[p].status = "queued" \/ (plans[p].status \in Unresolved /\ ReadOnly(p))
      BY <2>1 DEF NeverIssued, UnresolvedPlans
    <3> QED
      BY <1>2, <3>1, <3>2 DEF Closes, Rows, Open, Unresolved, Closed
  <2>2. CASE p \notin P
    <3>1. plans'[p] = plans[p]
      BY <1>1, <2>2, AbandonedRows
    <3>2. plans[p].status \notin Unresolved
      BY <2>2 DEF UnresolvedPlans
    <3>3. plans[p].status # "queued"
      BY <1>2, <2>2 DEF NeverIssued, RowOK, Open
    <3> QED
      BY <1>2, <2>2, <3>1, <3>2, <3>3 DEF Stays, Open
  <2> QED
    BY <2>1, <2>2
<1>4. plans' = [p \in Plans |-> plans'[p]]
  BY <1>1 DEF Abandoned
<1> QED
  BY <1>1, <1>3, <1>4

\* A row that was queued or handed out was neither before.
LEMMA StaysIsNoOpening ==
    ASSUME Inv, NEW p \in Plans, plans'[p].status = plans[p].status
    PROVE  ~Issues(p) /\ ~Queues(p)
<1>1. plans[p] \in Rows
  BY DEF Inv, TypeOK
<1>2. ~Issues(p)
  <2> SUFFICES ASSUME Issues(p) PROVE FALSE
    OBVIOUS
  <2>1. /\ plans[p].status = "queued"
        /\ plans'[p] = [plans[p] EXCEPT !.status = "leased", !.live = TRUE, !.fresh = FALSE,
                                        !.attempts = @ + 1]
    BY DEF Issues
  <2>2. plans'[p].status = "leased"
    BY <1>1, <2>1 DEF Rows
  <2> QED
    BY <2>1, <2>2
<1>3. ~Queues(p)
  BY DEF Queues, NoPlan
<1> QED
  BY <1>2, <1>3

\* A step that leaves plans and sessions alone.
LEMMA QuietFacts ==
    ASSUME Inv, UNCHANGED <<sessionVars, plans, lastSeq>>,
           recovery' \in Recoveries, intents' \in [Plans -> Intents],
           jobs' \in [Workers -> Jobs], applied' \in [Plans -> Outcomes \cup {NoOutcome}]
    PROVE  StepFacts
<1>1. UNCHANGED <<gen, session, reserved, plans, lastSeq>>
  BY DEF sessionVars
<1>2. TypeOK'
  BY <1>1 DEF Inv, TypeOK
<1>3. \A p \in Plans : Stays(p)
  BY <1>1 DEF Stays
<1>4. Careful
  <2>1. \A p \in Plans : ~Issues(p) /\ ~Queues(p)
    BY <1>1, StaysIsNoOpening
  <2> QED
    BY <2>1 DEF Careful
<1>5. lastSeq \in Nat /\ session.live => session.id # 0
  BY DEF Inv, TypeOK
<1> QED
  BY <1>1, <1>2, <1>3, <1>4, <1>5 DEF StepFacts, Moves, Sessions, Inv, TypeOK

LEMMA ProjectionFacts == Inv /\ (Projector \/ \E p \in Plans : ProjectionLapses(p)) => StepFacts
<1> SUFFICES ASSUME Inv, Projector \/ \E p \in Plans : ProjectionLapses(p) PROVE StepFacts
  OBVIOUS
<1>1. TypeOK /\ NoOutcome \in Outcomes \cup {NoOutcome} /\ Idle \in Jobs
  BY DEF Inv, Idle, Jobs
<1>2. UNCHANGED <<sessionVars, plans, recovery, lastSeq>>
  BY DEF Projector, ProjectionLapses, ReadProjection, Apply, SettleProjection, ClaimProjection,
     ReclaimProjection
<1>3. recovery' \in Recoveries
  BY <1>1, <1>2 DEF TypeOK
<1> DEFINE Typed == /\ intents' \in [Plans -> Intents] /\ jobs' \in [Workers -> Jobs]
                    /\ applied' \in [Plans -> Outcomes \cup {NoOutcome}]
<1>4. ASSUME NEW w \in Workers, jobs[w].at # "idle"
      PROVE  /\ jobs[w] \in [at : {"claimed", "read", "applied", "failed"},
                             plan : Plans, outcome : Outcomes \cup {NoOutcome}]
             /\ jobs[w].plan \in Plans
             /\ plans[jobs[w].plan].outcome \in Outcomes \cup {NoOutcome}
  BY <1>1, <1>4 DEF TypeOK, Jobs, Idle, Rows
<1>5. ASSUME NEW w \in Workers, ReadProjection(w) PROVE Typed
  <2> DEFINE j == IF Holds(w) THEN [jobs[w] EXCEPT !.at = "read", !.outcome = plans[jobs[w].plan].outcome]
                  ELSE [jobs[w] EXCEPT !.at = "failed"]
  <2>1. jobs' = [jobs EXCEPT ![w] = j] /\ UNCHANGED <<intents, applied>> /\ jobs[w].at # "idle"
    BY <1>5 DEF ReadProjection, SetJob
  <2>2. j \in Jobs
    BY <1>4, <2>1 DEF Jobs
  <2> QED
    BY <1>1, <2>1, <2>2 DEF TypeOK
<1>6. ASSUME NEW w \in Workers, Apply(w) PROVE Typed
  BY <1>1, <1>4, <1>6 DEF Apply, SetJob, TypeOK, Jobs
<1>7. ASSUME NEW w \in Workers, SettleProjection(w) PROVE Typed
  <2>1. CASE ~Settles(w)
    BY <1>1, <1>7, <2>1 DEF SettleProjection, SetJob, TypeOK
  <2>2. CASE Settles(w)
    <3>1. PICK i \in {"projected", "retryable_failed", "reconciliation_required"} :
              intents' = [intents EXCEPT ![jobs[w].plan] = [Pending EXCEPT !.status = i]]
      BY <1>7, <2>2 DEF SettleProjection, SetIntent
    <3>2. [Pending EXCEPT !.status = i] \in Intents
      BY DEF Pending, Intents
    <3> QED
      BY <1>1, <1>7, <3>1, <3>2 DEF SettleProjection, SetJob, TypeOK
  <2> QED
    BY <2>1, <2>2
<1>8. ASSUME NEW w \in Workers, NEW p \in Plans, ClaimProjection(w, p) PROVE Typed
  <2>1. [status |-> "projecting", owner |-> w, live |-> TRUE] \in Intents
    BY DEF Intents
  <2>2. [at |-> "claimed", plan |-> p, outcome |-> NoOutcome] \in Jobs
    BY DEF Jobs
  <2> QED
    BY <1>1, <1>8, <2>1, <2>2 DEF ClaimProjection, SetJob, SetIntent, TypeOK
<1>9. ASSUME NEW p \in Plans, ReclaimProjection(p) PROVE Typed
  <2>1. [Pending EXCEPT !.status = "retryable_failed"] \in Intents
    BY DEF Pending, Intents
  <2> QED
    BY <1>1, <1>9, <2>1 DEF ReclaimProjection, SetIntent, TypeOK
<1>10. ASSUME NEW p \in Plans, ProjectionLapses(p) PROVE Typed
  <2>1. [intents[p] EXCEPT !.live = FALSE] \in Intents
    BY <1>1 DEF TypeOK, Intents
  <2> QED
    BY <1>1, <1>10, <2>1 DEF ProjectionLapses, SetIntent, TypeOK
<1>11. Typed
  BY <1>5, <1>6, <1>7, <1>8, <1>9, <1>10 DEF Projector
<1> QED
  BY <1>2, <1>3, <1>11, QuietFacts

\* A new session: TypeOK and the moves follow from what is installed.
LEMMA InstallFacts ==
    ASSUME Inv, NEW g \in Nat \ {0}, NEW live \in BOOLEAN, NEW R,
           Install(g, live, R),
           R \subseteq UnresolvedPlans, UnresolvedPlans \subseteq R,
           \A p \in R : ReadOnly(p),
           \A p \in Plans \ R : ~plans[p].live,
           reserved' \in BOOLEAN,
           UNCHANGED <<recovery, lastSeq, projectionVars>>
    PROVE  StepFacts
<1>1. /\ plans' \in [Plans -> Rows]
      /\ \A p \in Plans : ~plans'[p].live
      /\ \A p \in Plans : Stays(p) \/ Closes(p)
      /\ session' = [id |-> session.id + 1, live |-> live]
      /\ \A p \in Plans : plans'[p].status \notin Open
  BY InstallMoves
<1>2. gen' = g
  BY DEF Install
<1>3. TypeOK /\ session.id \in Nat /\ lastSeq \in Nat
  BY DEF Inv, TypeOK
<1>4. session' \in [id : Nat, live : BOOLEAN] /\ session'.id = session.id + 1
  BY <1>1, <1>3
<1>5. TypeOK'
  BY <1>1, <1>2, <1>3, <1>4 DEF TypeOK, projectionVars
<1>6. \A p \in Plans : ~Issues(p) /\ ~Queues(p)
  <2> SUFFICES ASSUME NEW p \in Plans PROVE ~Issues(p) /\ ~Queues(p)
    OBVIOUS
  <2>1. plans'[p].status \notin Open
    BY <1>1
  <2>2. ~Queues(p)
    BY <2>1 DEF Queues, NoPlan, Open
  <2>3. Issues(p) => plans'[p].status = "leased"
    BY <1>3 DEF Issues, TypeOK, Rows
  <2> QED
    BY <2>1, <2>2, <2>3 DEF Open, Unresolved
<1>7. Careful
  BY <1>6 DEF Careful
<1>8. session'.id # 0
  BY <1>3, <1>4
<1>9. Sessions
  BY <1>1, <1>4 DEF Sessions
<1>10. lastSeq <= lastSeq'
  BY <1>3
<1> QED
  BY <1>1, <1>5, <1>7, <1>8, <1>9, <1>10 DEF StepFacts, Moves

LEMMA SessionFacts ==
    Inv /\ (\/ \E t : Restart(t)
            \/ \E g, mine : Register(g, mine)
            \/ \E g, t : ForceTakeover(g, t))
    => StepFacts
<1>0. ASSUME Inv PROVE /\ gen \in Nat \ {0} /\ gen + 1 \in Nat \ {0}
                       /\ \A p \in Plans : plans[p].live => p \in UnresolvedPlans /\ session.live
  <2>1. \A p \in Plans : RowOK(p)
    BY <1>0 DEF Inv
  <2> QED
    BY <1>0, <2>1 DEF Inv, TypeOK, RowOK, UnresolvedPlans
<1>1. ASSUME Inv, NEW t, Restart(t) PROVE StepFacts
  <2> DEFINE R == {p \in Plans : Retirable(p, TRUE)}
  <2>1. R \subseteq UnresolvedPlans /\ UnresolvedPlans \subseteq R /\ \A p \in R : ReadOnly(p)
    BY <1>1 DEF Restart, CanRestart, Retirable, UnresolvedPlans
  <2>2. \A p \in Plans \ R : ~plans[p].live
    BY <1>0, <1>1, <2>1
  <2>3. Install(gen, TRUE, R) /\ UNCHANGED <<recovery, lastSeq, projectionVars>>
        /\ reserved' = reserved
    BY <1>1 DEF Restart
  <2>4. reserved' \in BOOLEAN
    BY <1>1, <2>3 DEF Inv, TypeOK
  <2> QED
    BY <1>0, <1>1, <2>1, <2>2, <2>3, <2>4, InstallFacts
<1>2. ASSUME Inv, NEW g, NEW mine, Register(g, mine)
      PROVE  StepFacts
  <2> DEFINE R == {p \in Plans : Retirable(p, FALSE)}
  <2>1. R \subseteq UnresolvedPlans /\ UnresolvedPlans \subseteq R /\ \A p \in R : ReadOnly(p)
    BY <1>2 DEF Register, CanRegister, Retirable, UnresolvedPlans
  <2>2. \A p \in Plans \ R : ~plans[p].live
    BY <1>0, <1>2, <2>1
  <2>3. Install(gen, TRUE, R) /\ UNCHANGED <<recovery, lastSeq, projectionVars>>
    BY <1>2 DEF Register
  <2>4. reserved' \in BOOLEAN
    BY <1>2, Zenon DEF Register
  <2> QED
    BY <1>0, <1>2, <2>1, <2>2, <2>3, <2>4, InstallFacts
<1>3. ASSUME Inv, NEW g, NEW t, ForceTakeover(g, t)
      PROVE  StepFacts
  <2>1. UnresolvedPlans = {}
    BY <1>3 DEF ForceTakeover, TakeoverAllowed
  <2>2. \A p \in Plans : ~plans[p].live
    BY <1>0, <1>3, <2>1
  <2>3. Install(gen + 1, FALSE, {}) /\ UNCHANGED <<recovery, lastSeq, projectionVars>>
    BY <1>3 DEF ForceTakeover
  <2>4. reserved' \in BOOLEAN
    BY <1>3, Zenon DEF ForceTakeover
  <2> QED
    <3>1. /\ {} \subseteq UnresolvedPlans /\ UnresolvedPlans \subseteq {}
          /\ \A p \in {} : ReadOnly(p)
          /\ \A p \in Plans \ {} : ~plans[p].live
      BY <2>1, <2>2
    <3>2. FALSE \in BOOLEAN /\ gen + 1 \in Nat \ {0}
      BY <1>0, <1>3, Zenon
    <3> QED
      BY <1>3, <2>3, <2>4, <3>1, <3>2, InstallFacts, Zenon
<1> QED
  BY <1>1, <1>2, <1>3

\* A step within a session.
LEMMA RowFacts ==
    ASSUME Inv, UNCHANGED <<gen, reserved, jobs, applied>>,
           session' \in [id : Nat, live : BOOLEAN], session'.id = session.id,
           session'.live => session.live,
           recovery' \in Recoveries, intents' \in [Plans -> Intents],
           lastSeq' \in Nat, lastSeq <= lastSeq',
           plans' \in [Plans -> Rows],
           \A p \in Plans : (plans'[p].live => session'.live) /\ Moves(p),
           Careful
    PROVE  StepFacts
<1>1. TypeOK'
  BY DEF Inv, TypeOK
<1> QED
  BY <1>1 DEF StepFacts, Sessions, Inv

LEMMA ClockFacts ==
    Inv /\ (SessionExpires \/ RecoveryExpires \/ \E p \in Plans : LeaseExpires(p) \/ PlanExpires(p))
    => StepFacts
<1>1. ASSUME Inv PROVE /\ TypeOK /\ lastSeq \in Nat /\ lastSeq <= lastSeq /\ plans \in [Plans -> Rows]
                       /\ \A p \in Plans : plans[p].live => session.live
  BY <1>1 DEF Inv, TypeOK
<1>2. ASSUME Inv, SessionExpires PROVE StepFacts
  <2>1. /\ session' = [session EXCEPT !.live = FALSE]
        /\ \A p \in Plans : plans'[p] = [plans[p] EXCEPT !.live = FALSE]
        /\ plans' = [p \in Plans |-> [plans[p] EXCEPT !.live = FALSE]]
        /\ UNCHANGED <<gen, reserved, recovery, lastSeq, projectionVars>>
    BY <1>2 DEF SessionExpires
  <2>2. \A p \in Plans : /\ [plans[p] EXCEPT !.live = FALSE] \in Rows
                         /\ ~plans'[p].live /\ Moves(p)
                         /\ plans'[p].status = plans[p].status
    <3> SUFFICES ASSUME NEW p \in Plans
                 PROVE  /\ [plans[p] EXCEPT !.live = FALSE] \in Rows
                        /\ ~plans'[p].live /\ Moves(p)
                        /\ plans'[p].status = plans[p].status
      OBVIOUS
    <3>1. plans[p] \in Rows /\ plans'[p] = [plans[p] EXCEPT !.live = FALSE]
      BY <1>1, <1>2, <2>1
    <3>2. Moves(p)
      BY <3>1 DEF Moves, Ages
    <3> QED
      BY <3>1, <3>2 DEF Rows
  <2>3. plans' \in [Plans -> Rows]
    BY <2>1, <2>2
  <2>4. Careful
    BY <1>2, <2>2, StaysIsNoOpening DEF Careful
  <2>5. session' \in [id : Nat, live : BOOLEAN] /\ session'.id = session.id /\ ~session'.live
    BY <1>1, <1>2, <2>1 DEF TypeOK
  <2> QED
    BY <1>1, <1>2, <2>1, <2>2, <2>3, <2>4, <2>5, RowFacts DEF projectionVars, TypeOK
<1>3. ASSUME Inv, NEW p \in Plans, LeaseExpires(p) \/ PlanExpires(p) PROVE StepFacts
  <2>1. /\ UNCHANGED <<gen, session, reserved, recovery, lastSeq, intents, jobs, applied>>
        /\ plans' = [plans EXCEPT ![p].live = FALSE] \/ plans' = [plans EXCEPT ![p].fresh = FALSE]
    BY <1>3 DEF LeaseExpires, PlanExpires, sessionVars, projectionVars
  <2>2. /\ plans' \in [Plans -> Rows]
        /\ \A q \in Plans : /\ plans'[q].live => plans[q].live
                            /\ plans'[q].status = plans[q].status
                            /\ Moves(q)
    <3>1. plans[p] \in Rows
      BY <1>1, <1>3
    <3>2. PICK r \in {[plans[p] EXCEPT !.live = FALSE], [plans[p] EXCEPT !.fresh = FALSE]} :
              plans' = [plans EXCEPT ![p] = r]
      BY <2>1
    <3>3. r \in Rows /\ r.status = plans[p].status /\ (r.live => plans[p].live)
      BY <3>1 DEF Rows
    <3>4. plans'[p] = r /\ \A q \in Plans \ {p} : plans'[q] = plans[q]
      BY <1>1, <1>3, <3>2
    <3>5. \A q \in Plans : Moves(q)
      BY <3>2, <3>4 DEF Moves, Ages, Stays
    <3> QED
      BY <1>1, <1>3, <3>2, <3>3, <3>4, <3>5
  <2>3. Careful
    BY <1>3, <2>2, StaysIsNoOpening DEF Careful
  <2> QED
    BY <1>1, <1>3, <2>1, <2>2, <2>3, RowFacts DEF TypeOK
<1>4. ASSUME Inv, RecoveryExpires PROVE StepFacts
  <2>1. recovery' \in Recoveries /\ UNCHANGED <<sessionVars, plans, lastSeq, projectionVars>>
    BY <1>1, <1>4 DEF RecoveryExpires, TypeOK, Recoveries
  <2> QED
    BY <1>1, <1>4, <2>1, QuietFacts DEF projectionVars, TypeOK
<1> QED
  BY <1>2, <1>3, <1>4

LEMMA Facts ==
    Inv => /\ TypeOK /\ lastSeq \in Nat /\ lastSeq <= lastSeq /\ session.id \in Nat
           /\ \A p \in Plans : /\ plans[p] \in Rows /\ RowOK(p)
                               /\ plans[p].live => session.live
BY DEF Inv, TypeOK

LEMMA RecoveryFacts ==
    ASSUME Inv, NEW g, NEW p \in Plans, RegisterRecovery(g, p)
    PROVE  StepFacts
<1>1. /\ UNCHANGED <<gen, session, reserved, lastSeq, intents, jobs, applied>>
      /\ plans' = [plans EXCEPT ![p].status = IF LeaseLapsed(p) THEN "outcome_unknown" ELSE @]
      /\ recovery' = [id |-> recovery.id + 1, live |-> TRUE, consumed |-> FALSE,
                      session |-> session.id, plan |-> p]
  BY DEF RegisterRecovery, sessionVars, projectionVars
<1>2. recovery' \in Recoveries
  <2>1. recovery.id + 1 \in Nat /\ session.id \in Nat
    BY Facts DEF TypeOK, Recoveries
  <2> QED
    BY <1>1, <2>1 DEF Recoveries
<1> DEFINE r == [plans[p] EXCEPT !.status = IF LeaseLapsed(p) THEN "outcome_unknown" ELSE @]
<1>3. /\ plans' = [plans EXCEPT ![p] = r]
      /\ r \in Rows /\ r.live = plans[p].live
  BY <1>1, Facts DEF Rows, Unresolved
<1>4. /\ plans' \in [Plans -> Rows]
      /\ plans'[p] = r /\ \A q \in Plans \ {p} : plans'[q] = plans[q]
  BY <1>3, Facts DEF TypeOK
<1>5. \A q \in Plans : /\ Stays(q) \/ Lapses(q)
                       /\ plans'[q].live => plans[q].live
                       /\ ~Issues(q) /\ ~Queues(q)
  <2>1. CASE LeaseLapsed(p)
    <3>1. plans[p].status = "leased" /\ r.status = "outcome_unknown"
      BY <2>1, Facts DEF LeaseLapsed, Rows
    <3>2. r = [plans[p] EXCEPT !.status = "outcome_unknown"]
      BY <2>1
    <3>3. ~Issues(p) /\ ~Queues(p)
      BY <3>1 DEF Issues, Queues
    <3> QED
      BY <1>3, <1>4, <3>1, <3>2, <3>3, StaysIsNoOpening DEF Stays, Lapses
  <2>2. CASE ~LeaseLapsed(p)
    <3>1. r = plans[p]
      BY <2>2, Facts DEF Rows
    <3> QED
      BY <1>3, <1>4, <3>1, StaysIsNoOpening DEF Stays
  <2> QED
    BY <2>1, <2>2
<1>6. Careful
  BY <1>5 DEF Careful
<1> QED
  BY <1>1, <1>2, <1>4, <1>5, <1>6, Facts, RowFacts DEF TypeOK, Moves

\* The sweep closes or drops nothing that is alive.
LEMMA SweptRows ==
    ASSUME Inv, NEW p \in Plans
    PROVE  /\ Swept[p] \in Rows
           /\ Swept[p].live => plans[p].live
           /\ \/ Swept[p] = plans[p]
              \/ /\ plans[p].status = "leased"
                 /\ Swept[p] = [plans[p] EXCEPT !.status = "outcome_unknown"]
              \/ /\ plans[p].status = "queued" /\ ~plans[p].fresh
                 /\ Swept[p] = [plans[p] EXCEPT !.status = "expired"]
           /\ Swept[p].status \notin {"queued", "leased"} \/ Swept[p] = plans[p]
<1>1. plans[p] \in Rows
  BY Facts
<1>2. CASE LeaseLapsed(p)
  BY <1>1, <1>2 DEF Swept, LeaseLapsed, Rows, Unresolved
<1>3. CASE ~LeaseLapsed(p) /\ plans[p].status = "queued" /\ plans[p].session = session.id
           /\ ~plans[p].fresh
  BY <1>1, <1>3 DEF Swept, Rows, Closed
<1>4. CASE ~LeaseLapsed(p) /\ ~(plans[p].status = "queued" /\ plans[p].session = session.id
                                /\ ~plans[p].fresh)
  BY <1>1, <1>4 DEF Swept
<1> QED
  BY <1>2, <1>3, <1>4

LEMMA LeaseNothingFacts ==
    ASSUME Inv, NEW t, LeaseNothing(t)
    PROVE  StepFacts
<1>1. plans' = Swept /\ UNCHANGED <<gen, session, reserved, recovery, lastSeq, intents, jobs, applied>>
  BY DEF LeaseNothing, sessionVars, projectionVars
<1>2. plans' \in [Plans -> Rows]
  <2>1. \A p \in Plans : Swept[p] \in Rows
    BY SweptRows
  <2> QED
    BY <1>1, <2>1 DEF Swept
<1>3. \A p \in Plans : /\ plans'[p].live => plans[p].live
                       /\ Stays(p) \/ Lapses(p) \/ Drops(p)
                       /\ ~Issues(p) /\ ~Queues(p)
  <2> SUFFICES ASSUME NEW p \in Plans
               PROVE  /\ plans'[p].live => plans[p].live
                      /\ Stays(p) \/ Lapses(p) \/ Drops(p)
                      /\ ~Issues(p) /\ ~Queues(p)
    OBVIOUS
  <2>1. Stays(p) \/ Lapses(p) \/ Drops(p)
    BY <1>1, SweptRows DEF Stays, Lapses, Drops
  <2>2. ~Queues(p)
    BY <1>1, SweptRows, StaysIsNoOpening DEF Queues
  <2>3. ~Issues(p)
    <3>1. Issues(p) => plans'[p].status = "leased"
      BY Facts DEF Issues, Rows
    <3> QED
      BY <1>1, <3>1, SweptRows, StaysIsNoOpening
  <2> QED
    BY <1>1, <2>1, <2>2, <2>3, SweptRows
<1>4. Careful
  BY <1>3 DEF Careful
<1> QED
  BY <1>1, <1>2, <1>3, <1>4, Facts, RowFacts DEF TypeOK, Moves

LEMMA LeaseFacts ==
    ASSUME Inv, NEW t, NEW p \in Plans, Lease(t, p)
    PROVE  StepFacts
<1> DEFINE r == [Swept[p] EXCEPT !.status = "leased", !.live = TRUE, !.fresh = FALSE,
                                 !.attempts = @ + 1]
<1>1. /\ plans' = [Swept EXCEPT ![p] = r]
      /\ UNCHANGED <<gen, session, reserved, recovery, lastSeq, intents, jobs, applied>>
  BY DEF Lease, sessionVars, projectionVars
<1>2. /\ session.live /\ session.id = t
      /\ UnresolvedPlans = {}
      /\ plans[p].status = "queued" /\ plans[p].fresh
  BY DEF Lease, Authentic, Leasable, LeaseFree
<1>3. Swept[p] = plans[p]
  BY <1>2, SweptRows
<1>4. r \in Rows /\ r.status = "leased"
  <2>1. plans[p] \in Rows /\ plans[p].attempts + 1 \in Nat
    BY Facts DEF Rows
  <2>2. r = [plans[p] EXCEPT !.status = "leased", !.live = TRUE, !.fresh = FALSE,
                             !.attempts = plans[p].attempts + 1]
    BY <1>3
  <2> QED
    BY <2>1, <2>2 DEF Rows, Unresolved
<1>5. plans'[p] = r /\ \A q \in Plans \ {p} : plans'[q] = Swept[q]
  BY <1>1 DEF Swept
<1>6. plans' \in [Plans -> Rows]
  <2>1. \A q \in Plans : Swept[q] \in Rows
    BY SweptRows
  <2> QED
    BY <1>1, <1>4, <2>1 DEF Swept
<1>7. Issues(p)
  BY <1>1, <1>2, <1>3, <1>5 DEF Issues
<1>8. ~Queues(p)
  BY <1>2 DEF Queues
<1>9. \A q \in Plans \ {p} : /\ plans'[q].live => plans[q].live
                             /\ Stays(q) \/ Lapses(q) \/ Drops(q)
                             /\ ~Issues(q) /\ ~Queues(q)
  <2> SUFFICES ASSUME NEW q \in Plans \ {p}
               PROVE  /\ plans'[q].live => plans[q].live
                      /\ Stays(q) \/ Lapses(q) \/ Drops(q)
                      /\ ~Issues(q) /\ ~Queues(q)
    OBVIOUS
  <2>1. Stays(q) \/ Lapses(q) \/ Drops(q)
    BY <1>5, SweptRows DEF Stays, Lapses, Drops
  <2>2. ~Queues(q)
    BY <1>5, SweptRows, StaysIsNoOpening DEF Queues
  <2>3. ~Issues(q)
    <3>1. Issues(q) => plans'[q].status = "leased"
      BY Facts DEF Issues, Rows
    <3> QED
      BY <1>5, <3>1, SweptRows, StaysIsNoOpening
  <2> QED
    BY <1>5, <2>1, <2>2, <2>3, SweptRows
<1>10. Careful
  BY <1>2, <1>8, <1>9 DEF Careful
<1>11. \A q \in Plans : (plans'[q].live => session'.live) /\ Moves(q)
  BY <1>1, <1>2, <1>7, <1>9, Facts DEF Moves
<1> QED
  BY <1>1, <1>6, <1>10, <1>11, Facts, RowFacts DEF TypeOK

LEMMA InsertFacts ==
    ASSUME Inv, NEW p \in Plans, Insert(p)
    PROVE  StepFacts
<1> DEFINE P == {q \in Equivalents(p) : Superseded(q)}
           r == [NoPlan EXCEPT !.status = "queued", !.session = session.id, !.fresh = TRUE]
<1>1. /\ plans' = [Abandoned(P) EXCEPT ![p] = r]
      /\ UNCHANGED <<gen, session, reserved, recovery, lastSeq, intents, jobs, applied>>
      /\ session.live /\ session.id # 0
      /\ plans[p].status = "none"
      /\ \A q \in Equivalents(p) : Repeatable(p, q)
  BY DEF Insert, Inv, sessionVars, projectionVars
<1>2. r \in Rows /\ r.status = "queued" /\ ~r.live
  BY Facts DEF NoPlan, Rows
<1>3. plans'[p] = r /\ \A q \in Plans \ {p} : plans'[q] = Abandoned(P)[q]
  BY <1>1 DEF Abandoned
<1>4. ASSUME NEW q \in P
      PROVE  /\ Abandoned(P)[q] = [plans[q] EXCEPT !.status = "failed_without_effect",
                                                   !.live = FALSE, !.fresh = FALSE]
             /\ Abandoned(P)[q] \in Rows
             /\ ~Abandoned(P)[q].live
             /\ Abandoned(P)[q].status = "failed_without_effect"
             /\ plans[q].status = "queued" \/ plans[q].status \in Unresolved
             /\ ReadOnly(q)
             /\ q \in Plans \ {p} /\ Input[q] = Input[p]
  <2>1. q \in Plans \ {p} /\ Input[q] = Input[p]
    BY DEF Equivalents
  <2>2. Abandoned(P)[q] = [plans[q] EXCEPT !.status = "failed_without_effect",
                                           !.live = FALSE, !.fresh = FALSE]
    BY <2>1, AbandonedRows
  <2>3. ReadOnly(q) /\ (plans[q].status = "queued" \/ plans[q].status \in Unresolved)
    BY DEF Superseded, Unresolved, Uncertain
  <2> QED
    BY <2>1, <2>2, <2>3, Facts DEF Rows, Closed
<1>5. \A q \in Plans \ P : Abandoned(P)[q] = plans[q]
  BY AbandonedRows
<1>6. plans' \in [Plans -> Rows]
  <2>1. \A q \in Plans : Abandoned(P)[q] \in Rows
    BY <1>4, <1>5, Facts
  <2> QED
    BY <1>1, <1>2, <2>1 DEF Abandoned
<1>7. ASSUME NEW q \in Plans \ {p}
      PROVE  /\ plans'[q].live => plans[q].live
             /\ Stays(q) \/ Closes(q)
             /\ ~Issues(q) /\ ~Queues(q)
  <2>1. CASE q \in P
    <3>1. plans'[q].status = "failed_without_effect" /\ plans[q].status # "none"
          /\ Closes(q) /\ ~plans'[q].live
      BY <1>3, <1>4, <2>1 DEF Closes, Unresolved
    <3>2. ~Issues(q)
      BY <3>1, Facts DEF Issues, Rows
    <3> QED
      BY <3>1, <3>2 DEF Queues
  <2>2. CASE q \notin P
    BY <1>3, <1>5, <2>2, StaysIsNoOpening DEF Stays
  <2> QED
    BY <2>1, <2>2
<1>8. Queues(p) /\ ~Issues(p)
  BY <1>1, <1>3 DEF Queues, Issues
<1>9. ASSUME NEW q \in Plans \ {p}, Input[q] = Input[p]
      PROVE  /\ plans'[q].status \notin Open
             /\ plans'[q].status = "succeeded" =>
                    /\ plans[q].status = "succeeded"
                    /\ Writing(p) /\ Runtime(plans[q].session) # Runtime(session.id)
                     => p \in SafeRepeat
  <2>1. q \in Equivalents(p) /\ Repeatable(p, q)
    BY <1>1, <1>9 DEF Equivalents
  <2>2. CASE q \in P
    BY <1>3, <1>4, <2>2 DEF Open, Unresolved
  <2>3. CASE q \notin P
    BY <1>3, <1>5, <2>1, <2>3 DEF Repeatable, Open
  <2> QED
    BY <2>2, <2>3
<1>10. Careful
  BY <1>7, <1>8, <1>9 DEF Careful
<1>11. \A q \in Plans : (plans'[q].live => session'.live) /\ Moves(q)
  BY <1>1, <1>2, <1>3, <1>7, <1>8, Facts DEF Moves
<1> QED
  BY <1>1, <1>6, <1>10, <1>11, Facts, RowFacts DEF TypeOK

\* Recording an outcome.
LEMMA RecordFacts ==
    ASSUME Inv, NEW p \in Plans, NEW o \in Outcomes, NEW b \in BOOLEAN,
           Record(p, o, b),
           UNCHANGED <<gen, session, reserved, jobs, applied>>, recovery' \in Recoveries,
           plans[p].status \in Unresolved, o.seq > lastSeq,
           plans[p].outcome = NoOutcome
               \/ (o.by = "server" /\ o.original = plans[p].outcome.original)
    PROVE  StepFacts
<1> DEFINE r == [plans[p] EXCEPT !.status = o.status, !.outcome = o, !.reconciled = b,
                                 !.live = @ /\ o.status \in Unresolved]
<1>1. /\ plans' = [plans EXCEPT ![p] = r]
      /\ lastSeq' = o.seq
      /\ intents' = [intents EXCEPT ![p] = Pending]
  BY DEF Record
<1>2. /\ o.status \in {"succeeded", "failed_without_effect", "outcome_unknown",
                       "manual_review_required"}
      /\ o.seq \in Nat
  BY DEF Outcomes, Verdicts
<1>3. plans[p] \in Rows
  BY Facts
<1>4. (plans[p].live /\ o.status \in Unresolved) \in BOOLEAN
  OBVIOUS
<1>5. r \in Rows /\ r.status = o.status /\ (r.live => plans[p].live)
  BY <1>2, <1>3, <1>4 DEF Rows, Unresolved, Closed
<1>6. /\ plans' \in [Plans -> Rows]
      /\ plans'[p] = r /\ \A q \in Plans \ {p} : plans'[q] = plans[q]
  BY <1>1, <1>5, Facts DEF TypeOK
<1>7. lastSeq' \in Nat /\ lastSeq <= lastSeq'
  BY <1>1, <1>2, Facts
<1>8. intents' \in [Plans -> Intents]
  <2>1. Pending \in Intents
    BY DEF Pending, Intents
  <2> QED
    BY <1>1, <2>1, Facts DEF TypeOK
<1>9. Records(p)
  <2>1. o.seq <= lastSeq'
    BY <1>1, <1>2
  <2>2. plans'[p] = [plans[p] EXCEPT !.status = o.status, !.outcome = o, !.reconciled = b,
                                     !.live = @ /\ o.status \in Unresolved]
    BY <1>6, Zenon
  <2> QED
    BY <2>1, <2>2, Zenon DEF Records
<1>10. \A q \in Plans : Moves(q)
  BY <1>6, <1>9 DEF Moves, Stays
<1>11. \A q \in Plans : ~Issues(q) /\ ~Queues(q)
  <2>1. ~Issues(p)
    BY DEF Issues, Unresolved
  <2>2. ~Queues(p)
    BY DEF Queues, Unresolved
  <2> QED
    BY <1>6, <2>1, <2>2, StaysIsNoOpening
<1>12. Careful
  BY <1>11 DEF Careful
<1>13. \A q \in Plans : plans'[q].live => session'.live
  BY <1>5, <1>6, Facts
<1> QED
  BY <1>6, <1>7, <1>8, <1>10, <1>12, <1>13, Facts, RowFacts DEF TypeOK

LEMMA CompleteFacts ==
    ASSUME Inv, NEW p \in Plans, NEW v \in Verdicts, NEW n \in Nat, NEW t, NEW results,
           Complete(t, p, results, v, n)
    PROVE  StepFacts
<1>1. /\ Record(p, Signed(v, n), FALSE)
      /\ UNCHANGED <<gen, session, reserved, recovery, jobs, applied>>
      /\ plans[p].status = "leased" /\ plans[p].outcome = NoOutcome
      /\ n > lastSeq
  BY DEF Complete, CanComplete, Reportable, sessionVars
<1>2. Signed(v, n) \in Outcomes /\ Signed(v, n).seq = n
  BY DEF Signed, Outcomes
<1>3. FALSE \in BOOLEAN /\ plans[p].status \in Unresolved /\ recovery' \in Recoveries
  BY <1>1, Facts DEF Unresolved, TypeOK
<1> QED
  BY <1>1, <1>2, <1>3, RecordFacts

LEMMA ReconcileFacts ==
    ASSUME Inv, NEW p \in Plans, NEW v \in Verdicts, NEW n \in Nat, NEW t,
           Reconcile(t, p, v, n)
    PROVE  StepFacts
<1> DEFINE o == [by |-> "server", status |-> v, seq |-> n,
                 original |-> plans[p].outcome.original]
<1>1. /\ Record(p, o, TRUE)
      /\ UNCHANGED <<gen, session, reserved, jobs, applied>>
      /\ recovery' = [recovery EXCEPT !.consumed = TRUE] \/ recovery' = recovery
      /\ plans[p].status \in Unresolved
      /\ n = lastSeq + 1
  BY DEF Reconcile, Reconcilable, Doubtful, Uncertain, Unresolved, sessionVars
<1>2. plans[p].outcome.original \in BOOLEAN
  <2>1. plans[p].outcome \in Outcomes \/ plans[p].outcome = NoOutcome
    BY Facts DEF Rows
  <2>2. NoOutcome.original = FALSE
    BY DEF NoOutcome
  <2> QED
    BY <2>1, <2>2, Zenon DEF Outcomes
<1>3. o \in Outcomes /\ o.seq = n /\ o.by = "server" /\ o.original = plans[p].outcome.original
  BY <1>2 DEF Outcomes
<1>4. TRUE \in BOOLEAN /\ n > lastSeq
  BY <1>1, Facts
<1>5. recovery' \in Recoveries
  BY <1>1, Facts DEF Recoveries, TypeOK
<1> QED
  BY <1>1, <1>3, <1>4, <1>5, RecordFacts

LEMMA AcknowledgeFacts ==
    ASSUME Inv, NEW t, NEW p, NEW v, NEW n, Acknowledge(t, p, v, n)
    PROVE  StepFacts
<1>1. recovery' \in Recoveries /\ UNCHANGED <<sessionVars, plans, lastSeq, projectionVars>>
  BY Facts DEF Acknowledge, Recoveries, TypeOK
<1> QED
  BY <1>1, Facts, QuietFacts DEF projectionVars, TypeOK

LEMMA OutcomeFacts == Inv /\ OutcomeRequest => StepFacts
<1>1. 1..MaxSequence \subseteq Nat
  OBVIOUS
<1> QED
  BY <1>1, CompleteFacts, ReconcileFacts, AcknowledgeFacts DEF OutcomeRequest

LEMMA ResolveFacts ==
    ASSUME Inv, NEW p \in Plans, Resolve(p, plans[p].outcome)
    PROVE  StepFacts
<1> DEFINE r == [plans[p] EXCEPT !.status = "cancelled", !.reconciled = TRUE, !.live = FALSE]
<1>1. /\ plans' = [plans EXCEPT ![p] = r]
      /\ UNCHANGED <<gen, session, reserved, recovery, lastSeq, intents, jobs, applied>>
      /\ plans[p].status \in Unresolved
  BY DEF Resolve, Doubtful, Uncertain, Unresolved, sessionVars, projectionVars
<1>2. r \in Rows /\ ~r.live
  BY Facts DEF Rows, Closed
<1>3. /\ plans' \in [Plans -> Rows]
      /\ plans'[p] = r /\ \A q \in Plans \ {p} : plans'[q] = plans[q]
  BY <1>1, <1>2, Facts DEF TypeOK
<1>4. Resolves(p) /\ ~Issues(p) /\ ~Queues(p)
  BY <1>1, <1>3 DEF Resolves, Issues, Queues, Unresolved
<1>5. \A q \in Plans : Moves(q) /\ ~Issues(q) /\ ~Queues(q)
  BY <1>3, <1>4, StaysIsNoOpening DEF Moves, Stays
<1>6. Careful
  BY <1>5 DEF Careful
<1>7. \A q \in Plans : plans'[q].live => session'.live
  BY <1>1, <1>2, <1>3, Facts
<1> QED
  BY <1>1, <1>3, <1>5, <1>6, <1>7, Facts, RowFacts DEF TypeOK

LEMMA StepMoves == Inv /\ Next => StepFacts
<1> SUFFICES ASSUME Inv, Next PROVE StepFacts
  OBVIOUS
<1>1. CASE SessionRequest
  BY <1>1, SessionFacts, RecoveryFacts DEF SessionRequest
<1>2. CASE PlanRequest
  BY <1>2, InsertFacts, LeaseFacts, LeaseNothingFacts, ResolveFacts DEF PlanRequest
<1>3. CASE OutcomeRequest
  BY <1>3, OutcomeFacts
<1>4. CASE Tick
  BY <1>4, ClockFacts, ProjectionFacts DEF Tick
<1>5. CASE Projector
  BY <1>5, ProjectionFacts
<1> QED
  BY <1>1, <1>2, <1>3, <1>4, <1>5 DEF Next

-----------------------------------------------------------------------------
(* What the moves imply.                                                   *)

LEMMA MovesOpen ==
    ASSUME Inv, StepFacts, NEW p \in Plans
    PROVE  /\ plans'[p].status \in Unresolved => plans[p].status \in Unresolved \/ Issues(p)
           /\ plans'[p].status = "queued" => plans[p].status = "queued" \/ Queues(p)
           /\ plans'[p].status = "succeeded" =>
                  plans[p].status = "succeeded" \/ plans[p].status \in Unresolved
           /\ plans'[p].status # "none" => plans[p].status # "none" \/ Queues(p)
           /\ ~Queues(p) => plans'[p].session = plans[p].session
           /\ Queues(p) => /\ plans'[p].session = session.id /\ plans'[p].status = "queued"
                           /\ plans[p].status = "none"
<1>1. plans[p] \in Rows /\ Moves(p)
  BY Facts DEF StepFacts
<1> USE <1>1 DEF Rows, Unresolved
<1>2. CASE Stays(p) \/ Ages(p)
  BY <1>2 DEF Stays, Ages, Queues, NoPlan
<1>3. CASE Closes(p)
  BY <1>3 DEF Closes, Queues
<1>4. CASE Queues(p)
  BY <1>4 DEF Queues, NoPlan
<1>5. CASE Issues(p)
  BY <1>5 DEF Issues, Queues
<1>6. CASE Lapses(p) \/ Drops(p)
  BY <1>6 DEF Lapses, Drops, Queues
<1>7. CASE Records(p)
  BY <1>7 DEF Records, Queues, Outcomes, Verdicts
<1>8. CASE Resolves(p)
  BY <1>8 DEF Resolves, Queues
<1> QED
  BY <1>1, <1>2, <1>3, <1>4, <1>5, <1>6, <1>7, <1>8 DEF Moves

LEMMA OneKept == Inv /\ StepFacts => OneUnresolved'
<1> SUFFICES ASSUME Inv, StepFacts, NEW p \in Plans, NEW q \in Plans,
                    plans'[p].status \in Unresolved, plans'[q].status \in Unresolved
             PROVE  p = q
  BY DEF OneUnresolved, UnresolvedPlans
<1>1. /\ plans[p].status \in Unresolved \/ Issues(p)
      /\ plans[q].status \in Unresolved \/ Issues(q)
  BY MovesOpen
<1>2. CASE Issues(p) \/ Issues(q)
  <2>1. UnresolvedPlans = {}
    BY <1>2 DEF StepFacts, Careful
  <2>2. Issues(p) /\ Issues(q)
    BY <1>1, <2>1 DEF UnresolvedPlans
  <2> QED
    BY <2>2 DEF StepFacts, Careful
<1>3. CASE p \in UnresolvedPlans /\ q \in UnresolvedPlans
  BY <1>3 DEF Inv, OneUnresolved
<1> QED
  BY <1>1, <1>2, <1>3 DEF UnresolvedPlans

LEMMA EquivalentsKept == Inv /\ StepFacts => EquivalentsWait'
<1> SUFFICES ASSUME Inv, StepFacts, NEW p \in Plans, NEW q \in Plans,
                    Input[p] = Input[q], p # q,
                    plans'[p].status \in Open, plans'[q].status \in Open
             PROVE  FALSE
  BY DEF EquivalentsWait, Open
<1>1. ~Queues(p) /\ ~Queues(q)
  BY DEF StepFacts, Careful
<1>2. plans[p].status \in Open /\ plans[q].status \in Open
  BY <1>1, MovesOpen DEF Open, Issues
<1> QED
  BY <1>2 DEF Inv, EquivalentsWait, Open

LEMMA RepeatsKept == Inv /\ StepFacts => RepeatsAreSafe'
<1> SUFFICES ASSUME Inv, StepFacts, NEW p \in Plans, NEW q \in Plans,
                    Input[p] = Input[q], Writing(p),
                    plans'[p].status # "none", plans'[q].status = "succeeded",
                    plans'[q].session < plans'[p].session,
                    Runtime(plans'[q].session) # Runtime(plans'[p].session)
             PROVE  p \in SafeRepeat
  BY DEF RepeatsAreSafe, Writing, StepKinds
<1>1. /\ plans[p] \in Rows /\ plans[q] \in Rows /\ RowOK(p) /\ RowOK(q)
      /\ session.id \in Nat
  BY Facts
<1>2. /\ plans[p].session \in Nat /\ plans[q].session \in Nat
      /\ plans[p].session <= session.id
      /\ plans[q].status \in Unresolved => plans[q].session = session.id
  BY <1>1 DEF Rows, RowOK, Open
<1>3. ~Queues(q) /\ plans'[q].session = plans[q].session
  BY MovesOpen
<1>4. CASE Queues(p)
  <2>1. plans'[p].session = session.id
    BY <1>4, MovesOpen
  <2>2. p # q
    BY <1>3, <1>4
  <2>3. Runtime(plans[q].session) # Runtime(session.id)
    BY <1>3, <2>1
  <2> QED
    BY <1>4, <2>2, <2>3 DEF StepFacts, Careful
<1>5. CASE ~Queues(p)
  <2>1. plans[p].status # "none" /\ plans'[p].session = plans[p].session
    BY <1>5, MovesOpen
  <2>2. plans[q].status \notin Unresolved
    BY <1>2, <1>3, <2>1
  <2>3. plans[q].status = "succeeded"
    BY <2>2, MovesOpen
  <2> QED
    BY <1>3, <2>1, <2>3 DEF Inv, RepeatsAreSafe
<1> QED
  BY <1>4, <1>5

LEMMA InvKept == Inv /\ StepFacts => Inv'
<1> SUFFICES ASSUME Inv, StepFacts PROVE Inv'
  OBVIOUS
<1>1. \A p \in Plans : RowOK(p)'
  BY RowsKeep
<1>2. OneUnresolved' /\ EquivalentsWait' /\ RepeatsAreSafe'
  BY OneKept, EquivalentsKept, RepeatsKept
<1> QED
  BY <1>1, <1>2 DEF Inv, StepFacts

LEMMA InvUnchanged == Inv /\ UNCHANGED serverVars => Inv'
<1> SUFFICES ASSUME Inv, UNCHANGED serverVars PROVE Inv'
  OBVIOUS
<1>1. UNCHANGED <<gen, session, reserved, plans, recovery, lastSeq, intents, jobs, applied>>
  BY DEF serverVars, sessionVars, projectionVars
<1>2. StepFacts
  BY <1>1, Facts, QuietFacts DEF sessionVars, TypeOK
<1> QED
  BY <1>2, InvKept

\* Every request leaves the invariant true.
THEOREM Invariance == Spec => []Inv
<1>1. Inv /\ [Next]_serverVars => Inv'
  BY StepMoves, InvKept, InvUnchanged
<1> QED
  BY InitInv, <1>1, PTL DEF Spec

-----------------------------------------------------------------------------
(* The invariants of the repository.                                       *)

\* Sessions, plans, recovery sessions, intents and jobs are well typed, and no lease
\* outlives its session (_locked_runtime and every method after it).
THEOREM TypeCorrect == Spec => []TypeOK
<1>1. Inv => TypeOK
  BY DEF Inv
<1> QED
  BY <1>1, Invariance, PTL

\* At most one plan is leased or uncertain (_has_unresolved_plans).
THEOREM OnePlanAtATime == Spec => []OneUnresolved
<1>1. Inv => OneUnresolved
  BY DEF Inv
<1> QED
  BY <1>1, Invariance, PTL

\* Open plans belong to the installed session (_install_runtime_session).
THEOREM NothingLeftBehind == Spec => []OpenPlansAreCurrent
<1>1. Inv => OpenPlansAreCurrent
  BY Facts DEF OpenPlansAreCurrent, RowOK, Open
<1> QED
  BY <1>1, Invariance, PTL

\* No plan is handed out twice (lease_v2_plan).
THEOREM HandedOutOnce == Spec => []LeasedOnce
<1>1. Inv => LeasedOnce
  BY Facts DEF LeasedOnce, RowOK
<1> QED
  BY <1>1, Invariance, PTL

\* Equal requests wait for each other (insert_v2_plan).
THEOREM EqualsWait == Spec => []EquivalentsWait
<1>1. Inv => EquivalentsWait
  BY DEF Inv
<1> QED
  BY <1>1, Invariance, PTL

\* A write that has succeeded is repeated only if that is known to be safe.
THEOREM RepeatedKnowingly == Spec => []WritesRepeatedKnowingly
<1>1. Inv => WritesRepeatedKnowingly
  BY DEF Inv, RepeatsAreSafe, WritesRepeatedKnowingly
<1> QED
  BY <1>1, Invariance, PTL

\* Verdicts on work that was handed out are recorded verdicts (_write_v2_outcome).
THEOREM VerdictsRecorded == Spec => []VerdictsAreRecorded
<1>1. Inv => VerdictsAreRecorded
  BY Facts DEF VerdictsAreRecorded, RowOK
<1> QED
  BY <1>1, Invariance, PTL

-----------------------------------------------------------------------------
(* The properties of steps, and the refinement.                            *)

\* What one step does to one plan.
LEMMA MovesKeep ==
    ASSUME Inv, StepFacts, NEW p \in Plans
    PROVE  /\ plans[p].status \in Closed =>
                  plans'[p].status = plans[p].status /\ plans'[p].outcome = plans[p].outcome
           /\ plans[p].outcome # NoOutcome /\ plans'[p].outcome # plans[p].outcome =>
                  /\ plans[p].outcome.status \in Uncertain
                  /\ plans'[p].outcome.by = "server"
                  /\ plans'[p].outcome.seq > plans[p].outcome.seq
                  /\ plans'[p].outcome.original = plans[p].outcome.original
<1>1. plans[p] \in Rows /\ Moves(p) /\ RowOK(p)
  BY Facts DEF StepFacts
<1> USE <1>1 DEF Rows, Closed
<1>2. CASE Stays(p) \/ Ages(p)
  BY <1>2 DEF Stays, Ages
<1>3. CASE Closes(p)
  BY <1>3 DEF Closes, Unresolved
<1>4. CASE Queues(p)
  BY <1>4 DEF Queues, RowOK
<1>5. CASE Issues(p)
  BY <1>5 DEF Issues
<1>6. CASE Lapses(p) \/ Drops(p)
  BY <1>6 DEF Lapses, Drops
<1>7. CASE Records(p)
  <2>1. plans[p].status \in Unresolved
    BY <1>7 DEF Records
  <2>2. PICK o \in Outcomes :
            /\ plans'[p].outcome = o
            /\ o.seq > lastSeq
            /\ plans[p].outcome = NoOutcome
                   \/ (o.by = "server" /\ o.original = plans[p].outcome.original)
    BY <1>7 DEF Records
  <2>3. o.seq \in Nat /\ lastSeq \in Nat
    BY Facts DEF Outcomes
  <2>4. plans[p].outcome # NoOutcome => plans[p].outcome \in Outcomes /\ plans[p].outcome.seq \in Nat
    BY DEF Outcomes
  <2>5. plans[p].outcome # NoOutcome => plans[p].outcome.status \in Uncertain
    BY <2>1 DEF RowOK, Unresolved, Uncertain
  <2> QED
    BY <2>1, <2>2, <2>3, <2>4, <2>5 DEF RowOK, Unresolved
<1>8. CASE Resolves(p)
  BY <1>8 DEF Resolves, Unresolved
<1> QED
  BY <1>1, <1>2, <1>3, <1>4, <1>5, <1>6, <1>7, <1>8 DEF Moves

\* A closed plan is never reopened and keeps its outcome.
THEOREM ClosedStays == Spec => ClosedIsFinal
<1>1. Inv /\ [Next]_serverVars =>
          [\A p \in Plans : plans[p].status \in Closed =>
              plans'[p].status = plans[p].status /\ plans'[p].outcome = plans[p].outcome]_serverVars
  BY StepMoves, MovesKeep
<1> QED
  BY <1>1, Invariance, PTL DEF Spec, ClosedIsFinal

\* Outcomes are replaced while uncertain only, and never lose the runtime's record.
THEOREM OutcomesStay == Spec => OutcomesAreKept
<1>1. Inv /\ [Next]_serverVars =>
          [\A p \in Plans : plans[p].outcome # NoOutcome /\ plans'[p].outcome # plans[p].outcome =>
              /\ plans[p].outcome.status \in Uncertain
              /\ plans'[p].outcome.by = "server"
              /\ plans'[p].outcome.seq > plans[p].outcome.seq
              /\ plans'[p].outcome.original = plans[p].outcome.original]_serverVars
  BY StepMoves, MovesKeep
<1> QED
  BY <1>1, Invariance, PTL DEF Spec, OutcomesAreKept

LEMMA MovesAreMoves ==
    ASSUME Inv, StepFacts, NEW p \in Plans
    PROVE  LET f == Fate(plans[p])
               g == Fate(plans'[p])
           IN  /\ g \in Lifecycle!Fates
               /\ g = f \/ <<f, g>> \in Lifecycle!Moves
<1>1. plans[p] \in Rows /\ Moves(p) /\ RowOK(p) /\ plans'[p] \in Rows
  BY Facts DEF StepFacts, TypeOK
<1> USE <1>1 DEF Rows, RowOK, Unresolved, Uncertain, Closed, Fate, Lifecycle!Fates, Lifecycle!Moves,
        Lifecycle!Outstanding, Lifecycle!Verdict
<1>2. CASE Stays(p) \/ Ages(p)
  BY <1>2 DEF Stays, Ages
<1>3. CASE Closes(p)
  BY <1>3 DEF Closes
<1>4. CASE Queues(p)
  BY <1>4 DEF Queues, NoPlan
<1>5. CASE Issues(p)
  BY <1>5 DEF Issues
<1>6. CASE Lapses(p)
  BY <1>6 DEF Lapses
<1>7. CASE Drops(p)
  BY <1>7 DEF Drops
<1>8. CASE Records(p)
  BY <1>8 DEF Records, Outcomes, Verdicts
<1>9. CASE Resolves(p)
  BY <1>9 DEF Resolves
<1> QED
  BY <1>1, <1>2, <1>3, <1>4, <1>5, <1>6, <1>7, <1>8, <1>9 DEF Moves

LEMMA StepRefines == Inv /\ StepFacts => Lifecycle!Next
<1> SUFFICES ASSUME Inv, StepFacts PROVE Lifecycle!Next
  OBVIOUS
<1> DEFINE fate == [p \in Plans |-> Fate(plans[p])]
<1>1. fate' = [p \in Plans |-> Fate(plans'[p])]
  OBVIOUS
<1>2. \A p \in Plans : /\ fate'[p] \in Lifecycle!Fates
                       /\ fate'[p] = fate[p] \/ <<fate[p], fate'[p]>> \in Lifecycle!Moves
  BY <1>1, MovesAreMoves
<1>3. \A p \in Plans : fate'[p] \in Lifecycle!Outstanding => p \in UnresolvedPlans'
  <2> SUFFICES ASSUME NEW p \in Plans, Fate(plans'[p]) \in Lifecycle!Outstanding
               PROVE  plans'[p].status \in Unresolved
    BY <1>1 DEF UnresolvedPlans
  <2> QED
    BY DEF Fate, Lifecycle!Outstanding, Unresolved, Uncertain
<1>4. OneUnresolved'
  BY OneKept
<1>5. fate' \in [Plans -> Lifecycle!Fates]
  BY <1>1, <1>2
<1> QED
  BY <1>2, <1>3, <1>4, <1>5 DEF Lifecycle!Next, OneUnresolved

\* The repository implements the lifecycle that it promises of plans.
THEOREM ImplementsLifecycle == Spec => KeepsLifecycle
<1>1. Init => Lifecycle!Init
  <2> SUFFICES ASSUME Init PROVE Lifecycle!Init
    OBVIOUS
  <2>1. \A p \in Plans : plans[p].status = "none"
    BY DEF Init, NoPlan
  <2>2. \A p \in Plans : Fate(plans[p]) = "absent"
    BY <2>1 DEF Fate, Uncertain
  <2> QED
    BY <2>2 DEF Lifecycle!Init
<1>2. Inv /\ [Next]_serverVars => [Lifecycle!Next]_([p \in Plans |-> Fate(plans[p])])
  <2>1. ASSUME Inv, Next PROVE Lifecycle!Next
    BY <2>1, StepMoves, StepRefines
  <2>2. ASSUME UNCHANGED serverVars PROVE UNCHANGED [p \in Plans |-> Fate(plans[p])]
    BY <2>2 DEF serverVars
  <2> QED
    BY <2>1, <2>2
<1> QED
  BY <1>1, <1>2, Invariance, PTL DEF Spec, KeepsLifecycle, Lifecycle!Spec

-----------------------------------------------------------------------------
(* Projection.                                                             *)

\* While a worker holds its claim nobody replaces the outcome it works on.
ClaimsAreCurrent ==
    \A w \in Workers : jobs[w].at # "idle" /\ Holds(w) =>
        /\ jobs[w].at = "read" => jobs[w].outcome = plans[jobs[w].plan].outcome
        /\ jobs[w].at = "applied" => applied[jobs[w].plan] = plans[jobs[w].plan].outcome

ProjectionInv == ClaimsAreCurrent /\ ProjectedIsCurrent

LEMMA OutcomesChange ==
    ASSUME Inv, StepFacts, NEW p \in Plans, plans'[p].outcome # plans[p].outcome
    PROVE  Records(p)
<1>1. plans[p] \in Rows /\ Moves(p) /\ RowOK(p)
  BY Facts DEF StepFacts
<1> QED
  BY <1>1 DEF Rows, RowOK, Moves, Stays, Ages, Closes, Queues, NoPlan, Issues, Lapses, Drops, Resolves

LEMMA JobsAre ==
    ASSUME Inv, NEW w \in Workers
    PROVE  /\ jobs[w] \in Jobs
           /\ jobs[w].at # "idle" => jobs[w].plan \in Plans
           /\ jobs[w].at = "idle" => jobs[w].plan = Nobody
BY Facts DEF TypeOK, Jobs, Idle

\* Steps that touch neither outcomes nor projections.
LEMMA ProjectionUnchanged ==
    ASSUME Inv, ProjectionInv, StepFacts, UNCHANGED <<intents, jobs, applied>>,
           \A p \in Plans : plans'[p].outcome = plans[p].outcome
    PROVE  ProjectionInv'
<1>1. ClaimsAreCurrent'
  BY JobsAre DEF ProjectionInv, ClaimsAreCurrent, Holds
<1>2. ProjectedIsCurrent'
  BY DEF ProjectionInv, ProjectedIsCurrent
<1> QED
  BY <1>1, <1>2 DEF ProjectionInv

LEMMA ProjectionRecord ==
    ASSUME Inv, ProjectionInv, StepFacts, NEW p \in Plans, NEW o \in Outcomes, NEW b \in BOOLEAN,
           Record(p, o, b), Projectable(p), UNCHANGED <<jobs, applied>>
    PROVE  ProjectionInv'
<1>1. intents' = [intents EXCEPT ![p] = Pending]
      /\ \A q \in Plans \ {p} : plans'[q] = plans[q]
  BY Facts DEF Record, TypeOK
<1>2. intents'[p] = Pending /\ \A q \in Plans \ {p} : intents'[q] = intents[q]
  BY <1>1, Facts DEF TypeOK
<1>3. Pending.status = "pending"
  BY DEF Pending
<1>4. ClaimsAreCurrent'
  <2> SUFFICES ASSUME NEW w \in Workers, jobs[w].at # "idle", Holds(w)'
               PROVE  /\ jobs[w].at = "read" => jobs[w].outcome = plans'[jobs[w].plan].outcome
                      /\ jobs[w].at = "applied" =>
                             applied[jobs[w].plan] = plans'[jobs[w].plan].outcome
    BY DEF ClaimsAreCurrent
  <2>1. jobs[w].plan \in Plans \ {p}
    BY <1>2, <1>3, JobsAre DEF Holds
  <2>2. Holds(w)
    BY <1>2, <2>1 DEF Holds
  <2> QED
    BY <1>1, <2>1, <2>2 DEF ProjectionInv, ClaimsAreCurrent
<1>5. ProjectedIsCurrent'
  BY <1>1, <1>2, <1>3 DEF ProjectionInv, ProjectedIsCurrent
<1> QED
  BY <1>4, <1>5 DEF ProjectionInv

LEMMA ProjectionStep == Inv /\ ProjectionInv /\ [Next]_serverVars => ProjectionInv'
<1> SUFFICES ASSUME Inv, ProjectionInv, [Next]_serverVars PROVE ProjectionInv'
  OBVIOUS
<1>1. ASSUME NEW w \in Workers, NEW p \in Plans, ClaimProjection(w, p) PROVE ProjectionInv'
  <2>1. /\ intents' = [intents EXCEPT ![p] = [status |-> "projecting", owner |-> w, live |-> TRUE]]
        /\ jobs' = [jobs EXCEPT ![w] = [at |-> "claimed", plan |-> p, outcome |-> NoOutcome]]
        /\ intents[p].status # "projecting"
        /\ UNCHANGED <<plans, applied>>
    BY <1>1 DEF ClaimProjection, SetIntent, SetJob
  <2>2. /\ intents'[p].status = "projecting" /\ intents'[p].owner = w
        /\ \A q \in Plans \ {p} : intents'[q] = intents[q]
        /\ jobs'[w].at = "claimed" /\ \A v \in Workers \ {w} : jobs'[v] = jobs[v]
    BY <2>1, Facts DEF TypeOK
  <2>3. ClaimsAreCurrent'
    <3> SUFFICES ASSUME NEW v \in Workers, jobs'[v].at # "idle", Holds(v)'
                 PROVE  /\ jobs'[v].at = "read" => jobs'[v].outcome = plans[jobs'[v].plan].outcome
                        /\ jobs'[v].at = "applied" =>
                               applied[jobs'[v].plan] = plans[jobs'[v].plan].outcome
      BY <2>1 DEF ClaimsAreCurrent
    <3>1. CASE v = w
      BY <2>2, <3>1
    <3>2. CASE v # w
      <4>1. jobs'[v] = jobs[v] /\ jobs[v].plan \in Plans
        BY <2>2, <3>2, JobsAre
      <4>2. jobs[v].plan # p
        BY <2>2, <3>2, <4>1 DEF Holds
      <4>3. Holds(v)
        BY <2>2, <4>1, <4>2 DEF Holds
      <4> QED
        BY <4>1, <4>3 DEF ProjectionInv, ClaimsAreCurrent
    <3> QED
      BY <3>1, <3>2
  <2>4. ProjectedIsCurrent'
    BY <2>1, <2>2 DEF ProjectionInv, ProjectedIsCurrent
  <2> QED
    BY <2>3, <2>4 DEF ProjectionInv
<1>2. ASSUME NEW w \in Workers, ReadProjection(w) PROVE ProjectionInv'
  <2>1. /\ jobs[w].at = "claimed" /\ UNCHANGED <<plans, intents, applied>>
        /\ jobs' = [jobs EXCEPT ![w] = IF Holds(w)
               THEN [jobs[w] EXCEPT !.at = "read", !.outcome = plans[jobs[w].plan].outcome]
               ELSE [jobs[w] EXCEPT !.at = "failed"]]
    BY <1>2 DEF ReadProjection, SetJob
  <2>2. /\ jobs[w].plan \in Plans
        /\ jobs[w] \in [at : {"claimed", "read", "applied", "failed"},
                        plan : Plans, outcome : Outcomes \cup {NoOutcome}]
    BY <2>1, JobsAre DEF Jobs, Idle
  <2>3. /\ jobs'[w].plan = jobs[w].plan
        /\ jobs'[w].at = "read" => jobs'[w].outcome = plans[jobs[w].plan].outcome
        /\ jobs'[w].at \in {"read", "failed"}
        /\ \A v \in Workers \ {w} : jobs'[v] = jobs[v]
    BY <2>1, <2>2, Facts DEF TypeOK
  <2>4. ClaimsAreCurrent'
    BY <2>1, <2>3, JobsAre DEF ProjectionInv, ClaimsAreCurrent, Holds
  <2>5. ProjectedIsCurrent'
    BY <2>1 DEF ProjectionInv, ProjectedIsCurrent
  <2> QED
    BY <2>4, <2>5 DEF ProjectionInv
<1>3. ASSUME NEW w \in Workers, Apply(w) PROVE ProjectionInv'
  <2>0. /\ jobs[w].at = "read" /\ UNCHANGED <<plans, intents>>
        /\ \/ /\ Verified(jobs[w].plan, jobs[w].outcome)
              /\ applied' = [applied EXCEPT ![jobs[w].plan] = jobs[w].outcome]
              /\ jobs' = [jobs EXCEPT ![w] = [jobs[w] EXCEPT !.at = "applied"]]
           \/ applied' = applied /\ jobs' = [jobs EXCEPT ![w] = [jobs[w] EXCEPT !.at = "failed"]]
    BY <1>3 DEF Apply, SetJob
  <2>1. /\ jobs[w].plan \in Plans
        /\ jobs[w] \in [at : {"claimed", "read", "applied", "failed"},
                        plan : Plans, outcome : Outcomes \cup {NoOutcome}]
    BY <2>0, JobsAre DEF Jobs, Idle
  <2>2. /\ jobs'[w].plan = jobs[w].plan /\ \A v \in Workers \ {w} : jobs'[v] = jobs[v]
        /\ \A q \in Plans \ {jobs[w].plan} : applied'[q] = applied[q]
        /\ \/ /\ jobs'[w].at = "applied" /\ Verified(jobs[w].plan, jobs[w].outcome)
              /\ applied'[jobs[w].plan] = jobs[w].outcome
           \/ jobs'[w].at = "failed" /\ applied' = applied
    BY <2>0, <2>1, Facts DEF TypeOK
  <2>3. \A q \in Plans : applied'[q] = applied[q] \/ applied'[q] = plans[q].outcome
    BY <2>2 DEF Verified
  <2>4. ClaimsAreCurrent'
    <3> SUFFICES ASSUME NEW v \in Workers, jobs'[v].at # "idle", Holds(v)'
                 PROVE  /\ jobs'[v].at = "read" => jobs'[v].outcome = plans[jobs'[v].plan].outcome
                        /\ jobs'[v].at = "applied" =>
                               applied'[jobs'[v].plan] = plans[jobs'[v].plan].outcome
      BY <2>0 DEF ClaimsAreCurrent
    <3>1. CASE v = w
      BY <2>2, <3>1 DEF Verified
    <3>2. CASE v # w
      <4>1. jobs'[v] = jobs[v] /\ jobs[v].plan \in Plans /\ Holds(v)
        BY <2>0, <2>2, <3>2, JobsAre DEF Holds
      <4> QED
        BY <2>3, <4>1 DEF ProjectionInv, ClaimsAreCurrent
    <3> QED
      BY <3>1, <3>2
  <2>5. ProjectedIsCurrent'
    BY <2>0, <2>3 DEF ProjectionInv, ProjectedIsCurrent
  <2> QED
    BY <2>4, <2>5 DEF ProjectionInv
<1>4. ASSUME NEW w \in Workers, SettleProjection(w) PROVE ProjectionInv'
  <2> DEFINE p == jobs[w].plan
  <2>0. jobs[w].at \in {"applied", "failed"} /\ UNCHANGED <<plans, applied>>
        /\ jobs' = [jobs EXCEPT ![w] = Idle]
    BY <1>4 DEF SettleProjection, SetJob
  <2>1. p \in Plans /\ jobs'[w].at = "idle" /\ \A v \in Workers \ {w} : jobs'[v] = jobs[v]
    BY <2>0, JobsAre, Facts DEF TypeOK, Idle
  <2>2. CASE Holds(w)
    <3>1. PICK s \in {"projected", "retryable_failed", "reconciliation_required"} :
              /\ intents' = [intents EXCEPT ![p] = [Pending EXCEPT !.status = s]]
              /\ s = "projected" => jobs[w].at = "applied"
      BY <1>4, <2>2 DEF SettleProjection, Settles, SetIntent
    <3>2. /\ intents'[p].status = s /\ \A q \in Plans \ {p} : intents'[q] = intents[q]
      BY <2>1, <3>1, Facts DEF TypeOK, Pending
    <3>3. ClaimsAreCurrent'
      BY <2>0, <2>1, <3>2, JobsAre DEF ProjectionInv, ClaimsAreCurrent, Holds
    <3>4. s = "projected" => applied[p] = plans[p].outcome
      BY <2>2, <3>1 DEF ProjectionInv, ClaimsAreCurrent
    <3>5. ProjectedIsCurrent'
      BY <2>0, <3>2, <3>4 DEF ProjectionInv, ProjectedIsCurrent
    <3> QED
      BY <3>3, <3>5 DEF ProjectionInv
  <2>3. CASE ~Holds(w)
    <3>1. intents' = intents
      BY <1>4, <2>3 DEF SettleProjection, Settles
    <3>2. ClaimsAreCurrent'
      BY <2>0, <2>1, <3>1 DEF ProjectionInv, ClaimsAreCurrent, Holds
    <3>3. ProjectedIsCurrent'
      BY <2>0, <3>1 DEF ProjectionInv, ProjectedIsCurrent
    <3> QED
      BY <3>2, <3>3 DEF ProjectionInv
  <2> QED
    BY <2>2, <2>3
<1>5. ASSUME NEW p \in Plans, ReclaimProjection(p) \/ ProjectionLapses(p) PROVE ProjectionInv'
  <2>1. /\ UNCHANGED <<plans, jobs, applied>>
        /\ \/ intents' = [intents EXCEPT ![p] = [intents[p] EXCEPT !.live = FALSE]]
           \/ intents' = [intents EXCEPT ![p] = [Pending EXCEPT !.status = "retryable_failed"]]
    BY <1>5 DEF ReclaimProjection, ProjectionLapses, SetIntent
  <2>2. \A q \in Plans : \/ intents'[q] = intents[q]
                         \/ ~intents'[q].live
                            /\ (intents'[q].status = "projected" => intents[q].status = "projected")
    BY <2>1, Facts DEF TypeOK, Intents, Pending
  <2>3. ClaimsAreCurrent'
    BY <2>1, <2>2, JobsAre DEF ProjectionInv, ClaimsAreCurrent, Holds
  <2>4. ProjectedIsCurrent'
    BY <2>1, <2>2 DEF ProjectionInv, ProjectedIsCurrent
  <2> QED
    BY <2>3, <2>4 DEF ProjectionInv
<1>6. ASSUME Next, UNCHANGED projectionVars, \A p \in Plans : ~Records(p) PROVE ProjectionInv'
  <2>1. StepFacts
    BY <1>6, StepMoves
  <2> QED
    BY <1>6, <2>1, OutcomesChange, ProjectionUnchanged DEF projectionVars
<1>7. ASSUME OutcomeRequest PROVE ProjectionInv'
  <2>0. StepFacts
    BY <1>7, OutcomeFacts
  <2>1. ASSUME NEW p \in Plans, NEW v \in Verdicts, NEW n \in 1..MaxSequence,
               NEW t \in 1..MaxSession, NEW results \in StepResults(p),
               Complete(t, p, results, v, n)
        PROVE  ProjectionInv'
    <3>1. /\ Record(p, Signed(v, n), FALSE) /\ Projectable(p) /\ UNCHANGED <<jobs, applied>>
      BY <2>1 DEF Complete, CanComplete
    <3>2. Signed(v, n) \in Outcomes
      BY DEF Signed, Outcomes
    <3>3. FALSE \in BOOLEAN
      OBVIOUS
    <3> QED
      BY <2>0, <3>1, <3>2, <3>3, ProjectionRecord
  <2>2. ASSUME NEW p \in Plans, NEW v \in Verdicts, NEW n \in 1..MaxSequence,
               NEW t \in 1..(MaxSession + MaxRecovery), Reconcile(t, p, v, n)
        PROVE  ProjectionInv'
    <3> DEFINE o == [by |-> "server", status |-> v, seq |-> n,
                     original |-> plans[p].outcome.original]
    <3>1. Record(p, o, TRUE) /\ Projectable(p) /\ UNCHANGED <<jobs, applied>>
      BY <2>2 DEF Reconcile, Reconcilable
    <3>2. plans[p].outcome.original \in BOOLEAN
      <4>1. plans[p].outcome \in Outcomes \/ plans[p].outcome = NoOutcome
        BY Facts DEF Rows
      <4>2. NoOutcome.original = FALSE
        BY DEF NoOutcome
      <4> QED
        BY <4>1, <4>2, Zenon DEF Outcomes
    <3>3. o \in Outcomes
      BY <3>2 DEF Outcomes
    <3>4. TRUE \in BOOLEAN
      OBVIOUS
    <3> QED
      BY <2>0, <3>1, <3>3, <3>4, ProjectionRecord
  <2>3. ASSUME NEW p \in Plans, NEW v \in Verdicts, NEW n \in 1..MaxSequence,
               NEW t \in 1..MaxRecovery, Acknowledge(t, p, v, n)
        PROVE  ProjectionInv'
    <3>1. UNCHANGED <<plans, intents, jobs, applied>>
      BY <2>3 DEF Acknowledge, projectionVars
    <3> QED
      BY <2>0, <3>1, ProjectionUnchanged
  <2> QED
    BY <1>7, <2>1, <2>2, <2>3 DEF OutcomeRequest
<1>8. ASSUME SessionRequest \/ PlanRequest \/ SessionExpires \/ RecoveryExpires
                 \/ \E p \in Plans : LeaseExpires(p) \/ PlanExpires(p)
      PROVE  ProjectionInv'
  <2>1. UNCHANGED projectionVars
    BY <1>8 DEF SessionRequest, PlanRequest, SessionExpires, RecoveryExpires, LeaseExpires,
       PlanExpires, Restart, Register, ForceTakeover, RegisterRecovery, Insert, LeaseNothing,
       Lease, Resolve
  <2>2. lastSeq' = lastSeq
    BY <1>8 DEF SessionRequest, PlanRequest, SessionExpires, RecoveryExpires, LeaseExpires,
       PlanExpires, Restart, Register, ForceTakeover, RegisterRecovery, Insert, LeaseNothing,
       Lease, Resolve
  <2>3. \A p \in Plans : ~Records(p)
    <3> SUFFICES ASSUME NEW p \in Plans, NEW o \in Outcomes, o.seq > lastSeq, o.seq <= lastSeq
                 PROVE  FALSE
      BY <2>2 DEF Records
    <3>1. o.seq \in Nat /\ lastSeq \in Nat
      BY Facts DEF Outcomes
    <3> QED
      BY <3>1
  <2> QED
    BY <1>6, <1>8, <2>1, <2>3 DEF Next, Tick
<1>9. CASE UNCHANGED serverVars
  <2>1. UNCHANGED <<plans, intents, jobs, applied>>
    BY <1>9 DEF serverVars, sessionVars, projectionVars
  <2> QED
    BY <2>1 DEF ProjectionInv, ClaimsAreCurrent, ProjectedIsCurrent, Holds
<1> QED
  BY <1>1, <1>2, <1>3, <1>4, <1>5, <1>7, <1>8, <1>9 DEF Next, Tick, Projector

\* A projected intent stands for the outcome that is recorded now
\* (claim_projection, verified_v2_projection, finish_projection).
THEOREM ProjectionIsCurrent == Spec => []ProjectedIsCurrent
<1>1. Init => ProjectionInv
  BY DEF Init, ProjectionInv, ClaimsAreCurrent, ProjectedIsCurrent, Idle, NoIntent
<1>2. ProjectionInv => ProjectedIsCurrent
  BY DEF ProjectionInv
<1> QED
  BY <1>1, <1>2, ProjectionStep, Invariance, PTL DEF Spec
=============================================================================
