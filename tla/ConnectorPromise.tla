--------------------------- MODULE ConnectorPromise ---------------------------
(***************************************************************************)
(* What Connector V2 and the local runtime promise together: the lifecycle *)
(* of PlanLifecycle, effects of handed out plans only, and verdicts of the *)
(* host that executed a plan which say exactly what the viewer did and     *)
(* will do. A plan left in doubt may be judged by others, from what probes *)
(* see later or as its owner decides; that verdict says nothing of the     *)
(* effects, which may follow it.                                           *)
(***************************************************************************)
EXTENDS PlanLifecycle

CONSTANT Writes(_)   \* the steps of a plan that change the viewer's model

VARIABLES
    effects,   \* the writes of each plan that took effect
    judged     \* plans in doubt that somebody else has looked at or closed

promiseVars == <<fate, effects, judged>>

PromiseInit ==
    /\ Init
    /\ effects = [p \in Plans |-> {}]
    /\ judged = {}

TakesEffect(p) ==
    /\ fate[p] \in Outstanding \/ (p \in judged /\ fate[p] \in Verdict)
    /\ \E i \in Writes(p) \ effects[p] : effects' = [effects EXCEPT ![p] = @ \cup {i}]
    /\ UNCHANGED <<fate, judged>>

\* A verdict of the host itself.
Truthful(p) ==
    p \notin judged' =>
        /\ fate'[p] = "succeeded" => effects[p] = Writes(p)
        /\ fate'[p] = "failed" => effects[p] = {}

\* Only a plan in doubt comes to be judged, and then for good.
Judged(p) ==
    IF p \in judged THEN p \in judged'
    ELSE p \in judged' => fate[p] \in Outstanding /\ fate'[p] \in {"uncertain"} \cup Verdict

PromiseNext ==
    \/ \E p \in Plans : TakesEffect(p)
    \/ /\ Next
       /\ judged' \subseteq Plans /\ \A p \in Plans : Judged(p) /\ Truthful(p)
       /\ UNCHANGED effects

PromiseSpec == PromiseInit /\ [][PromiseNext]_promiseVars
=============================================================================
