---------------------------- MODULE PlanLifecycle ----------------------------
(***************************************************************************)
(* What Connector V2 promises of its plans, whoever asks, crashes, expires *)
(* or takes over: a plan is handed to a runtime at most once, one plan at  *)
(* a time, and ends in one verdict that is never taken back. A plan that   *)
(* was dropped before it was handed out is told apart from one that failed.*)
(***************************************************************************)
CONSTANT Plans

VARIABLE fate

Outstanding == {"handed", "uncertain"}
Verdict == {"succeeded", "failed", "abandoned"}
Fates == {"absent", "queued", "dropped"} \cup Outstanding \cup Verdict

Moves ==
    {<<"absent", "queued">>, <<"queued", "handed">>, <<"queued", "dropped">>,
     <<"handed", "uncertain">>} \cup (Outstanding \X Verdict)

Init == fate = [p \in Plans |-> "absent"]

\* A request may move several plans: what it closes, and what it opens.
Next ==
    /\ fate' \in [Plans -> Fates]
    /\ \A p \in Plans : fate'[p] = fate[p] \/ <<fate[p], fate'[p]>> \in Moves
    /\ \A p, q \in Plans : fate'[p] \in Outstanding /\ fate'[q] \in Outstanding => p = q

Spec == Init /\ [][Next]_fate
=============================================================================
