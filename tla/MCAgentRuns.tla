---------------------------- MODULE MCAgentRuns ----------------------------
(* One run with two messages, two requests of its owner, one approval and   *)
(* two decisions on it.                                                     *)
EXTENDS AgentRuns, TLC

CONSTANTS r1, p1, p2, o1, o2, a1, d1, d2

MCRuns == {r1}
MCPrompts == {p1, p2}
MCRequests == {o1, o2}
MCOf == [h \in MCPrompts \cup MCRequests |-> r1]
MCApprovals == {a1}
MCDecisions == {d1, d2}
Symmetry == Permutations(MCPrompts) \cup Permutations(MCRequests) \cup Permutations(MCDecisions)
=============================================================================
