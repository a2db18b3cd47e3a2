--------------------------- MODULE MCLocalRuntime ---------------------------
(* Small instances of LocalRuntime: a plan of two writes, which may be      *)
(* carried out in part, and a batch that publishes two files.               *)
EXTENDS LocalRuntime, TLC

CONSTANTS edit, i1

MCPlans == {edit}
MCInputs == {i1}
MCInput == edit :> i1
MCSteps == edit :> <<"write", "write">>
MCStepsBatch == edit :> <<"read", "publish", "publish">>
MCBatch == {edit}

\* A runtime makes up a new instance id for each session.
MCRuntime(s) == s
=============================================================================
