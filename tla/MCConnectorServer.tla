-------------------------- MODULE MCConnectorServer --------------------------
(* Small instances of ConnectorServer.                                     *)
EXTENDS ConnectorServer, TLC

CONSTANTS w1, w2, edit, retry, view, i1, i2

\* A write, its repetition, and a read of something else.
MCPlans == {edit, retry, view}
MCInputs == {i1, i2}
MCSteps == (edit :> <<"write">>) @@ (retry :> <<"write">>) @@ (view :> <<"read">>)
MCInput == (edit :> i1) @@ (retry :> i1) @@ (view :> i2)

\* One plan whose outcome is projected by two workers.
MCPlansOne == {edit}
MCStepsOne == edit :> <<"write", "write">>
MCInputOne == edit :> i1
MCWorkers == {w1, w2}
Symmetry == Permutations(MCWorkers)

\* A runtime makes up a new instance id for each session.
MCRuntime(s) == s
=============================================================================
