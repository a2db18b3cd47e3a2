------------------------------ MODULE MCGateway ------------------------------
(***************************************************************************)
(* Instances of CapabilityGateway with three invocations.  In the strong   *)
(* instance c1 and c2 are a write and its retry, and c3 asks for the same  *)
(* write under another idempotency key with the same approval token.  In   *)
(* the Agent instance c2 reuses the key of c1 with another payload.        *)
(***************************************************************************)
EXTENDS CapabilityGateway, TLC

CONSTANTS c1, c2, c3

MCOps == {c1, c2, c3}
MCScopes == {"k1", "k2"}
MCPayloads == {"p1", "p2"}
MCCaps == {"cap"}
MCCap == [s \in MCScopes |-> "cap"]
MCTokens == {"t1", "t2"}
MCToken == c1 :> "t1" @@ c2 :> "t2" @@ c3 :> "t1"
MCApproved == [t \in MCTokens |-> <<"cap", "p1">>]
None == {}

StrongScope == c1 :> "k1" @@ c2 :> "k1" @@ c3 :> "k2"
StrongPayload == [c \in MCOps |-> "p1"]

Pair == {c1, c2}
PairScopes == {"k1"}
PairPayloads == {"p1", "p2"}
PairScope == [c \in Pair |-> "k1"]
PairPayload == c1 :> "p1" @@ c2 :> "p2"
PairCap == [s \in PairScopes |-> "cap"]
PairToken == c1 :> "t1" @@ c2 :> "t2"
=============================================================================
