--------------------------- MODULE MCAuditDelivery ---------------------------
(* A small instance of AuditDelivery: three operations, two of one scope.   *)
EXTENDS AuditDelivery, TLC

CONSTANTS o1, o2, o3

MCOps == {o1, o2, o3}
MCScopes == {"k1", "k2"}
MCPayloads == {"p"}
MCScope == o1 :> "k1" @@ o2 :> "k1" @@ o3 :> "k2"
MCPayload == [o \in MCOps |-> "p"]
=============================================================================
