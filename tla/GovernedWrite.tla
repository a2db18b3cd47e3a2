---------------------------- MODULE GovernedWrite ----------------------------
(***************************************************************************)
(* What the gateway promises about governed writes, without its stages,    *)
(* tokens, leases, threads or crashes: a scope is claimed by one operation *)
(* for ever; an atomic write is applied together with its completed        *)
(* verdict; any other write is applied at most once, only under its claim, *)
(* and is called completed only after it was applied; failed and completed *)
(* are final.                                                              *)
(***************************************************************************)
CONSTANTS Ops, Scopes, Scope, Atomic

VARIABLES verdict, applied

vars == <<verdict, applied>>

Init ==
    /\ verdict = [o \in Ops |-> "none"]
    /\ applied = [o \in Ops |-> FALSE]

Decide(o, v) == verdict' = [verdict EXCEPT ![o] = v]

Claim(o) ==
    /\ \A p \in Ops : Scope[p] = Scope[o] => verdict[p] = "none"
    /\ Decide(o, "started")
    /\ UNCHANGED applied

Apply(o) ==
    /\ verdict[o] # "none"
    /\ ~applied[o]
    /\ applied' = [applied EXCEPT ![o] = TRUE]

\* A write outside the verdict's transaction, also long after the verdict.
ApplyAlone(o) == o \notin Atomic /\ Apply(o) /\ UNCHANGED verdict

ApplyAtomically(o) ==
    o \in Atomic /\ verdict[o] = "started" /\ Apply(o) /\ Decide(o, "completed")

Acknowledge(o) ==
    /\ o \notin Atomic
    /\ applied[o]
    /\ verdict[o] \in {"started", "outcome_unknown"}
    /\ Decide(o, "completed")
    /\ UNCHANGED applied

GiveUp(o) ==
    /\ verdict[o] = "started"
    /\ Decide(o, "failed") \/ Decide(o, "outcome_unknown")
    /\ UNCHANGED applied

Next == \E o \in Ops : \/ Claim(o) \/ ApplyAlone(o) \/ ApplyAtomically(o)
                       \/ Acknowledge(o) \/ GiveUp(o)

Spec == Init /\ [][Next]_vars
=============================================================================
