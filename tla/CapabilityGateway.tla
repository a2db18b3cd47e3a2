-------------------------- MODULE CapabilityGateway --------------------------
(***************************************************************************)
(* Governed writes through CapabilityGatewayService.invoke                 *)
(* (backend/capability_v2/gateway.py) with the ReliabilityCoordinator, the *)
(* approval store and the admission controller it calls.                   *)
(*                                                                         *)
(* Each element of Ops is one invocation; the operation id that begin mints *)
(* for it is named after it, so outcome[c] is the row that invocation c    *)
(* inserted.  A client retry is another invocation with the same Scope.    *)
(* Invocations are tasks of one event loop; their database stages and      *)
(* synchronous providers run in worker threads, which a cancellation or a  *)
(* timeout does not stop.  The process may crash and start again.          *)
(*                                                                         *)
(* An answer is the CapabilityStatus that invoke returns; the error code   *)
(* and the text are left out, so that a refusal before begin, a replayed    *)
(* failure and a failure of the gateway itself look alike, as they do to a  *)
(* caller that reads the status.  "completed" stands for COMPLETED and for  *)
(* ACCEPTED.                                                                *)
(***************************************************************************)
EXTENDS OutcomeStore, Naturals

CONSTANTS
    Caps,          \* capabilities
    Cap,           \* [Scopes -> Caps]: a scope names its capability
    Strong,        \* capabilities whose consistency_policy is "strong"
    Confirmed,     \* capabilities that require a confirmation
    Asynchronous,  \* capabilities whose operation_policy is "required"
    AgentCaps,     \* eventual capabilities that write the Agent outbox
    Tokens,        \* approval tokens
    Token,         \* [Ops -> Tokens]: approval_reference of each invocation
    Approved,      \* [Tokens -> Caps \X Payloads]: what a challenge is bound to
    MaxInFlight,   \* max_parallel_per_consumer
    MaxCrashes     \* bound on process crashes

ASSUME CapAssumption == /\ Cap \in [Scopes -> Caps]
                        /\ Strong \subseteq Caps
                        /\ AgentCaps \cap Strong = {}
ASSUME TokenAssumption == /\ Token \in [Ops -> Tokens]
                          /\ Approved \in [Tokens -> Caps \X Payloads]
ASSUME BoundAssumption == MaxInFlight \in Nat /\ MaxCrashes \in Nat

VARIABLES
    pc,           \* the stage each invocation has reached
    answer,       \* status of the result, which the caller has at done
    named,        \* the row that operation_ref of a rejected or failed answer names
    result,       \* status of the result that is recorded with the row
    worker,       \* the provider's thread and its transaction
    effect,       \* whether the domain write of the invocation is committed
    approval,     \* the approval row of each token
    held,         \* invocations that hold an admission lease
    agentOutbox,  \* the Agent outbox row of an eventual write
    crashes       \* how often the process has crashed

callVars == <<pc, answer, named, result>>
vars == <<storeVars, callVars, worker, effect, approval, held, agentOutbox, crashes>>

Stages == {"idle", "replay", "approve", "admit", "begin", "cancelled", "dispatch",
           "running", "final", "unknown", "release", "done", "lost"}

\* Stages that own an admission lease.
Admitted == {"begin", "cancelled", "dispatch", "running", "final", "unknown", "release"}

Results == {"completed", "rejected", "failed"}

\* No answer yet, a status, or CancelledError.
Answers == {"none", "outcome_unknown", "cancelled"} \cup Results

Of(c) == Cap[Scope[c]]

Succeeded(c) == result[c] = "completed"

TypeOK ==
    /\ StoreTypeOK
    /\ pc \in [Ops -> Stages]
    /\ answer \in [Ops -> Answers]
    /\ named \in [Ops -> SUBSET Ops]
    /\ result \in [Ops -> Results]
    /\ worker \in [Ops -> {"idle", "running", "committed", "transaction", "returned", "stopped"}]
    /\ effect \in [Ops -> BOOLEAN]
    /\ approval \in [Tokens -> {"none", "issued", "consumed", "expired"}]
    /\ held \subseteq Ops
    /\ agentOutbox \in [Ops -> {"none", "pending", "processing", "delivered"}]
    /\ crashes \in 0..MaxCrashes

Init ==
    /\ StoreInit
    /\ pc = [c \in Ops |-> "idle"]
    /\ answer = [c \in Ops |-> "none"]
    /\ named = [c \in Ops |-> {}]
    /\ result = [c \in Ops |-> "failed"]
    /\ worker = [c \in Ops |-> "idle"]
    /\ effect = [c \in Ops |-> FALSE]
    /\ approval = [t \in Tokens |-> "none"]
    /\ held = {}
    /\ agentOutbox = [c \in Ops |-> "none"]
    /\ crashes = 0

-----------------------------------------------------------------------------
(* Control of one invocation.                                              *)

Goto(c, stage) == pc' = [pc EXCEPT ![c] = stage] /\ UNCHANGED <<answer, named, result>>

Tell(c, status, names) ==
    /\ answer' = [answer EXCEPT ![c] = status]
    /\ named' = [named EXCEPT ![c] = names]

\* Return to the caller; an admission lease that is held goes with it.
Return(c, status, names) ==
    /\ pc' = [pc EXCEPT ![c] = "done"]
    /\ Tell(c, status, names)
    /\ held' = held \ {c}
    /\ UNCHANGED result

\* The provider's part is over; status says what is to be recorded.
Settle(c, status) ==
    /\ pc' = [pc EXCEPT ![c] = "final"]
    /\ result' = [result EXCEPT ![c] = status]
    /\ UNCHANGED <<answer, named>>

\* What the operation_ref of a result recorded for o names: the row itself,
\* unless the operation is one of the operations service or was not dispatched.
Ref(o) == IF Of(o) \in Asynchronous \/ worker[o] = "idle" THEN {} ELSE {o}

\* A recorded result, first hand or replayed.
ReturnRecorded(c, o) ==
    IF outcome[o] = "failed"
    THEN Return(c, result[o], Ref(o))
    ELSE Return(c, outcome[o], {})

\* Mutant of ReturnReplayed: a started row is replayed as if it were final.
ReturnUnfinished(c, o) ==
    IF Payload[o] # Payload[c]
    THEN Return(c, "rejected", {})
    ELSE ReturnRecorded(c, o)

\* Mutant of ReturnReplayed: the payload hash is not compared.
ReturnUnchecked(c, o) ==
    IF outcome[o] = "started"
    THEN Return(c, "rejected", {})
    ELSE ReturnRecorded(c, o)

\* What replay and begin answer when the scope has the row of o: another
\* payload and a row in progress are rejected.
ReturnReplayed(c, o) ==
    IF Payload[o] # Payload[c] \/ outcome[o] = "started"
    THEN Return(c, "rejected", {})
    ELSE ReturnRecorded(c, o)

-----------------------------------------------------------------------------
(* Approvals.                                                              *)

\* request_approval: the challenge is saved and its token handed out.
IssueApproval(t) ==
    /\ approval[t] = "none"
    /\ approval' = [approval EXCEPT ![t] = "issued"]
    /\ UNCHANGED <<storeVars, callVars, worker, effect, held, agentOutbox, crashes>>

ApprovalExpires(t) ==
    /\ approval[t] = "issued"
    /\ approval' = [approval EXCEPT ![t] = "expired"]
    /\ UNCHANGED <<storeVars, callVars, worker, effect, held, agentOutbox, crashes>>

\* Mutant of Acceptable: consumed_at is not looked at.
AcceptableAgain(c) ==
    /\ approval[Token[c]] \in {"issued", "consumed"}
    /\ Approved[Token[c]] = <<Of(c), Payload[c]>>

\* SqlApprovalStore.consume accepts the token: unused, in time, and bound to
\* this capability and this payload.
Acceptable(c) ==
    /\ approval[Token[c]] = "issued"
    /\ Approved[Token[c]] = <<Of(c), Payload[c]>>

Consume(c) ==
    IF Of(c) \in Confirmed
    THEN Acceptable(c) /\ approval' = [approval EXCEPT ![Token[c]] = "consumed"]
    ELSE UNCHANGED approval

-----------------------------------------------------------------------------
(* invoke, up to the dispatch of the provider.                             *)

\* Resolution, exposure, authorization and the input checks pass or reject.
Invoke(c) ==
    /\ pc[c] = "idle"
    /\ \/ Goto(c, "replay") /\ UNCHANGED held
       \/ Return(c, "rejected", {}) \/ Return(c, "failed", {})
    /\ UNCHANGED <<storeVars, worker, effect, approval, agentOutbox, crashes>>

\* ReliabilityCoordinator.replay, before any approval is asked for.  When the
\* row cannot be read the caller is told failed, whatever the row says.
Replay(c) ==
    /\ pc[c] = "replay"
    /\ \/ /\ Row(Scope[c]) = {}
          /\ \/ Goto(c, "approve") /\ UNCHANGED held
             \/ Return(c, "rejected", {})
       \/ \E o \in Row(Scope[c]) : ReturnReplayed(c, o)
       \/ Return(c, "failed", {})
    /\ UNCHANGED <<storeVars, worker, effect, approval, agentOutbox, crashes>>

\* policy.approve: the token is consumed here, before capacity is known.  A
\* cancellation that arrives meanwhile lets the stage finish, and a database
\* error is reported before or after the token was consumed.
Approve(c) ==
    /\ pc[c] = "approve"
    /\ \/ Consume(c) /\ Goto(c, "admit") /\ UNCHANGED held
       \/ /\ Consume(c) \/ UNCHANGED approval
          /\ Return(c, "cancelled", {}) \/ Return(c, "failed", {})
       \/ /\ Of(c) \in Confirmed /\ ~Acceptable(c)
          /\ Return(c, "rejected", {})
          /\ UNCHANGED approval
    /\ UNCHANGED <<storeVars, worker, effect, agentOutbox, crashes>>

\* ResourceAdmissionController.acquire.
Admit(c) ==
    /\ pc[c] = "admit"
    /\ Cardinality(held) < MaxInFlight
    /\ held' = held \cup {c}
    /\ Goto(c, "begin")
    /\ UNCHANGED <<storeVars, worker, effect, approval, agentOutbox, crashes>>

\* Memory pressure, or no capacity before the admission timeout (retryable).
CapacityUnavailable(c) ==
    /\ pc[c] = "admit"
    /\ Return(c, "rejected", {})
    /\ UNCHANGED <<storeVars, worker, effect, approval, agentOutbox, crashes>>

\* ReliabilityCoordinator.begin: the row is inserted and its lease returned; a
\* cancelled invocation then owes the row a verdict (_cancel_unstarted_lease).
BeginLease(c) ==
    /\ pc[c] = "begin"
    /\ Begin(c)
    /\ \/ Goto(c, "dispatch")
       \/ Goto(c, "cancelled")
    /\ UNCHANGED <<worker, effect, approval, held, agentOutbox, crashes>>

\* Mutant of BeginWithoutLease: the rate limit is checked after the INSERT.
BeginThenLimit(c) ==
    /\ pc[c] = "begin"
    /\ Begin(c)
    /\ Return(c, "rejected", {})
    /\ UNCHANGED <<worker, effect, approval, agentOutbox, crashes>>

\* begin finds the row of an earlier invocation, is refused by the rate
\* limiter, or raises: then the INSERT may be committed all the same.
BeginWithoutLease(c) ==
    /\ pc[c] = "begin"
    /\ \/ UNCHANGED storeVars /\ \E o \in Row(Scope[c]) : ReturnReplayed(c, o)
       \/ UNCHANGED storeVars /\ Return(c, "rejected", {})
       \/ /\ Begin(c) \/ UNCHANGED storeVars
          /\ Return(c, "failed", {}) \/ Return(c, "cancelled", {})
    /\ UNCHANGED <<worker, effect, approval, agentOutbox, crashes>>

\* Mutant of CancelLease: the admission lease is not released.
CancelLeaseAndLeak(c) ==
    /\ pc[c] = "cancelled"
    /\ Complete(c, FALSE) \/ MarkUnknown(c) \/ UNCHANGED storeVars
    /\ pc' = [pc EXCEPT ![c] = "done"]
    /\ Tell(c, "cancelled", {})
    /\ UNCHANGED <<result, held, worker, effect, approval, agentOutbox, crashes>>

\* _cancel_unstarted_lease: failed with cancelled_before_dispatch, or unknown
\* when that cannot be written, or nothing when the store is unreachable.
CancelLease(c) ==
    /\ pc[c] = "cancelled"
    /\ Complete(c, FALSE) \/ MarkUnknown(c) \/ UNCHANGED storeVars
    /\ Return(c, "cancelled", {})
    /\ UNCHANGED <<worker, effect, approval, agentOutbox, crashes>>

\* operations.create raises: the lease is completed as failed; when that
\* raises too, the caller is told failed and the row stays started.
OperationCreateFails(c) ==
    /\ pc[c] = "dispatch"
    /\ Of(c) \in Asynchronous
    /\ Complete(c, FALSE) \/ UNCHANGED storeVars
    /\ Return(c, "failed", {})
    /\ UNCHANGED <<worker, effect, approval, agentOutbox, crashes>>

Dispatch(c) ==
    /\ pc[c] = "dispatch"
    /\ Goto(c, "running")
    /\ worker' = [worker EXCEPT ![c] = "running"]
    /\ UNCHANGED <<storeVars, effect, approval, held, agentOutbox, crashes>>

-----------------------------------------------------------------------------
(* The provider, in a thread that outlives a timeout or a cancellation.     *)

Thread(c, state) == worker' = [worker EXCEPT ![c] = state]

\* An eventual provider commits its own transaction; an Agent provider writes
\* its outbox row in the same transaction (AgentTransaction.record_outbox).
ProviderCommits(c) ==
    /\ worker[c] = "running"
    /\ Of(c) \notin Strong
    /\ Thread(c, "committed")
    /\ effect' = [effect EXCEPT ![c] = TRUE]
    /\ agentOutbox' = [agentOutbox EXCEPT ![c] = IF Of(c) \in AgentCaps THEN "pending" ELSE @]
    /\ UNCHANGED <<storeVars, callVars, approval, held, crashes>>

\* Mutant of ProviderReturns: a strong provider the gateway has given up on
\* commits its transaction instead of rolling it back.
ProviderCommitsLate(c) ==
    /\ Of(c) \in Strong /\ worker[c] = "running"
    /\ Thread(c, IF pc[c] = "running" THEN "transaction" ELSE "stopped")
    /\ effect' = [effect EXCEPT ![c] = pc[c] # "running"]
    /\ UNCHANGED <<storeVars, callVars, approval, held, agentOutbox, crashes>>

\* run() in _invoke_sync_provider: a strong provider hands over an open
\* transaction, or rolls it back itself when the gateway has given up.
ProviderReturns(c) ==
    /\ \/ /\ Of(c) \in Strong /\ worker[c] = "running"
          /\ Thread(c, IF pc[c] = "running" THEN "transaction" ELSE "stopped")
       \/ /\ worker[c] = "committed"
          /\ Thread(c, "returned")
    /\ UNCHANGED <<storeVars, callVars, effect, approval, held, agentOutbox, crashes>>

\* The result of a provider that raised, was late, or broke a contract:
\* REJECTED, retryable or not, for a business error, FAILED for any other.
SettleFailed(c) == Settle(c, "rejected") \/ Settle(c, "failed")

\* The handler raises, possibly after a commit whose acknowledgement was lost.
ProviderRaises(c) ==
    /\ worker[c] \in {"running", "committed"}
    /\ Thread(c, "stopped")
    /\ IF pc[c] = "running" THEN SettleFailed(c) ELSE UNCHANGED callVars
    /\ UNCHANGED <<storeVars, effect, approval, held, agentOutbox, crashes>>

\* The output reaches the gateway, which accepts it or finds that it breaks
\* the output contract; then an open transaction is rolled back.
ReceiveOutput(c) ==
    /\ pc[c] = "running"
    /\ worker[c] \in {"transaction", "returned"}
    /\ \/ Settle(c, "completed") /\ UNCHANGED worker
       \/ SettleFailed(c) /\ Thread(c, "stopped")
    /\ UNCHANGED <<storeVars, effect, approval, held, agentOutbox, crashes>>

\* Mutant of Timeout: the deadline is looked at once the thread is back.
TimeoutAfterThread(c) ==
    /\ pc[c] = "running" /\ worker[c] # "running"
    /\ Settle(c, "rejected")
    /\ UNCHANGED <<storeVars, worker, effect, approval, held, agentOutbox, crashes>>

\* runtime_timeout: the gateway stops waiting for the thread and will record a
\* retryable rejection; whatever the thread still does, it does on its own.
Timeout(c) ==
    /\ pc[c] = "running"
    /\ Settle(c, "rejected")
    /\ UNCHANGED <<storeVars, worker, effect, approval, held, agentOutbox, crashes>>

\* An output that lost the race with the timeout or the cancellation: its
\* transaction is rolled back by the executor.
RollbackDiscarded(c) ==
    /\ worker[c] = "transaction"
    /\ pc[c] # "running" /\ ~(pc[c] = "final" /\ Succeeded(c))
    /\ Thread(c, "stopped")
    /\ UNCHANGED <<storeVars, callVars, effect, approval, held, agentOutbox, crashes>>

\* CancelledError where the gateway waits: the lease of a dispatched write is
\* abandoned as it is, its row still started.
Cancel(c) ==
    /\ pc[c] \in {"replay", "admit", "running"}
    /\ Return(c, "cancelled", {})
    /\ UNCHANGED <<storeVars, worker, effect, approval, agentOutbox, crashes>>

-----------------------------------------------------------------------------
(* _finalize_invocation and the return to the caller.                       *)

HasTransaction(c) == Succeeded(c) /\ worker[c] = "transaction"

\* Outcome, audit event and, with a transaction, the domain write commit as
\* one; a row the reconciler completed first is accepted when it is the same.
Commit(c) ==
    /\ Complete(c, Succeeded(c)) \/ CompleteAgain(c, Succeeded(c))
    /\ IF HasTransaction(c)
       THEN Thread(c, "stopped") /\ effect' = [effect EXCEPT ![c] = TRUE]
       ELSE UNCHANGED <<worker, effect>>

\* The commit is acknowledged, or applied but reported as an error.
Finalize(c) ==
    /\ pc[c] = "final"
    /\ Commit(c)
    /\ \/ /\ pc' = [pc EXCEPT ![c] = "release"]
          /\ Tell(c, result[c], IF Succeeded(c) THEN {} ELSE Ref(c))
          /\ UNCHANGED result
       \/ Goto(c, "unknown")
    /\ UNCHANGED <<approval, held, agentOutbox, crashes>>

\* complete raises or the commit fails: everything is rolled back.
FinalizeFails(c) ==
    /\ pc[c] = "final"
    /\ Goto(c, "unknown")
    /\ IF HasTransaction(c) THEN Thread(c, "stopped") ELSE UNCHANGED worker
    /\ UNCHANGED <<storeVars, effect, approval, held, agentOutbox, crashes>>

\* mark_unknown, whose own failure is swallowed.
RecordUnknown(c) ==
    /\ pc[c] = "unknown"
    /\ MarkUnknown(c) \/ UNCHANGED storeVars
    /\ pc' = [pc EXCEPT ![c] = "release"]
    /\ Tell(c, "outcome_unknown", {})
    /\ UNCHANGED <<result, worker, effect, approval, held, agentOutbox, crashes>>

\* The admission lease is released and the result projected.  A completed
\* write whose projection breaks the contract is answered FAILED
\* (projection_contract_failed), without an operation_ref; an accepted
\* operation has no data to project.
Release(c) ==
    /\ pc[c] = "release"
    /\ \/ Return(c, answer[c], named[c])
       \/ /\ answer[c] = "completed" /\ Of(c) \notin Asynchronous
          /\ Return(c, "failed", {})
    /\ UNCHANGED <<storeVars, worker, effect, approval, agentOutbox, crashes>>

-----------------------------------------------------------------------------
(* The Agent outbox dispatcher, and the process.                            *)

\* run_once: reconcile_committed_agent_outcome.  A failed row refuses it and
\* the event goes back to pending, which changes nothing here.
Reconcile(c) ==
    /\ agentOutbox[c] = "pending"
    /\ ReconcileCompleted(c)
    /\ agentOutbox' = [agentOutbox EXCEPT ![c] = "processing"]
    /\ UNCHANGED <<callVars, worker, effect, approval, held, crashes>>

MarkOutboxDelivered(c) ==
    /\ agentOutbox[c] = "processing"
    /\ agentOutbox' = [agentOutbox EXCEPT ![c] = "delivered"]
    /\ UNCHANGED <<storeVars, callVars, worker, effect, approval, held, crashes>>

\* All tasks and threads die and open transactions roll back; what the
\* databases hold stays.  An outbox event in processing is claimed again.
Crash ==
    /\ crashes < MaxCrashes
    /\ crashes' = crashes + 1
    /\ pc' = [c \in Ops |-> IF pc[c] \in {"idle", "done"} THEN pc[c] ELSE "lost"]
    /\ worker' = [c \in Ops |-> IF worker[c] = "idle" THEN "idle" ELSE "stopped"]
    /\ held' = {}
    /\ agentOutbox' = [c \in Ops |-> IF agentOutbox[c] = "processing" THEN "pending"
                                     ELSE agentOutbox[c]]
    /\ UNCHANGED <<storeVars, answer, named, result, effect, approval>>

-----------------------------------------------------------------------------

Gateway(c) ==
    \/ Replay(c) \/ Approve(c) \/ Admit(c) \/ CapacityUnavailable(c)
    \/ BeginLease(c) \/ BeginWithoutLease(c) \/ CancelLease(c)
    \/ OperationCreateFails(c) \/ Dispatch(c)
    \/ ReceiveOutput(c) \/ Timeout(c)
    \/ Finalize(c) \/ FinalizeFails(c) \/ RecordUnknown(c) \/ Release(c)

Provider(c) == ProviderCommits(c) \/ ProviderReturns(c) \/ ProviderRaises(c)

Dispatcher(c) == Reconcile(c) \/ MarkOutboxDelivered(c)

Next ==
    \/ \E t \in Tokens : IssueApproval(t) \/ ApprovalExpires(t)
    \/ \E c \in Ops : \/ Invoke(c) \/ Gateway(c) \/ Cancel(c)
                      \/ Provider(c) \/ RollbackDiscarded(c) \/ Dispatcher(c)
    \/ Crash

\* The event loop runs, database stages return, and the dispatcher polls; a
\* provider may hang for ever and a client need not cancel.
Fairness == \A c \in Ops : WF_vars(Gateway(c)) /\ WF_vars(Dispatcher(c))

Spec == Init /\ [][Next]_vars /\ Fairness

-----------------------------------------------------------------------------
(* Safety.                                                                 *)

\* The provider runs at most once for an idempotency scope, whatever retries,
\* timeouts, cancellations and crashes happen around it.
ScopeDispatchedOnce ==
    \A c, d \in Ops :
        /\ Scope[c] = Scope[d]
        /\ worker[c] # "idle" /\ worker[d] # "idle"
        => c = d

\* A provider of a confirmed capability runs only on a consumed approval of
\* its capability and payload, and no approval pays for two invocations, also
\* under different idempotency keys.
ApprovalPaysOnce ==
    \A c \in Ops : Of(c) \in Confirmed /\ worker[c] # "idle" =>
        /\ approval[Token[c]] = "consumed"
        /\ Approved[Token[c]] = <<Of(c), Payload[c]>>
        /\ \A d \in Ops :
              Of(d) \in Confirmed /\ worker[d] # "idle" /\ Token[c] = Token[d] => c = d

\* Domain write, outcome and audit event of a strong write stand or fall
\* together, across timeouts, discarded outputs, lost commit acknowledgements
\* and crashes; of any other write completed still means committed.
CompletedMeansCommitted ==
    \A c \in Ops : /\ outcome[c] = "completed" => effect[c]
                   /\ Of(c) \in Strong /\ effect[c] => outcome[c] = "completed"

\* A caller told completed, first hand or by a replay, asked for a write with
\* this payload that is committed.
CompletedAnswerIsTrue ==
    \A c \in Ops : answer[c] = "completed" =>
        \E o \in Row(Scope[c]) : Payload[o] = Payload[c] /\ effect[o]

\* When a strong write is answered REJECTED, nothing was written by this
\* invocation, also when its thread was still busy at the timeout; and when
\* operation_ref of a rejected or failed answer names an operation, that is
\* the one of the caller's key and it has not written and never will.  A
\* FAILED answer without operation_ref (projection_contract_failed,
\* reliability_failed) makes no such promise: there the write may be committed.
FailedAnswerIsTrue ==
    \A c \in Ops : Of(c) \in Strong =>
        /\ answer[c] = "rejected" => ~effect[c]
        /\ answer[c] \in {"rejected", "failed"} =>
              \A o \in named[c] : Scope[o] = Scope[c] /\ ~effect[o]

\* Whether a rejected write still claims its key can be told from the answer:
\* without operation_ref the invocation has neither inserted a row nor run its
\* provider, and a retry under the same key starts afresh; with one, retryable
\* or not, the key belongs to the failed row it names, and a retry is answered
\* from that row.  (Accepted operations are referred to by another id.)
RejectionTellsItsClaim ==
    \A c \in Ops : answer[c] = "rejected" /\ Of(c) \notin Asynchronous =>
        IF named[c] = {}
        THEN outcome[c] = "none" /\ worker[c] = "idle"
        ELSE \A o \in named[c] : Scope[o] = Scope[c] /\ outcome[o] = "failed"

\* Admission leases belong to invocations in flight: every way out of invoke
\* gives its lease back, and none dispatches without one.
LeasesAreInFlight == held = {c \in Ops : pc[c] \in Admitted}

-----------------------------------------------------------------------------
(* Liveness and refinement.                                                *)

\* Every invocation is answered, although its provider may hang for ever.
InvocationReturns == \A c \in Ops : pc[c] # "idle" ~> pc[c] \in {"done", "lost"}

\* A committed Agent write does not stay started or unknown for ever.
AgentWriteSettles ==
    \A c \in Ops : effect[c] /\ Of(c) \in AgentCaps ~> outcome[c] \in {"completed", "failed"}

\* The gateway implements the promise of GovernedWrite.
Promise == INSTANCE GovernedWrite
               WITH Atomic <- {c \in Ops : Of(c) \in Strong},
                    verdict <- outcome, applied <- effect

PromiseKept == Promise!Spec
=============================================================================
