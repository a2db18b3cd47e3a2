----------------------- MODULE CapabilityGatewayProofs -----------------------
(***************************************************************************)
(* Proofs about CapabilityGateway, for every set of invocations, scopes,   *)
(* capabilities, tokens and bounds.                                        *)
(***************************************************************************)
EXTENDS CapabilityGateway, TLAPS

\* Every transaction of the store keeps its tables in their types.
LEMMA StoreTypeStep ==
    ASSUME StoreTypeOK, NEW c \in Ops, NEW ok \in BOOLEAN,
           \/ Begin(c) \/ Complete(c, ok) \/ CompleteAgain(c, ok) \/ MarkUnknown(c)
           \/ ReconcileCompleted(c) \/ UNCHANGED storeVars
    PROVE  StoreTypeOK'
<1> USE DEF StoreTypeOK, Final, storeVars
<1>1. ASSUME NEW s \in Final, Record(c, s) PROVE StoreTypeOK'
  BY <1>1 DEF Record
<1>2. CASE Begin(c)
  BY <1>2 DEF Begin
<1>3. CASE CompleteAgain(c, ok) \/ UNCHANGED storeVars
  BY <1>3 DEF CompleteAgain
<1> QED
  BY <1>1, <1>2, <1>3 DEF Complete, Verdict, MarkUnknown, ReconcileCompleted

\* Every step keeps every variable in its type, one step for each action.
LEMMA TypeStep == TypeOK /\ [Next]_vars => TypeOK'
<1> SUFFICES ASSUME TypeOK, [Next]_vars PROVE TypeOK'
  OBVIOUS
<1> USE DEF TypeOK, StoreTypeOK, Stages, Answers, Results, Final, storeVars, callVars
<1>1. ASSUME NEW t \in Tokens, IssueApproval(t) PROVE TypeOK'
  BY <1>1 DEF IssueApproval
<1>2. ASSUME NEW t \in Tokens, ApprovalExpires(t) PROVE TypeOK'
  BY <1>2 DEF ApprovalExpires
<1>3. ASSUME NEW c \in Ops, Invoke(c) PROVE TypeOK'
  BY <1>3 DEF Invoke, Goto, Return, Tell
<1>4. ASSUME NEW c \in Ops, Replay(c) PROVE TypeOK'
  BY <1>4 DEF Replay, Goto, Return, ReturnReplayed, ReturnRecorded, Ref, Row, Tell
<1>5. ASSUME NEW c \in Ops, Approve(c) PROVE TypeOK'
  BY <1>5 DEF Approve, Consume, Goto, Return, Tell
<1>6. ASSUME NEW c \in Ops, Admit(c) PROVE TypeOK'
  BY <1>6 DEF Admit, Goto
<1>7. ASSUME NEW c \in Ops, CapacityUnavailable(c) PROVE TypeOK'
  BY <1>7 DEF CapacityUnavailable, Return, Tell
<1>8. ASSUME NEW c \in Ops, BeginLease(c) PROVE TypeOK'
  BY <1>8 DEF BeginLease, Begin, Goto
<1>9. ASSUME NEW c \in Ops, BeginWithoutLease(c) PROVE TypeOK'
  BY <1>9 DEF BeginWithoutLease, Begin, Return, ReturnReplayed,
     ReturnRecorded, Ref, Row, Tell
<1>10. ASSUME NEW c \in Ops, CancelLease(c) PROVE TypeOK'
  <2>1. StoreTypeOK'
    BY <1>10, StoreTypeStep DEF CancelLease
  <2> QED
    BY <1>10, <2>1 DEF CancelLease, Return, Tell
<1>11. ASSUME NEW c \in Ops, OperationCreateFails(c) PROVE TypeOK'
  <2>1. StoreTypeOK'
    BY <1>11, StoreTypeStep DEF OperationCreateFails
  <2> QED
    BY <1>11, <2>1 DEF OperationCreateFails, Return, Tell
<1>12. ASSUME NEW c \in Ops, Dispatch(c) PROVE TypeOK'
  BY <1>12 DEF Dispatch, Goto
<1>13. ASSUME NEW c \in Ops, ReceiveOutput(c) PROVE TypeOK'
  BY <1>13 DEF ReceiveOutput, Settle, SettleFailed, Thread, Succeeded
<1>14. ASSUME NEW c \in Ops, Timeout(c) PROVE TypeOK'
  BY <1>14 DEF Timeout, Settle, Succeeded
<1>15. ASSUME NEW c \in Ops, Cancel(c) PROVE TypeOK'
  BY <1>15 DEF Cancel, Return, Tell
<1>16. ASSUME NEW c \in Ops, Finalize(c) PROVE TypeOK'
  <2>1. StoreTypeOK'
    BY <1>16, StoreTypeStep DEF Finalize, Commit, Succeeded
  <2>2. /\ (pc \in [Ops -> Stages])'
        /\ (answer \in [Ops -> Answers])'
        /\ (named \in [Ops -> SUBSET Ops])'
        /\ (result \in [Ops -> Results])'
    BY <1>16 DEF Finalize, Tell, Ref, Goto
  <2>3. /\ (worker \in [Ops -> {"idle", "running", "committed", "transaction",
                                "returned", "stopped"}])'
        /\ (effect \in [Ops -> BOOLEAN])'
    <3>1. \/ worker' = [worker EXCEPT ![c] = "stopped"] /\ effect' = [effect EXCEPT ![c] = TRUE]
          \/ worker' = worker /\ effect' = effect
      BY <1>16 DEF Finalize, Commit, Thread
    <3> QED
      BY <3>1
  <2> QED
    BY <1>16, <2>1, <2>2, <2>3 DEF Finalize
<1>17. ASSUME NEW c \in Ops, FinalizeFails(c) PROVE TypeOK'
  BY <1>17 DEF FinalizeFails, Goto, Thread, Succeeded
<1>18. ASSUME NEW c \in Ops, RecordUnknown(c) PROVE TypeOK'
  <2>1. StoreTypeOK'
    BY <1>18, StoreTypeStep DEF RecordUnknown
  <2> QED
    BY <1>18, <2>1 DEF RecordUnknown, Tell
<1>19. ASSUME NEW c \in Ops, Release(c) PROVE TypeOK'
  BY <1>19 DEF Release, Return, Tell
<1>20. ASSUME NEW c \in Ops, ProviderCommits(c) PROVE TypeOK'
  BY <1>20 DEF ProviderCommits, Thread
<1>21. ASSUME NEW c \in Ops, ProviderReturns(c) PROVE TypeOK'
  BY <1>21 DEF ProviderReturns, Thread
<1>22. ASSUME NEW c \in Ops, ProviderRaises(c) PROVE TypeOK'
  BY <1>22 DEF ProviderRaises, Settle, SettleFailed, Thread, Succeeded
<1>23. ASSUME NEW c \in Ops, RollbackDiscarded(c) PROVE TypeOK'
  BY <1>23 DEF RollbackDiscarded, Thread
<1>24. ASSUME NEW c \in Ops, Reconcile(c) PROVE TypeOK'
  <2>1. StoreTypeOK'
    BY <1>24, StoreTypeStep DEF Reconcile
  <2> QED
    BY <1>24, <2>1 DEF Reconcile
<1>25. ASSUME NEW c \in Ops, MarkOutboxDelivered(c) PROVE TypeOK'
  BY <1>25 DEF MarkOutboxDelivered
<1>26. CASE Crash
  BY <1>26, BoundAssumption DEF Crash
<1>27. CASE UNCHANGED vars
  BY <1>27 DEF vars
<1> QED
  BY <1>1, <1>2, <1>3, <1>4, <1>5, <1>6, <1>7, <1>8, <1>9, <1>10, <1>11,
     <1>12, <1>13, <1>14, <1>15, <1>16, <1>17, <1>18, <1>19, <1>20, <1>21,
     <1>22, <1>23, <1>24, <1>25, <1>26, <1>27 DEF Next, Gateway, Provider,
     Dispatcher

\* Every reachable state of the gateway and its store is well typed: every
\* stage, answer and row status is one that invoke and the store can produce.
THEOREM TypeCorrect == Spec => []TypeOK
<1>1. Init => TypeOK
  BY BoundAssumption DEF Init, StoreInit, TypeOK, StoreTypeOK, Stages, Answers, Results, Final
<1> QED
  BY <1>1, TypeStep, PTL DEF Spec

-----------------------------------------------------------------------------
(* One dispatch for each scope.  The row of a scope is what stands between *)
(* two dispatches: an invocation runs its provider only under its own row, *)
(* and begin inserts a row only where the scope has none.                   *)

BeforeBegin == {"idle", "replay", "approve", "admit", "begin"}
AfterBegin == {"cancelled", "dispatch", "running", "final", "unknown", "release"}

RowInv ==
    /\ OneRowPerScope
    /\ \A c \in Ops :
          /\ pc[c] \in BeforeBegin => outcome[c] = "none"
          /\ pc[c] \in AfterBegin => outcome[c] # "none"
          /\ pc[c] \in {"cancelled", "dispatch"} => outcome[c] = "started"
          /\ agentOutbox[c] # "none" => effect[c]
          /\ pc[c] \in BeforeBegin \cup {"cancelled", "dispatch"} => worker[c] = "idle"
          /\ worker[c] # "idle" => outcome[c] # "none"
          /\ effect[c] => worker[c] # "idle"
          /\ pc[c] \in BeforeBegin => answer[c] = "none"
          /\ pc[c] \in AfterBegin \ {"release"} => answer[c] = "none"
          /\ answer[c] = "rejected" => outcome[c] \in {"none", "failed"}
          /\ answer[c] = "rejected" /\ outcome[c] = "none" => pc[c] \in {"done", "lost"}

LEMMA RowStep == TypeOK /\ RowInv /\ [Next]_vars => RowInv'
<1> SUFFICES ASSUME TypeOK, RowInv, [Next]_vars PROVE RowInv'
  OBVIOUS
<1> USE DEF TypeOK, StoreTypeOK, Stages, Answers, Results, Final, storeVars, callVars,
            RowInv, OneRowPerScope, Row, BeforeBegin, AfterBegin
<1>1. ASSUME NEW t \in Tokens, IssueApproval(t) PROVE RowInv'
  BY <1>1 DEF IssueApproval
<1>2. ASSUME NEW t \in Tokens, ApprovalExpires(t) PROVE RowInv'
  BY <1>2 DEF ApprovalExpires
<1>3. ASSUME NEW c \in Ops, Invoke(c) PROVE RowInv'
  BY <1>3 DEF Invoke, Goto, Return, Tell
<1>4. ASSUME NEW c \in Ops, Replay(c) PROVE RowInv'
  BY <1>4 DEF Replay, Goto, Return, ReturnReplayed, ReturnRecorded, Ref, Row, Tell
<1>5. ASSUME NEW c \in Ops, Approve(c) PROVE RowInv'
  BY <1>5 DEF Approve, Consume, Goto, Return, Tell
<1>6. ASSUME NEW c \in Ops, Admit(c) PROVE RowInv'
  BY <1>6 DEF Admit, Goto
<1>7. ASSUME NEW c \in Ops, CapacityUnavailable(c) PROVE RowInv'
  BY <1>7 DEF CapacityUnavailable, Return, Tell
<1>8. ASSUME NEW c \in Ops, BeginLease(c) PROVE RowInv'
  BY <1>8 DEF BeginLease, Begin, Goto
<1>9. ASSUME NEW c \in Ops, BeginWithoutLease(c) PROVE RowInv'
  BY <1>9 DEF BeginWithoutLease, Begin, Return, ReturnReplayed,
     ReturnRecorded, Ref, Row, Tell
<1>10. ASSUME NEW c \in Ops, CancelLease(c) PROVE RowInv'
  BY <1>10 DEF CancelLease, Complete, MarkUnknown, Record, Verdict, Return, Tell
<1>11. ASSUME NEW c \in Ops, OperationCreateFails(c) PROVE RowInv'
  BY <1>11 DEF OperationCreateFails, Complete, Record, Verdict, Return, Tell
<1>12. ASSUME NEW c \in Ops, Dispatch(c) PROVE RowInv'
  BY <1>12 DEF Dispatch, Goto
<1>13. ASSUME NEW c \in Ops, ReceiveOutput(c) PROVE RowInv'
  BY <1>13 DEF ReceiveOutput, Settle, SettleFailed, Thread, Succeeded
<1>14. ASSUME NEW c \in Ops, Timeout(c) PROVE RowInv'
  BY <1>14 DEF Timeout, Settle, Succeeded
<1>15. ASSUME NEW c \in Ops, Cancel(c) PROVE RowInv'
  BY <1>15 DEF Cancel, Return, Tell
<1>16. ASSUME NEW c \in Ops, Finalize(c) PROVE RowInv'
  BY <1>16 DEF Finalize, Commit, Complete, CompleteAgain, Record, Verdict, Thread, Goto, Tell,
     Succeeded, Ref
<1>17. ASSUME NEW c \in Ops, FinalizeFails(c) PROVE RowInv'
  BY <1>17 DEF FinalizeFails, Goto, Thread, Succeeded
<1>18. ASSUME NEW c \in Ops, RecordUnknown(c) PROVE RowInv'
  BY <1>18 DEF RecordUnknown, MarkUnknown, Record, Tell
<1>19. ASSUME NEW c \in Ops, Release(c) PROVE RowInv'
  BY <1>19 DEF Release, Return, Tell
<1>20. ASSUME NEW c \in Ops, ProviderCommits(c) PROVE RowInv'
  BY <1>20 DEF ProviderCommits, Thread
<1>21. ASSUME NEW c \in Ops, ProviderReturns(c) PROVE RowInv'
  BY <1>21 DEF ProviderReturns, Thread
<1>22. ASSUME NEW c \in Ops, ProviderRaises(c) PROVE RowInv'
  BY <1>22 DEF ProviderRaises, Settle, SettleFailed, Thread, Succeeded
<1>23. ASSUME NEW c \in Ops, RollbackDiscarded(c) PROVE RowInv'
  BY <1>23 DEF RollbackDiscarded, Thread
<1>24. ASSUME NEW c \in Ops, Reconcile(c) PROVE RowInv'
  BY <1>24 DEF Reconcile, ReconcileCompleted, Record
<1>25. ASSUME NEW c \in Ops, MarkOutboxDelivered(c) PROVE RowInv'
  BY <1>25 DEF MarkOutboxDelivered
<1>26. CASE Crash
  BY <1>26 DEF Crash
<1>27. CASE UNCHANGED vars
  BY <1>27 DEF vars
<1> QED
  BY <1>1, <1>2, <1>3, <1>4, <1>5, <1>6, <1>7, <1>8, <1>9, <1>10, <1>11,
     <1>12, <1>13, <1>14, <1>15, <1>16, <1>17, <1>18, <1>19, <1>20, <1>21,
     <1>22, <1>23, <1>24, <1>25, <1>26, <1>27 DEF Next, Gateway, Provider,
     Dispatcher

-----------------------------------------------------------------------------
(* One dispatch for each approval: from the consumption of its token on, an *)
(* invocation owns the token, and consume refuses a token that is owned.    *)

Paid(c) ==
    /\ Of(c) \in Confirmed
    /\ pc[c] \in {"admit", "begin"} \cup AfterBegin \/ worker[c] # "idle"

PaidInv ==
    \A c \in Ops : Paid(c) =>
        /\ approval[Token[c]] = "consumed"
        /\ Approved[Token[c]] = <<Of(c), Payload[c]>>
        /\ \A d \in Ops : Paid(d) /\ Token[c] = Token[d] => c = d

LEMMA PaidStep == TypeOK /\ RowInv /\ PaidInv /\ [Next]_vars => PaidInv'
<1> SUFFICES ASSUME TypeOK, RowInv, PaidInv, [Next]_vars PROVE PaidInv'
  OBVIOUS
<1> USE TokenAssumption
<1> USE DEF TypeOK, StoreTypeOK, Stages, Answers, Results, Final, storeVars, callVars,
            RowInv, BeforeBegin, AfterBegin, PaidInv, Paid, Of
<1>1. ASSUME NEW t \in Tokens, IssueApproval(t) PROVE PaidInv'
  BY <1>1 DEF IssueApproval
<1>2. ASSUME NEW t \in Tokens, ApprovalExpires(t) PROVE PaidInv'
  BY <1>2 DEF ApprovalExpires
<1>3. ASSUME NEW c \in Ops, Invoke(c) PROVE PaidInv'
  BY <1>3 DEF Invoke, Goto, Return, Tell
<1>4. ASSUME NEW c \in Ops, Replay(c) PROVE PaidInv'
  BY <1>4 DEF Replay, Goto, Return, ReturnReplayed, ReturnRecorded, Ref, Row, Tell
<1>5. ASSUME NEW c \in Ops, Approve(c) PROVE PaidInv'
  <2>1. CASE pc' = [pc EXCEPT ![c] = "admit"]
    <3>1. /\ pc[c] = "approve" /\ worker[c] = "idle" /\ ~Paid(c)
          /\ worker' = worker
          /\ \A d \in Ops \ {c} : Paid(d)' <=> Paid(d)
      BY <1>5, <2>1 DEF Approve
    <3>2. Consume(c)
      BY <1>5, <2>1 DEF Approve, Return
    <3>3. CASE Of(c) \in Confirmed
      <4>1. /\ approval[Token[c]] = "issued"
            /\ approval' = [approval EXCEPT ![Token[c]] = "consumed"]
            /\ Approved[Token[c]] = <<Of(c), Payload[c]>>
        BY <3>2, <3>3 DEF Consume, Acceptable
      <4>2. \A d \in Ops : Paid(d) => Token[d] # Token[c]
        BY <4>1
      <4> QED
        BY <3>1, <4>1, <4>2
    <3>4. CASE Of(c) \notin Confirmed
      BY <3>1, <3>2, <3>4 DEF Consume
    <3> QED
      BY <3>3, <3>4
  <2>2. CASE pc' = [pc EXCEPT ![c] = "done"]
    <3>1. /\ \A d \in Ops : Paid(d)' => Paid(d)
          /\ \A t \in Tokens : approval[t] = "consumed" => approval'[t] = "consumed"
      BY <1>5, <2>2 DEF Approve, Consume
    <3> QED
      BY <3>1
  <2> QED
    BY <1>5, <2>1, <2>2 DEF Approve, Goto, Return
<1>6. ASSUME NEW c \in Ops, Admit(c) PROVE PaidInv'
  BY <1>6 DEF Admit, Goto
<1>7. ASSUME NEW c \in Ops, CapacityUnavailable(c) PROVE PaidInv'
  BY <1>7 DEF CapacityUnavailable, Return, Tell
<1>8. ASSUME NEW c \in Ops, BeginLease(c) PROVE PaidInv'
  BY <1>8 DEF BeginLease, Begin, Goto
<1>9. ASSUME NEW c \in Ops, BeginWithoutLease(c) PROVE PaidInv'
  BY <1>9 DEF BeginWithoutLease, Begin, Return, ReturnReplayed,
     ReturnRecorded, Ref, Row, Tell
<1>10. ASSUME NEW c \in Ops, CancelLease(c) PROVE PaidInv'
  BY <1>10 DEF CancelLease, Complete, MarkUnknown, Record, Verdict, Return, Tell
<1>11. ASSUME NEW c \in Ops, OperationCreateFails(c) PROVE PaidInv'
  BY <1>11 DEF OperationCreateFails, Complete, Record, Verdict, Return, Tell
<1>12. ASSUME NEW c \in Ops, Dispatch(c) PROVE PaidInv'
  BY <1>12 DEF Dispatch, Goto
<1>13. ASSUME NEW c \in Ops, ReceiveOutput(c) PROVE PaidInv'
  BY <1>13 DEF ReceiveOutput, Settle, SettleFailed, Thread, Succeeded
<1>14. ASSUME NEW c \in Ops, Timeout(c) PROVE PaidInv'
  BY <1>14 DEF Timeout, Settle, Succeeded
<1>15. ASSUME NEW c \in Ops, Cancel(c) PROVE PaidInv'
  BY <1>15 DEF Cancel, Return, Tell
<1>16. ASSUME NEW c \in Ops, Finalize(c) PROVE PaidInv'
  BY <1>16 DEF Finalize, Commit, Complete, CompleteAgain, Record, Verdict, Thread, Goto, Tell,
     Succeeded, Ref
<1>17. ASSUME NEW c \in Ops, FinalizeFails(c) PROVE PaidInv'
  BY <1>17 DEF FinalizeFails, Goto, Thread, Succeeded
<1>18. ASSUME NEW c \in Ops, RecordUnknown(c) PROVE PaidInv'
  BY <1>18 DEF RecordUnknown, MarkUnknown, Record, Tell
<1>19. ASSUME NEW c \in Ops, Release(c) PROVE PaidInv'
  BY <1>19 DEF Release, Return, Tell
<1>20. ASSUME NEW c \in Ops, ProviderCommits(c) PROVE PaidInv'
  BY <1>20 DEF ProviderCommits, Thread
<1>21. ASSUME NEW c \in Ops, ProviderReturns(c) PROVE PaidInv'
  BY <1>21 DEF ProviderReturns, Thread
<1>22. ASSUME NEW c \in Ops, ProviderRaises(c) PROVE PaidInv'
  BY <1>22 DEF ProviderRaises, Settle, SettleFailed, Thread, Succeeded
<1>23. ASSUME NEW c \in Ops, RollbackDiscarded(c) PROVE PaidInv'
  BY <1>23 DEF RollbackDiscarded, Thread
<1>24. ASSUME NEW c \in Ops, Reconcile(c) PROVE PaidInv'
  BY <1>24 DEF Reconcile, ReconcileCompleted, Record
<1>25. ASSUME NEW c \in Ops, MarkOutboxDelivered(c) PROVE PaidInv'
  BY <1>25 DEF MarkOutboxDelivered
<1>26. CASE Crash
  BY <1>26 DEF Crash
<1>27. CASE UNCHANGED vars
  BY <1>27 DEF vars
<1> QED
  BY <1>1, <1>2, <1>3, <1>4, <1>5, <1>6, <1>7, <1>8, <1>9, <1>10, <1>11,
     <1>12, <1>13, <1>14, <1>15, <1>16, <1>17, <1>18, <1>19, <1>20, <1>21,
     <1>22, <1>23, <1>24, <1>25, <1>26, <1>27 DEF Next, Gateway, Provider,
     Dispatcher

-----------------------------------------------------------------------------
(* What a verdict says of the domain write.  A strong write commits in      *)
(* Finalize alone, with its row; the gateway finalizes a success only with  *)
(* the open transaction in hand, or after an eventual provider committed.   *)

CommitInv ==
    /\ CompletedMeansCommitted
    /\ \A c \in Ops :
          /\ worker[c] = "transaction" => Of(c) \in Strong
          /\ worker[c] \in {"committed", "returned"} => Of(c) \notin Strong /\ effect[c]
          /\ agentOutbox[c] # "none" => Of(c) \in AgentCaps
          /\ pc[c] = "final" /\ Succeeded(c) =>
                IF Of(c) \in Strong THEN worker[c] = "transaction" ELSE effect[c]

LEMMA CommitStep == TypeOK /\ RowInv /\ CommitInv /\ [Next]_vars => CommitInv'
<1> SUFFICES ASSUME TypeOK, RowInv, CommitInv, [Next]_vars PROVE CommitInv'
  OBVIOUS
<1> USE CapAssumption
<1> USE DEF TypeOK, StoreTypeOK, Stages, Answers, Results, Final, storeVars, callVars,
            RowInv, BeforeBegin, AfterBegin, CommitInv, CompletedMeansCommitted, Of, Succeeded
<1>1. ASSUME NEW t \in Tokens, IssueApproval(t) PROVE CommitInv'
  BY <1>1 DEF IssueApproval
<1>2. ASSUME NEW t \in Tokens, ApprovalExpires(t) PROVE CommitInv'
  BY <1>2 DEF ApprovalExpires
<1>3. ASSUME NEW c \in Ops, Invoke(c) PROVE CommitInv'
  BY <1>3 DEF Invoke, Goto, Return, Tell
<1>4. ASSUME NEW c \in Ops, Replay(c) PROVE CommitInv'
  BY <1>4 DEF Replay, Goto, Return, ReturnReplayed, ReturnRecorded, Ref, Row, Tell
<1>5. ASSUME NEW c \in Ops, Approve(c) PROVE CommitInv'
  BY <1>5 DEF Approve, Consume, Goto, Return, Tell
<1>6. ASSUME NEW c \in Ops, Admit(c) PROVE CommitInv'
  BY <1>6 DEF Admit, Goto
<1>7. ASSUME NEW c \in Ops, CapacityUnavailable(c) PROVE CommitInv'
  BY <1>7 DEF CapacityUnavailable, Return, Tell
<1>8. ASSUME NEW c \in Ops, BeginLease(c) PROVE CommitInv'
  BY <1>8 DEF BeginLease, Begin, Goto
<1>9. ASSUME NEW c \in Ops, BeginWithoutLease(c) PROVE CommitInv'
  BY <1>9 DEF BeginWithoutLease, Begin, Return, ReturnReplayed,
     ReturnRecorded, Ref, Row, Tell
<1>10. ASSUME NEW c \in Ops, CancelLease(c) PROVE CommitInv'
  BY <1>10 DEF CancelLease, Complete, MarkUnknown, Record, Verdict, Return, Tell
<1>11. ASSUME NEW c \in Ops, OperationCreateFails(c) PROVE CommitInv'
  BY <1>11 DEF OperationCreateFails, Complete, Record, Verdict, Return, Tell
<1>12. ASSUME NEW c \in Ops, Dispatch(c) PROVE CommitInv'
  BY <1>12 DEF Dispatch, Goto
<1>13. ASSUME NEW c \in Ops, ReceiveOutput(c) PROVE CommitInv'
  BY <1>13 DEF ReceiveOutput, Settle, SettleFailed, Thread, Succeeded
<1>14. ASSUME NEW c \in Ops, Timeout(c) PROVE CommitInv'
  BY <1>14 DEF Timeout, Settle, Succeeded
<1>15. ASSUME NEW c \in Ops, Cancel(c) PROVE CommitInv'
  BY <1>15 DEF Cancel, Return, Tell
<1>16. ASSUME NEW c \in Ops, Finalize(c) PROVE CommitInv'
  <2>1. /\ outcome' = [outcome EXCEPT ![c] = Verdict(Succeeded(c))]
        /\ outcome[c] \in {"started", Verdict(Succeeded(c))}
        /\ result' = result /\ agentOutbox' = agentOutbox
        /\ \A d \in Ops \ {c} : pc'[d] = pc[d]
        /\ pc[c] = "final" /\ pc'[c] # "final"
    BY <1>16 DEF Finalize, Commit, Complete, CompleteAgain, Record, Verdict, Goto
  <2>2. CASE HasTransaction(c)
    <3>1. /\ worker' = [worker EXCEPT ![c] = "stopped"]
          /\ effect' = [effect EXCEPT ![c] = TRUE]
          /\ Succeeded(c)
      BY <1>16, <2>2 DEF Finalize, Commit, Thread, HasTransaction
    <3> QED
      BY <2>1, <3>1 DEF Verdict
  <2>3. CASE ~HasTransaction(c)
    <3>1. worker' = worker /\ effect' = effect
      BY <1>16, <2>3 DEF Finalize, Commit
    <3> QED
      BY <2>1, <2>3, <3>1 DEF Verdict, HasTransaction
  <2> QED
    BY <2>2, <2>3
<1>17. ASSUME NEW c \in Ops, FinalizeFails(c) PROVE CommitInv'
  BY <1>17 DEF FinalizeFails, Goto, Thread, Succeeded
<1>18. ASSUME NEW c \in Ops, RecordUnknown(c) PROVE CommitInv'
  BY <1>18 DEF RecordUnknown, MarkUnknown, Record, Tell
<1>19. ASSUME NEW c \in Ops, Release(c) PROVE CommitInv'
  BY <1>19 DEF Release, Return, Tell
<1>20. ASSUME NEW c \in Ops, ProviderCommits(c) PROVE CommitInv'
  BY <1>20 DEF ProviderCommits, Thread
<1>21. ASSUME NEW c \in Ops, ProviderReturns(c) PROVE CommitInv'
  BY <1>21 DEF ProviderReturns, Thread
<1>22. ASSUME NEW c \in Ops, ProviderRaises(c) PROVE CommitInv'
  BY <1>22 DEF ProviderRaises, Settle, SettleFailed, Thread, Succeeded
<1>23. ASSUME NEW c \in Ops, RollbackDiscarded(c) PROVE CommitInv'
  BY <1>23 DEF RollbackDiscarded, Thread
<1>24. ASSUME NEW c \in Ops, Reconcile(c) PROVE CommitInv'
  BY <1>24 DEF Reconcile, ReconcileCompleted, Record
<1>25. ASSUME NEW c \in Ops, MarkOutboxDelivered(c) PROVE CommitInv'
  BY <1>25 DEF MarkOutboxDelivered
<1>26. CASE Crash
  BY <1>26 DEF Crash
<1>27. CASE UNCHANGED vars
  BY <1>27 DEF vars
<1> QED
  BY <1>1, <1>2, <1>3, <1>4, <1>5, <1>6, <1>7, <1>8, <1>9, <1>10, <1>11,
     <1>12, <1>13, <1>14, <1>15, <1>16, <1>17, <1>18, <1>19, <1>20, <1>21,
     <1>22, <1>23, <1>24, <1>25, <1>26, <1>27 DEF Next, Gateway, Provider,
     Dispatcher

-----------------------------------------------------------------------------
(* What callers are told.  A completed answer is read from a row whose      *)
(* write is committed, an operation_ref is read from a failed row, and rows *)
(* and domain writes never vanish.                                          *)

AnswerInv ==
    \A c \in Ops :
        /\ answer[c] = "completed" =>
              \E o \in Ops : /\ Scope[o] = Scope[c] /\ Payload[o] = Payload[c]
                             /\ outcome[o] # "none" /\ effect[o]
        /\ \A o \in named[c] : Scope[o] = Scope[c] /\ outcome[o] = "failed"
        /\ answer[c] = "rejected" /\ Of(c) \notin Asynchronous /\ named[c] = {}
              => outcome[c] = "none"
        /\ result[c] # "failed" => worker[c] # "idle"
        /\ outcome[c] = "failed" => ~Succeeded(c)
        /\ pc[c] = "running" => worker[c] # "idle" /\ outcome[c] # "failed"

LEMMA AnswerStep ==
    TypeOK /\ RowInv /\ RowInv' /\ CommitInv /\ CommitInv' /\ AnswerInv /\ [Next]_vars => AnswerInv'
<1> SUFFICES ASSUME TypeOK, RowInv, RowInv', CommitInv, CommitInv', AnswerInv, [Next]_vars
             PROVE AnswerInv'
  OBVIOUS
<1> USE DEF TypeOK, StoreTypeOK, Stages, Answers, Results, Final, storeVars, callVars,
            RowInv, OneRowPerScope, Row, BeforeBegin, AfterBegin, CommitInv,
            CompletedMeansCommitted, AnswerInv, Of, Succeeded
<1>1. ASSUME NEW t \in Tokens, IssueApproval(t) PROVE AnswerInv'
  BY <1>1 DEF IssueApproval
<1>2. ASSUME NEW t \in Tokens, ApprovalExpires(t) PROVE AnswerInv'
  BY <1>2 DEF ApprovalExpires
<1>3. ASSUME NEW c \in Ops, Invoke(c) PROVE AnswerInv'
  BY <1>3 DEF Invoke, Goto, Return, Tell
<1>r. ASSUME NEW c \in Ops, NEW o \in Row(Scope[c]), ReturnReplayed(c, o),
             outcome[c] = "none", outcome' = outcome, effect' = effect, worker' = worker
      PROVE  AnswerInv'
  <2>1. /\ pc' = [pc EXCEPT ![c] = "done"] /\ result' = result
        /\ \E a \in Answers, n \in SUBSET Ops :
              /\ answer' = [answer EXCEPT ![c] = a] /\ named' = [named EXCEPT ![c] = n]
              /\ a = "completed" => Payload[o] = Payload[c] /\ outcome[o] = "completed"
              /\ \A q \in n : q = o /\ outcome[o] = "failed"
    <3>1. CASE Payload[o] # Payload[c] \/ outcome[o] = "started"
      BY <1>r, <3>1 DEF ReturnReplayed, Return, Tell
    <3>2. CASE Payload[o] = Payload[c] /\ outcome[o] # "started" /\ outcome[o] # "failed"
      <4>1. Return(c, outcome[o], {})
        BY <1>r, <3>2 DEF ReturnReplayed, ReturnRecorded
      <4>2. outcome[o] \in Answers
        BY <1>r, <3>2
      <4>3. /\ answer' = [answer EXCEPT ![c] = outcome[o]] /\ named' = [named EXCEPT ![c] = {}]
            /\ pc' = [pc EXCEPT ![c] = "done"] /\ result' = result
        BY <4>1 DEF Return, Tell
      <4>4. \E a \in Answers, n \in SUBSET Ops :
               /\ answer' = [answer EXCEPT ![c] = a] /\ named' = [named EXCEPT ![c] = n]
               /\ a = "completed" => Payload[o] = Payload[c] /\ outcome[o] = "completed"
               /\ \A q \in n : q = o /\ outcome[o] = "failed"
        <5> HIDE DEF Answers
        <5> WITNESS outcome[o] \in Answers, {} \in SUBSET Ops
        <5> QED
          BY <3>2, <4>3
      <4> QED
        BY <4>3, <4>4
    <3>3. CASE Payload[o] = Payload[c] /\ outcome[o] = "failed"
      <4>1. Return(c, result[o], Ref(o)) /\ result[o] # "completed"
        BY <1>r, <3>3 DEF ReturnReplayed, ReturnRecorded
      <4>2. /\ Ref(o) \in SUBSET Ops
            /\ \A q \in Ref(o) : q = o
        BY DEF Ref
      <4>3. result[o] \in Answers
        OBVIOUS
      <4> QED
        BY <3>3, <4>1, <4>2, <4>3 DEF Return, Tell
    <3> QED
      BY <3>1, <3>2, <3>3
  <2>2. \A d \in Ops \ {c} : answer'[d] = answer[d] /\ named'[d] = named[d] /\ pc'[d] = pc[d]
    BY <2>1
  <2>3. pc'[c] = "done"
    BY <2>1
  <2>4. /\ answer'[c] = "completed" => Payload[o] = Payload[c] /\ outcome[o] = "completed"
        /\ \A q \in named'[c] : q = o /\ outcome[o] = "failed"
    BY <2>1
  <2>5. AnswerInv!(c)'
    BY <1>r, <2>1, <2>3, <2>4
  <2>6. ASSUME NEW d \in Ops \ {c} PROVE AnswerInv!(d)'
    BY <1>r, <2>1, <2>2, <2>6
  <2> SUFFICES ASSUME NEW d \in Ops PROVE AnswerInv!(d)'
    BY DEF AnswerInv
  <2> QED
    BY <2>5, <2>6
<1>4. ASSUME NEW c \in Ops, Replay(c) PROVE AnswerInv'
  <2>1. CASE \E o \in Row(Scope[c]) : ReturnReplayed(c, o)
    BY <1>4, <1>r, <2>1 DEF Replay
  <2>2. CASE ~\E o \in Row(Scope[c]) : ReturnReplayed(c, o)
    BY <1>4, <2>2 DEF Replay, Goto, Return, Tell
  <2> QED
    BY <2>1, <2>2
<1>5. ASSUME NEW c \in Ops, Approve(c) PROVE AnswerInv'
  BY <1>5 DEF Approve, Consume, Goto, Return, Tell
<1>6. ASSUME NEW c \in Ops, Admit(c) PROVE AnswerInv'
  BY <1>6 DEF Admit, Goto
<1>7. ASSUME NEW c \in Ops, CapacityUnavailable(c) PROVE AnswerInv'
  BY <1>7 DEF CapacityUnavailable, Return, Tell
<1>8. ASSUME NEW c \in Ops, BeginLease(c) PROVE AnswerInv'
  BY <1>8 DEF BeginLease, Begin, Goto
<1>9. ASSUME NEW c \in Ops, BeginWithoutLease(c) PROVE AnswerInv'
  <2>1. CASE UNCHANGED storeVars /\ \E o \in Row(Scope[c]) : ReturnReplayed(c, o)
    BY <1>9, <1>r, <2>1 DEF BeginWithoutLease
  <2>2. CASE ~(UNCHANGED storeVars /\ \E o \in Row(Scope[c]) : ReturnReplayed(c, o))
    BY <1>9, <2>2 DEF BeginWithoutLease, Begin, Return, Tell
  <2> QED
    BY <2>1, <2>2
<1>10. ASSUME NEW c \in Ops, CancelLease(c) PROVE AnswerInv'
  BY <1>10 DEF CancelLease, Complete, MarkUnknown, Record, Verdict, Return, Tell
<1>11. ASSUME NEW c \in Ops, OperationCreateFails(c) PROVE AnswerInv'
  BY <1>11 DEF OperationCreateFails, Complete, Record, Verdict, Return, Tell
<1>12. ASSUME NEW c \in Ops, Dispatch(c) PROVE AnswerInv'
  BY <1>12 DEF Dispatch, Goto
<1>13. ASSUME NEW c \in Ops, ReceiveOutput(c) PROVE AnswerInv'
  BY <1>13 DEF ReceiveOutput, Settle, SettleFailed, Thread, Succeeded
<1>14. ASSUME NEW c \in Ops, Timeout(c) PROVE AnswerInv'
  BY <1>14 DEF Timeout, Settle, Succeeded
<1>15. ASSUME NEW c \in Ops, Cancel(c) PROVE AnswerInv'
  BY <1>15 DEF Cancel, Return, Tell
<1>16. ASSUME NEW c \in Ops, Finalize(c) PROVE AnswerInv'
  <2>1. /\ outcome' = [outcome EXCEPT ![c] = Verdict(Succeeded(c))]
        /\ outcome[c] \in {"started", Verdict(Succeeded(c))}
        /\ pc[c] = "final" /\ \A o \in Ops \ {c} : pc'[o] = pc[o]
        /\ result' = result /\ pc'[c] # "running"
    BY <1>16 DEF Finalize, Commit, Complete, CompleteAgain, Record, Verdict, Goto
  <2>2. /\ \A o \in Ops : effect[o] => effect'[o]
        /\ \A o \in Ops : worker'[o] = worker[o] \/ worker'[o] # "idle"
    <3>1. \/ worker' = [worker EXCEPT ![c] = "stopped"] /\ effect' = [effect EXCEPT ![c] = TRUE]
          \/ worker' = worker /\ effect' = effect
      BY <1>16 DEF Finalize, Commit, Thread
    <3> QED
      BY <3>1
  <2>3. Succeeded(c) => effect'[c]
    BY <2>1 DEF Verdict
  <2>4. \/ answer' = answer /\ named' = named
        \/ /\ answer' = [answer EXCEPT ![c] = result[c]]
           /\ named' = [named EXCEPT ![c] = IF Succeeded(c) THEN {} ELSE Ref(c)]
    BY <1>16 DEF Finalize, Goto, Tell
  <2>5. ASSUME NEW d \in Ops, answer'[d] = answer[d], named'[d] = named[d]
        PROVE  AnswerInv!(d)'
    BY <2>1, <2>2, <2>5 DEF Verdict
  <2>6. ASSUME answer'[c] = result[c],
               named'[c] = IF Succeeded(c) THEN {} ELSE Ref(c)
        PROVE  AnswerInv!(c)'
    BY <2>1, <2>2, <2>3, <2>6 DEF Ref, Verdict, Succeeded
  <2> SUFFICES ASSUME NEW d \in Ops
               PROVE  AnswerInv!(d)'
    BY DEF AnswerInv
  <2>7. CASE d = c
    <3>1. \/ answer'[c] = answer[c] /\ named'[c] = named[c]
          \/ answer'[c] = result[c] /\ named'[c] = IF Succeeded(c) THEN {} ELSE Ref(c)
      <4> DEFINE n == IF Succeeded(c) THEN {} ELSE Ref(c)
      <4>1. \/ answer' = answer /\ named' = named
            \/ answer' = [answer EXCEPT ![c] = result[c]] /\ named' = [named EXCEPT ![c] = n]
        BY <2>4
      <4> HIDE DEF n
      <4>2. \/ answer'[c] = answer[c] /\ named'[c] = named[c]
            \/ answer'[c] = result[c] /\ named'[c] = n
        BY <4>1
      <4> QED
        BY <4>2 DEF n
    <3> QED
      BY <2>5, <2>6, <2>7, <3>1
  <2>8. CASE d # c
    BY <2>4, <2>5, <2>8
  <2> QED
    BY <2>7, <2>8
<1>17. ASSUME NEW c \in Ops, FinalizeFails(c) PROVE AnswerInv'
  BY <1>17 DEF FinalizeFails, Goto, Thread, Succeeded
<1>18. ASSUME NEW c \in Ops, RecordUnknown(c) PROVE AnswerInv'
  BY <1>18 DEF RecordUnknown, MarkUnknown, Record, Tell
<1>19. ASSUME NEW c \in Ops, Release(c) PROVE AnswerInv'
  BY <1>19 DEF Release, Return, Tell
<1>20. ASSUME NEW c \in Ops, ProviderCommits(c) PROVE AnswerInv'
  BY <1>20 DEF ProviderCommits, Thread
<1>21. ASSUME NEW c \in Ops, ProviderReturns(c) PROVE AnswerInv'
  BY <1>21 DEF ProviderReturns, Thread
<1>22. ASSUME NEW c \in Ops, ProviderRaises(c) PROVE AnswerInv'
  BY <1>22 DEF ProviderRaises, Settle, SettleFailed, Thread, Succeeded
<1>23. ASSUME NEW c \in Ops, RollbackDiscarded(c) PROVE AnswerInv'
  BY <1>23 DEF RollbackDiscarded, Thread
<1>24. ASSUME NEW c \in Ops, Reconcile(c) PROVE AnswerInv'
  BY <1>24 DEF Reconcile, ReconcileCompleted, Record
<1>25. ASSUME NEW c \in Ops, MarkOutboxDelivered(c) PROVE AnswerInv'
  BY <1>25 DEF MarkOutboxDelivered
<1>26. CASE Crash
  BY <1>26 DEF Crash
<1>27. CASE UNCHANGED vars
  BY <1>27 DEF vars
<1> QED
  BY <1>1, <1>2, <1>3, <1>4, <1>5, <1>6, <1>7, <1>8, <1>9, <1>10, <1>11,
     <1>12, <1>13, <1>14, <1>15, <1>16, <1>17, <1>18, <1>19, <1>20, <1>21,
     <1>22, <1>23, <1>24, <1>25, <1>26, <1>27 DEF Next, Gateway, Provider,
     Dispatcher

LEMMA LeaseStep == TypeOK /\ LeasesAreInFlight /\ [Next]_vars => LeasesAreInFlight'
<1> SUFFICES ASSUME TypeOK, LeasesAreInFlight, [Next]_vars PROVE LeasesAreInFlight'
  OBVIOUS
<1> USE DEF TypeOK, StoreTypeOK, Stages, Answers, Results, Final, storeVars, callVars,
            LeasesAreInFlight, Admitted
<1>1. ASSUME NEW t \in Tokens, IssueApproval(t) PROVE LeasesAreInFlight'
  BY <1>1 DEF IssueApproval
<1>2. ASSUME NEW t \in Tokens, ApprovalExpires(t) PROVE LeasesAreInFlight'
  BY <1>2 DEF ApprovalExpires
<1>3. ASSUME NEW c \in Ops, Invoke(c) PROVE LeasesAreInFlight'
  BY <1>3 DEF Invoke, Goto, Return, Tell
<1>4. ASSUME NEW c \in Ops, Replay(c) PROVE LeasesAreInFlight'
  BY <1>4 DEF Replay, Goto, Return, ReturnReplayed, ReturnRecorded, Ref, Row, Tell
<1>5. ASSUME NEW c \in Ops, Approve(c) PROVE LeasesAreInFlight'
  BY <1>5 DEF Approve, Consume, Goto, Return, Tell
<1>6. ASSUME NEW c \in Ops, Admit(c) PROVE LeasesAreInFlight'
  BY <1>6 DEF Admit, Goto
<1>7. ASSUME NEW c \in Ops, CapacityUnavailable(c) PROVE LeasesAreInFlight'
  BY <1>7 DEF CapacityUnavailable, Return, Tell
<1>8. ASSUME NEW c \in Ops, BeginLease(c) PROVE LeasesAreInFlight'
  BY <1>8 DEF BeginLease, Begin, Goto
<1>9. ASSUME NEW c \in Ops, BeginWithoutLease(c) PROVE LeasesAreInFlight'
  BY <1>9 DEF BeginWithoutLease, Begin, Return, ReturnReplayed,
     ReturnRecorded, Ref, Row, Tell
<1>10. ASSUME NEW c \in Ops, CancelLease(c) PROVE LeasesAreInFlight'
  BY <1>10 DEF CancelLease, Complete, MarkUnknown, Record, Verdict, Return, Tell
<1>11. ASSUME NEW c \in Ops, OperationCreateFails(c) PROVE LeasesAreInFlight'
  BY <1>11 DEF OperationCreateFails, Complete, Record, Verdict, Return, Tell
<1>12. ASSUME NEW c \in Ops, Dispatch(c) PROVE LeasesAreInFlight'
  BY <1>12 DEF Dispatch, Goto
<1>13. ASSUME NEW c \in Ops, ReceiveOutput(c) PROVE LeasesAreInFlight'
  BY <1>13 DEF ReceiveOutput, Settle, SettleFailed, Thread, Succeeded
<1>14. ASSUME NEW c \in Ops, Timeout(c) PROVE LeasesAreInFlight'
  BY <1>14 DEF Timeout, Settle, Succeeded
<1>15. ASSUME NEW c \in Ops, Cancel(c) PROVE LeasesAreInFlight'
  BY <1>15 DEF Cancel, Return, Tell
<1>16. ASSUME NEW c \in Ops, Finalize(c) PROVE LeasesAreInFlight'
  BY <1>16 DEF Finalize, Commit, Complete, CompleteAgain, Record, Verdict, Thread, Goto, Tell,
     Succeeded, Ref
<1>17. ASSUME NEW c \in Ops, FinalizeFails(c) PROVE LeasesAreInFlight'
  BY <1>17 DEF FinalizeFails, Goto, Thread, Succeeded
<1>18. ASSUME NEW c \in Ops, RecordUnknown(c) PROVE LeasesAreInFlight'
  BY <1>18 DEF RecordUnknown, MarkUnknown, Record, Tell
<1>19. ASSUME NEW c \in Ops, Release(c) PROVE LeasesAreInFlight'
  BY <1>19 DEF Release, Return, Tell
<1>20. ASSUME NEW c \in Ops, ProviderCommits(c) PROVE LeasesAreInFlight'
  BY <1>20 DEF ProviderCommits, Thread
<1>21. ASSUME NEW c \in Ops, ProviderReturns(c) PROVE LeasesAreInFlight'
  BY <1>21 DEF ProviderReturns, Thread
<1>22. ASSUME NEW c \in Ops, ProviderRaises(c) PROVE LeasesAreInFlight'
  BY <1>22 DEF ProviderRaises, Settle, SettleFailed, Thread, Succeeded
<1>23. ASSUME NEW c \in Ops, RollbackDiscarded(c) PROVE LeasesAreInFlight'
  BY <1>23 DEF RollbackDiscarded, Thread
<1>24. ASSUME NEW c \in Ops, Reconcile(c) PROVE LeasesAreInFlight'
  BY <1>24 DEF Reconcile, ReconcileCompleted, Record
<1>25. ASSUME NEW c \in Ops, MarkOutboxDelivered(c) PROVE LeasesAreInFlight'
  BY <1>25 DEF MarkOutboxDelivered
<1>26. CASE Crash
  BY <1>26 DEF Crash
<1>27. CASE UNCHANGED vars
  BY <1>27 DEF vars
<1> QED
  BY <1>1, <1>2, <1>3, <1>4, <1>5, <1>6, <1>7, <1>8, <1>9, <1>10, <1>11,
     <1>12, <1>13, <1>14, <1>15, <1>16, <1>17, <1>18, <1>19, <1>20, <1>21,
     <1>22, <1>23, <1>24, <1>25, <1>26, <1>27 DEF Next, Gateway, Provider,
     Dispatcher

-----------------------------------------------------------------------------
(* The theorems.                                                            *)

Inv == TypeOK /\ RowInv /\ PaidInv /\ CommitInv /\ AnswerInv /\ LeasesAreInFlight

LEMMA InitInv == Init => Inv
<1> SUFFICES ASSUME Init PROVE Inv
  OBVIOUS
<1>1. TypeOK
  BY BoundAssumption DEF Init, StoreInit, TypeOK, StoreTypeOK, Stages, Answers, Results, Final
<1>2. RowInv
  BY DEF Init, StoreInit, RowInv, OneRowPerScope, Row, BeforeBegin, AfterBegin
<1>3. PaidInv /\ LeasesAreInFlight
  BY DEF Init, PaidInv, Paid, AfterBegin, LeasesAreInFlight, Admitted
<1>4. CommitInv /\ AnswerInv
  BY DEF Init, StoreInit, CommitInv, CompletedMeansCommitted, AnswerInv, Succeeded
<1> QED
  BY <1>1, <1>2, <1>3, <1>4 DEF Inv

LEMMA InvStep == Inv /\ [Next]_vars => Inv'
BY TypeStep, RowStep, PaidStep, CommitStep, AnswerStep, LeaseStep DEF Inv

LEMMA Invariance == Spec => []Inv
BY InitInv, InvStep, PTL DEF Spec

\* ReliabilityCoordinator.begin admits one dispatch for each idempotency
\* scope, whatever retries, timeouts, cancellations and crashes surround it.
THEOREM OneDispatch == Spec => []ScopeDispatchedOnce
<1>1. Inv => ScopeDispatchedOnce
  BY DEF Inv, RowInv, OneRowPerScope, Row, ScopeDispatchedOnce
<1> QED
  BY <1>1, Invariance, PTL

\* SqlApprovalStore.consume: a confirmed write is dispatched only on an
\* approval of its capability and payload, and an approval pays once.
THEOREM OnePayment == Spec => []ApprovalPaysOnce
<1>1. Inv => ApprovalPaysOnce
  BY DEF Inv, PaidInv, Paid, ApprovalPaysOnce
<1> QED
  BY <1>1, Invariance, PTL

\* _finalize_invocation: a completed row has its domain write, and a strong
\* domain write has its completed row.
THEOREM Committed == Spec => []CompletedMeansCommitted
<1>1. Inv => CompletedMeansCommitted
  BY DEF Inv, CommitInv
<1> QED
  BY <1>1, Invariance, PTL

\* What invoke returns as completed, first hand or replayed, is a committed
\* write of the caller's own payload.
THEOREM CompletedIsTrue == Spec => []CompletedAnswerIsTrue
<1>1. Inv => CompletedAnswerIsTrue
  BY DEF Inv, AnswerInv, CompletedAnswerIsTrue, Row
<1> QED
  BY <1>1, Invariance, PTL

\* A strong write that invoke answers as REJECTED, before or after its
\* dispatch, is not committed, and neither is the operation that a rejected or
\* failed answer names; a FAILED answer that names none is left open.
THEOREM FailedIsTrue == Spec => []FailedAnswerIsTrue
<1>1. ASSUME Inv, NEW o \in Ops, Of(o) \in Strong, effect[o] PROVE outcome[o] = "completed"
  BY <1>1 DEF Inv, CommitInv, CompletedMeansCommitted
<1>2. ASSUME Inv, NEW c \in Ops, Of(c) \in Strong, answer[c] = "rejected" PROVE ~effect[c]
  BY <1>1, <1>2 DEF Inv, RowInv
<1>3. ASSUME Inv, NEW c \in Ops, Of(c) \in Strong, NEW o \in named[c]
      PROVE  Scope[o] = Scope[c] /\ ~effect[o]
  <2>1. o \in Ops
    BY <1>3 DEF Inv, TypeOK
  <2> QED
    BY <1>1, <1>3, <2>1 DEF Inv, AnswerInv, Of
<1>4. Inv => FailedAnswerIsTrue
  BY <1>2, <1>3 DEF FailedAnswerIsTrue
<1> QED
  BY <1>4, Invariance, PTL

\* A rejection by invoke without operation_ref has inserted no row and run
\* nothing, so that its key is free; one with operation_ref, also a retryable
\* one such as runtime_timeout, names the failed row that keeps the key.
THEOREM ClaimIsTold == Spec => []RejectionTellsItsClaim
<1>1. Inv => RejectionTellsItsClaim
  BY DEF Inv, TypeOK, RowInv, AnswerInv, RejectionTellsItsClaim
<1> QED
  BY <1>1, Invariance, PTL

\* Every way out of invoke releases its admission lease, and nothing is
\* dispatched without one.
THEOREM NoLeaseLeak == Spec => []LeasesAreInFlight
<1>1. Inv => LeasesAreInFlight
  BY DEF Inv
<1> QED
  BY <1>1, Invariance, PTL

-----------------------------------------------------------------------------
(* The gateway implements GovernedWrite.                                    *)

LEMMA PromiseStep == Inv /\ [Next]_vars => [Promise!Next]_(Promise!vars)
<1> SUFFICES ASSUME Inv, [Next]_vars PROVE Promise!Next \/ UNCHANGED <<outcome, effect>>
  BY DEF Promise!vars
<1> USE DEF storeVars, Final
<1>t. TypeOK /\ StoreTypeOK
  BY DEF Inv, TypeOK
<1>1. ASSUME NEW c \in Ops, Begin(c), effect' = effect PROVE Promise!Claim(c)
  BY <1>1 DEF Begin, Row, Promise!Claim, Promise!Decide
<1>2. ASSUME NEW c \in Ops, Complete(c, FALSE) \/ MarkUnknown(c), effect' = effect
      PROVE  Promise!GiveUp(c)
  BY <1>2 DEF Complete, MarkUnknown, Record, Verdict, Promise!GiveUp, Promise!Decide
<1>3. ASSUME NEW c \in Ops, ReconcileCompleted(c), effect' = effect, agentOutbox[c] # "none"
      PROVE  Promise!Acknowledge(c) \/ UNCHANGED <<outcome, effect>>
  <2>1. Of(c) \notin Strong /\ effect[c]
    BY <1>3, CapAssumption DEF Inv, RowInv, CommitInv
  <2> QED
    BY <1>3, <2>1 DEF ReconcileCompleted, Record, Promise!Acknowledge, Promise!Decide
<1>4. ASSUME NEW c \in Ops, ProviderCommits(c)
      PROVE  Promise!ApplyAlone(c) \/ UNCHANGED <<outcome, effect>>
  <2>1. outcome[c] # "none"
    BY <1>4 DEF ProviderCommits, Inv, RowInv
  <2>2. /\ Of(c) \notin Strong /\ outcome' = outcome
        /\ effect' = [effect EXCEPT ![c] = TRUE]
    BY <1>4 DEF ProviderCommits
  <2>3. CASE effect[c]
    BY <1>t, <2>2, <2>3 DEF TypeOK
  <2>4. CASE ~effect[c]
    BY <2>1, <2>2, <2>4 DEF Promise!ApplyAlone, Promise!Apply
  <2> QED
    BY <2>3, <2>4
<1>5. ASSUME NEW c \in Ops, Finalize(c)
      PROVE  \/ Promise!ApplyAtomically(c) \/ Promise!Acknowledge(c) \/ Promise!GiveUp(c)
             \/ UNCHANGED <<outcome, effect>>
  <2>1. /\ pc[c] = "final"
        /\ outcome' = [outcome EXCEPT ![c] = Verdict(Succeeded(c))]
        /\ outcome[c] \in {"started", Verdict(Succeeded(c))}
        /\ effect' = IF HasTransaction(c) THEN [effect EXCEPT ![c] = TRUE] ELSE effect
    BY <1>5, <1>t DEF Finalize, Commit, Complete, CompleteAgain, Record, StoreTypeOK
  <2>2. CASE ~Succeeded(c)
    <3>1. effect' = effect
      BY <2>1, <2>2 DEF HasTransaction
    <3> QED
      BY <1>t, <2>1, <2>2, <3>1 DEF StoreTypeOK, Verdict, Promise!GiveUp, Promise!Decide
  <2>3. CASE Succeeded(c) /\ Of(c) \in Strong
    <3>1. worker[c] = "transaction"
      BY <2>1, <2>3 DEF Inv, CommitInv
    <3>2. /\ outcome[c] = "completed" => effect[c]
          /\ outcome[c] = "started" => ~effect[c]
      BY <2>3 DEF Inv, CommitInv, CompletedMeansCommitted
    <3>3. effect' = [effect EXCEPT ![c] = TRUE] /\ Verdict(Succeeded(c)) = "completed"
      BY <2>1, <2>3, <3>1 DEF HasTransaction, Verdict
    <3>4. CASE outcome[c] = "started"
      BY <2>1, <2>3, <3>2, <3>3, <3>4
      DEF Promise!ApplyAtomically, Promise!Apply, Promise!Decide
    <3>5. CASE outcome[c] = "completed"
      BY <1>t, <2>1, <3>2, <3>3, <3>5 DEF TypeOK, StoreTypeOK
    <3> QED
      BY <2>1, <3>3, <3>4, <3>5
  <2>4. CASE Succeeded(c) /\ Of(c) \notin Strong
    <3>1. effect[c] /\ ~HasTransaction(c)
      BY <2>1, <2>4 DEF Inv, CommitInv, HasTransaction
    <3>2. effect' = effect /\ Verdict(Succeeded(c)) = "completed"
      BY <2>1, <2>4, <3>1 DEF Verdict
    <3> QED
      BY <1>t, <2>1, <2>4, <3>1, <3>2 DEF StoreTypeOK, Promise!Acknowledge, Promise!Decide
  <2> QED
    BY <2>2, <2>3, <2>4
<1>6. ASSUME NEW c \in Ops,
             \/ BeginLease(c) \/ BeginWithoutLease(c) \/ CancelLease(c)
             \/ OperationCreateFails(c) \/ RecordUnknown(c)
      PROVE  Promise!Claim(c) \/ Promise!GiveUp(c) \/ UNCHANGED <<outcome, effect>>
  BY <1>1, <1>2, <1>6 DEF BeginLease, BeginWithoutLease, CancelLease,
     OperationCreateFails, RecordUnknown
<1>7. ASSUME NEW c \in Ops, Reconcile(c)
      PROVE  Promise!Acknowledge(c) \/ UNCHANGED <<outcome, effect>>
  BY <1>3, <1>7 DEF Reconcile
<1>8. ASSUME NEW c \in Ops,
             \/ Invoke(c) \/ Replay(c) \/ Approve(c) \/ Admit(c) \/ CapacityUnavailable(c)
             \/ Dispatch(c) \/ ReceiveOutput(c) \/ Timeout(c) \/ FinalizeFails(c)
             \/ Release(c) \/ Cancel(c) \/ ProviderReturns(c) \/ ProviderRaises(c)
             \/ RollbackDiscarded(c) \/ MarkOutboxDelivered(c)
      PROVE  UNCHANGED <<outcome, effect>>
  BY <1>8 DEF Invoke, Replay, Approve, Admit, CapacityUnavailable, Dispatch,
     ReceiveOutput, Timeout, FinalizeFails, Release, Cancel, ProviderReturns,
     ProviderRaises, RollbackDiscarded, MarkOutboxDelivered
<1>9. CASE \E t \in Tokens : IssueApproval(t) \/ ApprovalExpires(t)
  BY <1>9 DEF IssueApproval, ApprovalExpires
<1>10. CASE Crash
  BY <1>10 DEF Crash
<1>11. CASE UNCHANGED vars
  BY <1>11 DEF vars
<1> QED
  BY <1>4, <1>5, <1>6, <1>7, <1>8, <1>9, <1>10, <1>11
  DEF Next, Gateway, Provider, Dispatcher, Promise!Next

\* The stages, threads, timeouts and crashes of invoke implement the promise
\* that callers rely on: one claim for a scope, a strong write applied with
\* its verdict, any other acknowledged only after it was applied.
THEOREM Refinement == Spec => PromiseKept
<1>1. Init => Promise!Init
  BY DEF Init, StoreInit, Promise!Init
<1> QED
  BY <1>1, PromiseStep, Invariance, PTL DEF Spec, PromiseKept, Promise!Spec
=============================================================================
