--------------------- MODULE KnowledgePublicationProofs ---------------------
(***************************************************************************)
(* Proofs about the publication of knowledge proposals, for every set of   *)
(* proposals, users, jobs, entries and requests and every attempt limit.   *)
(***************************************************************************)
EXTENDS KnowledgePublication, TLAPS

\* A request works on an existing job, and holds an object once it is stored.
CallsWork ==
    \A c \in Calls : at[c] # "idle" =>
        /\ kind[c] # "none"
        /\ work[c] \in Jobs
        /\ target[work[c]] \in Proposals
        /\ at[c] = "stored" => target[work[c]] \in objects

\* Rows that were never inserted have no columns.
RowsAreReal ==
    /\ \A j \in Jobs : job[j] = "none" <=> target[j] = Nobody
    /\ \A e \in Entries : madeFor[e] # Nobody => e \in made

\* A job belongs to an accepted proposal; a pending proposal has no reviewer.
JobsAreReviewed ==
    /\ \A j \in Jobs : target[j] # Nobody => proposal[target[j]] \in {"publishing", "approved"}
    /\ \A p \in Proposals : proposal[p] = "pending" => reviewer[p] = Nobody

\* Once the saga has created an entry, every job of its proposal is completed.
PublicationIsSettled ==
    \A e \in Entries : madeFor[e] # Nobody =>
        \A j \in Jobs : target[j] = madeFor[e] => job[j] = "completed"

Shape == TypeOK /\ CallsWork /\ RowsAreReal
Saga == JobsAreReviewed /\ OneJobPerProposal /\ ApprovedIsPublished
Outcome == PublicationIsSettled /\ PublishedOnce /\ CompletedAnswerIsTrue

Inv == Shape /\ Saga /\ Outcome

LEMMA InvInit == Init => Inv
BY PublicationAssumption DEF Init, Inv, Shape, TypeOK, CallsWork, RowsAreReal, Saga,
   JobsAreReviewed,
   OneJobPerProposal, ApprovedIsPublished, Outcome, PublicationIsSettled, PublishedOnce,
   CompletedAnswerIsTrue, Publishing, Sources

(***************************************************************************)
(* Every step keeps the types and what a request may rely on.              *)
(***************************************************************************)
LEMMA ShapeStep == Inv /\ [Next]_vars => Shape'
<1> SUFFICES ASSUME Inv, [Next]_vars PROVE Shape'
  OBVIOUS
<1> USE PublicationAssumption DEF Inv, Shape, TypeOK, CallsWork, RowsAreReal, Publishing,
   proposalVars, jobVars, entryVars, callVars, Sources, InsertEntry
<1>1. ASSUME NEW u \in Users, NEW p \in Proposals, Reject(u, p) PROVE Shape'
  BY <1>1 DEF Reject, Reviewable
<1>2. ASSUME NEW c \in Calls, NEW u \in Users, NEW p \in Proposals, Approve(c, u, p)
      PROVE  Shape'
  BY <1>2 DEF Approve, Reviewable, Enqueue, InsertJob, Enter
<1>3. ASSUME NEW c \in Calls, NEW j \in Jobs, RetryByUser(c, j) PROVE Shape'
  BY <1>3 DEF RetryByUser, Enter
<1>4. ASSUME NEW c \in Calls, NEW j \in Jobs, RetryByWorker(c, j) PROVE Shape'
  BY <1>4 DEF RetryByWorker, Enter
<1>5. ASSUME NEW c \in Calls, NEW j \in Jobs, Calling(c, j), AlreadyCompleted(c, j)
      PROVE  Shape'
  BY <1>5 DEF Calling, AlreadyCompleted, Answer, Leave
<1>6. ASSUME NEW c \in Calls, NEW j \in Jobs, Calling(c, j), InProgress(c, j) PROVE Shape'
  BY <1>6 DEF Calling, InProgress, Leave
<1>7. ASSUME NEW c \in Calls, NEW j \in Jobs, Calling(c, j), Exhausted(c, j) PROVE Shape'
  BY <1>7 DEF Calling, Exhausted, Claimable, Answer, Leave
<1>8. ASSUME NEW c \in Calls, NEW j \in Jobs, Calling(c, j), FoundPublished(c, j)
      PROVE  Shape'
  BY <1>8 DEF Calling, FoundPublished, EntriesOf, Settle, Claimable, Answer, Leave
<1>9. ASSUME NEW c \in Calls, NEW j \in Jobs, Calling(c, j), Claim(c, j) PROVE Shape'
  BY <1>9 DEF Calling, Claim, Claimable, Spent
<1>10. ASSUME NEW c \in Calls, StoreSucceeds(c) PROVE Shape'
  BY <1>10 DEF StoreSucceeds
<1>11. ASSUME NEW c \in Calls, StoreFails(c) PROVE Shape'
  BY <1>11 DEF StoreFails
<1>12. ASSUME NEW c \in Calls, Release(c) PROVE Shape'
  <2>1. PICK j \in Jobs : j = work[c]
    BY <1>12 DEF Release
  <2>2. CASE Released(j)
    <3>1. /\ job' = [job EXCEPT ![j] = "pending"]
          /\ due' = [due EXCEPT ![j] = FALSE]
          /\ Leave(c)
          /\ UNCHANGED <<proposalVars, target, attempts, entryVars, objects, answers, reports>>
      BY <1>12, <2>1, <2>2 DEF Release
    <3>2. TypeOK'
      BY <3>1 DEF Leave
    <3>3. CallsWork' /\ RowsAreReal'
      BY <2>2, <3>1 DEF Leave, Released
    <3> QED
      BY <3>2, <3>3
  <2>3. CASE ~Released(j)
    BY <1>12, <2>1, <2>3 DEF Release, Leave
  <2> QED
    BY <2>2, <2>3
<1>13. ASSUME NEW c \in Calls, NEW j \in Jobs, Finalize(c, j) PROVE Shape'
  BY <1>13 DEF Finalize, FinalizeCompleted, FinalizeExisting, FinalizeNew, Unfinished,
     EntriesOf, Settle, Answer, Leave
<1>14. ASSUME NEW j \in Jobs, Expire(j) PROVE Shape'
  BY <1>14 DEF Expire
<1>15. ASSUME NEW c \in Calls, Crash(c) PROVE Shape'
  BY <1>15 DEF Crash, Leave
<1>16. ASSUME NEW e \in Entries, NEW q \in Sources, CreateEntry(e, q) PROVE Shape'
  BY <1>16 DEF CreateEntry
<1>17. ASSUME NEW e \in Entries, DeleteEntry(e) PROVE Shape'
  BY <1>17 DEF DeleteEntry
<1>18. ASSUME NEW e \in Entries, NEW q \in Sources, UpdateEntry(e, q) PROVE Shape'
  BY <1>18 DEF UpdateEntry
<1>19. CASE UNCHANGED vars
  BY <1>19 DEF vars
<1> QED
  BY <1>1, <1>2, <1>3, <1>4, <1>5, <1>6, <1>7, <1>8, <1>9, <1>10, <1>11, <1>12, <1>13,
     <1>14, <1>15, <1>16, <1>17, <1>18, <1>19 DEF Next, PhaseOne

(***************************************************************************)
(* Every step keeps proposals and jobs in agreement.                       *)
(***************************************************************************)
LEMMA SagaStep == Inv /\ [Next]_vars => Saga'
<1> SUFFICES ASSUME Inv, [Next]_vars PROVE Saga'
  OBVIOUS
<1> USE PublicationAssumption DEF Inv, Shape, TypeOK, CallsWork, RowsAreReal, Saga,
   JobsAreReviewed, OneJobPerProposal, ApprovedIsPublished, proposalVars, jobVars,
   entryVars, callVars, Sources, InsertEntry
<1>1. ASSUME NEW u \in Users, NEW p \in Proposals, Reject(u, p) PROVE Saga'
  BY <1>1 DEF Reject, Reviewable
<1>2. ASSUME NEW c \in Calls, NEW u \in Users, NEW p \in Proposals, Approve(c, u, p)
      PROVE  Saga'
  <2>1. PICK j \in Jobs : Enqueue(j, p, u)
    BY <1>2 DEF Approve, Reviewable
  <2>2. proposal[p] = "pending" /\ \A i \in Jobs : target[i] # p
    BY <1>2 DEF Approve, Reviewable
  <2>3. JobsAreReviewed' /\ OneJobPerProposal'
    BY <2>1, <2>2 DEF Enqueue, InsertJob
  <2>4. ApprovedIsPublished'
    BY <1>2, <2>1, <2>2 DEF Approve, Enqueue, InsertJob
  <2> QED
    BY <2>3, <2>4
<1>3. ASSUME NEW c \in Calls, NEW j \in Jobs, RetryByUser(c, j) PROVE Saga'
  BY <1>3 DEF RetryByUser, Enter
<1>4. ASSUME NEW c \in Calls, NEW j \in Jobs, RetryByWorker(c, j) PROVE Saga'
  BY <1>4 DEF RetryByWorker, Enter
<1>5. ASSUME NEW c \in Calls, NEW j \in Jobs, Calling(c, j), AlreadyCompleted(c, j)
      PROVE  Saga'
  BY <1>5 DEF Calling, AlreadyCompleted, Answer, Leave
<1>6. ASSUME NEW c \in Calls, NEW j \in Jobs, Calling(c, j), InProgress(c, j) PROVE Saga'
  BY <1>6 DEF Calling, InProgress, Leave
<1>7. ASSUME NEW c \in Calls, NEW j \in Jobs, Calling(c, j), Exhausted(c, j) PROVE Saga'
  BY <1>7 DEF Calling, Exhausted, Claimable, Answer, Leave
<1>8. ASSUME NEW c \in Calls, NEW j \in Jobs, Calling(c, j), FoundPublished(c, j)
      PROVE  Saga'
  BY <1>8 DEF Calling, FoundPublished, EntriesOf, Settle, Claimable, Answer, Leave
<1>9. ASSUME NEW c \in Calls, NEW j \in Jobs, Calling(c, j), Claim(c, j) PROVE Saga'
  BY <1>9 DEF Calling, Claim, Claimable, Spent
<1>10. ASSUME NEW c \in Calls, StoreSucceeds(c) PROVE Saga'
  BY <1>10 DEF StoreSucceeds
<1>11. ASSUME NEW c \in Calls, StoreFails(c) PROVE Saga'
  BY <1>11 DEF StoreFails
<1>12. ASSUME NEW c \in Calls, Release(c) PROVE Saga'
  BY <1>12 DEF Release, Released, Leave
<1>13. ASSUME NEW c \in Calls, NEW j \in Jobs, Finalize(c, j) PROVE Saga'
  <2> USE DEF Finalize, Unfinished
  <2>1. CASE FinalizeCompleted(c, j)
    BY <1>13, <2>1 DEF FinalizeCompleted, Answer, Leave
  <2>2. CASE FinalizeExisting(c, j)
    BY <1>13, <2>2 DEF FinalizeExisting, EntriesOf, Settle, Answer, Leave
  <2>3. CASE FinalizeNew(c, j)
    <3>1. PICK e \in Entries :
            /\ e \notin made /\ made' = made \cup {e}
            /\ madeFor' = [madeFor EXCEPT ![e] = target[j]]
            /\ Settle(j, target[j], e)
      BY <2>3 DEF FinalizeNew, InsertEntry
    <3>2. target[j] \in Proposals /\ target[j] \in objects /\ objects' = objects
      BY <1>13
    <3>3. \A d \in Entries : madeFor[d] # target[j]
      BY <2>3, <3>2 DEF FinalizeNew
    <3>4. JobsAreReviewed' /\ OneJobPerProposal'
      BY <3>1, <3>2 DEF Settle
    <3>5. ApprovedIsPublished'
      BY <3>1, <3>2, <3>3 DEF Settle
    <3> QED
      BY <3>4, <3>5
  <2> QED
    BY <1>13, <2>1, <2>2, <2>3
<1>14. ASSUME NEW j \in Jobs, Expire(j) PROVE Saga'
  BY <1>14 DEF Expire
<1>15. ASSUME NEW c \in Calls, Crash(c) PROVE Saga'
  BY <1>15 DEF Crash, Leave
<1>16. ASSUME NEW e \in Entries, NEW q \in Sources, CreateEntry(e, q) PROVE Saga'
  BY <1>16 DEF CreateEntry
<1>17. ASSUME NEW e \in Entries, DeleteEntry(e) PROVE Saga'
  BY <1>17 DEF DeleteEntry
<1>18. ASSUME NEW e \in Entries, NEW q \in Sources, UpdateEntry(e, q) PROVE Saga'
  BY <1>18 DEF UpdateEntry
<1>19. CASE UNCHANGED vars
  BY <1>19 DEF vars
<1> QED
  BY <1>1, <1>2, <1>3, <1>4, <1>5, <1>6, <1>7, <1>8, <1>9, <1>10, <1>11, <1>12, <1>13,
     <1>14, <1>15, <1>16, <1>17, <1>18, <1>19 DEF Next, PhaseOne

(***************************************************************************)
(* Every step keeps publications unique and answers true.                  *)
(***************************************************************************)
LEMMA OutcomeStep == Inv /\ [Next]_vars => Outcome'
<1> SUFFICES ASSUME Inv, [Next]_vars PROVE Outcome'
  OBVIOUS
<1> USE PublicationAssumption DEF Inv, Shape, TypeOK, CallsWork, RowsAreReal, Saga,
   JobsAreReviewed, OneJobPerProposal, ApprovedIsPublished, Outcome, PublicationIsSettled,
   PublishedOnce, CompletedAnswerIsTrue, proposalVars, jobVars, entryVars, callVars, Sources, InsertEntry
<1>1. ASSUME NEW u \in Users, NEW p \in Proposals, Reject(u, p) PROVE Outcome'
  BY <1>1 DEF Reject, Reviewable
<1>2. ASSUME NEW c \in Calls, NEW u \in Users, NEW p \in Proposals, Approve(c, u, p)
      PROVE  Outcome'
  BY <1>2 DEF Approve, Reviewable, Enqueue, InsertJob, Enter
<1>3. ASSUME NEW c \in Calls, NEW j \in Jobs, RetryByUser(c, j) PROVE Outcome'
  BY <1>3 DEF RetryByUser, Enter
<1>4. ASSUME NEW c \in Calls, NEW j \in Jobs, RetryByWorker(c, j) PROVE Outcome'
  BY <1>4 DEF RetryByWorker, Enter
<1>5. ASSUME NEW c \in Calls, NEW j \in Jobs, Calling(c, j), AlreadyCompleted(c, j)
      PROVE  Outcome'
  BY <1>5 DEF Calling, AlreadyCompleted, Answer, Leave
<1>6. ASSUME NEW c \in Calls, NEW j \in Jobs, Calling(c, j), InProgress(c, j)
      PROVE  Outcome'
  BY <1>6 DEF Calling, InProgress, Leave
<1>7. ASSUME NEW c \in Calls, NEW j \in Jobs, Calling(c, j), Exhausted(c, j)
      PROVE  Outcome'
  BY <1>7 DEF Calling, Exhausted, Claimable, Answer, Leave
<1>8. ASSUME NEW c \in Calls, NEW j \in Jobs, Calling(c, j), FoundPublished(c, j)
      PROVE  Outcome'
  BY <1>8 DEF Calling, FoundPublished, EntriesOf, Settle, Claimable, Answer, Leave
<1>9. ASSUME NEW c \in Calls, NEW j \in Jobs, Calling(c, j), Claim(c, j) PROVE Outcome'
  BY <1>9 DEF Calling, Claim, Claimable, Spent
<1>10. ASSUME NEW c \in Calls, StoreSucceeds(c) PROVE Outcome'
  BY <1>10 DEF StoreSucceeds
<1>11. ASSUME NEW c \in Calls, StoreFails(c) PROVE Outcome'
  BY <1>11 DEF StoreFails
<1>12. ASSUME NEW c \in Calls, Release(c) PROVE Outcome'
  BY <1>12 DEF Release, Released, Leave
<1>13. ASSUME NEW c \in Calls, NEW j \in Jobs, Finalize(c, j) PROVE Outcome'
  <2> USE DEF Finalize, Unfinished
  <2>1. CASE FinalizeCompleted(c, j)
    BY <1>13, <2>1 DEF FinalizeCompleted, Answer, Leave
  <2>2. CASE FinalizeExisting(c, j)
    BY <1>13, <2>2 DEF FinalizeExisting, EntriesOf, Settle, Answer, Leave
  <2>3. CASE FinalizeNew(c, j)
    <3>1. PICK e \in Entries :
            /\ e \notin made /\ made' = made \cup {e}
            /\ madeFor' = [madeFor EXCEPT ![e] = target[j]]
            /\ Settle(j, target[j], e)
      BY <2>3 DEF FinalizeNew, InsertEntry
    <3>2. target[j] \in Proposals /\ target[j] \in objects /\ objects' = objects
      BY <1>13
    <3>3. PublicationIsSettled'
      BY <3>1, <3>2 DEF Settle
    <3>4. PublishedOnce'
      BY <2>3, <3>1, <3>2 DEF FinalizeNew
    <3>5. CompletedAnswerIsTrue'
      BY <1>13, <3>1, <3>2 DEF Settle, Answer
    <3> QED
      BY <3>3, <3>4, <3>5
  <2> QED
    BY <1>13, <2>1, <2>2, <2>3
<1>14. ASSUME NEW j \in Jobs, Expire(j) PROVE Outcome'
  BY <1>14 DEF Expire
<1>15. ASSUME NEW c \in Calls, Crash(c) PROVE Outcome'
  BY <1>15 DEF Crash, Leave
<1>16. ASSUME NEW e \in Entries, NEW q \in Sources, CreateEntry(e, q) PROVE Outcome'
  BY <1>16 DEF CreateEntry
<1>17. ASSUME NEW e \in Entries, DeleteEntry(e) PROVE Outcome'
  BY <1>17 DEF DeleteEntry
<1>18. ASSUME NEW e \in Entries, NEW q \in Sources, UpdateEntry(e, q) PROVE Outcome'
  BY <1>18 DEF UpdateEntry
<1>19. CASE UNCHANGED vars
  BY <1>19 DEF vars
<1> QED
  BY <1>1, <1>2, <1>3, <1>4, <1>5, <1>6, <1>7, <1>8, <1>9, <1>10, <1>11, <1>12, <1>13,
     <1>14, <1>15, <1>16, <1>17, <1>18, <1>19 DEF Next, PhaseOne

LEMMA Invariance == Spec => []Inv
<1>1. Inv /\ [Next]_vars => Inv'
  BY ShapeStep, SagaStep, OutcomeStep DEF Inv
<1> QED
  BY InvInit, <1>1, PTL DEF Spec

-----------------------------------------------------------------------------
\* Every column of proposals, outbox and entries has a value the code writes.
THEOREM TypeCorrect == Spec => []TypeOK
<1>1. Inv => TypeOK
  BY DEF Inv, Shape
<1> QED
  BY <1>1, Invariance, PTL

\* review_proposal inserts at most one publication job for a proposal.
THEOREM OneJob == Spec => []OneJobPerProposal
<1>1. Inv => OneJobPerProposal
  BY DEF Inv, Saga
<1> QED
  BY <1>1, Invariance, PTL

\* retry_publish creates at most one entry for a proposal, whatever the
\* interleaving of claims, lapsed leases, crashes, retries, deletions and
\* changes of source_gid.
THEOREM OneEntry == Spec => []PublishedOnce
<1>1. Inv => PublishedOnce
  BY DEF Inv, Outcome
<1> QED
  BY <1>1, Invariance, PTL

\* Phase 2 leaves no proposal approved without a completed job and an entry
\* that was written, and inserts no entry but the one its proposal names, with
\* its object in the store: whatever source_gid users give the entry later.
THEOREM Together == Spec => []ApprovedIsPublished
<1>1. Inv => ApprovedIsPublished
  BY DEF Inv, Saga
<1> QED
  BY <1>1, Invariance, PTL

\* A "completed" answer of retry_publish is true, also after a lost race.
THEOREM TrueAnswers == Spec => []CompletedAnswerIsTrue
<1>1. Inv => CompletedAnswerIsTrue
  BY DEF Inv, Outcome
<1> QED
  BY <1>1, Invariance, PTL

\* No claim, release or finalization reopens a completed job.
THEOREM CompletedStays == Spec => CompletedIsFinal
<1>1. ASSUME Inv, [Next]_vars, NEW j \in Jobs, job[j] = "completed"
      PROVE  job'[j] = "completed"
  <2> USE <1>1 DEF Inv, Shape, TypeOK, jobVars
  <2>1. ASSUME NEW c \in Calls, NEW i \in Jobs, PhaseOne(c, i) PROVE job'[j] = "completed"
    BY <2>1 DEF PhaseOne, AlreadyCompleted, InProgress, Exhausted, FoundPublished, Claim,
       Claimable, Settle
  <2>2. ASSUME NEW c \in Calls, NEW i \in Jobs, Finalize(c, i) PROVE job'[j] = "completed"
    BY <2>2 DEF Finalize, FinalizeCompleted, FinalizeExisting, FinalizeNew, Settle
  <2>3. ASSUME NEW c \in Calls, Release(c) PROVE job'[j] = "completed"
    BY <2>3 DEF Release, Released
  <2>4. ASSUME NEW c \in Calls, NEW u \in Users, NEW p \in Proposals, Approve(c, u, p)
        PROVE  job'[j] = "completed"
    BY <2>4 DEF Approve, Enqueue, InsertJob
  <2> QED
    BY <2>1, <2>2, <2>3, <2>4 DEF Next, vars, Reject, RetryByUser, RetryByWorker,
       StoreSucceeds, StoreFails, Expire, Crash, CreateEntry, UpdateEntry,
       DeleteEntry
<1>2. Inv /\ [Next]_vars =>
        [\A j \in Jobs : job[j] = "completed" => job'[j] = "completed"]_vars
  BY <1>1
<1> QED
  BY <1>2, Invariance, PTL DEF Spec, CompletedIsFinal

\* No handler takes a review decision back: only phase 1 and phase 2 move an
\* accepted proposal on, and the job they work on belongs to an accepted one.
THEOREM DecisionsStay == Spec => DecisionsAreFinal
<1> DEFINE Final(p) ==
        /\ proposal[p] \in {"rejected", "approved"} => proposal'[p] = proposal[p]
        /\ proposal[p] = "publishing" => proposal'[p] \in {"publishing", "approved"}
<1>1. ASSUME Inv, [Next]_vars, NEW p \in Proposals PROVE Final(p)
  <2> USE <1>1 DEF Inv, Shape, TypeOK, CallsWork, Saga, JobsAreReviewed, proposalVars
  <2>1. ASSUME NEW c \in Calls, NEW j \in Jobs, PhaseOne(c, j) PROVE Final(p)
    BY <2>1, PublicationAssumption DEF PhaseOne, Calling, AlreadyCompleted, InProgress,
       Exhausted, FoundPublished, Claim, Settle
  <2>2. ASSUME NEW c \in Calls, NEW j \in Jobs, Finalize(c, j) PROVE Final(p)
    BY <2>2, PublicationAssumption DEF Finalize, FinalizeCompleted, FinalizeExisting,
       FinalizeNew, Settle
  <2>3. ASSUME NEW u \in Users, NEW q \in Proposals, Reject(u, q) PROVE Final(p)
    BY <2>3 DEF Reject, Reviewable
  <2>4. ASSUME NEW c \in Calls, NEW u \in Users, NEW q \in Proposals, Approve(c, u, q)
        PROVE  Final(p)
    BY <2>4 DEF Approve, Reviewable, Enqueue
  <2> QED
    BY <2>1, <2>2, <2>3, <2>4 DEF Next, vars, RetryByUser, RetryByWorker, StoreSucceeds,
       StoreFails, Release, Expire, Crash, CreateEntry, UpdateEntry,
       DeleteEntry
<1>2. Inv /\ [Next]_vars => [\A p \in Proposals : Final(p)]_vars
  BY <1>1
<1> QED
  BY <1>2, Invariance, PTL DEF Spec, DecisionsAreFinal
=============================================================================
