------------------------ MODULE KnowledgePublication ------------------------
(***************************************************************************)
(* Publication of reviewed knowledge proposals: review_proposal enqueues a *)
(* job in the publication outbox and runs retry_publish, which claims the  *)
(* job, writes the immutable object outside any transaction, and finalizes *)
(* the entry, the proposal and the job in one transaction. Reviewers,      *)
(* operators and the outbox worker run it concurrently; any of them may    *)
(* stop between two transactions. A row lock on the job (FOR UPDATE) makes *)
(* each transaction one action.                                            *)
(***************************************************************************)
EXTENDS Naturals, FiniteSets

CONSTANTS Proposals, Users, Jobs, Entries,
          Calls,        \* requests in progress: server threads and the worker
          Author,       \* creator_gid of each proposal
          MaxAttempts,  \* 8 in the code
          Nobody        \* the SQL NULL of the columns below

ASSUME PublicationAssumption ==
    /\ Author \in [Proposals -> Users]
    /\ MaxAttempts \in Nat \ {0}
    /\ Nobody \notin Proposals \cup Users \cup Jobs \cup Entries

VARIABLES
    proposal,   \* status of each proposal
    reviewer,   \* reviewer_gid
    published,  \* published_gid
    job,        \* status of each row of the outbox, "none" before its INSERT
    target,     \* proposal_gid of the row
    attempts,   \* attempts of the row
    due,        \* whether next_retry_at <= NOW()
    source,     \* source_gid of each entry; Nobody: NULL, or no proposal
    made,       \* identifiers of entries that have been handed out
    live,       \* entries that have not been deleted
    madeFor,    \* history: the proposal whose publication inserted the entry
    objects,    \* proposals whose markdown is in the object store
    at,         \* where each request stands
    kind,       \* which entry point it came through
    work,       \* the job it works on
    lapsed,     \* whether the lease it took in phase 1 has run out
    answers,    \* answers given so far
    reports     \* the worker's result row of each job

proposalVars == <<proposal, reviewer, published>>
jobVars == <<job, target, attempts, due>>
entryVars == <<source, made, live, madeFor>>
callVars == <<at, kind, work, lapsed>>
vars == <<proposalVars, jobVars, entryVars, objects, callVars, answers, reports>>

Publishing == {"storing", "stored", "refused"}

Sources == Proposals \cup {Nobody}

TypeOK ==
    /\ proposal \in [Proposals -> {"pending", "rejected", "publishing", "approved"}]
    /\ reviewer \in [Proposals -> Users \cup {Nobody}]
    /\ published \in [Proposals -> Entries \cup {Nobody}]
    /\ job \in [Jobs -> {"none", "pending", "publishing", "completed", "dead"}]
    /\ target \in [Jobs -> Proposals \cup {Nobody}]
    /\ attempts \in [Jobs -> 0..MaxAttempts]
    /\ due \in [Jobs -> BOOLEAN]
    /\ source \in [Entries -> Sources]
    /\ made \subseteq Entries
    /\ live \subseteq made
    /\ madeFor \in [Entries -> Sources]
    /\ objects \subseteq Proposals
    /\ at \in [Calls -> {"idle", "calling"} \cup Publishing]
    /\ kind \in [Calls -> {"none", "review", "retry", "worker"}]
    /\ work \in [Calls -> Jobs \cup {Nobody}]
    /\ lapsed \in [Calls -> BOOLEAN]
    /\ answers \subseteq [kind : {"review", "retry", "worker"},
                          proposal : Proposals,
                          status : {"approved", "completed", "dead"}]
    /\ reports \in [Jobs -> {"none", "failed"}]

\* The proposals have been submitted (knowledge.propose) and nobody reviewed them.
Init ==
    /\ proposal = [p \in Proposals |-> "pending"]
    /\ reviewer = [p \in Proposals |-> Nobody]
    /\ published = [p \in Proposals |-> Nobody]
    /\ job = [j \in Jobs |-> "none"]
    /\ target = [j \in Jobs |-> Nobody]
    /\ attempts = [j \in Jobs |-> 0]
    /\ due = [j \in Jobs |-> TRUE]
    /\ source = [e \in Entries |-> Nobody]
    /\ made = {}
    /\ live = {}
    /\ madeFor = [e \in Entries |-> Nobody]
    /\ objects = {}
    /\ at = [c \in Calls |-> "idle"]
    /\ kind = [c \in Calls |-> "none"]
    /\ work = [c \in Calls |-> Nobody]
    /\ lapsed = [c \in Calls |-> FALSE]
    /\ answers = {}
    /\ reports = [j \in Jobs |-> "none"]

-----------------------------------------------------------------------------
(* Requests: entering retry_publish and answering.                         *)

Enter(c, k, j) ==
    /\ at' = [at EXCEPT ![c] = "calling"]
    /\ kind' = [kind EXCEPT ![c] = k]
    /\ work' = [work EXCEPT ![c] = j]
    /\ UNCHANGED lapsed

\* The request is over; its thread holds nothing any more.
Leave(c) ==
    /\ at' = [at EXCEPT ![c] = "idle"]
    /\ kind' = [kind EXCEPT ![c] = "none"]
    /\ work' = [work EXCEPT ![c] = Nobody]
    /\ lapsed' = [lapsed EXCEPT ![c] = FALSE]

\* review_proposal answers "approved" whatever status retry_publish returned.
Answer(c, status) ==
    answers' = answers \cup
        {[kind |-> kind[c], proposal |-> target[work[c]],
          status |-> IF kind[c] = "review" THEN "approved" ELSE status]}

-----------------------------------------------------------------------------
(* review_proposal.                                                        *)

Reviewable(u, p) == proposal[p] = "pending" /\ u # Author[p]

Reject(u, p) ==
    /\ Reviewable(u, p)
    /\ proposal' = [proposal EXCEPT ![p] = "rejected"]
    /\ reviewer' = [reviewer EXCEPT ![p] = u]
    /\ UNCHANGED <<published, jobVars, entryVars, objects, callVars, answers, reports>>

InsertJob(j, p) ==
    /\ job[j] = "none"
    /\ job' = [job EXCEPT ![j] = "pending"]
    /\ target' = [target EXCEPT ![j] = p]
    /\ UNCHANGED <<attempts, due>>

Enqueue(j, p, u) ==
    /\ InsertJob(j, p)
    /\ proposal' = [proposal EXCEPT ![p] = "publishing"]
    /\ reviewer' = [reviewer EXCEPT ![p] = u]
    /\ UNCHANGED published

\* A proposal that already has a reviewer reuses the job of that reviewer.
Approve(c, u, p) ==
    /\ at[c] = "idle"
    /\ Reviewable(u, p)
    /\ \E j \in Jobs :
        /\ IF reviewer[p] = Nobody
           THEN Enqueue(j, p, u)
           ELSE /\ reviewer[p] = u
                /\ target[j] = p
                /\ UNCHANGED <<proposalVars, jobVars>>
        /\ Enter(c, "review", j)
    /\ UNCHANGED <<entryVars, objects, answers, reports>>

-----------------------------------------------------------------------------
(* The two other ways into retry_publish: an operator with a confirmed     *)
(* request, and run_once of the worker.                                    *)

RetryByUser(c, j) ==
    /\ at[c] = "idle"
    /\ target[j] # Nobody
    /\ Enter(c, "retry", j)
    /\ UNCHANGED <<proposalVars, jobVars, entryVars, objects, answers, reports>>

\* What the descriptor of knowledge.proposal.outbox.retry demands.
ConfirmationPolicy == "user"
IdempotencyPolicy == "required"

\* The envelope built by run_once names neither an approval nor a key.
WorkerEnvelope == [approval |-> FALSE, idempotencyKey |-> FALSE]

\* The checks of the gateway that depend on the two policies.
GatewayAdmits(envelope) ==
    /\ ConfirmationPolicy = "none" \/ envelope.approval
    /\ IdempotencyPolicy # "required" \/ envelope.idempotencyKey

\* One row of run_once: only due rows in status 'pending' are selected.
RetryByWorker(c, j) ==
    /\ at[c] = "idle"
    /\ job[j] = "pending"
    /\ due[j]
    /\ IF GatewayAdmits(WorkerEnvelope)
       THEN Enter(c, "worker", j) /\ UNCHANGED reports
       ELSE reports' = [reports EXCEPT ![j] = "failed"] /\ UNCHANGED callVars
    /\ UNCHANGED <<proposalVars, jobVars, entryVars, objects, answers>>

-----------------------------------------------------------------------------
(* retry_publish, phase 1: one transaction, one outcome of the checks.     *)

Calling(c, j) == at[c] = "calling" /\ work[c] = j

\* Entries that SELECT ... WHERE source_gid=p may return.
EntriesOf(p) == {e \in live : source[e] = p}

Settle(j, p, e) ==
    /\ proposal' = [proposal EXCEPT ![p] = "approved"]
    /\ published' = [published EXCEPT ![p] = e]
    /\ job' = [job EXCEPT ![j] = "completed"]
    /\ UNCHANGED <<reviewer, target, attempts, due>>

AlreadyCompleted(c, j) ==
    /\ job[j] = "completed"
    /\ Answer(c, "completed")
    /\ Leave(c)
    /\ UNCHANGED <<proposalVars, jobVars, entryVars, objects, reports>>

LeasedToAnother(j) == job[j] = "publishing" /\ ~due[j]

\* publication_in_progress is raised: nothing changes.
InProgress(c, j) ==
    /\ LeasedToAnother(j)
    /\ Leave(c)
    /\ UNCHANGED <<proposalVars, jobVars, entryVars, objects, answers, reports>>

Claimable(j) == job[j] # "completed" /\ ~LeasedToAnother(j)

\* Mutant of Spent: one attempt too many.
SpentLate(j) == attempts[j] > MaxAttempts

Spent(j) == attempts[j] >= MaxAttempts

Exhausted(c, j) ==
    /\ Claimable(j)
    /\ Spent(j)
    /\ job' = [job EXCEPT ![j] = "dead"]
    /\ Answer(c, "dead")
    /\ Leave(c)
    /\ UNCHANGED <<proposalVars, target, attempts, due, entryVars, objects, reports>>

FoundPublished(c, j) ==
    /\ Claimable(j)
    /\ ~Spent(j)
    /\ \E e \in EntriesOf(target[j]) : Settle(j, target[j], e)
    /\ Answer(c, "completed")
    /\ Leave(c)
    /\ UNCHANGED <<entryVars, objects, reports>>

Claim(c, j) ==
    /\ Claimable(j)
    /\ ~Spent(j)
    /\ EntriesOf(target[j]) = {}
    /\ job' = [job EXCEPT ![j] = "publishing"]
    /\ attempts' = [attempts EXCEPT ![j] = @ + 1]
    /\ due' = [due EXCEPT ![j] = FALSE]
    /\ at' = [at EXCEPT ![c] = "storing"]
    /\ UNCHANGED <<proposalVars, target, entryVars, objects, kind, work, lapsed,
                   answers, reports>>

PhaseOne(c, j) ==
    /\ Calling(c, j)
    /\ \/ AlreadyCompleted(c, j)
       \/ InProgress(c, j)
       \/ Exhausted(c, j)
       \/ FoundPublished(c, j)
       \/ Claim(c, j)

-----------------------------------------------------------------------------
(* publish_proposal_markdown, outside any transaction, and its failure.    *)

StoreSucceeds(c) ==
    /\ at[c] = "storing"
    /\ objects' = objects \cup {target[work[c]]}
    /\ at' = [at EXCEPT ![c] = "stored"]
    /\ UNCHANGED <<proposalVars, jobVars, entryVars, kind, work, lapsed, answers, reports>>

\* Mutant of StoreFails: the result of the store is not looked at.
StoreFailsUnseen(c) ==
    /\ at[c] = "storing"
    /\ objects' = objects
    /\ at' = [at EXCEPT ![c] = "stored"]
    /\ UNCHANGED <<proposalVars, jobVars, entryVars, kind, work, lapsed, answers, reports>>

\* An exception, or a result that fails verification; the object may be there.
StoreFails(c) ==
    /\ at[c] = "storing"
    /\ objects' \in {objects, objects \cup {target[work[c]]}}
    /\ at' = [at EXCEPT ![c] = "refused"]
    /\ UNCHANGED <<proposalVars, jobVars, entryVars, kind, work, lapsed, answers, reports>>

\* Mutant of Released: the UPDATE has no AND status='publishing'.
ReleasedAlways(j) == TRUE

\* WHERE gid=%s AND status='publishing': no trace of who claimed the job.
Released(j) == job[j] = "publishing"

Release(c) ==
    /\ at[c] = "refused"
    /\ LET j == work[c] IN
        IF Released(j)
        THEN /\ job' = [job EXCEPT ![j] = "pending"]
             /\ due' = [due EXCEPT ![j] = FALSE]
        ELSE UNCHANGED <<job, due>>
    /\ Leave(c)
    /\ UNCHANGED <<proposalVars, target, attempts, entryVars, objects, answers, reports>>

-----------------------------------------------------------------------------
(* retry_publish, phase 2.                                                 *)

\* INSERT of an entry under a new identifier.
InsertEntry(e, q) ==
    /\ e \notin made
    /\ made' = made \cup {e}
    /\ live' = live \cup {e}
    /\ source' = [source EXCEPT ![e] = q]

\* Mutant of Unfinished: phase 2 does not look at the job again.
UnfinishedAlways(j) == TRUE

Unfinished(j) == job[j] # "completed"

FinalizeCompleted(c, j) ==
    /\ ~Unfinished(j)
    /\ UNCHANGED <<proposalVars, jobVars, entryVars>>

FinalizeExisting(c, j) ==
    /\ Unfinished(j)
    /\ \E e \in EntriesOf(target[j]) : Settle(j, target[j], e)
    /\ UNCHANGED entryVars

FinalizeNew(c, j) ==
    /\ Unfinished(j)
    /\ EntriesOf(target[j]) = {}
    /\ \E e \in Entries :
        /\ InsertEntry(e, target[j])
        /\ madeFor' = [madeFor EXCEPT ![e] = target[j]]
        /\ Settle(j, target[j], e)

Finalize(c, j) ==
    /\ at[c] = "stored"
    /\ work[c] = j
    /\ \/ FinalizeCompleted(c, j)
       \/ FinalizeExisting(c, j)
       \/ FinalizeNew(c, j)
    /\ Answer(c, "completed")
    /\ Leave(c)
    /\ UNCHANGED <<objects, reports>>

-----------------------------------------------------------------------------
(* Around the saga: time, crashes, and users who edit the knowledge base.  *)

\* next_retry_at passes; the leases taken on the job so far are over.
Expire(j) ==
    /\ ~due[j]
    /\ due' = [due EXCEPT ![j] = TRUE]
    /\ lapsed' = [c \in Calls |-> lapsed[c] \/ (at[c] \in Publishing /\ work[c] = j)]
    /\ UNCHANGED <<proposalVars, job, target, attempts, entryVars, objects, at, kind,
                   work, answers, reports>>

\* The process that serves the request dies between two of its steps.
Crash(c) ==
    /\ at[c] # "idle"
    /\ Leave(c)
    /\ UNCHANGED <<proposalVars, jobVars, entryVars, objects, answers, reports>>

\* entry_create takes source_gid from its caller.
CreateEntry(e, q) ==
    /\ InsertEntry(e, q)
    /\ UNCHANGED <<madeFor, proposalVars, jobVars, objects, callVars, answers, reports>>

\* entry_update may give any entry another source_gid, also a published one.
UpdateEntry(e, q) ==
    /\ e \in live
    /\ source' = [source EXCEPT ![e] = q]
    /\ UNCHANGED <<made, live, madeFor, proposalVars, jobVars, objects, callVars, answers,
                   reports>>

DeleteEntry(e) ==
    /\ e \in live
    /\ live' = live \ {e}
    /\ UNCHANGED <<source, made, madeFor, proposalVars, jobVars, objects, callVars, answers,
                   reports>>

Next ==
    \/ \E u \in Users, p \in Proposals : Reject(u, p)
    \/ \E c \in Calls, u \in Users, p \in Proposals : Approve(c, u, p)
    \/ \E c \in Calls, j \in Jobs :
        RetryByUser(c, j) \/ RetryByWorker(c, j) \/ PhaseOne(c, j) \/ Finalize(c, j)
    \/ \E c \in Calls : StoreSucceeds(c) \/ StoreFails(c) \/ Release(c) \/ Crash(c)
    \/ \E j \in Jobs : Expire(j)
    \/ \E e \in Entries, q \in Sources : CreateEntry(e, q) \/ UpdateEntry(e, q)
    \/ \E e \in Entries : DeleteEntry(e)

Spec == Init /\ [][Next]_vars

\* Threads run to their end, time passes, the worker loops (run_forever), and
\* a store that is tried for ever answers in the end. Nobody has to press retry.
Fairness ==
    /\ \A c \in Calls :
        /\ WF_vars(\E j \in Jobs : PhaseOne(c, j) \/ Finalize(c, j))
        /\ WF_vars(StoreSucceeds(c) \/ StoreFails(c))
        /\ SF_vars(StoreSucceeds(c))
        /\ WF_vars(Release(c))
    /\ \A j \in Jobs :
        /\ WF_vars(Expire(j))
        /\ SF_vars(\E c \in Calls : RetryByWorker(c, j))

FairSpec == Spec /\ Fairness

-----------------------------------------------------------------------------
(* Properties.                                                             *)

\* A proposal is enqueued once: the lock on the proposal and its status keep
\* two reviewers from both inserting a job (review_proposal).
OneJobPerProposal ==
    \A i, j \in Jobs : target[i] # Nobody /\ target[i] = target[j] => i = j

\* However often a job is retried, claimed twice after a lapsed lease, or
\* retried after its entry was deleted or given another source_gid, so that a
\* lookup by source_gid finds nothing, retry_publish inserts one entry.
PublishedOnce ==
    \A d, e \in Entries : madeFor[d] = madeFor[e] /\ madeFor[d] # Nobody => d = e

\* Proposal, job, entry and object move together: an approved proposal names an
\* entry that has been written and has a completed job; and the entry that
\* retry_publish inserts for a proposal is the one that the proposal names,
\* with its object in the store, whatever users do to it later.  (Its current
\* source_gid may be another: entry_update does not ask the saga.)
ApprovedIsPublished ==
    /\ \A p \in Proposals :
        proposal[p] = "approved" =>
            /\ published[p] \in made
            /\ \E j \in Jobs : target[j] = p /\ job[j] = "completed"
    /\ \A j \in Jobs : job[j] = "completed" => proposal[target[j]] = "approved"
    /\ \A e \in Entries : madeFor[e] # Nobody =>
            /\ madeFor[e] \in objects
            /\ published[madeFor[e]] = e
            /\ proposal[madeFor[e]] = "approved"

\* Whoever was told "completed" by retry_publish may rely on it: the proposal
\* is approved, also when the answer came from a lost race.
CompletedAnswerIsTrue ==
    \A a \in answers : a.status = "completed" => proposal[a.proposal] = "approved"

\* A completed job is never reopened, not even by a storage failure that is
\* reported after another request has finished the publication.
CompletedIsFinal ==
    [][\A j \in Jobs : job[j] = "completed" => job'[j] = "completed"]_vars

\* A review decision is taken once: a rejected proposal is never published,
\* and one under publication never falls back.
DecisionsAreFinal ==
    [][\A p \in Proposals :
        /\ proposal[p] \in {"rejected", "approved"} => proposal'[p] = proposal[p]
        /\ proposal[p] = "publishing" => proposal'[p] \in {"publishing", "approved"}]_vars

(* Claims of the documentation that the code does not keep.                *)

\* "publication remains retryable" and a worker that retries due rows: an
\* accepted publication is completed or given up.
PublicationSettles ==
    \A j \in Jobs : job[j] # "none" ~> job[j] \in {"completed", "dead"}
=============================================================================
