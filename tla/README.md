# Verification of the AI00 backend

TLA+ models of the parts of this repository whose correctness depends on
interleaving, failure and recovery, the TLC configurations that check them on
small instances, and proofs checked by TLAPS for every instance.

Paths below are relative to the repository's root (`src/`).

## 1. The system

AI00 is a modular backend (Python), a set of plugins, two TypeScript services,
a C# connector that runs on Windows workstations, and several frontends. All
business operations are *capabilities*: consumers (web, agents, MCP, workers,
the connector) call `CapabilityGatewayService.invoke` with an envelope, and the
gateway resolves, authorizes, approves, runs and records the call.

| Component | State | Operations | Interacts with | What is hard | What makes it correct |
|---|---|---|---|---|---|
| Capability gateway, `backend/capability_v2/gateway.py` | one asyncio task for each call, provider threads, pending streams | `request_approval`, `invoke`, `claim_stream`, `reconcile_committed_agent_outcome` | everything below | timeouts that cannot stop a thread, cancellation, lost commit acknowledgements | one run per idempotency scope; the answer is true; no leak |
| Reliability coordinator, `reliability.py` | none of its own | `replay`, `begin`, `complete`, `mark_unknown`, `reconcile_committed` | outcome store, rate limiter | concurrent retries | one row per scope, payload conflicts refused |
| Outcome store, `outcomes.py` | outcome rows, audit outbox rows | `begin`, `complete`, `complete_in_transaction`, `mark_unknown`, `reconcile_completed`, `deliver_audit_outbox` | provider transactions, delivery worker | upserts against deliveries | a verdict is never taken back; event and row agree |
| Approvals, `reliability.py`, `policies.py` | challenge rows | `issue`, `consume` | gateway | reuse of a token | one approval, one run |
| Admission, `resource_budget.py` | counters per tenant, consumer, capability | `acquire`, `release` | gateway | many exits, waiting | leases belong to calls in flight |
| Audit delivery, `plugins/knowledge/.../publication_outbox_worker.py` | ledger rows | `deliver_capability_audit_once`, `run_once` | outcome store, gateway | crash between send and mark | at least once, immutable ledger |
| Agent outbox, `plugins/agent/.../capability_outbox.py`, `data/connection.py` | outbox rows with leases | `record_outbox`, `claim_next`, `mark_delivered`, `retry` | Agent transaction, gateway | lease expiry | a committed write reaches its outcome |
| Durable operations, `operations.py` | operation records with versions | `create`, `transition`, `reconcile` | gateway, providers | compare-and-swap | only legal transitions |
| Revision graph, `capability_v2/revision/` | commits, workspaces, releases | commit, merge, release | digital model, ontology, simulation | concurrent heads | ancestry, no lost commit |
| Managed streams, `gateway.py` | pending streams, an expiry task and a consumer for each | `claim_stream`, `managed`, `_expire_stream`, `_finalize_stream` | outcome store, admission, HTTP consumers | two tasks, every await a cancellation point, clean-up in retried parts | a read is not disturbed; no broken read is completed; all streams settle |
| Agent runtime, `services/agent-runtime` | runs with versions, approvals, stored sessions, one promise chain per run | create, prompt, pause, resume, cancel, decide | gateway, model provider | handlers act on what they read before an await; death of the process | an approved write is replayed once; runs move along their table |
| Connector V2 server, `plugins/simulation/.../connector_repository.py` | sessions, generations, plans with leases, outcomes, recovery sessions, projection outbox | register, restart, take over, queue, lease, complete, acknowledge, reconcile, resolve, project | local runtime, domain projection | lost, late and repeated requests, expiry, takeover | one open plan per device; verdicts are recorded, never guessed |
| Local runtime, `local-runtime/` | plan journal, session in the credential store | lease, execute, deliver, recover, reconcile | connector server, viewer | crash between any two journal entries | no step twice; what is forgotten is closed |
| Knowledge publication, `plugins/knowledge/knowledge_backend/` | proposals, publication outbox, entries, immutable objects | `review_proposal`, `retry_publish`, `run_once` | object store, worker, gateway | claims that lapse while the store hangs, crashes between transactions, deletions | one job and one entry per proposal; all rows agree |
| Plugin platform, ontology, integration, base approval, collaboration | lifecycle rows | activate, mount, propose, release, sync, decide | gateway | multi-step changes | legal states |
| Business plugins, frontends, governance tools, documents | records, files | create, read, update, delete | gateway | little concurrency of their own | under the gateway's guarantees |

`PROJECT.json` lists each component with its status.

## 2. Modules

| Module | Models | Extends |
|---|---|---|
| `OutcomeStore` | the transactions of `SqlOutcomeStore` on outcome rows and audit events | – |
| `AuditDelivery` | the delivery worker, the ledger, and any client of the store around it | `OutcomeStore` |
| `CapabilityGateway` | governed writes: invocation tasks, provider threads, approvals, admission, the Agent dispatcher, process crashes | `OutcomeStore` |
| `GovernedWrite` | the abstract promise of a governed write | – |
| `KnowledgePublication` | reviews, the publication outbox with its claims and attempts, object store, entries, the worker's retries | – |
| `GatewayStreams` | one managed stream: registration, claim, expiry, reading, finalization | – |
| `ConnectorServer` | the repository of Connector V2 for one device, under any caller | – |
| `PlanLifecycle`, `ConnectorPromise` | the abstract promises: of the repository, and of repository and runtime together | –, `PlanLifecycle` |
| `LocalRuntime` | the AppHost composed with the server over a channel that loses and delays | `ConnectorServer` |
| `AgentRuns` | runs, messages, owner's requests, approvals and decisions of the agent runtime | – |
| `MC...` | instances for TLC | the above |
| `...Proofs` | theorems | the above, `TLAPS` |

Operators described as a *mutant* are faulty variants of the operator that
follows them. Nothing uses them; each is put in the place of the original to
make sure that a property notices (`PROJECT.json`, `mutants`).

### OutcomeStore

An element of `Ops` is an operation id minted by `ReliabilityCoordinator.begin`.
`Scope` maps it to its idempotency scope (tenant, consumer, release, capability,
version and key, `idempotency_scope`) and `Payload` to its payload hash. For each
operation the module keeps the `status` of its row, the status inside the audit
event, and whether `delivered_at` is set. One operator is one database
transaction; results, timestamps and identity columns are left out, because no
decision of the store but "the same durable result again" depends on them.
`StoreNext` is any client in any order.

### AuditDelivery

`pending_audit_events` reads a batch (`batch` keeps the rows *as read*); for each
row the sender inserts into the ledger in a transaction of its own (`Send`,
`SendFails`), and then `MarkDelivered` updates the outbox row. `GET_LOCK` admits
one worker, so there is one `batch`. The worker may be killed between any two
transactions. Rows of a batch are sent in any order, the code's `ORDER BY
created_at` being one of them.

### CapabilityGateway

Each element of `Ops` is one invocation and `pc` is where its task is:

| `pc` | where in `invoke` |
|---|---|
| `idle` | not called yet |
| `replay` | accepted by the checks; `reliability.replay` is next |
| `approve`, `admit`, `begin` | `policy.approve`, `admission.acquire`, `reliability.begin` |
| `cancelled` | begin returned to a cancelled task: `_cancel_unstarted_lease` |
| `dispatch`, `running` | lease in hand; provider called |
| `final`, `unknown` | `_finalize_invocation`, before and after its first attempt failed |
| `release` | the admission lease is released and the result projected |
| `done`, `lost` | answered; died with the process |

`worker` is the provider's thread, which the event loop cannot stop: `running`,
`committed` (an eventual provider that committed its own transaction),
`transaction` (a strong provider that handed over an open transaction),
`returned`, `stopped`. `effect` says whether the domain write is committed.
`worker[c] # "idle"` for ever after dispatch, so it also tells that a provider
ran. Database stages run in shielded threads (`_run_sync_stage`,
`_finish_worker`): a cancellation lets them finish, and the actions do the same.

An answer is the `CapabilityStatus` that `invoke` returns, and `named` the row that
its `operation_ref` names; `result` is the status that is recorded with the row. The
same status therefore stands for answers of very different origin, as it does for a
caller. REJECTED is the answer of a check that refused the call before `begin`, and
also that of a dispatched write that timed out or whose provider raised a business
error (`gateway.py:505-515`, `Timeout`, `SettleFailed`): its row is `failed` and keeps
the key, even when the answer is retryable, and `operation_ref` names it. FAILED is the
verdict of a provider, but also what is said when the projection of a committed result
breaks its schema (`gateway.py:638-650`, `Release`) or when a row cannot be read
(`:295-298`, `:372-375`, `Replay`, `BeginWithoutLease`); these carry no `operation_ref`
and say nothing of the write. The caller guide asks callers to depend on `error.code`,
`retryable` and `operation_ref` (`docs/generator.py:394`) and to query or repeat a write
under its key when in doubt (`:401`); `FailedAnswerIsTrue`, `RejectionTellsItsClaim` and
`CompletedAnswerIsTrue` say what can be relied on.

Abstractions: the checks before `replay` are one nondeterministic choice; what an
approval is bound to is its capability and payload; error codes and texts are left
out; providers are synchronous, and a thread that hangs for ever does not use up the
executor of the event loop; streams have a module of their own and reads are left out.
Every database error is possible in every stage, applied or not applied; a cancellation
is possible wherever the task waits.

### GovernedWrite

Two variables, `verdict` and `applied`, and five actions: a scope is claimed
once; an atomic write is applied with its completed verdict; any other is
applied at most once under its claim, acknowledged only after it was applied;
failed and completed are final. `CapabilityGateway` implements it under the
mapping `verdict <- outcome`, `applied <- effect`, `Atomic <-` the invocations
of strong capabilities (`PromiseKept`).

### KnowledgePublication

One function per column of the proposals, outbox and entries tables, and one
process per request (`Calls`) with the place it has reached (`at`). `Approve` and
`Reject` are the transaction of `review_proposal`. The five disjuncts of `PhaseOne`
are the outcomes of the first transaction of `retry_publish`, in the order of its
checks; `StoreSucceeds`, `StoreFails` and `Release` are the object store and the
failure branch; the disjuncts of `Finalize` are the second transaction. Rows are
read with `FOR UPDATE`, so one transaction is one action. `due` abstracts
`next_retry_at` against the clock and `Expire` lets it pass; `lapsed` remembers
for a request that its claim has run out. Users create, change and delete entries
beside the saga, without its row locks (`CreateEntry`, `UpdateEntry`, `DeleteEntry`);
`source_gid` is whatever they say, also of an entry that has been published. So the
lookup by `source_gid` may miss the entry of a proposal or find another one; the
history variable `madeFor` remembers which entries `retry_publish` has inserted. The
worker's retry goes through the checks of the gateway that depend on the
descriptor (`GatewayAdmits`). Titles, tags, visibility of a job to its caller,
heartbeats and the alert of a dead job are left out.

### GatewayStreams

One `_ManagedStream` of a durable write. `at` says where its two tasks are: the
expiry task (`timer`) sleeps and then finalizes; the consumer (`reader`) is between
claim and first read (`unstarted`), asks for the lock (`beginning`), reads, or
closes what it never started (`waiting` for the lock). Inside `_finalize_stream`
both pass through the awaits of `aclose`, `release` and `sleep(0)` (`closing`,
`releasing`, `pausing`), twice at most; the flags `closed`, `recorded` and
`released` are those of the record and survive from one attempt, and from one task,
to the next. A step is what a task does between two awaits of the one event loop.
`asyncio.Task.cancel` reaches a task at its await: the expiry task ends at its
sleep or inside its clean-up (an `aclose` of the provider may swallow it), the
consumer is killed at begin or in its own clean-up. Streams are popped from
`_streams` by id and share nothing else, so one stream stands for all; the metric
always succeeds; every verdict but completed is `failed`. The state dies with the
process; the row it leaves is a lost invocation of `CapabilityGateway`.

### ConnectorServer, PlanLifecycle, LocalRuntime, ConnectorPromise

`ConnectorServer` is one device's part of the repository. Every writer locks the
device's row first, so each method is one action; `Next` lets any caller send any
request with any token ever handed out. `plans` holds a row for each plan: status, the
session it belongs to, lease attempts, whether its lease (`live`) or its time in the
queue (`fresh`) has run out, the recorded outcome (`by`, verdict, journal sequence)
and whether it was reconciled, by probes or by its owner. `recovery` is the recovery session, `intents`, `jobs`
and `applied` are the projection outbox, its workers and the domain. Left out: pairing
and possession challenges, the V1 protocol, plans that only ask for evidence, viewer
interaction; renewals and heartbeats, since an expiry may come at any time; the order
of leases. A session is an id of its own, and `Runtime` gives the generation and
instance id it was installed with, which is what `insert_v2_plan` compares
(`connector_repository.py:806-808`). The shipped host makes up a new instance id each
time (`RuntimeSessionWorker.cs:400`, `:450`), as `MCRuntime` does; the proofs hold for
any `Runtime`, also when a caller registers again under its old id. The status
`executing`, which V2 reads but never writes, does not occur.

`PlanLifecycle` promises that a plan is handed out at most once, one at a time, and
ends in one verdict. `ConnectorServer` implements it under `fate <- Fate(row)`.

`LocalRuntime` extends the server with the host process: `host` is what it remembers,
`journal` what `AppPlanJournal` holds durably (entries folded to lease, step results,
an invocation without a terminal, outcome, marks), `pending`, `done` and `runs` are
the viewer, an external program in a process of its own. A call to the server is one
action with its answer, or is lost and may be served later (`late`). A crash takes
`host` with it, but not what the viewer was asked for: a write that is `pending` may
take effect at any later time, after the call has timed out, the host has stopped,
another process has probed, or the plan has been closed. When the adapter says that a
call had no effect (`ConnectorNoEffectException`, raised before the external program
is called, `AdapterManifest.cs:62`) or that it succeeded, it is taken at its word;
otherwise the result is unknown. A probe proves nothing (`Sights`): it compares what
the viewer shows now with what was wanted, and answers `failed_without_effect` also
when no open document holds the node. Reading the journal, the probes and the
settlement of what is open are `Start`, `Settle`, `Probe` and the actions after them.
`ConnectorPromise` adds what the viewer did. A write takes effect only for a plan that
was handed out, and once the plan is closed only if it was judged by others; a verdict
of the host that executed the plan is exact, success for all writes and failure for
none, and nothing happens after it. Plans come to be `judged`, by probes or by their
owner, only while they are in doubt; of their effects the verdict says nothing.
Abstractions: reads and publications leave nothing to probe; evidence sent again with
an old sequence is refused and the next start settles the plan; a conflict in an
acknowledgement stops the host.

### AgentRuns

`run` and `approval` are the tables, `history` the prompts whose turns the stored
session holds, `chain` the promise chain of a run (`PiRuntime.locks`), and `task` what
a handler knows between two awaits: the run it has read (`seen`), the status it
wants (`goal`), the session it loaded (`base`). `Swap` is `RunStore.transition`:
table and version. Prompts (`Send` ... `Save`), owner's requests (`OwnerAsks`,
`OwnerGets`) and decisions (`DecisionAsked` ... `Unwind`) interleave at every await,
and any call to the database, the backend or the model may fail. The model and the
backend are external. `Reject` is part of the code's behaviour: the promise kept in
`tracked` (`pi-runtime.ts:77`) has no handler, so a message that is refused or fails
ends the Node process with all its handlers, as `Crash` does. Create, read and delete
of sessions, bootstrap of delegations, events and encryption are left out.

## 3. Runs

| Run | Question |
|---|---|
| `audit_delivery` | do outcome, event, outbox and ledger stay consistent under any interleaving, and is every verdict audited? |
| `audit_stale` | does the ledger carry what a delivered event says? It does not. |
| `gateway_strong` | confirmed strong writes: single dispatch, single payment, rejections that are true and tell whether the key is free, no leaks, refinement of `GovernedWrite` |
| `gateway_agent` | Agent writes with a payload conflict and the dispatcher: true answers, every invocation answered, every committed write settled |
| `gateway_streams` | can expiry, claim, close or a retried clean-up disturb a read, complete a broken one, or leave a stream open? |
| `connector_server` | does the repository keep the lifecycle of plans whatever requests arrive, in whatever order? |
| `connector_projection` | is what the domain has applied the outcome that is recorded, while outcomes are corrected and claims lapse? |
| `local_runtime` | host and server together: is nothing carried out twice, is every verdict of the executing host true and final although its calls may outlive it, is every plan closed, does the host get back to work? |
| `local_runtime_batch` | does the server accept what the runtime signs for a partial batch? It does not. |
| `agent_runs` | is an approved write replayed once, do late handlers keep the table, do messages keep each other's turns? |
| `knowledge_publication` | is a reviewed proposal published once or not at all, by any interleaving of reviewers, retries, lapsed claims and crashes? |
| `knowledge_worker` | does the worker finish what a crashed request left? The gateway rejects its retries. |

**Bounds.** Gateway: three invocations in the strong run (a write, its retry, the
same write under another key with the same approval), two in the Agent run (the
temporal check is the expensive part), one capability, two admission leases, one
crash. A second crash meets the states the first one left. Audit: three operations,
two of which compete for a scope, one death of the worker. Streams: one stream of
up to two chunks, so that a read may be broken before, between and after them.
Connector: a write, its repetition and a read, two sessions, one recovery session
and two journal positions; one plan with two workers, two recovery sessions and
three positions in the projection run; a plan of two writes, two crashes or losses
(a second may hit the recovery from the first), and more sessions and recoveries
than two faults can use up, in the runtime run; no fault at all in the batch run.
Agent runs: one run, two messages, two requests, one approval, two deciders, one
crash: every pair of handlers that can meet at one row. Knowledge: one proposal, as
proposals meet only in entries whose `source_gid` users change, and a user may give any
entry this proposal's; two job and entry identities so that a duplicate could
appear; two reviewers beside the author; three requests (a claimant that lapsed, its
successor, a bystander); two or three attempts instead of eight, which reaches the
limit. `CHECK_DEADLOCK FALSE` everywhere: bounded sets of requests come to an end.
Symmetry is used only in runs without liveness.

**Fairness.** `CapabilityGateway`: weak fairness of the gateway's own stages of
each invocation (the event loop runs its tasks, shielded database stages return,
`wait_for` fires) and of the Agent dispatcher, which polls. None for providers,
cancellations, clients or crashes. `AuditDelivery`: weak fairness of the polling
read and of the mark, strong fairness of a successful send: the worker retries
at every poll, and the assumption is that the ledger is not refused for ever.
`GatewayStreams`: the loop runs ready tasks, sleeps end, and `asyncio.timeout` ends
a read; no consumer is bound to claim, to read or to close. `LocalRuntime`: the
user's desktop starts the host again, its loops go on, clocks advance, and the
owner decides on a plan that the runtime cannot prove (`Owner`); without an owner
such a plan waits for ever, by design. `KnowledgePublication` (`FairSpec`, only for
`knowledge_worker`): threads run to their end, time passes, the worker polls, and a
store that is tried for ever answers; no fairness for users nor for crashes.

**Findings.** `audit_stale`: a batch read while the event says `outcome_unknown`
is sent and marked after `reconcile_completed` replaced the payload; the ledger's
`INSERT IGNORE` and the unversioned mark both lose the correction. `LedgerIsHonest`
states what does hold. `knowledge_worker`: the retry capability requires a
confirmation and an idempotency key, the worker sends neither, and it does not
select rows left in `publishing`. `local_runtime_batch`: a batch goes on after a file
that failed and signs `failed_without_effect` over results that end in success;
`OutcomeVerifier.verify_steps` refuses such a record, so it can never be recorded.

**Disagreements met without a run of their own.**

* A committed write whose projection breaks its schema, and a retry whose row cannot
  be read, are answered FAILED (`gateway.py:638-650`, `:295-298`, `:372-375`); only a
  repetition of the key tells the truth. A write that timed out is answered REJECTED
  and retryable, but its key is claimed: a retry under it is answered from the failed
  row and never runs.
* A plan that was left in doubt may be closed by probes as `failed_without_effect`
  although it had an effect: no open document holds the node any more
  (`PostConditionProbes.cs:37-43`, `:54-55`), or the call to the viewer is still
  running ("COM may still run", `RuntimeSessionWorker.cs:382`) and takes effect later;
  and as `succeeded` when the view had been so before. `KeepsPromise` marks such
  verdicts as judged and promises nothing for them.
* A late commit after a timeout, a lost acknowledgement or an output that breaks its
  contract leaves a `failed` row over a committed Agent write; `reconcile_completed`
  refuses it and the outbox retries for ever. `AgentWriteSettles` allows `failed`.
* `review_proposal` answers "approved" without looking at the status that
  `retry_publish` returned; other requests may have used up the attempts.
* The failure branch of `retry_publish` (`outbox_retry_next.py:85`) releases whatever
  claim is there, also one of another request. `CompletedIsFinal` holds all the same.
* A stream whose expiry gave up after two attempts is admitted by
  `_begin_stream_iteration`, since `finalized` is false: its closed iterator ends at
  once and an unread stream is recorded as completed, against "Capability stream
  expired before iteration started" (`gateway.py:757`). `CompletedIsWhole` and
  `ReadsUndisturbed` except that case by name.
* A consumer cancelled during its own finalization leaves the outcome row `started`
  and the admission lease taken; `StreamSettles` excepts it by name.
* A rejected message ends the agent service (`pi-runtime.ts:77`) while
  `server.ts:177-181` means to answer it with 409. A decision that dies between
  `decide` and the invocation leaves its run awaiting an approval that can never be
  decided again. An approval can be decided before its run awaits it
  (`pi-runtime.ts:41-47`), and also when the run is paused or cancelled. Two runs of
  one session overwrite each other's turns: `HistoryKept` speaks of one run.
* Conclusive probes that disagree leave the server in `manual_review_required`, while
  the host marks the plan acknowledged and forgets it (`RuntimeSessionWorker.cs:494`
  against its comment at `:491`).

## 4. Proofs

The eight proof modules prove every safety property of the passing runs, and all
refinements, for all values of the constants, from the named assumptions on
constants alone. Some invariants are proved and in no run
(`CompletedMeansCommitted`, `OneRowPerScope`, `LedgerIsHonest`, `DeliveredIsInLedger`,
`LedgerIsImmutable`, `OneJobPerProposal`, `DecisionsAreFinal`, `OneUnresolved`,
`LeasedOnce`, `ClosedIsFinal`): a proof needs no instance.

The gateway's inductive invariant `Inv` is a conjunction of parts, each with a
step lemma that has one step per action:

* `TypeOK`.
* `RowInv`: what `pc`, `worker`, `effect` and `answer` of an invocation say of its
  own row, with `OneRowPerScope`. The provider runs only under its own row, and a
  scope has one row, hence `ScopeDispatchedOnce`; a rejected answer goes with no row
  and no run, or names the failed row of its key, hence `RejectionTellsItsClaim`.
* `PaidInv`: an invocation *owns* its token from its consumption on (`Paid`), not
  only when the provider runs; that makes `ApprovalPaysOnce` inductive.
* `CommitInv`: a success is finalized only with the open transaction in hand
  (strong) or after the commit (eventual), and only Agent writes have outbox rows;
  with it `CompletedMeansCommitted` is inductive, the reconciler included.
* `AnswerInv`: an answer is traced to a row. The row that a rejected or failed answer
  names is a failed row of its scope, and a failed row of a strong write can never gain
  an effect; an answer of the gateway itself names none.
* `LeasesAreInFlight` is inductive as it stands.

`Refinement` maps each action to an action of `GovernedWrite` or to a stutter;
only `BeginLease`, `BeginWithoutLease`, `CancelLease`, `OperationCreateFails`,
`ProviderCommits`, `Finalize`, `RecordUnknown` and `Reconcile` are not stutters.

`AuditDeliveryProofs` proves one lemma about the transactions of the store
(`StoreStep`: its invariant is kept and no verdict is taken back) and uses it for
the delivery worker, whose invariant says that the batch in its hands is the
outcome, or was while the outcome was unknown, and that an event that is sent
and not yet marked is in the ledger.

`KnowledgePublicationProofs` has an invariant in three parts with one step lemma each:
`Shape` (types; a request holds an existing job, and an object once it is stored),
`Saga` (a job belongs to an accepted proposal, one job per proposal, and approved,
completed and published go together) and `Outcome` (once the saga has inserted an
entry, `madeFor`, *every* job of the proposal is completed; hence no other request
gets past the check of phase 2, and `PublishedOnce` is inductive although entries may
be deleted or given another `source_gid`). The assumptions are those of
`PublicationAssumption`: proposals have authors, there is at least one attempt, and
NULL is no identifier.

`ConnectorServerProofs`: `Moves` lists what a request may do to one row, every action
moves rows in these ways only, and single-row facts (`RowOK`: the status against
session, attempts, lease and outcome) follow from `Moves` alone. The facts about pairs
(`OneUnresolved`, `EquivalentsWait`, `RepeatsAreSafe`) need what is also asked of the
step that opens a plan: `LeaseFree`, `Repeatable`. `RepeatsAreSafe` compares a queued
write with an earlier success of another runtime, which makes
`WritesRepeatedKnowingly` inductive. `KeepsLifecycle` maps moves of rows to
`PlanLifecycle!Moves`. For the projection, a claim that is held goes with the outcome
it has read (`ClaimsAreCurrent`), since nothing replaces an outcome while it is being
projected.

`LocalRuntimeProofs` assumes nothing about the server, so what it proves holds
whatever is answered to any call, for any number of plans, crashes and losses (the run
has one plan and two faults). The entry of a plan accounts for what the viewer did and
may yet do (`EntryOK`, `Covers`): a write that took effect belongs to a journalled
step; one that the viewer has not come to an end with belongs to the last step of an
entry that is open or of unknown outcome, where no further step is ever started. This
survives the host's death, hence `CarriedOutOnce` also for calls that outlive it.
`WorksOnOnePlan` needs to know what a host that is not settling has left open: nothing
but the plan in its hands (`TodoOK`).

`ConnectorPromiseProofs` is about runtime and server together, and cites the
invariants of both. A verdict is `Honest` if it agrees with the writes that have
taken effect and none is on its way. The argument goes in two halves:

* Server: every record a step makes is honest, or is evidence about a plan that the
  journal leaves in doubt and marked as such (`ServerStep`, `ReconcileIsMarked`). The
  journal is true of each step (`EntryInv`), so results that pass `VerifySteps` are
  honest (`VerifiedIsHonest`). Nothing is claimed of evidence but that it concerns a
  plan in doubt (`EvidenceOK`), since probes prove nothing. A request left behind is as
  good as when it was sent (`LateInv`): a signed outcome never changes, and if it is a
  verdict no write of its plan is on its way. From this and `Moves`, the rows that
  nobody has judged (`reconciled` unset) stay honest, and a write is on its way only for
  a plan that is unresolved or was judged (`PlanInv`, `RowsAgree`).
* Runtime: every action keeps the entries true, marks a plan as acknowledged only
  when its row is closed or its outcome in doubt, and asks the viewer for a write
  only under a live lease (`LocalStep`, one lemma for each action).

`Together` joins them to the inductive `RuntimeInv`. From it follow `RuntimeTypeOK`,
`DeliveredIsClosed` and `KeepsPromise`: `TakesEffect` maps to the promise's
`TakesEffect` (`EffectIsPromised`), every other step to a truthful step of the lifecycle
that judges only plans in doubt (`VerdictIsTruthful`, `JudgedFate`). The run has one
plan and two faults; the theorems hold for any number of plans, steps, crashes, lost
and late calls. `DoubtIsRecordable` delimits the finding of `SignedOutcomesVerify`: of
a plan that is no batch, success and doubt always pass the verification, and so does
every outcome of a single step. What can be refused for good is a failure that
follows a write, or one that a new process journals after another.

`AgentRunsProofs`: what a handler has read is never newer than the run, and is the
run itself when the versions agree (`SeenIsPast`), hence a swap follows the table;
one decision at a time holds a request that was approved and not replayed
(`ReplayOK`); a prompt at work is the head of its chain (`Serial`), hence
`HistoryKept`. Runs, messages, approvals and crashes are arbitrary.

`GatewayStreamsProofs`: the lock admits one finalizer; before iteration a stream is
untouched as long as its expiry task sleeps, and finalized when that task is over
(`EarlyOK`), so begin admits only untouched streams, or those of a task that gave up;
who wants to record completed has read everything (`VerdictOK`).

Only model-checked: the liveness properties (`InvocationReturns`,
`AgentWriteSettles`, `EveryVerdictIsAudited`, `StreamSettles`, `PlanSettles`,
`HostWorksAgain`), which need fairness: a proof of them would need ENABLED.

## 5. Not modelled

* Durable operations (`operations.py`): the gateway makes an operation and fails it;
  the device commands that would move it further have no caller outside the tests,
  so no behaviour of the program reaches the rest of the table.
* Gateway: reads, coroutine providers, the rate limiter's windows, waiting for an
  admission slot; claims, leases and delays of the Agent outbox are abstracted to a
  dispatcher that delivers again and again.
* Connector: pairing, challenges, V1, viewer interactions, capture, cloud model cache.
* Agent: canvas execution and graph runs of the Python plugin.
* Revision graph and base approval: each change is one transaction that locks a row
  and compares its head or state; a model of them alone would restate that guard.
* Plugin platform, ontology proposals, integration sync, the simulation workspace:
  not read to the depth that a faithful model needs.
* Pure decision functions (catalog, authorization, projection), code generation and
  governance reports, frontends, CAD and native adapters, create, read, update and
  delete of the business plugins. The repository is large and most of it is of this
  kind, so the mapped lines are a small share of it.
