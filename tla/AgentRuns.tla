----------------------------- MODULE AgentRuns -----------------------------
(***************************************************************************)
(* The agent runtime service: runs, the prompts that drive them, the       *)
(* requests of their owner, and the approvals of the writes they ask for.  *)
(* Every handler reads a run, awaits something and swaps its status on the *)
(* version it has read (RunStore.transition).  Prompts of one run form a   *)
(* chain of promises; those of two runs of one session do not.  Nobody     *)
(* handles the rejection of the last promise of a chain (`tracked`), which *)
(* ends a Node process: a prompt that is refused or fails takes every      *)
(* handler of the service with it.                                         *)
(***************************************************************************)
EXTENDS Integers, Sequences

CONSTANTS
    Runs,         \* runs of one session
    Prompts,      \* messages
    Requests,     \* pause, resume and cancel requests of the owner
    Of,           \* the run a message or a request of the owner is about
    Approvals,    \* approval requests
    Decisions,    \* requests that decide on an approval
    Nothing,      \* no run, no approval
    MaxCrashes    \* how often the service dies

ASSUME RunsAssumption ==
    /\ Of \in [Prompts \cup Requests -> Runs]
    /\ Nothing \notin Runs \cup Approvals
    /\ Decisions \cap (Prompts \cup Requests) = {}
    /\ Prompts \cap Requests = {}
    /\ MaxCrashes \in Nat

VARIABLES
    run,        \* workmanship_agent_runs: status and version
    approval,   \* workmanship_agent_run_approvals: run and status
    history,    \* the prompts whose turns the stored session holds
    carried,    \* how often the backend was told to carry out an approved write
    chain,      \* the promise chain of a run (PiRuntime.locks)
    task,       \* the local variables of a handler, and where it stands
    crashes

vars == <<run, approval, history, carried, chain, task, crashes>>

Terminal == {"completed", "failed", "cancelled", "outcome_unknown"}

\* The table of legal transitions.
transitions ==
    [none |-> {"pending"},
     pending |-> {"running", "paused", "cancelled", "failed"},
     running |-> {"paused", "awaiting_approval", "completed", "failed", "cancelled"},
     paused |-> {"running", "cancelled", "failed"},
     awaiting_approval |-> {"running", "cancelled", "failed", "outcome_unknown"},
     completed |-> {}, failed |-> {}, cancelled |-> {}, outcome_unknown |-> {}]

Statuses == DOMAIN transitions
Handlers == Prompts \cup Requests \cup Decisions
NoRun == [status |-> "none", version |-> 0]

\* What a handler knows: the run it has read, the status it wants, the session it
\* has loaded, and the approval it is about.
Fresh == [at |-> "idle", seen |-> NoRun, goal |-> "none", base |-> {}, about |-> Nothing]
Over == [Fresh EXCEPT !.at = "over"]

Places == {"idle", "over", "asked", "queued", "starting", "loading", "working", "awaiting",
           "closing", "erring", "saving", "deciding", "confirming", "invoking",
           "recording", "settling", "unwinding"}

RunType == [status : Statuses, version : Nat]
ApprovalType == [run : Runs \cup {Nothing},
                 status : {"none", "pending", "approved", "rejected"}]
TaskType == [at : Places, seen : RunType, goal : Statuses \ {"pending"},
             base : SUBSET Prompts, about : Approvals \cup {Nothing}]

\* Places of a prompt that has loaded the session.
Loaded == {"working", "asked", "awaiting", "closing", "erring", "saving"}

TypeOK ==
    /\ run \in [Runs -> RunType]
    /\ approval \in [Approvals -> ApprovalType]
    /\ \A a \in Approvals : approval[a].status = "none" <=> approval[a].run = Nothing
    /\ history \subseteq Prompts
    /\ carried \in [Approvals -> Nat]
    /\ chain \in [Runs -> Seq(Prompts)]
    /\ task \in [Handlers -> TaskType]
    /\ crashes \in 0..MaxCrashes

Init ==
    /\ run = [r \in Runs |-> NoRun]
    /\ approval = [a \in Approvals |-> [run |-> Nothing, status |-> "none"]]
    /\ history = {}
    /\ carried = [a \in Approvals |-> 0]
    /\ chain = [r \in Runs |-> <<>>]
    /\ task = [h \in Handlers |-> Fresh]
    /\ crashes = 0

-----------------------------------------------------------------------------
(* RunStore.transition.                                                    *)

At(h, where) == task[h].at = where

\* The handler goes on; the run it has read is out of scope.
Goto(h, where) == task' = [task EXCEPT ![h].at = where, ![h].seen = NoRun]

\* It goes on and knows what it wants of its run.
Aim(h, want, where) ==
    task' = [task EXCEPT ![h].at = where, ![h].seen = NoRun, ![h].goal = want]

\* runs.load: it also keeps what it has read.
Read(h, r, want, where) ==
    task' = [task EXCEPT ![h].at = where, ![h].seen = run[r], ![h].goal = want]

End(h) == task' = [task EXCEPT ![h] = Over]

\* Mutant of Swap: the update does not name the version.
SwapUnversioned(h, r) ==
    /\ task[h].goal \in transitions[task[h].seen.status]
    /\ run' = [run EXCEPT ![r] = [status |-> task[h].goal, version |-> @.version + 1]]

\* The table allows the step and nobody has moved the run since it was read.
Swap(h, r) ==
    /\ task[h].seen.version = run[r].version
    /\ task[h].goal \in transitions[task[h].seen.status]
    /\ run' = [run EXCEPT ![r] = [status |-> task[h].goal, version |-> @.version + 1]]

-----------------------------------------------------------------------------
(* POST /v1/runs; the owner pauses, resumes and cancels.                   *)

Create(r) ==
    /\ run[r] = NoRun
    /\ run' = [run EXCEPT ![r] = [status |-> "pending", version |-> 1]]
    /\ UNCHANGED <<approval, history, carried, chain, task, crashes>>

OwnerAsks(o, want) ==
    /\ At(o, "idle")
    /\ run[Of[o]] # NoRun
    /\ Read(o, Of[o], want, "asked")
    /\ UNCHANGED <<run, approval, history, carried, chain, crashes>>

\* A conflict, an illegal step and a failing database all answer an error.
OwnerGets(o) ==
    /\ At(o, "asked")
    /\ Swap(o, Of[o]) \/ UNCHANGED run
    /\ End(o)
    /\ UNCHANGED <<approval, history, carried, chain, crashes>>

-----------------------------------------------------------------------------
(* PiRuntime.promptRun.                                                    *)

IsNext(p) == chain[Of[p]] # <<>> /\ Head(chain[Of[p]]) = p

Send(p) ==
    /\ At(p, "idle")
    /\ run[Of[p]] # NoRun
    /\ chain' = [chain EXCEPT ![Of[p]] = Append(@, p)]
    /\ Goto(p, "queued")
    /\ UNCHANGED <<run, approval, history, carried, crashes>>

\* The promise of p resolves, and the next of its chain may begin.
Resolve(p) ==
    /\ chain' = [chain EXCEPT ![Of[p]] = Tail(@)]
    /\ End(p)

\* The process is gone, and with it handlers and promises; the tables stay.
Die ==
    /\ chain' = [r \in Runs |-> <<>>]
    /\ task' = [h \in Handlers |-> IF At(h, "idle") THEN Fresh ELSE Over]

\* The promise of p is rejected, with every promise chained to it, and nobody
\* handles the last one.
Reject(p) == Die

\* Mutant of IsTurnOf: a prompt does not wait for those before it.
IsTurnOfAnyone(p) == At(p, "queued")

IsTurnOf(p) == At(p, "queued") /\ IsNext(p)

\* A terminal or awaiting run refuses the message; a running one goes on.
Begin(p) ==
    /\ IsTurnOf(p)
    /\ LET status == run[Of[p]].status IN
       \/ /\ status \in Terminal \cup {"awaiting_approval"}
          /\ Reject(p)
       \/ /\ status = "running"
          /\ Goto(p, "loading")
          /\ UNCHANGED chain
       \/ /\ status \in {"pending", "paused"}
          /\ Read(p, Of[p], "running", "starting")
          /\ UNCHANGED chain
    /\ UNCHANGED <<run, approval, history, carried, crashes>>

Start(p) ==
    /\ At(p, "starting")
    /\ \/ Swap(p, Of[p]) /\ Goto(p, "loading") /\ UNCHANGED chain
       \/ Reject(p) /\ UNCHANGED run
    /\ UNCHANGED <<approval, history, carried, crashes>>

\* The session and the catalog are fetched; when one fails the run stays running.
Load(p) ==
    /\ At(p, "loading")
    /\ \/ /\ task' = [task EXCEPT ![p].at = "working", ![p].base = history]
          /\ UNCHANGED chain
       \/ Reject(p)
    /\ UNCHANGED <<run, approval, history, carried, crashes>>

\* Mutant of Requested: the request does not name its run.
RequestedForNobody(r) == [run |-> Nothing, status |-> "pending"]

Requested(r) == [run |-> r, status |-> "pending"]

\* A tool of the model is answered confirmation_required.
AskApproval(p, a) ==
    /\ At(p, "working")
    /\ approval[a].status = "none"
    /\ approval' = [approval EXCEPT ![a] = Requested(Of[p])]
    /\ Goto(p, "asked")
    /\ UNCHANGED <<run, history, carried, chain, crashes>>

\* The run is loaded again, and awaits approval if it is still running.
LoadToAwait(p) ==
    /\ At(p, "asked")
    /\ IF run[Of[p]].status = "running"
       THEN Read(p, Of[p], "awaiting_approval", "awaiting")
       ELSE Goto(p, "working")
    /\ UNCHANGED <<run, approval, history, carried, chain, crashes>>

\* An error is an answer of the tool; in either case the model goes on.
Await(p) ==
    /\ At(p, "awaiting")
    /\ Swap(p, Of[p]) \/ UNCHANGED run
    /\ Goto(p, "working")
    /\ UNCHANGED <<approval, history, carried, chain, crashes>>

\* The model is done, fails or is aborted; only a running run is closed.
Finish(p, want) ==
    /\ \/ At(p, "working")
       \/ At(p, "erring") /\ want # "completed"
    /\ IF run[Of[p]].status = "running"
       THEN Read(p, Of[p], want, "closing")
       ELSE Aim(p, want, "saving")
    /\ UNCHANGED <<run, approval, history, carried, chain, crashes>>

\* When the run cannot be completed the handler fails and closes it as failed.
Close(p) ==
    /\ At(p, "closing")
    /\ \/ Swap(p, Of[p]) /\ Goto(p, "saving")
       \/ /\ Goto(p, IF task[p].goal = "completed" THEN "erring" ELSE "saving")
          /\ UNCHANGED run
    /\ UNCHANGED <<approval, history, carried, chain, crashes>>

\* The session is stored as it was loaded, with the turns of p; an error ends p.
Save(p) ==
    /\ At(p, "saving")
    /\ \/ /\ history' = task[p].base \cup {p}
          /\ IF task[p].goal = "completed" THEN Resolve(p) ELSE Reject(p)
       \/ Reject(p) /\ UNCHANGED history
    /\ UNCHANGED <<run, approval, carried, crashes>>

-----------------------------------------------------------------------------
(* POST /v1/runs/{run}/approvals/{approval}/decision.                      *)

RunOf(d) == approval[task[d].about].run

DecisionAsked(d, a) ==
    /\ At(d, "idle")
    /\ approval[a].status # "none"
    /\ task' = [task EXCEPT ![d] = [Fresh EXCEPT !.at = "deciding", !.about = a,
                                                !.seen = run[approval[a].run]]]
    /\ UNCHANGED <<run, approval, history, carried, chain, crashes>>

\* Mutant of Undecided: the update does not name the status.
UndecidedOrNot(a) == approval[a].status # "none"

Undecided(a) == approval[a].status = "pending"

\* A rejection also cancels the run, if it was awaiting when it was read.
Decide(d, v) ==
    /\ At(d, "deciding")
    /\ Undecided(task[d].about)
    /\ approval' = [approval EXCEPT ![task[d].about].status = v]
    /\ \/ v = "approved" /\ Goto(d, "confirming")
       \/ /\ v = "rejected" /\ task[d].seen.status = "awaiting_approval"
          /\ task' = [task EXCEPT ![d].at = "unwinding", ![d].goal = "cancelled"]
       \/ v = "rejected" /\ task[d].seen.status # "awaiting_approval" /\ End(d)
    /\ UNCHANGED <<run, history, carried, chain, crashes>>

DecidedAlready(d) ==
    /\ At(d, "deciding")
    /\ ~Undecided(task[d].about)
    /\ End(d)
    /\ UNCHANGED <<run, approval, history, carried, chain, crashes>>

\* confirmDelegated: until it is answered nothing can have been carried out.
Confirm(d) ==
    /\ At(d, "confirming")
    /\ Goto(d, "invoking") \/ Aim(d, "failed", "erring")
    /\ UNCHANGED <<run, approval, history, carried, chain, crashes>>

\* invokeDelegated with the approval reference: carried out and answered, refused,
\* or lost on the way there or back.
Invoke(d) ==
    /\ At(d, "invoking")
    /\ \/ \E answer \in {"running", "failed"} : Aim(d, answer, "recording")
       \/ Aim(d, "outcome_unknown", "erring")
    /\ \/ carried' = [carried EXCEPT ![task[d].about] = @ + 1]
       \/ task'[d].goal # "running" /\ UNCHANGED carried
    /\ UNCHANGED <<run, approval, history, chain, crashes>>

\* Something after the invocation fails: catalog, projection, tool result, run.
Fails(d) == Aim(d, "outcome_unknown", "erring")

\* The result is recorded and an awaiting run goes on, or fails.
Record(d) ==
    /\ At(d, "recording")
    /\ \/ Fails(d)
       \/ IF run[RunOf(d)].status = "awaiting_approval"
          THEN Read(d, RunOf(d), task[d].goal, "settling")
          ELSE End(d)
    /\ UNCHANGED <<run, approval, history, carried, chain, crashes>>

Settle(d) ==
    /\ At(d, "settling")
    /\ \/ Swap(d, RunOf(d)) /\ End(d)
       \/ Fails(d) /\ UNCHANGED run
    /\ UNCHANGED <<approval, history, carried, chain, crashes>>

\* The catch block: an awaiting run becomes failed or outcome_unknown.
Catch(d) ==
    /\ At(d, "erring")
    /\ IF run[RunOf(d)].status = "awaiting_approval"
       THEN Read(d, RunOf(d), task[d].goal, "unwinding")
       ELSE End(d)
    /\ UNCHANGED <<run, approval, history, carried, chain, crashes>>

Unwind(d) ==
    /\ At(d, "unwinding")
    /\ Swap(d, RunOf(d)) \/ UNCHANGED run
    /\ End(d)
    /\ UNCHANGED <<approval, history, carried, chain, crashes>>

-----------------------------------------------------------------------------

Crash ==
    /\ crashes < MaxCrashes
    /\ crashes' = crashes + 1
    /\ Die
    /\ UNCHANGED <<run, approval, history, carried>>

Owner(o) ==
    \/ \E want \in {"paused", "running", "cancelled"} : OwnerAsks(o, want)
    \/ OwnerGets(o)

Prompt(p) ==
    \/ Send(p) \/ Begin(p) \/ Start(p) \/ Load(p)
    \/ LoadToAwait(p) \/ Await(p) \/ Close(p) \/ Save(p)
    \/ \E a \in Approvals : AskApproval(p, a)
    \/ \E want \in {"completed", "failed", "cancelled"} : Finish(p, want)

Decision(d) ==
    \/ \E a \in Approvals : DecisionAsked(d, a)
    \/ \E v \in {"approved", "rejected"} : Decide(d, v)
    \/ DecidedAlready(d) \/ Confirm(d) \/ Invoke(d)
    \/ Record(d) \/ Settle(d) \/ Catch(d) \/ Unwind(d)

Next ==
    \/ \E r \in Runs : Create(r)
    \/ \E o \in Requests : Owner(o)
    \/ \E p \in Prompts : Prompt(p)
    \/ \E d \in Decisions : Decision(d)
    \/ Crash

Spec == Init /\ [][Next]_vars

-----------------------------------------------------------------------------
(* Properties.                                                             *)

\* Whoever decides, twice or at the same moment, an approved write is replayed
\* at most once, and a rejected one never (approvals.decide before invokeDelegated).
CarriedOutOnce ==
    \A a \in Approvals :
        /\ carried[a] <= 1
        /\ carried[a] > 0 => approval[a].status = "approved"

\* Prompts, owner and decisions move a run along the table although each of them
\* acts on what it read before an await: no late handler revives a cancelled run.
RunsMoveLegally ==
    [][\A r \in Runs : run'[r].status # run[r].status =>
           run'[r].status \in transitions[run[r].status]]_vars

\* Requests of a run are serialized so that none overwrites what another has
\* stored (promptRun): what a prompt is going to save holds every turn stored so
\* far.  That is so in a session of one run only: prompts of two runs overlap.
HistoryKept ==
    \A p, q \in Prompts :
        /\ task[p].at \in Loaded
        /\ q \in history
        /\ \A s \in Prompts : Of[s] = Of[p]
        => q \in task[p].base
=============================================================================
