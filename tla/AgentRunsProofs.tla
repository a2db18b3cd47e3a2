-------------------------- MODULE AgentRunsProofs --------------------------
(***************************************************************************)
(* The runs of the agent runtime: what a handler has read is never newer   *)
(* than the run, and is the run itself when the versions agree; of the     *)
(* decisions on one approval one gets past the database; of the prompts of *)
(* one run only the head of the chain is at work.                          *)
(***************************************************************************)
EXTENDS AgentRuns, TLAPS

\* The run a handler swaps.
RunFor(h) == IF h \in Decisions THEN RunOf(h) ELSE Of[h]

\* Only a handler at work knows anything.
RestOK ==
    \A h \in Handlers : task[h].at \in {"idle", "over"} => task[h].seen = NoRun

\* A decision at work is about a request that has been made.
AboutOK ==
    \A d \in Decisions :
        task[d].at \notin {"idle", "over"} =>
            task[d].about \in Approvals /\ approval[task[d].about].status # "none"

\* A version that is still current was read with the status it still has.
Past(h) ==
    task[h].seen # NoRun =>
        /\ task[h].seen.version <= run[RunFor(h)].version
        /\ task[h].seen.version = run[RunFor(h)].version =>
               task[h].seen.status = run[RunFor(h)].status

SeenIsPast == \A h \in Handlers : Past(h)

Replaying(d) == task[d].at \in {"confirming", "invoking"}

\* One decision replays the request, and nobody has before it.
ReplayOK ==
    \A d \in Decisions :
        Replaying(d) =>
            /\ approval[task[d].about].status = "approved"
            /\ carried[task[d].about] = 0
            /\ \A e \in Decisions : Replaying(e) /\ task[e].about = task[d].about => e = d

AtWork == Loaded \cup {"starting", "loading"}

\* A prompt at work is the head of the chain of its run.
Serial ==
    \A p \in Prompts :
        task[p].at \in AtWork => chain[Of[p]] # <<>> /\ Head(chain[Of[p]]) = p

Inv == TypeOK /\ RestOK /\ AboutOK /\ SeenIsPast /\ ReplayOK /\ CarriedOutOnce /\ Serial /\ HistoryKept

-----------------------------------------------------------------------------
(* The state is typed.                                                     *)

LEMMA StatusesAre ==
    Statuses = {"none", "pending", "running", "paused", "awaiting_approval",
                "completed", "failed", "cancelled", "outcome_unknown"}
  BY DEF Statuses, transitions

LEMMA NothingRead == NoRun \in RunType
  BY StatusesAre DEF NoRun, RunType

LEMMA FreshTyped == Fresh \in TaskType /\ Over \in TaskType
  BY NothingRead, StatusesAre DEF Fresh, Over, TaskType, Places

LEMMA TypeInit == Init => TypeOK
  BY RunsAssumption, NothingRead, FreshTyped DEF Init, TypeOK, ApprovalType

LEMMA FieldsTyped ==
    ASSUME TypeOK, NEW h \in Handlers
    PROVE  /\ task[h].at \in Places
           /\ task[h].seen \in RunType
           /\ task[h].goal \in Statuses \ {"pending"}
           /\ task[h].base \subseteq Prompts
           /\ task[h].about \in Approvals \cup {Nothing}
  BY DEF TypeOK, TaskType

LEMMA GotoTyped ==
    ASSUME TypeOK, NEW h \in Handlers, NEW where \in Places, Goto(h, where)
    PROVE  task' \in [Handlers -> TaskType]
<1> DEFINE t == [task[h] EXCEPT !.at = where, !.seen = NoRun]
<1>1. t \in TaskType
  BY NothingRead DEF TypeOK, TaskType
<1>2. task' = [task EXCEPT ![h] = t]
  BY DEF TypeOK, Goto
<1>3. QED
  BY <1>1, <1>2 DEF TypeOK

LEMMA AimTyped ==
    ASSUME TypeOK, NEW h \in Handlers, NEW where \in Places,
           NEW want \in Statuses \ {"pending"}, Aim(h, want, where)
    PROVE  task' \in [Handlers -> TaskType]
<1> DEFINE g == [task[h] EXCEPT !.at = where, !.seen = NoRun]
<1> task[h] \in TaskType
  BY DEF TypeOK
<1>1. g \in TaskType
  BY NothingRead DEF TaskType
<1>2. [g EXCEPT !.goal = want] \in TaskType
  BY <1>1 DEF TaskType
<1>3. task' = [task EXCEPT ![h] = [task[h] EXCEPT !.at = where, !.seen = NoRun, !.goal = want]]
  BY DEF TypeOK, Aim
<1>4. [g EXCEPT !.goal = want] = [task[h] EXCEPT !.at = where, !.seen = NoRun, !.goal = want]
  OBVIOUS
<1>5. QED
  BY <1>1, <1>2, <1>3, <1>4 DEF TypeOK

LEMMA ReadTyped ==
    ASSUME TypeOK, NEW h \in Handlers, NEW where \in Places, NEW r \in Runs,
           NEW want \in Statuses \ {"pending"}, Read(h, r, want, where)
    PROVE  task' \in [Handlers -> TaskType]
<1> DEFINE g == [task[h] EXCEPT !.at = where, !.seen = run[r]]
<1> task[h] \in TaskType
  BY DEF TypeOK
<1> run[r] \in RunType
  BY DEF TypeOK
<1>1. g \in TaskType
  BY NothingRead DEF TaskType
<1>2. [g EXCEPT !.goal = want] \in TaskType
  BY <1>1 DEF TaskType
<1>3. task' = [task EXCEPT ![h] = [task[h] EXCEPT !.at = where, !.seen = run[r], !.goal = want]]
  BY DEF TypeOK, Read
<1>4. [g EXCEPT !.goal = want] = [task[h] EXCEPT !.at = where, !.seen = run[r], !.goal = want]
  OBVIOUS
<1>5. QED
  BY <1>1, <1>2, <1>3, <1>4 DEF TypeOK

LEMMA EndTyped ==
    ASSUME TypeOK, NEW h \in Handlers, End(h)
    PROVE  task' \in [Handlers -> TaskType]
  BY FreshTyped DEF TypeOK, End

LEMMA DieTyped ==
    ASSUME TypeOK, Die
    PROVE  task' \in [Handlers -> TaskType] /\ chain' \in [Runs -> Seq(Prompts)]
  BY FreshTyped DEF TypeOK, Die

LEMMA SwapTyped ==
    ASSUME TypeOK, NEW h \in Handlers, NEW r \in Runs, Swap(h, r)
    PROVE  run' \in [Runs -> RunType]
<1>1. task[h].goal \in Statuses /\ run[r].version \in Nat
  BY DEF TypeOK, TaskType, RunType
<1>2. QED
  BY <1>1 DEF TypeOK, Swap, RunType

\* The run a decision is about.
LEMMA RunOfTyped ==
    ASSUME TypeOK, AboutOK, NEW d \in Decisions, task[d].at \notin {"idle", "over"}
    PROVE  RunOf(d) \in Runs /\ task[d].about \in Approvals
  BY RunsAssumption DEF TypeOK, ApprovalType, AboutOK, RunOf

LEMMA TypeStep == TypeOK /\ AboutOK /\ Serial /\ [Next]_vars => TypeOK'
<1> SUFFICES ASSUME TypeOK, AboutOK, Serial, [Next]_vars
             PROVE  TypeOK'
  OBVIOUS
<1> USE RunsAssumption
<1>1. ASSUME NEW r \in Runs, Create(r)
      PROVE  TypeOK'
  BY <1>1, StatusesAre
     DEF Create, NoRun, RunType, TypeOK, Handlers, Places, At
<1>2. ASSUME NEW o \in Requests, NEW w \in {"paused", "running", "cancelled"}, OwnerAsks(o, w)
      PROVE  TypeOK'
  BY <1>2, ReadTyped, StatusesAre
     DEF OwnerAsks, TypeOK, Handlers, Places, At
<1>3. ASSUME NEW o \in Requests, OwnerGets(o)
      PROVE  TypeOK'
  BY <1>3, SwapTyped, EndTyped, StatusesAre
     DEF OwnerGets, TypeOK, Handlers, Places, At
<1>4. ASSUME NEW p \in Prompts, Send(p)
      PROVE  TypeOK'
  <2>1. task' \in [Handlers -> TaskType]
    BY <1>4, GotoTyped DEF Send, Handlers, Places
  <2>2. Of[p] \in Runs /\ chain[Of[p]] \in Seq(Prompts)
    BY DEF TypeOK
  <2>3. chain' \in [Runs -> Seq(Prompts)]
    BY <1>4, <2>2 DEF Send, TypeOK
  <2>4. QED
    BY <1>4, <2>1, <2>3 DEF Send, TypeOK
<1>5. ASSUME NEW p \in Prompts, Begin(p)
      PROVE  TypeOK'
  BY <1>5, GotoTyped, DieTyped, ReadTyped, StatusesAre
     DEF Begin, Reject, TypeOK, Handlers, Places, At
<1>6. ASSUME NEW p \in Prompts, Start(p)
      PROVE  TypeOK'
  BY <1>6, SwapTyped, GotoTyped, DieTyped, StatusesAre
     DEF Start, Reject, TypeOK, Handlers, Places, At
<1>7. ASSUME NEW p \in Prompts, Load(p)
      PROVE  TypeOK'
  <2>1. CASE Reject(p)
    BY <1>7, <2>1, DieTyped DEF Load, Reject, TypeOK
  <2>2. CASE task' = [task EXCEPT ![p].at = "working", ![p].base = history] /\ UNCHANGED chain
    <3> task[p] \in TaskType /\ p \in Handlers /\ history \subseteq Prompts
      BY DEF TypeOK, Handlers
    <3>1. [task[p] EXCEPT !.at = "working", !.base = history] \in TaskType
      BY DEF TaskType, Places
    <3>2. task' \in [Handlers -> TaskType]
      BY <2>2, <3>1 DEF TypeOK
    <3>3. QED
      BY <1>7, <2>2, <3>2 DEF Load, TypeOK
  <2>3. QED
    BY <1>7, <2>1, <2>2 DEF Load
<1>8. ASSUME NEW p \in Prompts, NEW a \in Approvals, AskApproval(p, a)
      PROVE  TypeOK'
  <2>1. task' \in [Handlers -> TaskType]
    BY <1>8, GotoTyped DEF AskApproval, Handlers, Places
  <2>2. QED
    BY <1>8, <2>1 DEF AskApproval, Requested, TypeOK, ApprovalType
<1>9. ASSUME NEW p \in Prompts, LoadToAwait(p)
      PROVE  TypeOK'
  BY <1>9, ReadTyped, GotoTyped, StatusesAre
     DEF LoadToAwait, TypeOK, Handlers, Places, At
<1>10. ASSUME NEW p \in Prompts, Await(p)
      PROVE  TypeOK'
  BY <1>10, SwapTyped, GotoTyped, StatusesAre
     DEF Await, TypeOK, Handlers, Places, At
<1>11. ASSUME NEW p \in Prompts, NEW w \in {"completed", "failed", "cancelled"}, Finish(p, w)
      PROVE  TypeOK'
  BY <1>11, ReadTyped, AimTyped, StatusesAre
     DEF Finish, TypeOK, Handlers, Places, At
<1>12. ASSUME NEW p \in Prompts, Close(p)
      PROVE  TypeOK'
  BY <1>12, SwapTyped, GotoTyped, StatusesAre
     DEF Close, TypeOK, Handlers, Places, At
<1>13. ASSUME NEW p \in Prompts, Save(p)
      PROVE  TypeOK'
  <2>1. CASE Reject(p)
    BY <1>13, <2>1, DieTyped, FieldsTyped DEF Save, Reject, Resolve, TypeOK, Handlers
  <2>2. CASE Resolve(p)
    <3>1. task' \in [Handlers -> TaskType]
      BY <2>2, EndTyped DEF Resolve, Handlers
    <3>2. Of[p] \in Runs /\ chain[Of[p]] \in Seq(Prompts) /\ chain[Of[p]] # <<>>
      BY <1>13 DEF TypeOK, Serial, AtWork, Loaded, Save, At
    <3>3. chain' \in [Runs -> Seq(Prompts)]
      BY <2>2, <3>2 DEF Resolve, TypeOK
    <3>4. history' \subseteq Prompts
      BY <1>13, FieldsTyped DEF Save, TypeOK, Handlers
    <3>5. QED
      BY <1>13, <3>1, <3>3, <3>4 DEF Save, TypeOK
  <2>3. QED
    BY <1>13, <2>1, <2>2 DEF Save
<1>14. ASSUME NEW d \in Decisions, NEW a \in Approvals, DecisionAsked(d, a)
      PROVE  TypeOK'
  <2>1. run[approval[a].run] \in RunType
    BY <1>14 DEF DecisionAsked, TypeOK, ApprovalType
  <2>2. [Fresh EXCEPT !.at = "deciding", !.about = a, !.seen = run[approval[a].run]] \in TaskType
    BY <2>1, FreshTyped DEF TaskType, Places
  <2>3. QED
    BY <1>14, <2>2 DEF DecisionAsked, TypeOK
<1>15. ASSUME NEW d \in Decisions, NEW v \in {"approved", "rejected"}, Decide(d, v)
      PROVE  TypeOK'
  <2> task[d] \in TaskType /\ d \in Handlers /\ task[d].about \in Approvals
    BY <1>15, RunOfTyped DEF Decide, TypeOK, Handlers, At
  <2>1. [task[d] EXCEPT !.at = "unwinding", !.goal = "cancelled"] \in TaskType
    BY StatusesAre DEF TaskType, Places
  <2>2. task' \in [Handlers -> TaskType]
    BY <1>15, <2>1, GotoTyped, EndTyped DEF Decide, TypeOK, Places
  <2>3. approval[task[d].about].status # "none"
    BY <1>15 DEF Decide, Undecided
  <2>4. approval' \in [Approvals -> ApprovalType]
    <3>1. approval[task[d].about] \in ApprovalType
      BY DEF TypeOK
    <3>2. [approval[task[d].about] EXCEPT !.status = v] \in ApprovalType
      BY <3>1 DEF ApprovalType
    <3>3. QED
      BY <1>15, <3>2 DEF Decide, TypeOK
  <2>5. \A a \in Approvals : approval'[a].status = "none" <=> approval'[a].run = Nothing
    BY <1>15, <2>3 DEF Decide, TypeOK
  <2>6. QED
    BY <1>15, <2>2, <2>4, <2>5 DEF Decide, TypeOK, ApprovalType
<1>16. ASSUME NEW d \in Decisions, DecidedAlready(d)
      PROVE  TypeOK'
  BY <1>16, EndTyped, StatusesAre, RunOfTyped
     DEF DecidedAlready, TypeOK, Handlers, Places, At
<1>17. ASSUME NEW d \in Decisions, Confirm(d)
      PROVE  TypeOK'
  BY <1>17, GotoTyped, AimTyped, StatusesAre, RunOfTyped
     DEF Confirm, TypeOK, Handlers, Places, At
<1>18. ASSUME NEW d \in Decisions, Invoke(d)
      PROVE  TypeOK'
  <2> d \in Handlers /\ task[d].about \in Approvals
    BY <1>18, RunOfTyped DEF Invoke, Handlers, At
  <2>1. task' \in [Handlers -> TaskType]
    BY <1>18, AimTyped, StatusesAre DEF Invoke, Places
  <2>2. carried' \in [Approvals -> Nat]
    BY <1>18 DEF Invoke, TypeOK, ApprovalType
  <2>3. QED
    BY <1>18, <2>1, <2>2 DEF Invoke, TypeOK
<1>19. ASSUME NEW d \in Decisions, Record(d)
      PROVE  TypeOK'
  BY <1>19, AimTyped, ReadTyped, EndTyped, StatusesAre, RunOfTyped, FieldsTyped
     DEF Record, Fails, TypeOK, Handlers, Places, At
<1>20. ASSUME NEW d \in Decisions, Settle(d)
      PROVE  TypeOK'
  BY <1>20, SwapTyped, EndTyped, AimTyped, StatusesAre, RunOfTyped, FieldsTyped
     DEF Settle, Fails, TypeOK, Handlers, Places, At
<1>21. ASSUME NEW d \in Decisions, Catch(d)
      PROVE  TypeOK'
  BY <1>21, ReadTyped, EndTyped, StatusesAre, RunOfTyped, FieldsTyped
     DEF Catch, TypeOK, Handlers, Places, At
<1>22. ASSUME NEW d \in Decisions, Unwind(d)
      PROVE  TypeOK'
  BY <1>22, SwapTyped, EndTyped, StatusesAre, RunOfTyped
     DEF Unwind, TypeOK, Handlers, Places, At
<1>23. CASE Crash
  BY <1>23, DieTyped, StatusesAre
     DEF Crash, TypeOK, Handlers, Places, At
<1>24. CASE UNCHANGED vars
  BY <1>24
     DEF vars, TypeOK
<1>25. QED
  BY <1>1, <1>2, <1>3, <1>4, <1>5, <1>6, <1>7, <1>8, <1>9, <1>10, <1>11, <1>12,
     <1>13, <1>14, <1>15, <1>16, <1>17, <1>18, <1>19, <1>20, <1>21, <1>22, <1>23, <1>24
     DEF Next, Owner, Prompt, Decision

-----------------------------------------------------------------------------
(* What a step leaves in a handler and in the others.                      *)

LEMMA GotoIs ==
    ASSUME TypeOK, NEW h \in Handlers, NEW where, Goto(h, where)
    PROVE  /\ task'[h].at = where
           /\ task'[h].seen = NoRun
           /\ task'[h].goal = task[h].goal
           /\ task'[h].base = task[h].base
           /\ task'[h].about = task[h].about
           /\ \A k \in Handlers : k # h => task'[k] = task[k]
  BY DEF TypeOK, TaskType, Goto

LEMMA AimIs ==
    ASSUME TypeOK, NEW h \in Handlers, NEW where, NEW want, Aim(h, want, where)
    PROVE  /\ task'[h].at = where
           /\ task'[h].seen = NoRun
           /\ task'[h].goal = want
           /\ task'[h].base = task[h].base
           /\ task'[h].about = task[h].about
           /\ \A k \in Handlers : k # h => task'[k] = task[k]
  BY DEF TypeOK, TaskType, Aim

LEMMA ReadIs ==
    ASSUME TypeOK, NEW h \in Handlers, NEW r, NEW where, NEW want, Read(h, r, want, where)
    PROVE  /\ task'[h].at = where
           /\ task'[h].seen = run[r]
           /\ task'[h].goal = want
           /\ task'[h].base = task[h].base
           /\ task'[h].about = task[h].about
           /\ \A k \in Handlers : k # h => task'[k] = task[k]
  BY DEF TypeOK, TaskType, Read

LEMMA LoadIs ==
    ASSUME TypeOK, NEW h \in Handlers, 
           task' = [task EXCEPT ![h].at = "working", ![h].base = history]
    PROVE  /\ task'[h].at = "working"
           /\ task'[h].seen = task[h].seen
           /\ task'[h].goal = task[h].goal
           /\ task'[h].base = history
           /\ task'[h].about = task[h].about
           /\ \A k \in Handlers : k # h => task'[k] = task[k]
  BY DEF TypeOK, TaskType

LEMMA CancelIs ==
    ASSUME TypeOK, NEW h \in Handlers, 
           task' = [task EXCEPT ![h].at = "unwinding", ![h].goal = "cancelled"]
    PROVE  /\ task'[h].at = "unwinding"
           /\ task'[h].seen = task[h].seen
           /\ task'[h].goal = "cancelled"
           /\ task'[h].base = task[h].base
           /\ task'[h].about = task[h].about
           /\ \A k \in Handlers : k # h => task'[k] = task[k]
  BY DEF TypeOK, TaskType

LEMMA EndIs ==
    ASSUME TypeOK, NEW h \in Handlers, End(h)
    PROVE  /\ task'[h] = Over
           /\ \A k \in Handlers : k # h => task'[k] = task[k]
  BY DEF TypeOK, End

LEMMA DieIs ==
    ASSUME TypeOK, Die
    PROVE  \A h \in Handlers : task'[h] \in {Fresh, Over}
  BY DEF TypeOK, Die

LEMMA AtRest ==
    /\ Fresh.at = "idle" /\ Fresh.seen = NoRun /\ Fresh.about = Nothing
    /\ Over.at = "over" /\ Over.seen = NoRun /\ Over.about = Nothing
  BY DEF Fresh, Over

-----------------------------------------------------------------------------
(* What a handler knows.                                                   *)

LEMMA RestStep == TypeOK /\ RestOK /\ [Next]_vars => RestOK'
<1> SUFFICES ASSUME TypeOK, RestOK, [Next]_vars
             PROVE  RestOK'
  OBVIOUS
<1>1. ASSUME NEW r \in Runs, Create(r)
      PROVE  RestOK'
  BY <1>1
     DEF Create, RestOK
<1>2. ASSUME NEW o \in Requests, NEW w \in {"paused", "running", "cancelled"}, OwnerAsks(o, w)
      PROVE  RestOK'
  BY <1>2, ReadIs, AtRest
     DEF OwnerAsks, RestOK, At, Handlers
<1>3. ASSUME NEW o \in Requests, OwnerGets(o)
      PROVE  RestOK'
  BY <1>3, EndIs, AtRest
     DEF OwnerGets, RestOK, At, Handlers
<1>4. ASSUME NEW p \in Prompts, Send(p)
      PROVE  RestOK'
  BY <1>4, GotoIs, AtRest
     DEF Send, RestOK, At, Handlers
<1>5. ASSUME NEW p \in Prompts, Begin(p)
      PROVE  RestOK'
  BY <1>5, GotoIs, DieIs, ReadIs, AtRest
     DEF Begin, Reject, RestOK, At, Handlers
<1>6. ASSUME NEW p \in Prompts, Start(p)
      PROVE  RestOK'
  BY <1>6, GotoIs, DieIs, AtRest
     DEF Start, Reject, RestOK, At, Handlers
<1>7. ASSUME NEW p \in Prompts, Load(p)
      PROVE  RestOK'
  BY <1>7, DieIs, LoadIs, AtRest
     DEF Load, Reject, RestOK, At, Handlers
<1>8. ASSUME NEW p \in Prompts, NEW a \in Approvals, AskApproval(p, a)
      PROVE  RestOK'
  BY <1>8, GotoIs, AtRest
     DEF AskApproval, Requested, RestOK, At, Handlers
<1>9. ASSUME NEW p \in Prompts, LoadToAwait(p)
      PROVE  RestOK'
  BY <1>9, ReadIs, GotoIs, AtRest
     DEF LoadToAwait, RestOK, At, Handlers
<1>10. ASSUME NEW p \in Prompts, Await(p)
      PROVE  RestOK'
  BY <1>10, GotoIs, AtRest
     DEF Await, RestOK, At, Handlers
<1>11. ASSUME NEW p \in Prompts, NEW w \in {"completed", "failed", "cancelled"}, Finish(p, w)
      PROVE  RestOK'
  BY <1>11, ReadIs, AimIs, AtRest
     DEF Finish, RestOK, At, Handlers
<1>12. ASSUME NEW p \in Prompts, Close(p)
      PROVE  RestOK'
  BY <1>12, GotoIs, AtRest
     DEF Close, RestOK, At, Handlers
<1>13. ASSUME NEW p \in Prompts, Save(p)
      PROVE  RestOK'
  BY <1>13, DieIs, EndIs, AtRest
     DEF Save, Reject, Resolve, RestOK, At, Handlers
<1>14. ASSUME NEW d \in Decisions, NEW a \in Approvals, DecisionAsked(d, a)
      PROVE  RestOK'
  BY <1>14, AtRest
     DEF DecisionAsked, RestOK, At, Handlers, Fresh, TypeOK
<1>15. ASSUME NEW d \in Decisions, NEW v \in {"approved", "rejected"}, Decide(d, v)
      PROVE  RestOK'
  BY <1>15, GotoIs, EndIs, CancelIs, AtRest
     DEF Decide, Undecided, RestOK, At, Handlers
<1>16. ASSUME NEW d \in Decisions, DecidedAlready(d)
      PROVE  RestOK'
  BY <1>16, EndIs, AtRest
     DEF DecidedAlready, Undecided, RestOK, At, Handlers
<1>17. ASSUME NEW d \in Decisions, Confirm(d)
      PROVE  RestOK'
  BY <1>17, GotoIs, AimIs, AtRest
     DEF Confirm, RestOK, At, Handlers
<1>18. ASSUME NEW d \in Decisions, Invoke(d)
      PROVE  RestOK'
  BY <1>18, AimIs, AtRest
     DEF Invoke, RestOK, At, Handlers
<1>19. ASSUME NEW d \in Decisions, Record(d)
      PROVE  RestOK'
  BY <1>19, AimIs, ReadIs, EndIs, AtRest
     DEF Record, Fails, RestOK, At, Handlers
<1>20. ASSUME NEW d \in Decisions, Settle(d)
      PROVE  RestOK'
  BY <1>20, EndIs, AimIs, AtRest
     DEF Settle, Fails, RestOK, At, Handlers
<1>21. ASSUME NEW d \in Decisions, Catch(d)
      PROVE  RestOK'
  BY <1>21, ReadIs, EndIs, AtRest
     DEF Catch, RestOK, At, Handlers
<1>22. ASSUME NEW d \in Decisions, Unwind(d)
      PROVE  RestOK'
  BY <1>22, EndIs, AtRest
     DEF Unwind, RestOK, At, Handlers
<1>23. CASE Crash
  BY <1>23, DieIs, AtRest
     DEF Crash, RestOK, At, Handlers
<1>24. CASE UNCHANGED vars
  BY <1>24
     DEF vars, RestOK
<1>25. QED
  BY <1>1, <1>2, <1>3, <1>4, <1>5, <1>6, <1>7, <1>8, <1>9, <1>10, <1>11, <1>12,
     <1>13, <1>14, <1>15, <1>16, <1>17, <1>18, <1>19, <1>20, <1>21, <1>22, <1>23, <1>24
     DEF Next, Owner, Prompt, Decision

LEMMA AboutStep == TypeOK /\ AboutOK /\ [Next]_vars => AboutOK'
<1> SUFFICES ASSUME TypeOK, AboutOK, [Next]_vars
             PROVE  AboutOK'
  OBVIOUS
<1> USE RunsAssumption
<1>1. ASSUME NEW r \in Runs, Create(r)
      PROVE  AboutOK'
  BY <1>1
     DEF Create, AboutOK
<1>2. ASSUME NEW o \in Requests, NEW w \in {"paused", "running", "cancelled"}, OwnerAsks(o, w)
      PROVE  AboutOK'
  BY <1>2, ReadIs, AtRest
     DEF OwnerAsks, AboutOK, At, Handlers
<1>3. ASSUME NEW o \in Requests, OwnerGets(o)
      PROVE  AboutOK'
  BY <1>3, EndIs, AtRest
     DEF OwnerGets, AboutOK, At, Handlers
<1>4. ASSUME NEW p \in Prompts, Send(p)
      PROVE  AboutOK'
  BY <1>4, GotoIs, AtRest
     DEF Send, AboutOK, At, Handlers
<1>5. ASSUME NEW p \in Prompts, Begin(p)
      PROVE  AboutOK'
  BY <1>5, GotoIs, DieIs, ReadIs, AtRest
     DEF Begin, Reject, AboutOK, At, Handlers
<1>6. ASSUME NEW p \in Prompts, Start(p)
      PROVE  AboutOK'
  BY <1>6, GotoIs, DieIs, AtRest
     DEF Start, Reject, AboutOK, At, Handlers
<1>7. ASSUME NEW p \in Prompts, Load(p)
      PROVE  AboutOK'
  BY <1>7, DieIs, LoadIs, AtRest
     DEF Load, Reject, AboutOK, At, Handlers
<1>8. ASSUME NEW p \in Prompts, NEW a \in Approvals, AskApproval(p, a)
      PROVE  AboutOK'
  <2>1. \A b \in Approvals : approval[b].status # "none" => approval'[b].status # "none"
    BY <1>8 DEF AskApproval, Requested, TypeOK
  <2>2. QED
    BY <1>8, <2>1, GotoIs, AtRest DEF AskApproval, AboutOK, At, Handlers
<1>9. ASSUME NEW p \in Prompts, LoadToAwait(p)
      PROVE  AboutOK'
  BY <1>9, ReadIs, GotoIs, AtRest
     DEF LoadToAwait, AboutOK, At, Handlers
<1>10. ASSUME NEW p \in Prompts, Await(p)
      PROVE  AboutOK'
  BY <1>10, GotoIs, AtRest
     DEF Await, AboutOK, At, Handlers
<1>11. ASSUME NEW p \in Prompts, NEW w \in {"completed", "failed", "cancelled"}, Finish(p, w)
      PROVE  AboutOK'
  BY <1>11, ReadIs, AimIs, AtRest
     DEF Finish, AboutOK, At, Handlers
<1>12. ASSUME NEW p \in Prompts, Close(p)
      PROVE  AboutOK'
  BY <1>12, GotoIs, AtRest
     DEF Close, AboutOK, At, Handlers
<1>13. ASSUME NEW p \in Prompts, Save(p)
      PROVE  AboutOK'
  BY <1>13, DieIs, EndIs, AtRest
     DEF Save, Reject, Resolve, AboutOK, At, Handlers
<1>14. ASSUME NEW d \in Decisions, NEW a \in Approvals, DecisionAsked(d, a)
      PROVE  AboutOK'
  BY <1>14, AtRest
     DEF DecisionAsked, AboutOK, At, Handlers, Fresh, TypeOK
<1>15. ASSUME NEW d \in Decisions, NEW v \in {"approved", "rejected"}, Decide(d, v)
      PROVE  AboutOK'
  <2>1. \A b \in Approvals : approval[b].status # "none" => approval'[b].status # "none"
    BY <1>15 DEF Decide, TypeOK
  <2>2. QED
    BY <1>15, <2>1, GotoIs, EndIs, CancelIs, AtRest DEF Decide, AboutOK, At, Handlers
<1>16. ASSUME NEW d \in Decisions, DecidedAlready(d)
      PROVE  AboutOK'
  BY <1>16, EndIs, AtRest
     DEF DecidedAlready, Undecided, AboutOK, At, Handlers
<1>17. ASSUME NEW d \in Decisions, Confirm(d)
      PROVE  AboutOK'
  BY <1>17, GotoIs, AimIs, AtRest
     DEF Confirm, AboutOK, At, Handlers
<1>18. ASSUME NEW d \in Decisions, Invoke(d)
      PROVE  AboutOK'
  BY <1>18, AimIs, AtRest
     DEF Invoke, AboutOK, At, Handlers
<1>19. ASSUME NEW d \in Decisions, Record(d)
      PROVE  AboutOK'
  BY <1>19, AimIs, ReadIs, EndIs, AtRest
     DEF Record, Fails, AboutOK, At, Handlers
<1>20. ASSUME NEW d \in Decisions, Settle(d)
      PROVE  AboutOK'
  BY <1>20, EndIs, AimIs, AtRest
     DEF Settle, Fails, AboutOK, At, Handlers
<1>21. ASSUME NEW d \in Decisions, Catch(d)
      PROVE  AboutOK'
  BY <1>21, ReadIs, EndIs, AtRest
     DEF Catch, AboutOK, At, Handlers
<1>22. ASSUME NEW d \in Decisions, Unwind(d)
      PROVE  AboutOK'
  BY <1>22, EndIs, AtRest
     DEF Unwind, AboutOK, At, Handlers
<1>23. CASE Crash
  BY <1>23, DieIs, AtRest
     DEF Crash, AboutOK, At, Handlers
<1>24. CASE UNCHANGED vars
  BY <1>24
     DEF vars, AboutOK
<1>25. QED
  BY <1>1, <1>2, <1>3, <1>4, <1>5, <1>6, <1>7, <1>8, <1>9, <1>10, <1>11, <1>12,
     <1>13, <1>14, <1>15, <1>16, <1>17, <1>18, <1>19, <1>20, <1>21, <1>22, <1>23, <1>24
     DEF Next, Owner, Prompt, Decision

\* A swap raises the version, and follows the table when the handler is not late.
LEMMA SwapMoves ==
    ASSUME TypeOK, SeenIsPast, NEW h \in Handlers, RunFor(h) \in Runs,
           Swap(h, RunFor(h))
    PROVE  /\ run'[RunFor(h)].version = run[RunFor(h)].version + 1
           /\ run'[RunFor(h)].status \in transitions[run[RunFor(h)].status]
           /\ \A r \in Runs : r # RunFor(h) => run'[r] = run[r]
<1>1. task[h].goal \in Statuses \ {"pending"} /\ task[h].goal \in transitions[task[h].seen.status]
  BY FieldsTyped DEF Swap
<1>2. task[h].seen # NoRun
  BY <1>1 DEF NoRun, transitions
<1>3. task[h].seen.status = run[RunFor(h)].status
  BY <1>2 DEF SeenIsPast, Past, Swap
<1>4. QED
  BY <1>1, <1>3 DEF Swap, TypeOK, RunType

\* Runs only get newer, and along the table.
RunMoves ==
    \A r \in Runs :
        \/ run'[r] = run[r]
        \/ /\ run'[r].version > run[r].version
           /\ run'[r].status \in transitions[run[r].status]

LEMMA SwapIsMove ==
    ASSUME TypeOK, SeenIsPast, NEW h \in Handlers, RunFor(h) \in Runs, Swap(h, RunFor(h))
    PROVE  RunMoves
  BY SwapMoves DEF RunMoves, TypeOK, RunType

LEMMA RunForOwn ==
    /\ \A h \in Prompts \cup Requests : RunFor(h) = Of[h] /\ Of[h] \in Runs
    /\ \A d \in Decisions : RunFor(d) = RunOf(d)
  BY RunsAssumption DEF RunFor

LEMMA MoveStep == TypeOK /\ AboutOK /\ SeenIsPast /\ [Next]_vars => RunMoves
<1> SUFFICES ASSUME TypeOK, AboutOK, SeenIsPast, [Next]_vars
             PROVE  RunMoves
  OBVIOUS
<1> USE RunsAssumption
<1>1. ASSUME NEW r \in Runs, Create(r)
      PROVE  RunMoves
  BY <1>1 DEF Create, RunMoves, TypeOK, NoRun, transitions
<1>2. ASSUME NEW o \in Requests, NEW w \in {"paused", "running", "cancelled"}, OwnerAsks(o, w)
      PROVE  RunMoves
  BY <1>2 DEF OwnerAsks, RunMoves
<1>3. ASSUME NEW o \in Requests, OwnerGets(o)
      PROVE  RunMoves
  BY <1>3, SwapIsMove, RunForOwn
     DEF OwnerGets, RunMoves, At, Handlers
<1>4. ASSUME NEW p \in Prompts, Send(p)
      PROVE  RunMoves
  BY <1>4 DEF Send, RunMoves
<1>5. ASSUME NEW p \in Prompts, Begin(p)
      PROVE  RunMoves
  BY <1>5 DEF Begin, RunMoves
<1>6. ASSUME NEW p \in Prompts, Start(p)
      PROVE  RunMoves
  BY <1>6, SwapIsMove, RunForOwn
     DEF Start, RunMoves, At, Handlers
<1>7. ASSUME NEW p \in Prompts, Load(p)
      PROVE  RunMoves
  BY <1>7 DEF Load, RunMoves
<1>8. ASSUME NEW p \in Prompts, NEW a \in Approvals, AskApproval(p, a)
      PROVE  RunMoves
  BY <1>8 DEF AskApproval, RunMoves
<1>9. ASSUME NEW p \in Prompts, LoadToAwait(p)
      PROVE  RunMoves
  BY <1>9 DEF LoadToAwait, RunMoves
<1>10. ASSUME NEW p \in Prompts, Await(p)
      PROVE  RunMoves
  BY <1>10, SwapIsMove, RunForOwn
     DEF Await, RunMoves, At, Handlers
<1>11. ASSUME NEW p \in Prompts, NEW w \in {"completed", "failed", "cancelled"}, Finish(p, w)
      PROVE  RunMoves
  BY <1>11 DEF Finish, RunMoves
<1>12. ASSUME NEW p \in Prompts, Close(p)
      PROVE  RunMoves
  BY <1>12, SwapIsMove, RunForOwn
     DEF Close, RunMoves, At, Handlers
<1>13. ASSUME NEW p \in Prompts, Save(p)
      PROVE  RunMoves
  BY <1>13 DEF Save, RunMoves
<1>14. ASSUME NEW d \in Decisions, NEW a \in Approvals, DecisionAsked(d, a)
      PROVE  RunMoves
  BY <1>14 DEF DecisionAsked, RunMoves
<1>15. ASSUME NEW d \in Decisions, NEW v \in {"approved", "rejected"}, Decide(d, v)
      PROVE  RunMoves
  BY <1>15 DEF Decide, RunMoves
<1>16. ASSUME NEW d \in Decisions, DecidedAlready(d)
      PROVE  RunMoves
  BY <1>16 DEF DecidedAlready, RunMoves
<1>17. ASSUME NEW d \in Decisions, Confirm(d)
      PROVE  RunMoves
  BY <1>17 DEF Confirm, RunMoves
<1>18. ASSUME NEW d \in Decisions, Invoke(d)
      PROVE  RunMoves
  BY <1>18 DEF Invoke, RunMoves
<1>19. ASSUME NEW d \in Decisions, Record(d)
      PROVE  RunMoves
  BY <1>19 DEF Record, RunMoves
<1>20. ASSUME NEW d \in Decisions, Settle(d)
      PROVE  RunMoves
  BY <1>20, SwapIsMove, RunForOwn, RunOfTyped
     DEF Settle, RunMoves, At, Handlers
<1>21. ASSUME NEW d \in Decisions, Catch(d)
      PROVE  RunMoves
  BY <1>21 DEF Catch, RunMoves
<1>22. ASSUME NEW d \in Decisions, Unwind(d)
      PROVE  RunMoves
  BY <1>22, SwapIsMove, RunForOwn, RunOfTyped
     DEF Unwind, RunMoves, At, Handlers
<1>23. CASE Crash
  BY <1>23 DEF Crash, RunMoves
<1>24. CASE UNCHANGED vars
  BY <1>24 DEF vars, RunMoves
<1>25. QED
  BY <1>1, <1>2, <1>3, <1>4, <1>5, <1>6, <1>7, <1>8, <1>9, <1>10, <1>11, <1>12,
     <1>13, <1>14, <1>15, <1>16, <1>17, <1>18, <1>19, <1>20, <1>21, <1>22, <1>23, <1>24
     DEF Next, Owner, Prompt, Decision

\* A request that has been made stays a request of its run.
RequestsKept ==
    \A b \in Approvals : approval[b].status # "none" => approval'[b].run = approval[b].run

LEMMA KeptStep == TypeOK /\ AboutOK /\ [Next]_vars => RequestsKept
<1> SUFFICES ASSUME TypeOK, AboutOK, [Next]_vars
             PROVE  RequestsKept
  OBVIOUS
<1>1. ASSUME NEW r \in Runs, Create(r)
      PROVE  RequestsKept
  BY <1>1 DEF Create, RequestsKept
<1>2. ASSUME NEW o \in Requests, NEW w \in {"paused", "running", "cancelled"}, OwnerAsks(o, w)
      PROVE  RequestsKept
  BY <1>2 DEF OwnerAsks, RequestsKept
<1>3. ASSUME NEW o \in Requests, OwnerGets(o)
      PROVE  RequestsKept
  BY <1>3 DEF OwnerGets, RequestsKept
<1>4. ASSUME NEW p \in Prompts, Send(p)
      PROVE  RequestsKept
  BY <1>4 DEF Send, RequestsKept
<1>5. ASSUME NEW p \in Prompts, Begin(p)
      PROVE  RequestsKept
  BY <1>5 DEF Begin, RequestsKept
<1>6. ASSUME NEW p \in Prompts, Start(p)
      PROVE  RequestsKept
  BY <1>6 DEF Start, RequestsKept
<1>7. ASSUME NEW p \in Prompts, Load(p)
      PROVE  RequestsKept
  BY <1>7 DEF Load, RequestsKept
<1>8. ASSUME NEW p \in Prompts, NEW a \in Approvals, AskApproval(p, a)
      PROVE  RequestsKept
  BY <1>8 DEF AskApproval, RequestsKept, Requested, TypeOK
<1>9. ASSUME NEW p \in Prompts, LoadToAwait(p)
      PROVE  RequestsKept
  BY <1>9 DEF LoadToAwait, RequestsKept
<1>10. ASSUME NEW p \in Prompts, Await(p)
      PROVE  RequestsKept
  BY <1>10 DEF Await, RequestsKept
<1>11. ASSUME NEW p \in Prompts, NEW w \in {"completed", "failed", "cancelled"}, Finish(p, w)
      PROVE  RequestsKept
  BY <1>11 DEF Finish, RequestsKept
<1>12. ASSUME NEW p \in Prompts, Close(p)
      PROVE  RequestsKept
  BY <1>12 DEF Close, RequestsKept
<1>13. ASSUME NEW p \in Prompts, Save(p)
      PROVE  RequestsKept
  BY <1>13 DEF Save, RequestsKept
<1>14. ASSUME NEW d \in Decisions, NEW a \in Approvals, DecisionAsked(d, a)
      PROVE  RequestsKept
  BY <1>14 DEF DecisionAsked, RequestsKept
<1>15. ASSUME NEW d \in Decisions, NEW v \in {"approved", "rejected"}, Decide(d, v)
      PROVE  RequestsKept
  BY <1>15 DEF Decide, RequestsKept, TypeOK, ApprovalType
<1>16. ASSUME NEW d \in Decisions, DecidedAlready(d)
      PROVE  RequestsKept
  BY <1>16 DEF DecidedAlready, RequestsKept
<1>17. ASSUME NEW d \in Decisions, Confirm(d)
      PROVE  RequestsKept
  BY <1>17 DEF Confirm, RequestsKept
<1>18. ASSUME NEW d \in Decisions, Invoke(d)
      PROVE  RequestsKept
  BY <1>18 DEF Invoke, RequestsKept
<1>19. ASSUME NEW d \in Decisions, Record(d)
      PROVE  RequestsKept
  BY <1>19 DEF Record, RequestsKept
<1>20. ASSUME NEW d \in Decisions, Settle(d)
      PROVE  RequestsKept
  BY <1>20 DEF Settle, RequestsKept
<1>21. ASSUME NEW d \in Decisions, Catch(d)
      PROVE  RequestsKept
  BY <1>21 DEF Catch, RequestsKept
<1>22. ASSUME NEW d \in Decisions, Unwind(d)
      PROVE  RequestsKept
  BY <1>22 DEF Unwind, RequestsKept
<1>23. CASE Crash
  BY <1>23 DEF Crash, RequestsKept
<1>24. CASE UNCHANGED vars
  BY <1>24 DEF vars, RequestsKept
<1>25. QED
  BY <1>1, <1>2, <1>3, <1>4, <1>5, <1>6, <1>7, <1>8, <1>9, <1>10, <1>11, <1>12,
     <1>13, <1>14, <1>15, <1>16, <1>17, <1>18, <1>19, <1>20, <1>21, <1>22, <1>23, <1>24
     DEF Next, Owner, Prompt, Decision

LEMMA PastStays ==
    ASSUME TypeOK, TypeOK', RestOK, AboutOK, SeenIsPast, RunMoves, RequestsKept,
           NEW h \in Handlers,
           task'[h].seen = task[h].seen, task'[h].about = task[h].about
    PROVE  Past(h)'
<1> SUFFICES ASSUME task[h].seen # NoRun
             PROVE  Past(h)'
  BY DEF Past
<1>1. task[h].at \notin {"idle", "over"}
  BY DEF RestOK
<1>2. RunFor(h) \in Runs
  BY <1>1, RunForOwn, RunOfTyped DEF Handlers
<1>3. RunFor(h)' = RunFor(h)
  BY <1>1 DEF RunFor, RunOf, RequestsKept, AboutOK
<1>4. Past(h)
  BY DEF SeenIsPast
<1>5. task[h].seen.version \in Nat /\ run[RunFor(h)].version \in Nat /\ run'[RunFor(h)].version \in Nat
  BY <1>2, FieldsTyped DEF TypeOK, RunType
<1>6. CASE run'[RunFor(h)] = run[RunFor(h)]
  BY <1>3, <1>4, <1>6 DEF Past
<1>7. CASE run'[RunFor(h)].version > run[RunFor(h)].version
  BY <1>3, <1>4, <1>5, <1>7 DEF Past
<1>8. QED
  BY <1>2, <1>6, <1>7 DEF RunMoves

LEMMA RunForStays == \A h \in Prompts \cup Requests : RunFor(h)' = RunFor(h)
  BY RunsAssumption DEF RunFor

\* The only handler that has moved has read its run, forgets it or still knows it.
LEMMA SeenAfter ==
    ASSUME TypeOK, TypeOK', RestOK, AboutOK, SeenIsPast, RunMoves, RequestsKept,
           NEW h \in Handlers, \A k \in Handlers : k # h => task'[k] = task[k],
           \/ task'[h].seen = NoRun
           \/ task'[h].seen = task[h].seen /\ task'[h].about = task[h].about
           \/ /\ task'[h].seen = run[RunFor(h)'] /\ run' = run
              /\ RunFor(h)' \in Runs
    PROVE  SeenIsPast'
<1> SUFFICES ASSUME NEW k \in Handlers
             PROVE  Past(k)'
  BY DEF SeenIsPast
<1>1. CASE k # h
  BY <1>1, PastStays
<1>2. CASE k = h /\ task'[h].seen = NoRun
  BY <1>2 DEF Past
<1>3. CASE k = h /\ task'[h].seen = task[h].seen /\ task'[h].about = task[h].about
  BY <1>3, PastStays
<1>4. CASE k = h /\ task'[h].seen = run[RunFor(h)'] /\ run' = run /\ RunFor(h)' \in Runs
  BY <1>4 DEF Past, TypeOK, RunType
<1>5. QED
  BY <1>1, <1>2, <1>3, <1>4

LEMMA SeenAfterDeath ==
    ASSUME TypeOK, Die
    PROVE  SeenIsPast'
  BY DieIs, AtRest DEF SeenIsPast, Past

LEMMA SeenStep ==
    TypeOK /\ RestOK /\ AboutOK /\ SeenIsPast /\ Serial /\ [Next]_vars => SeenIsPast'
<1> SUFFICES ASSUME TypeOK, RestOK, AboutOK, SeenIsPast, Serial, [Next]_vars
             PROVE  SeenIsPast'
  OBVIOUS
<1> TypeOK' /\ RunMoves /\ RequestsKept
  BY TypeStep, MoveStep, KeptStep
<1>1. ASSUME NEW r \in Runs, Create(r)
      PROVE  SeenIsPast'
  <2> UNCHANGED task
    BY <1>1 DEF Create
  <2> QED
    BY PastStays DEF SeenIsPast
<1>2. ASSUME NEW o \in Requests, NEW w \in {"paused", "running", "cancelled"}, OwnerAsks(o, w)
      PROVE  SeenIsPast'
  <2> RunFor(o)' = Of[o] /\ Of[o] \in Runs
    BY RunForStays, RunForOwn
  <2> o \in Handlers
    BY DEF Handlers
  <2> QED
    BY <1>2, ReadIs, AtRest, SeenAfter
       DEF OwnerAsks, Handlers
<1>3. ASSUME NEW o \in Requests, OwnerGets(o)
      PROVE  SeenIsPast'
  <2> o \in Handlers
    BY DEF Handlers
  <2> QED
    BY <1>3, EndIs, AtRest, SeenAfter
       DEF OwnerGets, Handlers
<1>4. ASSUME NEW p \in Prompts, Send(p)
      PROVE  SeenIsPast'
  <2> p \in Handlers
    BY DEF Handlers
  <2> QED
    BY <1>4, GotoIs, AtRest, SeenAfter
       DEF Send, Handlers
<1>5. ASSUME NEW p \in Prompts, Begin(p)
      PROVE  SeenIsPast'
  <2> RunFor(p)' = Of[p] /\ Of[p] \in Runs
    BY RunForStays, RunForOwn
  <2> p \in Handlers
    BY DEF Handlers
  <2> QED
    BY <1>5, GotoIs, DieIs, ReadIs, AtRest, SeenAfter, SeenAfterDeath
       DEF Begin, Reject, Handlers
<1>6. ASSUME NEW p \in Prompts, Start(p)
      PROVE  SeenIsPast'
  <2> p \in Handlers
    BY DEF Handlers
  <2> QED
    BY <1>6, GotoIs, DieIs, AtRest, SeenAfter, SeenAfterDeath
       DEF Start, Reject, Handlers
<1>7. ASSUME NEW p \in Prompts, Load(p)
      PROVE  SeenIsPast'
  <2> p \in Handlers
    BY DEF Handlers
  <2> QED
    BY <1>7, DieIs, LoadIs, AtRest, SeenAfter, SeenAfterDeath
       DEF Load, Reject, Handlers
<1>8. ASSUME NEW p \in Prompts, NEW a \in Approvals, AskApproval(p, a)
      PROVE  SeenIsPast'
  <2> p \in Handlers
    BY DEF Handlers
  <2> QED
    BY <1>8, GotoIs, AtRest, SeenAfter
       DEF AskApproval, Requested, Handlers
<1>9. ASSUME NEW p \in Prompts, LoadToAwait(p)
      PROVE  SeenIsPast'
  <2> RunFor(p)' = Of[p] /\ Of[p] \in Runs
    BY RunForStays, RunForOwn
  <2> p \in Handlers
    BY DEF Handlers
  <2> QED
    BY <1>9, ReadIs, GotoIs, AtRest, SeenAfter
       DEF LoadToAwait, Handlers
<1>10. ASSUME NEW p \in Prompts, Await(p)
      PROVE  SeenIsPast'
  <2> p \in Handlers
    BY DEF Handlers
  <2> QED
    BY <1>10, GotoIs, AtRest, SeenAfter
       DEF Await, Handlers
<1>11. ASSUME NEW p \in Prompts, NEW w \in {"completed", "failed", "cancelled"}, Finish(p, w)
      PROVE  SeenIsPast'
  <2> RunFor(p)' = Of[p] /\ Of[p] \in Runs
    BY RunForStays, RunForOwn
  <2> p \in Handlers
    BY DEF Handlers
  <2> QED
    BY <1>11, ReadIs, AimIs, AtRest, SeenAfter
       DEF Finish, Handlers
<1>12. ASSUME NEW p \in Prompts, Close(p)
      PROVE  SeenIsPast'
  <2> p \in Handlers
    BY DEF Handlers
  <2> QED
    BY <1>12, GotoIs, AtRest, SeenAfter
       DEF Close, Handlers
<1>13. ASSUME NEW p \in Prompts, Save(p)
      PROVE  SeenIsPast'
  <2> p \in Handlers
    BY DEF Handlers
  <2> QED
    BY <1>13, DieIs, EndIs, AtRest, SeenAfter, SeenAfterDeath
       DEF Save, Reject, Resolve, Handlers
<1>14. ASSUME NEW d \in Decisions, NEW a \in Approvals, DecisionAsked(d, a)
      PROVE  SeenIsPast'
  <2> RunFor(d)' \in Runs /\ RunFor(d)' = approval[a].run
    BY <1>14 DEF Handlers, RunFor, RunOf, TypeOK, ApprovalType, DecisionAsked, Fresh, TaskType
  <2> d \in Handlers
    BY DEF Handlers
  <2> QED
    BY <1>14, AtRest, SeenAfter
       DEF DecisionAsked, Handlers, Fresh, TypeOK
<1>15. ASSUME NEW d \in Decisions, NEW v \in {"approved", "rejected"}, Decide(d, v)
      PROVE  SeenIsPast'
  <2> d \in Handlers
    BY DEF Handlers
  <2> QED
    BY <1>15, GotoIs, EndIs, CancelIs, AtRest, SeenAfter
       DEF Decide, Undecided, Handlers
<1>16. ASSUME NEW d \in Decisions, DecidedAlready(d)
      PROVE  SeenIsPast'
  <2> d \in Handlers
    BY DEF Handlers
  <2> QED
    BY <1>16, EndIs, AtRest, SeenAfter
       DEF DecidedAlready, Undecided, Handlers
<1>17. ASSUME NEW d \in Decisions, Confirm(d)
      PROVE  SeenIsPast'
  <2> d \in Handlers
    BY DEF Handlers
  <2> QED
    BY <1>17, GotoIs, AimIs, AtRest, SeenAfter
       DEF Confirm, Handlers
<1>18. ASSUME NEW d \in Decisions, Invoke(d)
      PROVE  SeenIsPast'
  <2> d \in Handlers
    BY DEF Handlers
  <2> QED
    BY <1>18, AimIs, AtRest, SeenAfter
       DEF Invoke, Handlers
<1>19. ASSUME NEW d \in Decisions, Record(d)
      PROVE  SeenIsPast'
  <2> RunOf(d) \in Runs /\ task[d].about \in Approvals
    BY <1>19, RunOfTyped DEF Record, At
  <2> RunFor(d) = RunOf(d) /\ approval' = approval /\ run' = run
    BY <1>19, RunForOwn DEF Record
  <2> task'[d].about = task[d].about => RunFor(d)' = RunFor(d)
    BY DEF RunFor, RunOf
  <2> d \in Handlers
    BY DEF Handlers
  <2> QED
    BY <1>19, AimIs, ReadIs, EndIs, AtRest, SeenAfter
       DEF Record, Fails, Handlers
<1>20. ASSUME NEW d \in Decisions, Settle(d)
      PROVE  SeenIsPast'
  <2> d \in Handlers
    BY DEF Handlers
  <2> QED
    BY <1>20, EndIs, AimIs, AtRest, SeenAfter
       DEF Settle, Fails, Handlers
<1>21. ASSUME NEW d \in Decisions, Catch(d)
      PROVE  SeenIsPast'
  <2> RunOf(d) \in Runs /\ task[d].about \in Approvals
    BY <1>21, RunOfTyped DEF Catch, At
  <2> RunFor(d) = RunOf(d) /\ approval' = approval /\ run' = run
    BY <1>21, RunForOwn DEF Catch
  <2> task'[d].about = task[d].about => RunFor(d)' = RunFor(d)
    BY DEF RunFor, RunOf
  <2> d \in Handlers
    BY DEF Handlers
  <2> QED
    BY <1>21, ReadIs, EndIs, AtRest, SeenAfter
       DEF Catch, Handlers
<1>22. ASSUME NEW d \in Decisions, Unwind(d)
      PROVE  SeenIsPast'
  <2> d \in Handlers
    BY DEF Handlers
  <2> QED
    BY <1>22, EndIs, AtRest, SeenAfter
       DEF Unwind, Handlers
<1>23. CASE Crash
  BY <1>23, SeenAfterDeath DEF Crash
<1>24. CASE UNCHANGED vars
  <2> UNCHANGED task
    BY <1>24 DEF vars
  <2> QED
    BY PastStays DEF SeenIsPast
<1>25. QED
  BY <1>1, <1>2, <1>3, <1>4, <1>5, <1>6, <1>7, <1>8, <1>9, <1>10, <1>11, <1>12,
     <1>13, <1>14, <1>15, <1>16, <1>17, <1>18, <1>19, <1>20, <1>21, <1>22, <1>23, <1>24
     DEF Next, Owner, Prompt, Decision

-----------------------------------------------------------------------------
(* One decision carries a write out.                                       *)

\* Nobody begins to replay, and nothing is carried out.
LEMMA ReplayKept ==
    ASSUME TypeOK, AboutOK, ReplayOK, CarriedOutOnce, UNCHANGED carried,
           \A b \in Approvals : approval[b].status = "approved" => approval'[b].status = "approved",
           \A d \in Decisions :
               Replaying(d)' => Replaying(d) /\ task'[d].about = task[d].about
    PROVE  ReplayOK' /\ CarriedOutOnce'
<1>1. CarriedOutOnce'
  BY DEF CarriedOutOnce
<1>2. \A d \in Decisions : Replaying(d) => task[d].about \in Approvals
  BY RunOfTyped DEF Replaying
<1>3. ReplayOK'
  BY <1>2 DEF ReplayOK
<1>4. QED
  BY <1>1, <1>3

LEMMA ReplayStep ==
    TypeOK /\ AboutOK /\ ReplayOK /\ CarriedOutOnce /\ [Next]_vars => ReplayOK' /\ CarriedOutOnce'
<1> SUFFICES ASSUME TypeOK, AboutOK, ReplayOK, CarriedOutOnce, [Next]_vars
             PROVE  (ReplayOK /\ CarriedOutOnce)'
  OBVIOUS
<1> USE RunsAssumption
<1>1. ASSUME NEW r \in Runs, Create(r)
      PROVE  (ReplayOK /\ CarriedOutOnce)'
  BY <1>1, ReplayKept DEF Create, Replaying
<1>2. ASSUME NEW o \in Requests, NEW w \in {"paused", "running", "cancelled"}, OwnerAsks(o, w)
      PROVE  (ReplayOK /\ CarriedOutOnce)'
  BY <1>2, ReadIs, AtRest, ReplayKept
     DEF OwnerAsks, Handlers, Replaying, At
<1>3. ASSUME NEW o \in Requests, OwnerGets(o)
      PROVE  (ReplayOK /\ CarriedOutOnce)'
  BY <1>3, EndIs, AtRest, ReplayKept
     DEF OwnerGets, Handlers, Replaying, At
<1>4. ASSUME NEW p \in Prompts, Send(p)
      PROVE  (ReplayOK /\ CarriedOutOnce)'
  BY <1>4, GotoIs, AtRest, ReplayKept
     DEF Send, Handlers, Replaying, At
<1>5. ASSUME NEW p \in Prompts, Begin(p)
      PROVE  (ReplayOK /\ CarriedOutOnce)'
  BY <1>5, GotoIs, DieIs, ReadIs, AtRest, ReplayKept
     DEF Begin, Reject, Handlers, Replaying, At
<1>6. ASSUME NEW p \in Prompts, Start(p)
      PROVE  (ReplayOK /\ CarriedOutOnce)'
  BY <1>6, GotoIs, DieIs, AtRest, ReplayKept
     DEF Start, Reject, Handlers, Replaying, At
<1>7. ASSUME NEW p \in Prompts, Load(p)
      PROVE  (ReplayOK /\ CarriedOutOnce)'
  BY <1>7, DieIs, LoadIs, AtRest, ReplayKept
     DEF Load, Reject, Handlers, Replaying, At
<1>8. ASSUME NEW p \in Prompts, NEW a \in Approvals, AskApproval(p, a)
      PROVE  (ReplayOK /\ CarriedOutOnce)'
  <2>1. \A b \in Approvals : approval[b].status = "approved" => approval'[b].status = "approved"
    BY <1>8 DEF AskApproval, TypeOK
  <2>2. \A d \in Decisions : task'[d] = task[d]
    BY <1>8, GotoIs DEF AskApproval, Handlers
  <2>3. QED
    BY <1>8, <2>1, <2>2, ReplayKept DEF AskApproval, Replaying
<1>9. ASSUME NEW p \in Prompts, LoadToAwait(p)
      PROVE  (ReplayOK /\ CarriedOutOnce)'
  BY <1>9, ReadIs, GotoIs, AtRest, ReplayKept
     DEF LoadToAwait, Handlers, Replaying, At
<1>10. ASSUME NEW p \in Prompts, Await(p)
      PROVE  (ReplayOK /\ CarriedOutOnce)'
  BY <1>10, GotoIs, AtRest, ReplayKept
     DEF Await, Handlers, Replaying, At
<1>11. ASSUME NEW p \in Prompts, NEW w \in {"completed", "failed", "cancelled"}, Finish(p, w)
      PROVE  (ReplayOK /\ CarriedOutOnce)'
  BY <1>11, ReadIs, AimIs, AtRest, ReplayKept
     DEF Finish, Handlers, Replaying, At
<1>12. ASSUME NEW p \in Prompts, Close(p)
      PROVE  (ReplayOK /\ CarriedOutOnce)'
  BY <1>12, GotoIs, AtRest, ReplayKept
     DEF Close, Handlers, Replaying, At
<1>13. ASSUME NEW p \in Prompts, Save(p)
      PROVE  (ReplayOK /\ CarriedOutOnce)'
  BY <1>13, DieIs, EndIs, AtRest, ReplayKept
     DEF Save, Reject, Resolve, Handlers, Replaying, At
<1>14. ASSUME NEW d \in Decisions, NEW a \in Approvals, DecisionAsked(d, a)
      PROVE  (ReplayOK /\ CarriedOutOnce)'
  BY <1>14, AtRest, ReplayKept
     DEF DecisionAsked, Handlers, Replaying, At, Fresh, TypeOK
<1>15. ASSUME NEW d \in Decisions, NEW v \in {"approved", "rejected"}, Decide(d, v)
      PROVE  (ReplayOK /\ CarriedOutOnce)'
  <2> DEFINE b == task[d].about
  <2>1. d \in Handlers /\ b \in Approvals /\ approval[b].status = "pending"
    BY <1>15, RunOfTyped DEF Decide, Undecided, Handlers, At
  <2> carried[b] \in Nat
    BY <2>1 DEF TypeOK
  <2>2. carried[b] = 0
    BY <2>1 DEF CarriedOutOnce
  <2>3. /\ approval'[b].status = v
        /\ \A c \in Approvals : c # b => approval'[c] = approval[c]
    BY <1>15, <2>1 DEF Decide, TypeOK, ApprovalType
  <2>4. \A c \in Approvals : approval[c].status = "approved" => approval'[c].status = "approved"
    BY <2>1, <2>3
  <2>5. CASE v = "rejected"
    <3>1. ~Replaying(d)' /\ \A e \in Decisions : e # d => task'[e] = task[e]
      BY <1>15, <2>1, <2>5, EndIs, CancelIs, AtRest DEF Decide, Replaying, Handlers
    <3>2. QED
      BY <1>15, <2>4, <3>1, ReplayKept DEF Decide, Replaying
  <2>6. CASE v = "approved"
    <3>1. /\ task'[d].about = b
          /\ \A e \in Decisions : e # d => task'[e] = task[e]
      BY <1>15, <2>1, <2>6, GotoIs DEF Decide, Handlers
    <3>2. \A e \in Decisions : e # d /\ Replaying(e)' => task'[e].about # b
      BY <2>1, <3>1 DEF ReplayOK, Replaying
    <3>3. \A e \in Decisions : e # d /\ Replaying(e)' => Replaying(e)
      BY <3>1 DEF Replaying
    <3>4. UNCHANGED carried
      BY <1>15 DEF Decide
    <3>5. CarriedOutOnce'
      BY <2>4, <3>4 DEF CarriedOutOnce
    <3>6. ReplayOK'
      <4> SUFFICES ASSUME NEW c \in Decisions, Replaying(c)'
                   PROVE  /\ approval'[task'[c].about].status = "approved"
                          /\ carried'[task'[c].about] = 0
                          /\ \A e \in Decisions : Replaying(e)' /\ task'[e].about = task'[c].about => e = c
        BY DEF ReplayOK
      <4>1. CASE c = d
        BY <2>2, <2>3, <2>6, <3>1, <3>2, <3>4, <4>1
      <4>2. CASE c # d
        <5>1. /\ Replaying(c) /\ task'[c].about = task[c].about
              /\ approval[task[c].about].status = "approved" /\ carried[task[c].about] = 0
              /\ task[c].about \in Approvals
          BY <3>1, <3>3, <4>2, RunOfTyped DEF ReplayOK, Replaying
        <5>2. \A e \in Decisions : Replaying(e)' /\ task'[e].about = task'[c].about => e = c
          BY <2>1, <3>1, <3>2, <3>3, <4>2, <5>1 DEF ReplayOK
        <5>3. QED
          BY <2>4, <3>4, <5>1, <5>2
      <4>3. QED
        BY <4>1, <4>2
    <3>7. QED
      BY <3>5, <3>6
  <2>7. QED
    BY <2>5, <2>6
<1>16. ASSUME NEW d \in Decisions, DecidedAlready(d)
      PROVE  (ReplayOK /\ CarriedOutOnce)'
  BY <1>16, EndIs, AtRest, ReplayKept
     DEF DecidedAlready, Undecided, Handlers, Replaying, At
<1>17. ASSUME NEW d \in Decisions, Confirm(d)
      PROVE  (ReplayOK /\ CarriedOutOnce)'
  BY <1>17, GotoIs, AimIs, AtRest, ReplayKept
     DEF Confirm, Handlers, Replaying, At
<1>18. ASSUME NEW d \in Decisions, Invoke(d)
      PROVE  (ReplayOK /\ CarriedOutOnce)'
  <2> DEFINE b == task[d].about
  <2>1. d \in Handlers /\ b \in Approvals /\ Replaying(d)
    BY <1>18, RunOfTyped DEF Invoke, Handlers, At, Replaying
  <2>2. approval[b].status = "approved" /\ carried[b] = 0
    BY <2>1 DEF ReplayOK
  <2>3. /\ ~Replaying(d)'
        /\ \A e \in Decisions : e # d => task'[e] = task[e]
        /\ UNCHANGED approval
    BY <1>18, <2>1, AimIs DEF Invoke, Replaying, Handlers
  <2> \/ UNCHANGED carried
      \/ carried' = [carried EXCEPT ![b] = @ + 1]
    BY <1>18 DEF Invoke
  <2>4. \A c \in Approvals : carried'[c] = carried[c] \/ (c = b /\ carried'[c] = 1)
    <3>1. CASE UNCHANGED carried
      BY <3>1
    <3>2. CASE carried' = [carried EXCEPT ![b] = @ + 1]
      <4>1. carried'[b] = carried[b] + 1 /\ \A c \in Approvals : c # b => carried'[c] = carried[c]
        BY <2>1, <3>2 DEF TypeOK
      <4>2. carried'[b] = 1
        BY <2>2, <4>1
      <4>3. QED
        BY <4>1, <4>2
    <3>3. QED
      BY <3>1, <3>2
  <2>5. CarriedOutOnce'
    BY <2>2, <2>3, <2>4 DEF CarriedOutOnce
  <2>6. \A e \in Decisions : Replaying(e)' =>
            /\ e # d /\ Replaying(e) /\ task'[e] = task[e]
            /\ task[e].about # b /\ task[e].about \in Approvals
    BY <2>1, <2>3, RunOfTyped DEF ReplayOK, Replaying
  <2>7. ReplayOK'
    BY <2>3, <2>4, <2>6 DEF ReplayOK
  <2>8. QED
    BY <2>5, <2>7
<1>19. ASSUME NEW d \in Decisions, Record(d)
      PROVE  (ReplayOK /\ CarriedOutOnce)'
  BY <1>19, AimIs, ReadIs, EndIs, AtRest, ReplayKept
     DEF Record, Fails, Handlers, Replaying, At
<1>20. ASSUME NEW d \in Decisions, Settle(d)
      PROVE  (ReplayOK /\ CarriedOutOnce)'
  BY <1>20, EndIs, AimIs, AtRest, ReplayKept
     DEF Settle, Fails, Handlers, Replaying, At
<1>21. ASSUME NEW d \in Decisions, Catch(d)
      PROVE  (ReplayOK /\ CarriedOutOnce)'
  BY <1>21, ReadIs, EndIs, AtRest, ReplayKept
     DEF Catch, Handlers, Replaying, At
<1>22. ASSUME NEW d \in Decisions, Unwind(d)
      PROVE  (ReplayOK /\ CarriedOutOnce)'
  BY <1>22, EndIs, AtRest, ReplayKept
     DEF Unwind, Handlers, Replaying, At
<1>23. CASE Crash
  BY <1>23, DieIs, AtRest, ReplayKept
     DEF Crash, Handlers, Replaying, At
<1>24. CASE UNCHANGED vars
  BY <1>24, ReplayKept DEF vars, Replaying
<1>25. QED
  BY <1>1, <1>2, <1>3, <1>4, <1>5, <1>6, <1>7, <1>8, <1>9, <1>10, <1>11, <1>12,
     <1>13, <1>14, <1>15, <1>16, <1>17, <1>18, <1>19, <1>20, <1>21, <1>22, <1>23, <1>24
     DEF Next, Owner, Prompt, Decision

-----------------------------------------------------------------------------
(* Prompts of one run take turns.                                          *)

\* The chains stay, and no prompt gets to work.
LEMMA SerialKept ==
    ASSUME Serial, UNCHANGED chain,
           \A p \in Prompts : task'[p].at \in AtWork => task[p].at \in AtWork
    PROVE  Serial'
  BY DEF Serial

LEMMA SerialAfterDeath ==
    ASSUME TypeOK, Die
    PROVE  Serial'
  BY DieIs, AtRest DEF Serial, AtWork, Loaded, Handlers

LEMMA SerialStep == TypeOK /\ Serial /\ [Next]_vars => Serial'
<1> SUFFICES ASSUME TypeOK, Serial, [Next]_vars
             PROVE  Serial'
  OBVIOUS
<1> USE RunsAssumption
<1>1. ASSUME NEW r \in Runs, Create(r)
      PROVE  Serial'
  BY <1>1 DEF Create, Serial
<1>2. ASSUME NEW o \in Requests, NEW w \in {"paused", "running", "cancelled"}, OwnerAsks(o, w)
      PROVE  Serial'
  BY <1>2, ReadIs, AtRest, SerialKept
     DEF OwnerAsks, Handlers, At, AtWork, Loaded
<1>3. ASSUME NEW o \in Requests, OwnerGets(o)
      PROVE  Serial'
  BY <1>3, EndIs, AtRest, SerialKept
     DEF OwnerGets, Handlers, At, AtWork, Loaded
<1>4. ASSUME NEW p \in Prompts, Send(p)
      PROVE  Serial'
  <2>1. Of[p] \in Runs /\ chain[Of[p]] \in Seq(Prompts)
    BY DEF TypeOK
  <2>2. \A q \in Prompts : task'[q].at \in AtWork => task[q].at \in AtWork
    BY <1>4, GotoIs DEF Send, Handlers, AtWork, Loaded
  <2>3. \A r \in Runs : chain[r] # <<>> => chain'[r] # <<>> /\ Head(chain'[r]) = Head(chain[r])
    <3> SUFFICES ASSUME NEW r \in Runs, chain[r] # <<>>
                 PROVE  chain'[r] # <<>> /\ Head(chain'[r]) = Head(chain[r])
      OBVIOUS
    <3>1. CASE r # Of[p]
      BY <1>4, <3>1 DEF Send, TypeOK
    <3>2. CASE r = Of[p]
      <4>1. chain'[r] = Append(chain[r], p)
        BY <1>4, <3>2 DEF Send, TypeOK
      <4>2. Len(chain[r]) > 0
        BY <2>1, <3>2
      <4>3. QED
        BY <2>1, <3>2, <4>1, <4>2
    <3>3. QED
      BY <3>1, <3>2
  <2>4. QED
    BY <2>2, <2>3 DEF Serial, TypeOK
<1>5. ASSUME NEW p \in Prompts, Begin(p)
      PROVE  Serial'
  <2>1. CASE Reject(p)
    BY <2>1, SerialAfterDeath DEF Reject
  <2>2. CASE ~Reject(p)
    <3>1. /\ UNCHANGED chain
          /\ \A q \in Prompts : q # p => task'[q] = task[q]
      BY <1>5, <2>2, GotoIs, ReadIs DEF Begin, Handlers
    <3>2. chain[Of[p]] # <<>> /\ Head(chain[Of[p]]) = p
      BY <1>5 DEF Begin, IsTurnOf, IsNext
    <3>3. QED
      BY <3>1, <3>2 DEF Serial
  <2>3. QED
    BY <2>1, <2>2
<1>6. ASSUME NEW p \in Prompts, Start(p)
      PROVE  Serial'
  BY <1>6, GotoIs, DieIs, AtRest, SerialKept, SerialAfterDeath
     DEF Start, Reject, Handlers, At, AtWork, Loaded
<1>7. ASSUME NEW p \in Prompts, Load(p)
      PROVE  Serial'
  BY <1>7, DieIs, LoadIs, AtRest, SerialKept, SerialAfterDeath
     DEF Load, Reject, Handlers, At, AtWork, Loaded
<1>8. ASSUME NEW p \in Prompts, NEW a \in Approvals, AskApproval(p, a)
      PROVE  Serial'
  BY <1>8, GotoIs, AtRest, SerialKept
     DEF AskApproval, Requested, Handlers, At, AtWork, Loaded
<1>9. ASSUME NEW p \in Prompts, LoadToAwait(p)
      PROVE  Serial'
  BY <1>9, ReadIs, GotoIs, AtRest, SerialKept
     DEF LoadToAwait, Handlers, At, AtWork, Loaded
<1>10. ASSUME NEW p \in Prompts, Await(p)
      PROVE  Serial'
  BY <1>10, GotoIs, AtRest, SerialKept
     DEF Await, Handlers, At, AtWork, Loaded
<1>11. ASSUME NEW p \in Prompts, NEW w \in {"completed", "failed", "cancelled"}, Finish(p, w)
      PROVE  Serial'
  BY <1>11, ReadIs, AimIs, AtRest, SerialKept
     DEF Finish, Handlers, At, AtWork, Loaded
<1>12. ASSUME NEW p \in Prompts, Close(p)
      PROVE  Serial'
  BY <1>12, GotoIs, AtRest, SerialKept
     DEF Close, Handlers, At, AtWork, Loaded
<1>13. ASSUME NEW p \in Prompts, Save(p)
      PROVE  Serial'
  <2>1. CASE Reject(p)
    BY <2>1, SerialAfterDeath DEF Reject
  <2>2. CASE Resolve(p)
    <3>1. task[p].at \in AtWork
      BY <1>13 DEF Save, At, AtWork, Loaded
    <3>2. /\ task'[p].at \notin AtWork
          /\ \A q \in Prompts : q # p => task'[q] = task[q]
      BY <2>2, EndIs, AtRest DEF Resolve, Handlers, AtWork, Loaded
    <3>3. \A r \in Runs : r # Of[p] => chain'[r] = chain[r]
      BY <2>2 DEF Resolve, TypeOK
    <3>4. \A q \in Prompts : q # p /\ task[q].at \in AtWork => Of[q] # Of[p]
      BY <3>1 DEF Serial
    <3>5. \A q \in Prompts : Of[q] \in Runs
      OBVIOUS
    <3>6. QED
      BY <3>2, <3>3, <3>4, <3>5 DEF Serial
  <2>3. QED
    BY <1>13, <2>1, <2>2 DEF Save
<1>14. ASSUME NEW d \in Decisions, NEW a \in Approvals, DecisionAsked(d, a)
      PROVE  Serial'
  BY <1>14, AtRest, SerialKept
     DEF DecisionAsked, Handlers, At, AtWork, Loaded, Fresh, TypeOK
<1>15. ASSUME NEW d \in Decisions, NEW v \in {"approved", "rejected"}, Decide(d, v)
      PROVE  Serial'
  BY <1>15, GotoIs, EndIs, CancelIs, AtRest, SerialKept
     DEF Decide, Undecided, Handlers, At, AtWork, Loaded
<1>16. ASSUME NEW d \in Decisions, DecidedAlready(d)
      PROVE  Serial'
  BY <1>16, EndIs, AtRest, SerialKept
     DEF DecidedAlready, Undecided, Handlers, At, AtWork, Loaded
<1>17. ASSUME NEW d \in Decisions, Confirm(d)
      PROVE  Serial'
  BY <1>17, GotoIs, AimIs, AtRest, SerialKept
     DEF Confirm, Handlers, At, AtWork, Loaded
<1>18. ASSUME NEW d \in Decisions, Invoke(d)
      PROVE  Serial'
  BY <1>18, AimIs, AtRest, SerialKept
     DEF Invoke, Handlers, At, AtWork, Loaded
<1>19. ASSUME NEW d \in Decisions, Record(d)
      PROVE  Serial'
  BY <1>19, AimIs, ReadIs, EndIs, AtRest, SerialKept
     DEF Record, Fails, Handlers, At, AtWork, Loaded
<1>20. ASSUME NEW d \in Decisions, Settle(d)
      PROVE  Serial'
  BY <1>20, EndIs, AimIs, AtRest, SerialKept
     DEF Settle, Fails, Handlers, At, AtWork, Loaded
<1>21. ASSUME NEW d \in Decisions, Catch(d)
      PROVE  Serial'
  BY <1>21, ReadIs, EndIs, AtRest, SerialKept
     DEF Catch, Handlers, At, AtWork, Loaded
<1>22. ASSUME NEW d \in Decisions, Unwind(d)
      PROVE  Serial'
  BY <1>22, EndIs, AtRest, SerialKept
     DEF Unwind, Handlers, At, AtWork, Loaded
<1>23. CASE Crash
  BY <1>23, SerialAfterDeath DEF Crash
<1>24. CASE UNCHANGED vars
  BY <1>24 DEF vars, Serial
<1>25. QED
  BY <1>1, <1>2, <1>3, <1>4, <1>5, <1>6, <1>7, <1>8, <1>9, <1>10, <1>11, <1>12,
     <1>13, <1>14, <1>15, <1>16, <1>17, <1>18, <1>19, <1>20, <1>21, <1>22, <1>23, <1>24
     DEF Next, Owner, Prompt, Decision

\* The stored history stays, and no prompt gets hold of another one.
LEMMA HistoryStays ==
    ASSUME HistoryKept, UNCHANGED history,
           \A p \in Prompts : task'[p].at \in Loaded =>
               task[p].at \in Loaded /\ task'[p].base = task[p].base
    PROVE  HistoryKept'
  BY DEF HistoryKept

LEMMA HistoryStep == TypeOK /\ Serial /\ HistoryKept /\ [Next]_vars => HistoryKept'
<1> SUFFICES ASSUME TypeOK, Serial, HistoryKept, [Next]_vars
             PROVE  HistoryKept'
  OBVIOUS
<1> USE RunsAssumption
<1>1. ASSUME NEW r \in Runs, Create(r)
      PROVE  HistoryKept'
  BY <1>1 DEF Create, HistoryKept
<1>2. ASSUME NEW o \in Requests, NEW w \in {"paused", "running", "cancelled"}, OwnerAsks(o, w)
      PROVE  HistoryKept'
  BY <1>2, ReadIs, AtRest, HistoryStays
     DEF OwnerAsks, Handlers, At, Loaded
<1>3. ASSUME NEW o \in Requests, OwnerGets(o)
      PROVE  HistoryKept'
  BY <1>3, EndIs, AtRest, HistoryStays
     DEF OwnerGets, Handlers, At, Loaded
<1>4. ASSUME NEW p \in Prompts, Send(p)
      PROVE  HistoryKept'
  BY <1>4, GotoIs, AtRest, HistoryStays
     DEF Send, Handlers, At, Loaded
<1>5. ASSUME NEW p \in Prompts, Begin(p)
      PROVE  HistoryKept'
  <2>1. CASE Reject(p)
    BY <1>5, <2>1, DieIs, AtRest DEF Begin, Reject, HistoryKept, Handlers, Loaded
  <2>2. CASE ~Reject(p)
    BY <1>5, <2>2, GotoIs, ReadIs, HistoryStays DEF Begin, Handlers, Loaded
  <2>3. QED
    BY <2>1, <2>2
<1>6. ASSUME NEW p \in Prompts, Start(p)
      PROVE  HistoryKept'
  <2>1. CASE Reject(p)
    BY <1>6, <2>1, DieIs, AtRest DEF Start, Reject, HistoryKept, Handlers, Loaded
  <2>2. CASE ~Reject(p)
    BY <1>6, <2>2, GotoIs, HistoryStays DEF Start, Handlers, Loaded
  <2>3. QED
    BY <2>1, <2>2
<1>7. ASSUME NEW p \in Prompts, Load(p)
      PROVE  HistoryKept'
  <2>1. CASE Reject(p)
    BY <2>1, DieIs, AtRest DEF Reject, HistoryKept, Handlers, Loaded
  <2>2. CASE ~Reject(p)
    <3>1. /\ task'[p].base = history /\ UNCHANGED history
          /\ \A q \in Prompts : q # p => task'[q] = task[q]
      BY <1>7, <2>2, LoadIs DEF Load, Handlers
    <3>2. QED
      BY <3>1 DEF HistoryKept
  <2>3. QED
    BY <2>1, <2>2
<1>8. ASSUME NEW p \in Prompts, NEW a \in Approvals, AskApproval(p, a)
      PROVE  HistoryKept'
  BY <1>8, GotoIs, AtRest, HistoryStays
     DEF AskApproval, Requested, Handlers, At, Loaded
<1>9. ASSUME NEW p \in Prompts, LoadToAwait(p)
      PROVE  HistoryKept'
  BY <1>9, ReadIs, GotoIs, AtRest, HistoryStays
     DEF LoadToAwait, Handlers, At, Loaded
<1>10. ASSUME NEW p \in Prompts, Await(p)
      PROVE  HistoryKept'
  BY <1>10, GotoIs, AtRest, HistoryStays
     DEF Await, Handlers, At, Loaded
<1>11. ASSUME NEW p \in Prompts, NEW w \in {"completed", "failed", "cancelled"}, Finish(p, w)
      PROVE  HistoryKept'
  BY <1>11, ReadIs, AimIs, AtRest, HistoryStays
     DEF Finish, Handlers, At, Loaded
<1>12. ASSUME NEW p \in Prompts, Close(p)
      PROVE  HistoryKept'
  BY <1>12, GotoIs, AtRest, HistoryStays
     DEF Close, Handlers, At, Loaded
<1>13. ASSUME NEW p \in Prompts, Save(p)
      PROVE  HistoryKept'
  <2>1. CASE Reject(p)
    BY <2>1, DieIs, AtRest DEF Reject, HistoryKept, Handlers, Loaded
  <2>2. CASE Resolve(p)
    <3>1. task[p].at \in AtWork
      BY <1>13 DEF Save, At, AtWork, Loaded
    <3>2. /\ task'[p].at \notin Loaded
          /\ \A q \in Prompts : q # p => task'[q] = task[q]
      BY <2>2, EndIs, AtRest DEF Resolve, Handlers, Loaded
    <3>3. \A q \in Prompts : q # p /\ task[q].at \in Loaded => Of[q] # Of[p]
      BY <3>1 DEF Serial, AtWork
    <3>4. QED
      BY <3>2, <3>3 DEF HistoryKept
  <2>3. QED
    BY <1>13, <2>1, <2>2 DEF Save
<1>14. ASSUME NEW d \in Decisions, NEW a \in Approvals, DecisionAsked(d, a)
      PROVE  HistoryKept'
  BY <1>14, AtRest, HistoryStays
     DEF DecisionAsked, Handlers, At, Loaded, Fresh, TypeOK
<1>15. ASSUME NEW d \in Decisions, NEW v \in {"approved", "rejected"}, Decide(d, v)
      PROVE  HistoryKept'
  BY <1>15, GotoIs, EndIs, CancelIs, AtRest, HistoryStays
     DEF Decide, Undecided, Handlers, At, Loaded
<1>16. ASSUME NEW d \in Decisions, DecidedAlready(d)
      PROVE  HistoryKept'
  BY <1>16, EndIs, AtRest, HistoryStays
     DEF DecidedAlready, Undecided, Handlers, At, Loaded
<1>17. ASSUME NEW d \in Decisions, Confirm(d)
      PROVE  HistoryKept'
  BY <1>17, GotoIs, AimIs, AtRest, HistoryStays
     DEF Confirm, Handlers, At, Loaded
<1>18. ASSUME NEW d \in Decisions, Invoke(d)
      PROVE  HistoryKept'
  BY <1>18, AimIs, AtRest, HistoryStays
     DEF Invoke, Handlers, At, Loaded
<1>19. ASSUME NEW d \in Decisions, Record(d)
      PROVE  HistoryKept'
  BY <1>19, AimIs, ReadIs, EndIs, AtRest, HistoryStays
     DEF Record, Fails, Handlers, At, Loaded
<1>20. ASSUME NEW d \in Decisions, Settle(d)
      PROVE  HistoryKept'
  BY <1>20, EndIs, AimIs, AtRest, HistoryStays
     DEF Settle, Fails, Handlers, At, Loaded
<1>21. ASSUME NEW d \in Decisions, Catch(d)
      PROVE  HistoryKept'
  BY <1>21, ReadIs, EndIs, AtRest, HistoryStays
     DEF Catch, Handlers, At, Loaded
<1>22. ASSUME NEW d \in Decisions, Unwind(d)
      PROVE  HistoryKept'
  BY <1>22, EndIs, AtRest, HistoryStays
     DEF Unwind, Handlers, At, Loaded
<1>23. CASE Crash
  BY <1>23, DieIs, AtRest DEF Crash, HistoryKept, Handlers, Loaded
<1>24. CASE UNCHANGED vars
  BY <1>24 DEF vars, HistoryKept
<1>25. QED
  BY <1>1, <1>2, <1>3, <1>4, <1>5, <1>6, <1>7, <1>8, <1>9, <1>10, <1>11, <1>12,
     <1>13, <1>14, <1>15, <1>16, <1>17, <1>18, <1>19, <1>20, <1>21, <1>22, <1>23, <1>24
     DEF Next, Owner, Prompt, Decision

-----------------------------------------------------------------------------
(* Theorems.                                                               *)

LEMMA InvInit == Init => Inv
<1> SUFFICES ASSUME Init
             PROVE  Inv
  OBVIOUS
<1>1. TypeOK
  BY TypeInit
<1>2. RestOK /\ AboutOK /\ SeenIsPast /\ ReplayOK /\ Serial /\ HistoryKept
  BY RunsAssumption, AtRest
     DEF Init, RestOK, AboutOK, SeenIsPast, Past, ReplayOK, Replaying, Serial, AtWork, Loaded,
         HistoryKept, Handlers
<1>3. CarriedOutOnce
  BY DEF Init, CarriedOutOnce
<1>4. QED
  BY <1>1, <1>2, <1>3 DEF Inv

LEMMA InvStep == Inv /\ [Next]_vars => Inv'
  BY TypeStep, RestStep, AboutStep, SeenStep, ReplayStep, SerialStep, HistoryStep DEF Inv

THEOREM Invariance == Spec => []Inv
  BY InvInit, InvStep, PTL DEF Spec

\* The tables, chains and handlers are typed; a request names its run.
THEOREM TypeCorrect == Spec => []TypeOK
<1>1. Inv => TypeOK
  BY DEF Inv
<1>2. QED
  BY <1>1, Invariance, PTL

\* However often an approval is decided, the write is carried out at most once, and
\* only after it was approved.
THEOREM ApprovedOnce == Spec => []CarriedOutOnce
<1>1. Inv => CarriedOutOnce
  BY DEF Inv
<1>2. QED
  BY <1>1, Invariance, PTL

\* In a session of one run no prompt overwrites the turns of another.
THEOREM TurnsKept == Spec => []HistoryKept
<1>1. Inv => HistoryKept
  BY DEF Inv
<1>2. QED
  BY <1>1, Invariance, PTL

\* No handler, however late, moves a run against the table.
THEOREM LegalMoves == Spec => RunsMoveLegally
<1>1. Inv /\ [Next]_vars =>
          [\A r \in Runs : run'[r].status # run[r].status =>
               run'[r].status \in transitions[run[r].status]]_vars
  BY MoveStep DEF Inv, RunMoves
<1>2. QED
  BY <1>1, Invariance, PTL DEF Spec, RunsMoveLegally

=============================================================================
