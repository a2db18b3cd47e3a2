------------------------- MODULE LocalRuntimeProofs -------------------------
(***************************************************************************)
(* What the journal of the local runtime is worth, whatever the server     *)
(* does: no step of a plan is carried out twice, and the host takes new    *)
(* work only when everything it ever executed is settled. The proofs use   *)
(* nothing of the server: any answer to any call keeps the invariant.      *)
(***************************************************************************)
EXTENDS LocalRuntime, FiniteSetTheorems, TLAPS

\* The host's record has the fields of Down.
HostOK ==
    host = [at |-> host.at, plan |-> host.plan, todo |-> host.todo,
            original |-> host.original, right |-> host.right, evidence |-> host.evidence]

LocalType ==
    /\ journal \in [Plans -> Entries]
    /\ length \in Nat
    /\ pending \in [Plans -> SUBSET Nat]
    /\ done \in [Plans -> SUBSET Nat]
    /\ runs \in [Plans -> Nat]
    /\ HostOK

\* The step that a write in the viewer belongs to: the open one, or the last.
Last(e) == IF e.open THEN Len(e.results) + 1 ELSE Len(e.results)
Current(p) == Last(journal[p])

\* An entry that leaves open what became of its last step.
Doubt(e) ==
    e.open \/ (LET n == Len(e.results) IN n > 0 /\ e.results[n] = "outcome_unknown")

\* The entry accounts for the writes d that took effect and the writes w that the
\* viewer may yet carry out: they belong to journalled steps, and a write that has
\* not come to an end is the last step and leaves the entry in doubt.
Covers(e, d, w) ==
    /\ d \subseteq 1..Last(e)
    /\ w \subseteq {Last(e)} \ d
    /\ w # {} => Doubt(e)
    /\ e.lease # "acquired" => e.results = <<>> /\ ~e.open

EntryOK(p) ==
    /\ Covers(journal[p], done[p], pending[p])
    /\ runs[p] = Cardinality(done[p])

\* A host that is not settling what its journal has left open has nothing open but
\* the plan it works on.
TodoOK ==
    /\ host.at \in {"register", "idle"} => host.todo = {} /\ Unsettled = {}
    /\ host.at \in {"executing", "reporting"} =>
           host.todo = {} /\ Unsettled \subseteq {host.plan}
    /\ host.at = "delivering" =>
           host.plan \in host.todo \/ (host.todo = {} /\ Unsettled \subseteq {host.plan})
    /\ host.at \in {"reconciling", "probed", "reconciled"} => host.plan \in host.todo

LocalInv ==
    /\ LocalType
    /\ \A p \in Plans : EntryOK(p)
    /\ TodoOK

-----------------------------------------------------------------------------
(* Entries of the journal.                                                 *)

\* What is signed for a list of verdicts is an outcome.
LEMMA SignedType ==
    ASSUME NEW results, NEW n \in Nat
    PROVE  Signed(Overall(results), n) \in Outcomes
BY DEF Signed, Overall, Outcomes, Verdicts

LEMMA BlankType ==
    /\ Blank \in Entries
    /\ Blank.results = <<>> /\ ~Blank.open /\ Blank.lease = "none"
<1>1. <<>> \in Seq(Verdicts) /\ {} \in SUBSET Marks
  OBVIOUS
<1>2. QED
  BY <1>1 DEF Blank, Entries

LEMMA Initially == RuntimeInit => LocalInv
<1> SUFFICES ASSUME RuntimeInit PROVE LocalInv
  OBVIOUS
<1>1. LocalType
  BY BlankType DEF RuntimeInit, LocalType, HostOK, Down
<1>2. \A p \in Plans : EntryOK(p)
  BY BlankType, FS_EmptySet DEF RuntimeInit, EntryOK, Covers
<1>3. TodoOK
  BY DEF RuntimeInit, TodoOK, Down
<1>4. QED
  BY <1>1, <1>2, <1>3 DEF LocalInv

\* A step that leaves the journal and the viewer's work alone.
LEMMA HostMoves ==
    ASSUME LocalInv, UNCHANGED <<journal, viewerVars>>, length' \in Nat, HostOK', TodoOK'
    PROVE  LocalInv'
<1>1. LocalType'
  BY DEF LocalInv, LocalType, viewerVars
<1>2. \A p \in Plans : EntryOK(p)'
  BY DEF LocalInv, EntryOK, Covers, Doubt, Last, viewerVars
<1>3. QED
  BY <1>1, <1>2 DEF LocalInv

\* A step that leaves alone all that the invariant speaks of.
LEMMA Untouched ==
    ASSUME LocalInv, UNCHANGED <<journal, length, host, viewerVars>>
    PROVE  LocalInv'
<1>1. length' \in Nat /\ HostOK' /\ TodoOK'
  BY DEF LocalInv, LocalType, HostOK, TodoOK, Unsettled
<1>2. QED
  BY <1>1, HostMoves

\* A process that stops leaves to the viewer what it was asked for.
LEMMA Stops ==
    ASSUME LocalInv, UNCHANGED <<journal, viewerVars>>, length' \in Nat, host' = Down
    PROVE  LocalInv'
<1>1. HostOK' /\ TodoOK'
  BY DEF HostOK, TodoOK, Down
<1>2. QED
  BY <1>1, HostMoves

\* An entry accounts for no less when only other fields of it change.
LEMMA SameCover ==
    ASSUME NEW d, NEW w, NEW e, Covers(e, d, w), NEW f,
           f.results = e.results, f.open = e.open, f.lease = e.lease \/ f.lease = "acquired"
    PROVE  Covers(f, d, w)
BY DEF Covers, Doubt, Last

\* A step that rewrites one entry of the journal.
LEMMA EntryMoves ==
    ASSUME LocalInv, NEW p \in Plans, NEW e \in Entries, Append1(p, e),
           NEW w \in SUBSET Nat, pending' = [pending EXCEPT ![p] = w],
           UNCHANGED <<done, runs>>, length' \in Nat, HostOK', Covers(e, done[p], w)
    PROVE  /\ LocalType' /\ \A q \in Plans : EntryOK(q)'
           /\ journal'[p] = e
           /\ Unsettled' \subseteq Unsettled \cup {p}
           /\ "acknowledged" \in e.marks => p \notin Unsettled'
<1>1. /\ journal' = [journal EXCEPT ![p] = e] /\ journal' \in [Plans -> Entries]
      /\ journal'[p] = e /\ \A q \in Plans \ {p} : journal'[q] = journal[q]
  BY DEF Append1, LocalInv, LocalType
<1>2. /\ pending' \in [Plans -> SUBSET Nat] /\ pending'[p] = w
      /\ \A q \in Plans \ {p} : pending'[q] = pending[q]
  BY DEF LocalInv, LocalType
<1>3. LocalType'
  BY <1>1, <1>2 DEF LocalInv, LocalType
<1>4. \A q \in Plans : EntryOK(q)'
  <2> SUFFICES ASSUME NEW q \in Plans PROVE EntryOK(q)'
    OBVIOUS
  <2>1. EntryOK(q)
    BY DEF LocalInv
  <2>2. CASE q = p
    BY <1>1, <1>2, <2>1, <2>2 DEF EntryOK, Covers, Doubt, Last
  <2>3. CASE q # p
    BY <1>1, <1>2, <2>1, <2>3 DEF EntryOK, Covers, Doubt, Last
  <2>4. QED
    BY <2>2, <2>3
<1>5. Unsettled' \subseteq Unsettled \cup {p} /\ ("acknowledged" \in e.marks => p \notin Unsettled')
  BY <1>1 DEF Unsettled
<1>6. QED
  BY <1>1, <1>3, <1>4, <1>5

\* ... and asks nothing of the viewer.
LEMMA EntryRewritten ==
    ASSUME LocalInv, NEW p \in Plans, NEW e \in Entries, Append1(p, e),
           UNCHANGED viewerVars, length' \in Nat, HostOK', Covers(e, done[p], pending[p])
    PROVE  /\ LocalType' /\ \A q \in Plans : EntryOK(q)'
           /\ journal'[p] = e
           /\ Unsettled' \subseteq Unsettled \cup {p}
           /\ "acknowledged" \in e.marks => p \notin Unsettled'
<1>1. pending[p] \in SUBSET Nat /\ pending' = [pending EXCEPT ![p] = pending[p]]
  BY DEF LocalInv, LocalType, viewerVars
<1>2. QED
  BY <1>1, EntryMoves DEF viewerVars

-----------------------------------------------------------------------------
(* Starting, registering and leasing.                                      *)

LEMMA EntryType ==
    ASSUME LocalInv, NEW p \in Plans
    PROVE  /\ journal[p] \in Entries
           /\ journal[p].results \in Seq(Verdicts) /\ Len(journal[p].results) \in Nat
           /\ journal[p].open \in BOOLEAN
           /\ Current(p) \in Nat
           /\ Covers(journal[p], done[p], pending[p])
<1>1. /\ journal[p] \in Entries
      /\ journal[p].results \in Seq(Verdicts)
      /\ journal[p].open \in BOOLEAN
  BY DEF LocalInv, LocalType, Entries
<1>2. Len(journal[p].results) \in Nat
  BY <1>1
<1>3. Current(p) \in Nat
  <2>1. CASE journal[p].open
    BY <1>2, <2>1 DEF Current, Last
  <2>2. CASE ~journal[p].open
    BY <1>2, <2>2 DEF Current, Last
  <2>3. QED
    BY <2>1, <2>2
<1>4. Covers(journal[p], done[p], pending[p])
  BY DEF LocalInv, EntryOK
<1>5. QED
  BY <1>1, <1>2, <1>3, <1>4

\* What a new process finds in the journal accounts for every step that was invoked.
LEMMA RecoveredType ==
    ASSUME LocalInv, NEW p \in Plans
    PROVE  /\ RecoveredResults(p) \in Seq(Verdicts)
           /\ \A e : /\ e.results = RecoveredResults(p) /\ ~e.open /\ e.lease = "acquired"
                     => Covers(e, done[p], pending[p])
<1> DEFINE r == journal[p].results
           s == RecoveredResults(p)
<1>1. /\ r \in Seq(Verdicts) /\ Len(r) \in Nat /\ journal[p].open \in BOOLEAN
      /\ Covers(journal[p], done[p], pending[p])
  BY EntryType
<1>2. \A v \in Verdicts : /\ Append(r, v) \in Seq(Verdicts)
                          /\ Len(Append(r, v)) = Len(r) + 1
                          /\ Append(r, v)[Len(r) + 1] = v
  BY <1>1
<1>3. "outcome_unknown" \in Verdicts /\ "failed_without_effect" \in Verdicts
  BY DEF Verdicts
<1>4. CASE journal[p].open
  <2>1. s = Append(r, "outcome_unknown")
    BY <1>4 DEF RecoveredResults
  <2>2. s \in Seq(Verdicts) /\ Len(s) = Len(r) + 1 /\ s[Len(r) + 1] = "outcome_unknown"
    BY <1>2, <1>3, <2>1
  <2>3. done[p] \subseteq 1..(Len(r) + 1) /\ pending[p] \subseteq {Len(r) + 1} \ done[p]
    BY <1>1, <1>4 DEF Covers, Last
  <2> HIDE DEF r, s
  <2>4. QED
    BY <1>1, <2>2, <2>3 DEF Covers, Doubt, Last, s
<1>5. CASE ~journal[p].open /\ s = Append(r, "failed_without_effect")
  <2>1. ~\E i \in 1..Len(r) : r[i] = "outcome_unknown"
    <3>1. r # Append(r, "failed_without_effect")
      BY <1>1, <1>2, <1>3
    <3>2. QED
      BY <1>5, <3>1 DEF RecoveredResults
  <2>2. done[p] \subseteq 1..Len(r) /\ pending[p] = {}
    BY <1>1, <1>5, <2>1 DEF Covers, Doubt, Last
  <2>3. s \in Seq(Verdicts) /\ Len(s) = Len(r) + 1
    BY <1>2, <1>3, <1>5
  <2> HIDE DEF r, s
  <2>4. QED
    BY <1>1, <2>2, <2>3 DEF Covers, Doubt, Last, s
<1>6. CASE ~journal[p].open /\ s = r
  BY <1>1, <1>6 DEF Covers, Doubt, Last
<1>7. QED
  BY <1>1, <1>4, <1>5, <1>6 DEF RecoveredResults

LEMMA StartStep == LocalInv /\ Start => LocalInv'
<1> SUFFICES ASSUME LocalInv, Start PROVE LocalInv'
  OBVIOUS
<1> DEFINE left == {p \in Unsettled : journal[p].outcome = NoOutcome}
<1>1. UNCHANGED <<done, runs, pending>>
  BY DEF Start, viewerVars
<1>2. length \in Nat /\ length' \in Nat
  BY DEF LocalInv, LocalType, Start
<1>3. ASSUME NEW p \in Plans
      PROVE  journal'[p] \in Entries /\ EntryOK(p)'
  <2>1. journal[p] \in Entries /\ EntryOK(p)
    BY DEF LocalInv, LocalType
  <2>2. CASE p \in left
    <3> DEFINE r == RecoveredResults(p)
               o == Signed(Overall(r), length + 1)
    <3>1. journal'[p] = [journal[p] EXCEPT !.results = r, !.open = FALSE, !.outcome = o]
      BY <2>2 DEF Start, WithOutcome
    <3>2. o \in Outcomes
      BY <1>2, SignedType
    <3>3. journal'[p] \in Entries /\ journal'[p].results = r /\ ~journal'[p].open
      <4> HIDE DEF r, o
      <4>1. r \in Seq(Verdicts)
        BY RecoveredType DEF r
      <4>2. QED
        BY <2>1, <3>1, <3>2, <4>1 DEF Entries
    <3>4. journal'[p].lease = "acquired"
      BY <2>1, <2>2, <3>1 DEF Unsettled, Entries
    <3>5. Covers(journal'[p], done[p], pending[p])
      BY <3>3, <3>4, RecoveredType
    <3>6. QED
      BY <1>1, <2>1, <3>3, <3>5 DEF EntryOK, Covers, Doubt, Last
  <2>3. CASE p \notin left
    <3>1. journal'[p] = journal[p]
      BY <2>3 DEF Start
    <3>2. QED
      BY <1>1, <2>1, <3>1 DEF EntryOK, Covers, Doubt, Last
  <2>4. QED
    BY <2>2, <2>3
<1>4. HostOK'
  BY DEF Start, Down, HostOK
<1>5. LocalType'
  <2>1. journal' = [p \in Plans |-> journal'[p]]
    BY DEF Start
  <2>2. journal' \in [Plans -> Entries]
    BY <1>3, <2>1
  <2>3. QED
    BY <1>1, <1>2, <1>4, <2>2 DEF LocalInv, LocalType
<1>6. TodoOK'
  <2>1. CASE Unsettled = {}
    <3>1. journal' = journal
      BY <2>1 DEF Start, LocalInv, LocalType
    <3>2. QED
      BY <2>1, <3>1 DEF Start, Down, TodoOK, Unsettled
  <2>2. CASE Unsettled # {}
    BY <2>2 DEF Start, Down, TodoOK
  <2>3. QED
    BY <2>1, <2>2
<1>7. QED
  BY <1>3, <1>5, <1>6 DEF LocalInv

LEMMA RegisterStep == LocalInv /\ RegisterCall => LocalInv'
<1> SUFFICES ASSUME LocalInv, RegisterCall PROVE LocalInv'
  OBVIOUS
<1>1. UNCHANGED <<journal, length, viewerVars>>
  BY DEF RegisterCall
<1>2. CASE UNCHANGED host
  BY <1>1, <1>2, Untouched
<1>3. CASE Goto("idle")
  <2>1. HostOK' /\ host'.at = "idle" /\ host'.todo = host.todo
    BY <1>3 DEF Goto, LocalInv, LocalType, HostOK
  <2>2. Unsettled' = Unsettled
    BY <1>1 DEF Unsettled
  <2>3. TodoOK'
    BY <2>1, <2>2 DEF LocalInv, TodoOK, RegisterCall
  <2>4. length' \in Nat
    BY <1>1 DEF LocalInv, LocalType
  <2>5. QED
    BY <1>1, <2>1, <2>3, <2>4, HostMoves
<1>4. QED
  BY <1>2, <1>3 DEF RegisterCall

LEMMA LeaseStep == LocalInv /\ LeaseCall => LocalInv'
<1> SUFFICES ASSUME LocalInv, LeaseCall PROVE LocalInv'
  OBVIOUS
<1>1. UNCHANGED <<journal, length, viewerVars>> /\ length' \in Nat
  BY DEF LeaseCall, LocalInv, LocalType
<1>2. CASE UNCHANGED host
  BY <1>1, <1>2, Untouched
<1>3. CASE Stop
  BY <1>1, <1>3, Stops DEF Stop
<1>4. CASE \E p \in Plans : host' = [host EXCEPT !.at = "executing", !.plan = p]
  <2>1. HostOK' /\ host'.at = "executing" /\ host'.todo = host.todo
    BY <1>4 DEF LocalInv, LocalType, HostOK
  <2>2. Unsettled' = Unsettled
    BY <1>1 DEF Unsettled
  <2>3. TodoOK'
    BY <2>1, <2>2 DEF LocalInv, TodoOK, LeaseCall
  <2>4. QED
    BY <1>1, <2>1, <2>3, HostMoves
<1>5. QED
  BY <1>2, <1>3, <1>4 DEF LeaseCall

-----------------------------------------------------------------------------
(* Execution.                                                              *)

\* A step of the executing host that rewrites the entry of its plan.
LEMMA WorkMoves ==
    ASSUME LocalInv, NEW p \in Plans, Executing(p),
           NEW e \in Entries, Append1(p, e),
           NEW w \in SUBSET Nat, pending' = [pending EXCEPT ![p] = w],
           UNCHANGED <<done, runs, host, length>>, Covers(e, done[p], w)
    PROVE  LocalInv'
<1>1. HostOK' /\ length' \in Nat
  BY DEF LocalInv, LocalType, HostOK
<1>2. /\ LocalType' /\ \A q \in Plans : EntryOK(q)'
      /\ Unsettled' \subseteq Unsettled \cup {p}
  BY <1>1, EntryMoves
<1>3. TodoOK'
  BY <1>2 DEF LocalInv, TodoOK, Executing
<1>4. QED
  BY <1>2, <1>3 DEF LocalInv

\* ... and asks nothing of the viewer.
LEMMA Writes1 ==
    ASSUME LocalInv, NEW p \in Plans, Executing(p),
           NEW e \in Entries, Append1(p, e),
           UNCHANGED <<viewerVars, host, length>>, Covers(e, done[p], pending[p])
    PROVE  LocalInv'
<1>1. pending[p] \in SUBSET Nat /\ pending' = [pending EXCEPT ![p] = pending[p]]
  BY DEF LocalInv, LocalType, viewerVars
<1>2. QED
  BY <1>1, WorkMoves DEF viewerVars

LEMMA ReceiveStep ==
    ASSUME LocalInv, NEW p \in Plans, Receive(p) PROVE LocalInv'
<1> DEFINE e == [Blank EXCEPT !.lease = "received"]
<1>1. e \in Entries /\ e.results = <<>> /\ ~e.open
  BY BlankType DEF Entries, Blank
<1>2. /\ Executing(p) /\ Append1(p, e) /\ journal[p].lease = "none"
      /\ UNCHANGED <<viewerVars, host, length>>
  BY DEF Receive, Fresh
<1>3. Covers(e, done[p], pending[p])
  <2>1. Covers(journal[p], done[p], pending[p]) /\ journal[p].results = <<>> /\ ~journal[p].open
    BY <1>2, EntryType DEF Covers
  <2> HIDE DEF e
  <2>2. QED
    BY <1>1, <2>1 DEF Covers, Doubt, Last
<1>4. QED
  <2> HIDE DEF e
  <2>1. QED
    BY <1>1, <1>2, <1>3, Writes1

LEMMA AcquireStep ==
    ASSUME LocalInv, NEW p \in Plans, Acquire(p) PROVE LocalInv'
<1> DEFINE e == [journal[p] EXCEPT !.lease = "acquired"]
<1>1. e \in Entries /\ e.results = journal[p].results /\ e.open = journal[p].open
      /\ e.lease = "acquired"
  BY EntryType DEF Entries
<1>2. Executing(p) /\ Append1(p, e) /\ UNCHANGED <<viewerVars, host, length>>
  BY DEF Acquire
<1>3. Covers(e, done[p], pending[p])
  <2> HIDE DEF e
  <2>1. QED
    BY <1>1, EntryType, SameCover
<1>4. QED
  <2> HIDE DEF e
  <2>1. QED
    BY <1>1, <1>2, <1>3, Writes1

\* While a write may yet be carried out no step follows the one it belongs to.
LEMMA ReadyIsQuiet ==
    ASSUME LocalInv, NEW p \in Plans, Ready(p)
    PROVE  pending[p] = {} /\ done[p] \subseteq 1..Len(journal[p].results)
<1>1. ~journal[p].open /\ ~Finished(p)
  BY DEF Ready
<1>2. ~Doubt(journal[p])
  BY <1>1 DEF Finished, Doubt
<1>3. QED
  BY <1>1, <1>2, EntryType DEF Covers, Last

LEMMA StepNotStartedStep ==
    ASSUME LocalInv, NEW p \in Plans, StepNotStarted(p) PROVE LocalInv'
<1> DEFINE e == [journal[p] EXCEPT !.results = Append(@, "failed_without_effect")]
<1>1. /\ Executing(p) /\ Append1(p, e) /\ journal[p].lease = "acquired" /\ ~journal[p].open
      /\ UNCHANGED <<viewerVars, host, length>>
      /\ pending[p] = {} /\ done[p] \subseteq 1..Len(journal[p].results)
  BY ReadyIsQuiet DEF StepNotStarted, Ready
<1>2. /\ Append(journal[p].results, "failed_without_effect") \in Seq(Verdicts)
      /\ Len(Append(journal[p].results, "failed_without_effect")) = Len(journal[p].results) + 1
  BY EntryType DEF Verdicts
<1>3. /\ e \in Entries /\ Len(e.results) = Len(journal[p].results) + 1
      /\ ~e.open /\ e.lease = "acquired"
  BY <1>1, <1>2, EntryType DEF Entries
<1>4. Covers(e, done[p], pending[p])
  <2> HIDE DEF e
  <2>1. QED
    BY <1>1, <1>3, EntryType DEF Covers, Last
<1>5. QED
  <2> HIDE DEF e
  <2>1. QED
    BY <1>1, <1>3, <1>4, Writes1

\* The step is journalled as started before its write can take effect.
LEMMA InvokeStep ==
    ASSUME LocalInv, NEW p \in Plans, Invoke(p) PROVE LocalInv'
<1> DEFINE e == [journal[p] EXCEPT !.open = TRUE]
           n == Len(journal[p].results)
           w == {n + 1} \cap Writes(p)
<1>1. /\ Executing(p) /\ Append1(p, e) /\ journal[p].lease = "acquired"
      /\ UNCHANGED <<done, runs, host, length>>
      /\ pending[p] = {} /\ done[p] \subseteq 1..n
  BY ReadyIsQuiet DEF Invoke, Ready
<1>2. e \in Entries /\ e.results = journal[p].results /\ e.open /\ e.lease = "acquired"
  BY <1>1, EntryType DEF Entries
<1>3. n \in Nat /\ w \in SUBSET Nat
  BY EntryType
<1>4. pending' = [pending EXCEPT ![p] = w]
  BY <1>1 DEF Invoke, Asked, NextStep, LocalInv, LocalType
<1>5. Covers(e, done[p], w)
  <2>1. Last(e) = n + 1
    BY <1>2 DEF Last
  <2> HIDE DEF e
  <2>2. w \subseteq {n + 1} /\ n + 1 \notin done[p] /\ done[p] \subseteq 1..(n + 1)
    BY <1>1, <1>3
  <2> HIDE DEF w, n
  <2>3. QED
    BY <1>2, <2>1, <2>2 DEF Covers, Doubt
<1>6. QED
  <2> HIDE DEF e, w
  <2>1. QED
    BY <1>1, <1>2, <1>3, <1>4, <1>5, WorkMoves

\* A write takes effect in the step it was journalled for, and only once.
LEMMA EffectStep ==
    ASSUME LocalInv, NEW p \in Plans, TakesEffect(p) PROVE LocalInv'
<1>1. PICK i \in pending[p] : /\ pending' = [pending EXCEPT ![p] = @ \ {i}]
                              /\ done' = [done EXCEPT ![p] = @ \cup {i}]
  BY DEF TakesEffect
<1>2. UNCHANGED <<journal, length, host>> /\ runs' = [runs EXCEPT ![p] = @ + 1]
  BY DEF TakesEffect
<1>3. /\ i = Current(p) /\ i \in Nat /\ i \notin done[p] /\ done[p] \subseteq 1..i
      /\ pending[p] = {i} /\ Doubt(journal[p]) /\ Covers(journal[p], done[p], pending[p])
  BY EntryType DEF Covers, Current
<1>4. i \in 1..i
  BY <1>3, EntryType DEF Current, Last, Doubt
<1>5. IsFiniteSet(done[p])
  <2>1. IsFiniteSet(1..i)
    BY <1>3, FS_Interval
  <2>2. QED
    BY <1>3, <2>1, FS_Subset
<1>6. Cardinality(done[p] \cup {i}) = Cardinality(done[p]) + 1
  BY <1>3, <1>5, FS_AddElement
<1>7. /\ done \in [Plans -> SUBSET Nat] /\ runs \in [Plans -> Nat]
      /\ pending \in [Plans -> SUBSET Nat]
  BY DEF LocalInv, LocalType
<1>8. /\ done'[p] = done[p] \cup {i} /\ runs'[p] = runs[p] + 1 /\ pending'[p] = {}
      /\ \A q \in Plans \ {p} : done'[q] = done[q] /\ runs'[q] = runs[q] /\ pending'[q] = pending[q]
  BY <1>1, <1>2, <1>3, <1>7
<1>9. LocalType'
  <2>1. /\ done' \in [Plans -> SUBSET Nat] /\ runs' \in [Plans -> Nat]
        /\ pending' \in [Plans -> SUBSET Nat]
    BY <1>1, <1>2, <1>3, <1>7
  <2>2. QED
    BY <1>2, <2>1 DEF LocalInv, LocalType, HostOK
<1>10. \A q \in Plans : EntryOK(q)'
  <2> SUFFICES ASSUME NEW q \in Plans PROVE EntryOK(q)'
    OBVIOUS
  <2>1. EntryOK(q) /\ journal'[q] = journal[q]
    BY <1>2 DEF LocalInv
  <2>2. CASE q = p
    <3>1. done'[q] \subseteq 1..Last(journal[q])
      BY <1>3, <1>4, <1>8, <2>2 DEF Current
    <3>2. Covers(journal[q], done'[q], pending'[q])
      BY <1>3, <1>8, <2>2, <3>1 DEF Covers
    <3>3. runs'[q] = Cardinality(done'[q])
      BY <1>6, <1>8, <2>1, <2>2 DEF EntryOK
    <3>4. QED
      BY <2>1, <3>2, <3>3 DEF EntryOK, Covers, Doubt, Last
  <2>3. CASE q # p
    BY <1>8, <2>1, <2>3 DEF EntryOK, Covers, Doubt, Last
  <2>4. QED
    BY <2>2, <2>3
<1>11. TodoOK'
  BY <1>2 DEF LocalInv, TodoOK, Unsettled
<1>12. QED
  BY <1>9, <1>10, <1>11 DEF LocalInv

LEMMA ResultTypes ==
    ASSUME NEW p \in Plans PROVE Results(p) \subseteq Verdicts
BY DEF Results, Verdicts

\* The result closes the step; a write that may still take effect leaves no doubt
\* that the step is the last.
LEMMA StepReturnsStep ==
    ASSUME LocalInv, NEW p \in Plans, StepReturns(p) PROVE LocalInv'
<1> DEFINE n == Len(journal[p].results)
<1>1. PICK r \in Results(p) :
          /\ Append1(p, [journal[p] EXCEPT !.results = Append(@, r), !.open = FALSE])
          /\ pending' = [pending EXCEPT ![p] = IF r = "outcome_unknown" THEN @ ELSE {}]
  BY DEF StepReturns
<1> DEFINE e == [journal[p] EXCEPT !.results = Append(@, r), !.open = FALSE]
           w == IF r = "outcome_unknown" THEN pending[p] ELSE {}
<1>2. /\ Executing(p) /\ journal[p].open
      /\ UNCHANGED <<done, runs, host, length>>
  BY DEF StepReturns
<1>3. /\ Append(journal[p].results, r) \in Seq(Verdicts) /\ n \in Nat
      /\ Len(Append(journal[p].results, r)) = n + 1
      /\ Append(journal[p].results, r)[n + 1] = r
  BY EntryType, ResultTypes
<1>4. /\ e \in Entries /\ e.results = Append(journal[p].results, r) /\ ~e.open
      /\ e.lease = journal[p].lease
  <2> DEFINE s == Append(journal[p].results, r)
  <2>1. s \in Seq(Verdicts) /\ e = [journal[p] EXCEPT !.results = s, !.open = FALSE]
    BY <1>3, EntryType DEF Entries
  <2> HIDE DEF s
  <2>2. QED
    BY <2>1, EntryType DEF Entries, s
<1>5. e.lease = "acquired"
  BY <1>2, <1>4, EntryType DEF Covers
<1>6. w \in SUBSET Nat /\ pending' = [pending EXCEPT ![p] = w]
  BY <1>1 DEF LocalInv, LocalType
<1>7. Covers(e, done[p], w)
  <2>1. Last(e) = n + 1 /\ Last(journal[p]) = n + 1
    BY <1>2, <1>3, <1>4 DEF Last
  <2>2. r = "outcome_unknown" => Doubt(e)
    <3> HIDE DEF e, n
    <3>1. QED
      BY <1>3, <1>4 DEF Doubt
  <2>3. w \subseteq pending[p] /\ (w # {} => r = "outcome_unknown")
    OBVIOUS
  <2> HIDE DEF e, w
  <2>4. QED
    BY <1>5, <2>1, <2>2, <2>3, EntryType DEF Covers
<1>8. QED
  <2> HIDE DEF w
  <2>1. Append1(p, e)
    BY <1>1
  <2> HIDE DEF e
  <2>2. QED
    BY <1>2, <1>4, <1>6, <1>7, <2>1, WorkMoves

LEMMA AbortStep ==
    ASSUME LocalInv, NEW p \in Plans, Abort(p) PROVE LocalInv'
<1>1. UNCHANGED <<journal, viewerVars>> /\ length' \in Nat /\ host' = Down
  BY DEF Abort, Stop, LocalInv, LocalType
<1>2. QED
  BY <1>1, Stops

LEMMA FinishStep ==
    ASSUME LocalInv, NEW p \in Plans, Finish(p) PROVE LocalInv'
<1> DEFINE o == Signed(Overall(journal[p].results), length + 1)
           e == [journal[p] EXCEPT !.results = journal[p].results, !.open = FALSE, !.outcome = o]
<1>1. /\ Executing(p) /\ Append1(p, e) /\ journal[p].lease = "acquired" /\ ~journal[p].open
      /\ length' = length + 1 /\ UNCHANGED viewerVars
  BY DEF Finish, WithOutcome
<1>2. length' \in Nat /\ o \in Outcomes
  BY <1>1, SignedType DEF LocalInv, LocalType
<1>3. /\ e \in Entries /\ e.results = journal[p].results /\ e.open = journal[p].open
      /\ e.lease = "acquired"
  <2> HIDE DEF o
  <2>1. QED
    BY <1>1, <1>2, EntryType DEF Entries
<1>4. Covers(e, done[p], pending[p])
  <2>1. Covers(journal[p], done[p], pending[p])
    BY EntryType
  <2> HIDE DEF e
  <2>2. QED
    BY <1>1, <1>3, <2>1, SameCover
<1>5. /\ HostOK' /\ host'.plan = p /\ host'.todo = host.todo
      /\ host'.at \in {"delivering", "reporting"}
  BY <1>1 DEF Finish, LocalInv, LocalType, HostOK, Executing
<1>6. /\ LocalType' /\ \A q \in Plans : EntryOK(q)'
      /\ journal'[p] = e
      /\ Unsettled' \subseteq Unsettled \cup {p}
  <2> HIDE DEF e
  <2>1. QED
    BY <1>1, <1>2, <1>3, <1>4, <1>5, EntryRewritten
<1>7. TodoOK'
  BY <1>1, <1>5, <1>6 DEF LocalInv, TodoOK, Executing
<1>8. QED
  BY <1>6, <1>7 DEF LocalInv

LEMMA ExecutionStep == LocalInv /\ Execution => LocalInv'
BY ReceiveStep, AcquireStep, StepNotStartedStep, InvokeStep, StepReturnsStep, AbortStep,
   FinishStep DEF Execution

-----------------------------------------------------------------------------
(* Delivery and reconciliation.                                            *)

\* A mark on the entry of a plan.
LEMMA MarkMoves ==
    ASSUME LocalInv, NEW p \in Plans, NEW marks \in SUBSET Marks, Mark(p, marks),
           UNCHANGED viewerVars, length' \in Nat, HostOK'
    PROVE  /\ LocalType' /\ \A q \in Plans : EntryOK(q)'
           /\ Unsettled' \subseteq Unsettled \cup {p}
           /\ "acknowledged" \in marks => p \notin Unsettled'
<1> DEFINE e == [journal[p] EXCEPT !.marks = @ \cup marks]
<1>1. /\ e \in Entries /\ e.results = journal[p].results /\ e.open = journal[p].open
      /\ e.lease = journal[p].lease /\ marks \subseteq e.marks
  BY EntryType DEF Entries
<1>2. Covers(e, done[p], pending[p])
  <2> HIDE DEF e
  <2>1. QED
    BY <1>1, EntryType, SameCover
<1>3. Append1(p, e)
  BY DEF Mark
<1>4. QED
  <2> HIDE DEF e
  <2>1. QED
    BY <1>1, <1>2, <1>3, EntryRewritten

LEMMA ProceedsTo ==
    ASSUME NEW S, host' = [Down EXCEPT !.at = "recovering", !.todo = S]
    PROVE  HostOK' /\ host'.at = "recovering"
BY DEF Down, HostOK

\* A plan that is acknowledged leaves nothing open behind it.
LEMMA AcknowledgedStep ==
    ASSUME LocalInv, NEW p \in Plans, host.plan = p,
           host.at \in {"delivering", "reconciling", "probed"}, Acknowledged(p)
    PROVE  LocalInv'
<1>1. /\ Mark(p, {"acknowledged"}) /\ Proceed(p)
      /\ UNCHANGED viewerVars /\ length' \in Nat
  BY DEF Acknowledged, LocalInv, LocalType
<1>2. HostOK' /\ \/ host' = Down
                 \/ p \in host.todo /\ host'.at = "recovering"
                 \/ p \notin host.todo /\ host'.at = "idle" /\ host'.todo = {}
  <2>1. CASE p \in host.todo
    <3>1. host' = Down \/ host' = [Down EXCEPT !.at = "recovering", !.todo = host.todo \ {p}]
      BY <1>1, <2>1 DEF Proceed
    <3>2. CASE host' = Down
      BY <3>2 DEF HostOK, Down
    <3>3. CASE host' = [Down EXCEPT !.at = "recovering", !.todo = host.todo \ {p}]
      BY <2>1, <3>3, ProceedsTo
    <3>4. QED
      BY <3>1, <3>2, <3>3
  <2>2. CASE p \notin host.todo
    <3>1. host' = Down \/ host' = [Down EXCEPT !.at = "idle"]
      BY <1>1, <2>2 DEF Proceed
    <3>2. QED
      BY <2>2, <3>1 DEF HostOK, Down
  <2>3. QED
    BY <2>1, <2>2
<1>3. /\ LocalType' /\ \A q \in Plans : EntryOK(q)'
      /\ Unsettled' \subseteq Unsettled \ {p}
  <2>1. {"acknowledged"} \subseteq Marks
    BY DEF Marks
  <2>2. QED
    BY <1>1, <1>2, <2>1, MarkMoves
<1>4. TodoOK'
  <2>1. p \notin host.todo => Unsettled' = {}
    BY <1>3 DEF LocalInv, TodoOK
  <2>2. QED
    BY <1>2, <2>1 DEF TodoOK, Down
<1>5. QED
  BY <1>3, <1>4 DEF LocalInv

\* The host only remembers something else of the sessions it uses.
LEMMA Remembers ==
    ASSUME LocalInv, UNCHANGED <<journal, length, viewerVars>>, HostOK',
           host'.at = host.at, host'.plan = host.plan, host'.todo = host.todo
    PROVE  LocalInv'
<1>1. Unsettled' = Unsettled
  BY DEF Unsettled
<1>2. TodoOK' /\ length' \in Nat
  BY <1>1 DEF LocalInv, LocalType, TodoOK
<1>3. QED
  BY <1>2, HostMoves

LEMMA SettleStep ==
    ASSUME LocalInv, NEW p \in Plans, Settle(p) PROVE LocalInv'
<1>1. UNCHANGED <<journal, length, viewerVars>> /\ p \in host.todo
  BY DEF Settle
<1>2. /\ HostOK' /\ host'.plan = p /\ host'.todo = host.todo
      /\ host'.at \in {"delivering", "reconciling"}
  BY DEF Settle, LocalInv, LocalType, HostOK
<1>3. TodoOK' /\ length' \in Nat
  BY <1>1, <1>2 DEF TodoOK, LocalInv, LocalType
<1>4. QED
  BY <1>1, <1>2, <1>3, HostMoves

LEMMA DeliverStep ==
    ASSUME LocalInv, NEW p \in Plans, Deliver(p) PROVE LocalInv'
<1>1. host.at = "delivering" /\ host.plan = p
  BY DEF Deliver
<1>2. CASE Acknowledged(p)
  BY <1>1, <1>2, AcknowledgedStep
<1>3. CASE UNCHANGED <<journal, length, viewerVars>> /\ Stop
  BY <1>3, Stops DEF Stop, LocalInv, LocalType
<1>4. CASE UNCHANGED <<journal, length, viewerVars>> /\ Forget("original")
  <2>1. HostOK' /\ host'.at = host.at /\ host'.plan = host.plan /\ host'.todo = host.todo
    BY <1>4 DEF Forget, LocalInv, LocalType, HostOK
  <2>2. QED
    BY <1>4, <2>1, Remembers
<1>5. CASE UNCHANGED <<journal, length, host, viewerVars>>
  BY <1>5, Untouched
<1>6. QED
  BY <1>2, <1>3, <1>4, <1>5 DEF Deliver

LEMMA RecoveryCallStep ==
    ASSUME LocalInv, NEW p \in Plans, RecoveryCall(p) PROVE LocalInv'
<1>1. host.at \in {"delivering", "reconciling"} /\ host.plan = p
  BY DEF RecoveryCall, Recovering
<1>2. CASE Acknowledged(p)
  BY <1>1, <1>2, AcknowledgedStep
<1>3. CASE /\ UNCHANGED <<journal, length, viewerVars>>
           /\ host' = [host EXCEPT !.right = recovery'.id]
  <2>1. HostOK' /\ host'.at = host.at /\ host'.plan = host.plan /\ host'.todo = host.todo
    BY <1>3 DEF LocalInv, LocalType, HostOK
  <2>2. QED
    BY <1>3, <2>1, Remembers
<1>4. CASE UNCHANGED <<journal, length, host, viewerVars>>
  BY <1>4, Untouched
<1>5. QED
  BY <1>2, <1>3, <1>4 DEF RecoveryCall

LEMMA AcknowledgeCallStep ==
    ASSUME LocalInv, NEW p \in Plans, AcknowledgeCall(p) PROVE LocalInv'
<1>1. host.at = "delivering" /\ host.plan = p
  BY DEF AcknowledgeCall, Recovering
<1>2. CASE Acknowledged(p)
  BY <1>1, <1>2, AcknowledgedStep
<1>3. CASE UNCHANGED <<journal, length, viewerVars>> /\ Stop
  BY <1>3, Stops DEF Stop, LocalInv, LocalType
<1>4. CASE UNCHANGED <<journal, length, viewerVars>> /\ Forget("right")
  <2>1. HostOK' /\ host'.at = host.at /\ host'.plan = host.plan /\ host'.todo = host.todo
    BY <1>4 DEF Forget, LocalInv, LocalType, HostOK
  <2>2. QED
    BY <1>4, <2>1, Remembers
<1>5. CASE UNCHANGED <<journal, length, host, viewerVars>>
  BY <1>5, Untouched
<1>6. QED
  BY <1>2, <1>3, <1>4, <1>5 DEF AcknowledgeCall

LEMMA ReportStep ==
    ASSUME LocalInv, NEW p \in Plans, Report(p) PROVE LocalInv'
<1>1. UNCHANGED <<journal, viewerVars>> /\ length' \in Nat /\ host' = Down
  BY DEF Report, Stop, LocalInv, LocalType
<1>2. QED
  BY <1>1, Stops

LEMMA ProbeStep ==
    ASSUME LocalInv, NEW p \in Plans, Probe(p) PROVE LocalInv'
<1>1. host.at = "reconciling" /\ host.plan = p
  BY DEF Probe
<1>2. CASE Acknowledged(p)
  BY <1>1, <1>2, AcknowledgedStep
<1>3. CASE Stop /\ UNCHANGED <<journal, length, viewerVars>>
  BY <1>1, <1>3, Stops DEF Stop, LocalInv, LocalType
<1>4. CASE /\ \E e : host' = [host EXCEPT !.at = "probed", !.evidence = e]
           /\ length' = length + 1
           /\ UNCHANGED <<journal, viewerVars>>
  <2>1. HostOK' /\ host'.at = "probed" /\ host'.plan = p /\ host'.todo = host.todo
    BY <1>1, <1>4 DEF LocalInv, LocalType, HostOK
  <2>2. length' \in Nat /\ TodoOK'
    BY <1>1, <1>4, <2>1 DEF LocalInv, LocalType, TodoOK
  <2>3. QED
    BY <1>4, <2>1, <2>2, HostMoves
<1>5. QED
  BY <1>2, <1>3, <1>4 DEF Probe

LEMMA SendEvidenceStep ==
    ASSUME LocalInv, NEW p \in Plans, SendEvidence(p) PROVE LocalInv'
<1>1. host.at = "probed" /\ host.plan = p
  BY DEF SendEvidence
<1>2. CASE Acknowledged(p)
  BY <1>1, <1>2, AcknowledgedStep
<1>3. CASE Stop /\ UNCHANGED <<journal, length, viewerVars>>
  BY <1>1, <1>3, Stops DEF Stop, LocalInv, LocalType
<1>4. CASE /\ Mark(p, {"reconciled"}) /\ Goto("reconciled")
           /\ UNCHANGED <<length, viewerVars>>
  <2>1. HostOK' /\ host'.at = "reconciled" /\ host'.plan = p /\ host'.todo = host.todo
    BY <1>1, <1>4 DEF Goto, LocalInv, LocalType, HostOK
  <2>2. length' \in Nat /\ TodoOK'
    BY <1>1, <1>4, <2>1 DEF LocalInv, LocalType, TodoOK
  <2>3. LocalType' /\ \A q \in Plans : EntryOK(q)'
    BY <1>4, <2>1, <2>2, MarkMoves DEF Marks
  <2>4. QED
    BY <2>2, <2>3 DEF LocalInv
<1>5. QED
  BY <1>2, <1>3, <1>4 DEF SendEvidence

LEMMA CloseReconciliationStep ==
    ASSUME LocalInv, NEW p \in Plans, CloseReconciliation(p) PROVE LocalInv'
<1>1. host.plan = p /\ p \in host.todo /\ UNCHANGED <<length, viewerVars>>
  BY DEF CloseReconciliation, LocalInv, TodoOK
<1>2. PICK m \in Marks : Mark(p, {m})
  BY DEF CloseReconciliation, Marks
<1>3. host' = Down \/ host' = [Down EXCEPT !.at = "recovering", !.todo = host.todo \ {p}]
  BY <1>1 DEF CloseReconciliation, Proceed
<1>4. HostOK' /\ TodoOK' /\ length' \in Nat
  <2>1. HostOK' /\ host'.at \in {"down", "recovering"}
    <3>1. CASE host' = Down
      BY <3>1 DEF HostOK, Down
    <3>2. CASE host' # Down
      BY <1>3, <3>2, ProceedsTo
    <3>3. QED
      BY <3>1, <3>2
  <2>2. QED
    BY <1>1, <2>1 DEF TodoOK, LocalInv, LocalType
<1>5. LocalType' /\ \A q \in Plans : EntryOK(q)'
  BY <1>1, <1>2, <1>4, MarkMoves
<1>6. QED
  BY <1>4, <1>5 DEF LocalInv

LEMMA SettlingStep == LocalInv /\ Settling => LocalInv'
BY SettleStep, DeliverStep, RecoveryCallStep, AcknowledgeCallStep, ReportStep, ProbeStep,
   SendEvidenceStep, CloseReconciliationStep DEF Settling

-----------------------------------------------------------------------------
(* The whole system.                                                       *)

LEMMA LocalInvStep == LocalInv /\ [RuntimeNext]_vars => LocalInv'
<1> SUFFICES ASSUME LocalInv, [RuntimeNext]_vars PROVE LocalInv'
  OBVIOUS
<1>1. CASE Crash
  BY <1>1, Stops DEF Crash, Stop, LocalInv, LocalType
<1>2. CASE \E m \in late : ServeLate(m)
  BY <1>2, Untouched DEF ServeLate
<1>3. CASE TimePasses
  BY <1>3, Untouched DEF TimePasses, SessionLapses, RecoveryLapses, PlanLapses,
                         viewerVars, localVars
<1>4. CASE Cloud \/ Owner
  BY <1>4, Untouched DEF Cloud, Owner, viewerVars, localVars
<1>5. CASE UNCHANGED vars
  BY <1>5, Untouched DEF vars, viewerVars, localVars
<1>6. QED
  BY <1>1, <1>2, <1>3, <1>4, <1>5, StartStep, RegisterStep, LeaseStep, ExecutionStep,
     SettlingStep, EffectStep DEF RuntimeNext

\* No action of the runtime, call, crash or late request breaks the invariant.
THEOREM LocalInvariance == RuntimeSpec => []LocalInv
  BY Initially, LocalInvStep, PTL DEF RuntimeSpec

\* Whatever crashes, losses and late requests a plan meets, and whatever the server
\* answers, the viewer carries out each of its steps at most once.
THEOREM NoStepTwice == RuntimeSpec => []CarriedOutOnce
<1>1. LocalInv => CarriedOutOnce
  BY DEF LocalInv, EntryOK, CarriedOutOnce
<1>2. QED
  BY <1>1, LocalInvariance, PTL

\* The host registers and asks for work only when its journal leaves nothing open,
\* however many plans the last process has left.
THEOREM NothingLeftOpen == RuntimeSpec => []WorksOnOnePlan
<1>1. LocalInv => WorksOnOnePlan
  BY DEF LocalInv, TodoOK, WorksOnOnePlan
<1>2. QED
  BY <1>1, LocalInvariance, PTL

=============================================================================
