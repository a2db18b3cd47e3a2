------------------------- MODULE GatewayStreamsProofs -------------------------
(***************************************************************************)
(* GatewayStreams for every length of a stream.  The invariant says what   *)
(* the lock gives: one task finalizes at a time; and what the consumer     *)
(* finds when it gets it: a stream nobody touched, or a finalized one, or  *)
(* one whose expiry task gave up.                                          *)
(***************************************************************************)
EXTENDS GatewayStreams, TLAPS

Untouched == ~closed /\ ~released /\ ~recorded /\ row = "started"

\* The record is in _streams only while its task sleeps and nobody claimed it.
PlaceOK ==
    /\ place = "none" => at["timer"] = "none" /\ at["reader"] = "none"
    /\ place = "pending" => at["timer"] = "sleeping" /\ at["reader"] = "none"

\* The expiry task never reads and never records a completed stream.
TimerOK ==
    /\ at["timer"] \in {"none", "sleeping", "over", "gaveup"} \cup Holding
    /\ at["timer"] \in Holding => verdict = "failed" /\ at["reader"] \notin Holding

\* Before iteration the stream is as the expiry task left it.
EarlyOK ==
    at["reader"] \in {"none", "unstarted", "beginning"} =>
        /\ at["timer"] \in {"none", "sleeping"} => Untouched
        /\ at["timer"] = "over" => Finalized

ReadingOK ==
    at["reader"] = "reading" /\ ~GaveUp => Untouched /\ at["timer"] = "over"

\* Who wants to record a completed stream has read it to its end.
VerdictOK ==
    at["reader"] \in Holding /\ verdict = "completed" /\ ~GaveUp => left = 0

Inv == TypeOK /\ PlaceOK /\ TimerOK /\ EarlyOK /\ ReadingOK /\ VerdictOK
              /\ CompletedIsWhole

-----------------------------------------------------------------------------

LEMMA InitInv == Init => Inv
<1> SUFFICES ASSUME Init PROVE Inv OBVIOUS
<1>1. TypeOK
  <2>1. 1 \in 1..2 OBVIOUS
  <2> QED BY <2>1, Zenon DEF Init, TypeOK, Tasks, Places, Holding
<1>2. at["timer"] = "none" /\ at["reader"] = "none"
  BY DEF Init, Tasks
<1> QED
  BY <1>1, <1>2 DEF Init, Inv, PlaceOK, TimerOK, EarlyOK, ReadingOK, VerdictOK,
     CompletedIsWhole, Untouched, GaveUp, Holding

LEMMA RegisterInv == Inv /\ Register => Inv'
BY DEF Register, Goes, Inv, TypeOK, PlaceOK, TimerOK, EarlyOK, ReadingOK, flags,
    VerdictOK, CompletedIsWhole, Untouched, Finalized, GaveUp, Tasks, Places, Holding

LEMMA ClaimInv == Inv /\ Claim => Inv'
BY DEF Claim, Inv, TypeOK, PlaceOK, TimerOK, EarlyOK, ReadingOK, flags,
    VerdictOK, CompletedIsWhole, Untouched, Finalized, GaveUp, Tasks, Places, Holding

LEMMA ExpireInv == Inv /\ Expire => Inv'
BY DEF Expire, Enter, Free, Inv, TypeOK, PlaceOK, TimerOK, EarlyOK, ReadingOK, flags,
    VerdictOK, CompletedIsWhole, Untouched, Finalized, GaveUp, Tasks, Places, Holding

LEMMA AskBeginInv == Inv /\ AskBegin => Inv'
BY DEF AskBegin, Goes, Inv, TypeOK, PlaceOK, TimerOK, EarlyOK, ReadingOK, flags,
    VerdictOK, CompletedIsWhole, Untouched, Finalized, GaveUp, Tasks, Places, Holding

LEMMA BeginIterationInv == Inv /\ BeginIteration => Inv'
<1> SUFFICES ASSUME Inv, BeginIteration PROVE Inv' OBVIOUS
<1>1. CASE Finalized
  BY <1>1 DEF BeginIteration, Goes, Free, Inv, TypeOK, PlaceOK, TimerOK, EarlyOK, ReadingOK,
     flags, VerdictOK, CompletedIsWhole, Untouched, Finalized, GaveUp, Tasks, Places, Holding
<1>2. CASE ~Finalized
  <2>1. /\ at' = [timer |-> IF GaveUp THEN "gaveup" ELSE "over", reader |-> "reading"]
        /\ started' = TRUE
        /\ UNCHANGED <<place, closed, recorded, released, verdict, attempt, row, left>>
    BY <1>2 DEF BeginIteration, flags
  <2>2. ~GaveUp => Untouched
    BY <1>2 DEF BeginIteration, Inv, TimerOK, EarlyOK, GaveUp, Free, Tasks, Holding
  <2>3. /\ at' \in [Tasks -> Places]
        /\ at'["timer"] \in {"gaveup", "over"}
        /\ at'["reader"] = "reading"
        /\ GaveUp' <=> GaveUp
    BY <2>1 DEF GaveUp, Tasks, Places, Holding
  <2>4. TypeOK'
    BY <2>1, <2>3, Zenon DEF Inv, TypeOK
  <2>5. PlaceOK' /\ TimerOK' /\ EarlyOK'
    BY <2>1, <2>3 DEF BeginIteration, Inv, PlaceOK, TimerOK, EarlyOK, Holding
  <2>6. ReadingOK' /\ VerdictOK' /\ CompletedIsWhole'
    BY <2>1, <2>2, <2>3 DEF Inv, ReadingOK, VerdictOK, CompletedIsWhole, Untouched,
       GaveUp, Holding
  <2> QED BY <2>4, <2>5, <2>6 DEF Inv
<1> QED BY <1>1, <1>2

LEMMA ChunkInv == Inv /\ Chunk => Inv'
BY ChunksAssumption DEF Chunk, Inv, TypeOK, PlaceOK, TimerOK, EarlyOK, ReadingOK, flags,
    VerdictOK, CompletedIsWhole, Untouched, Finalized, GaveUp, Tasks, Places, Holding

LEMMA ReadToEndInv == Inv /\ ReadToEnd => Inv'
BY DEF ReadToEnd, Enter, Free, Inv, TypeOK, PlaceOK, TimerOK, EarlyOK, ReadingOK, flags,
    VerdictOK, CompletedIsWhole, Untouched, Finalized, GaveUp, Tasks, Places, Holding

LEMMA StopReadingInv == Inv /\ StopReading => Inv'
BY DEF StopReading, Enter, Free, Inv, TypeOK, PlaceOK, TimerOK, EarlyOK, ReadingOK, flags,
    VerdictOK, CompletedIsWhole, Untouched, Finalized, GaveUp, Tasks, Places, Holding

LEMMA CloseUnstartedInv == Inv /\ CloseUnstarted => Inv'
BY DEF CloseUnstarted, Inv, TypeOK, PlaceOK, TimerOK, EarlyOK, ReadingOK, flags,
    VerdictOK, CompletedIsWhole, Untouched, Finalized, GaveUp, Tasks, Places, Holding

LEMMA FinalizeUnstartedInv == Inv /\ FinalizeUnstarted => Inv'
BY DEF FinalizeUnstarted, Enter, Free, Inv, TypeOK, PlaceOK, TimerOK, EarlyOK, ReadingOK,
    flags, VerdictOK, CompletedIsWhole, Untouched, Finalized, GaveUp, Tasks, Places, Holding

LEMMA KillInv == Inv /\ Kill => Inv'
BY DEF Kill, Goes, Inv, TypeOK, PlaceOK, TimerOK, EarlyOK, ReadingOK, flags,
    VerdictOK, CompletedIsWhole, Untouched, Finalized, GaveUp, Tasks, Places, Holding

LEMMA CloseAndRecordInv ==
    ASSUME NEW t \in Tasks, Inv, CloseAndRecord(t) PROVE Inv'
BY DEF CloseAndRecord, Settles, Goes, Inv, TypeOK, PlaceOK, TimerOK, EarlyOK, ReadingOK,
    flags, VerdictOK, CompletedIsWhole, Untouched, Finalized, GaveUp, Tasks, Places, Holding

LEMMA ReleaseInv == ASSUME NEW t \in Tasks, Inv, Release(t) PROVE Inv'
BY DEF Release, Goes, Inv, TypeOK, PlaceOK, TimerOK, EarlyOK, ReadingOK, flags,
    VerdictOK, CompletedIsWhole, Untouched, Finalized, GaveUp, Tasks, Places, Holding

LEMMA AgainInv == ASSUME NEW t \in Tasks, Inv, Again(t) PROVE Inv'
BY DEF Again, Goes, Inv, TypeOK, PlaceOK, TimerOK, EarlyOK, ReadingOK, flags,
    VerdictOK, CompletedIsWhole, Untouched, Finalized, GaveUp, Tasks, Places, Holding

\* Inv holds in every reachable state.
THEOREM Invariance == Spec => []Inv
<1>1. Inv /\ [Next]_vars => Inv'
  <2> SUFFICES ASSUME Inv, [Next]_vars PROVE Inv' OBVIOUS
  <2>1. CASE Next
    BY <2>1, RegisterInv, ClaimInv, ExpireInv, AskBeginInv, BeginIterationInv, ChunkInv,
       ReadToEndInv, StopReadingInv, CloseUnstartedInv, FinalizeUnstartedInv, KillInv,
       CloseAndRecordInv, ReleaseInv, AgainInv
       DEF Next, Consumer, Finalize
  <2>2. CASE UNCHANGED vars
    BY <2>2 DEF vars, flags, Inv, TypeOK, PlaceOK, TimerOK, EarlyOK, ReadingOK,
       VerdictOK, CompletedIsWhole, Untouched, Finalized, GaveUp
  <2> QED BY <2>1, <2>2
<1> QED BY InitInv, <1>1, PTL DEF Spec

\* Every reachable state of a managed stream is well typed.
THEOREM TypeCorrect == Spec => []TypeOK
<1>1. Inv => TypeOK BY DEF Inv
<1> QED BY Invariance, <1>1, PTL

\* Streams of any length are on record as completed only when read whole.
THEOREM WholeStreams == Spec => []CompletedIsWhole
<1>1. Inv => CompletedIsWhole BY DEF Inv
<1> QED BY Invariance, <1>1, PTL

\* No expiry or finalization reaches a stream while it is read.
THEOREM QuietReads == Spec => []ReadsUndisturbed
<1>1. Inv => ReadsUndisturbed
  BY DEF Inv, ReadsUndisturbed, ReadingOK, Untouched, Free, Tasks, Holding
<1> QED BY Invariance, <1>1, PTL
=============================================================================
