---------------------------- MODULE GatewayStreams ----------------------------
(***************************************************************************)
(* One managed stream of a governed write (gateway.py, _ManagedStream):    *)
(* its registration, its claim, the task that expires it, the consumer     *)
(* that reads it, and the finalization that closes the iterator, records   *)
(* the outcome and releases the admission.  The two tasks run on one event *)
(* loop: a step is what a task does between two awaits.  Streams share     *)
(* nothing but the table they are popped from, so one stream is enough.    *)
(***************************************************************************)
EXTENDS Naturals

CONSTANT MaxChunks  \* bound on the chunks the provider's iterator yields

ASSUME ChunksAssumption == MaxChunks \in Nat

VARIABLES
    place,     \* of the record: none, pending (in _streams), taken (popped)
    at,        \* [timer, reader]: where the expiry task and the consumer are
    started,   \* iteration_started
    closed,    \* iterator_closed
    recorded,  \* outcome_finalized
    released,  \* admission_released
    verdict,   \* what the task inside _finalize_stream wants to record
    attempt,   \* its _attempt, counted from 1
    row,       \* status of the outcome row of the stream's lease
    left       \* chunks the iterator has not yielded yet

flags == <<closed, recorded, released>>
vars == <<place, at, started, flags, verdict, attempt, row, left>>

Tasks == {"timer", "reader"}

\* Inside _finalize_stream with the lock: the await of aclose, of release and
\* of sleep(0).
Holding == {"closing", "releasing", "pausing"}

Places == Holding \cup {"none", "sleeping", "unstarted", "beginning", "reading",
                        "waiting", "over", "gaveup", "killed"}

TypeOK ==
    /\ place \in {"none", "pending", "taken"}
    /\ at \in [Tasks -> Places]
    /\ {started, closed, recorded, released} \subseteq BOOLEAN
    /\ verdict \in {"completed", "failed"}
    /\ attempt \in 1..2
    /\ row \in {"started", "completed", "failed", "outcome_unknown"}
    /\ left \in 0..MaxChunks

Init ==
    /\ place = "none"
    /\ at = [t \in Tasks |-> "none"]
    /\ started = FALSE
    /\ closed = FALSE /\ recorded = FALSE /\ released = FALSE
    /\ verdict = "failed"
    /\ attempt = 1
    /\ row = "started"
    /\ left \in 0..MaxChunks

\* finalized: the metric cannot be refused, so it is not a flag of its own.
Finalized == closed /\ recorded /\ released

Free == \A t \in Tasks : at[t] \notin Holding

GaveUp == at["timer"] = "gaveup"

Goes(t, p) == at' = [at EXCEPT ![t] = p]

\* invoke: the record is kept in _streams with a task that will expire it.
Register ==
    /\ place = "none"
    /\ place' = "pending"
    /\ Goes("timer", "sleeping")
    /\ UNCHANGED <<started, flags, verdict, attempt, row, left>>

\* Mutant of Claim: the old expiry task is cancelled and no new one is made.
ClaimForGood ==
    /\ place = "pending"
    /\ place' = "taken"
    /\ at' = [timer |-> "over", reader |-> "unstarted"]
    /\ UNCHANGED <<started, flags, verdict, attempt, row, left>>

\* claim_stream: a new expiry task takes the place of the old one.
Claim ==
    /\ place = "pending"
    /\ place' = "taken"
    /\ at' = [timer |-> "sleeping", reader |-> "unstarted"]
    /\ UNCHANGED <<started, flags, verdict, attempt, row, left>>

\* The body of _finalize_stream up to its first attempt, for a task that has
\* the lock.
Enter(t, v) ==
    /\ Free
    /\ at' = [at EXCEPT ![t] = IF Finalized THEN "over" ELSE "closing"]
    /\ verdict' = v
    /\ attempt' = 1

-----------------------------------------------------------------------------
(* The expiry task: _expire_stream, and _expire_claimed_stream after claim. *)

\* The claim deadline passes; only_if_unstarted of a claimed stream.
Expire ==
    /\ at["timer"] = "sleeping"
    /\ ~started
    /\ Enter("timer", "failed")
    /\ place' = "taken"
    /\ UNCHANGED <<started, flags, row, left>>

-----------------------------------------------------------------------------
(* The consumer: _ClaimedStreamIterator and managed.                        *)

\* The first __anext__: managed asks for the lock.
AskBegin ==
    /\ at["reader"] = "unstarted"
    /\ Goes("reader", "beginning")
    /\ UNCHANGED <<place, started, flags, verdict, attempt, row, left>>

\* Mutant of BeginIteration: the flag finalized is not looked at.
BeginUnchecked ==
    /\ at["reader"] = "beginning"
    /\ Free
    /\ at' = [timer |-> IF GaveUp THEN "gaveup" ELSE "over", reader |-> "reading"]
    /\ started' = TRUE
    /\ UNCHANGED <<place, flags, verdict, attempt, row, left>>

\* _begin_stream_iteration under the lock: refused once the stream has been
\* finalized, else the expiry task is cancelled and iteration starts.
BeginIteration ==
    /\ at["reader"] = "beginning"
    /\ Free
    /\ IF Finalized
       THEN Goes("reader", "over") /\ UNCHANGED started
       ELSE /\ at' = [timer |-> IF GaveUp THEN "gaveup" ELSE "over", reader |-> "reading"]
            /\ started' = TRUE
    /\ UNCHANGED <<place, flags, verdict, attempt, row, left>>

\* The iterator yields a chunk.
Chunk ==
    /\ at["reader"] = "reading"
    /\ left > 0
    /\ left' = left - 1
    /\ UNCHANGED <<place, at, started, flags, verdict, attempt, row>>

\* The loop over the iterator ends.  An iterator that a failed expiry tried to
\* close yields nothing more.
ReadToEnd ==
    /\ at["reader"] = "reading"
    /\ left = 0 \/ GaveUp
    /\ Enter("reader", "completed")
    /\ UNCHANGED <<place, started, flags, row, left>>

\* Mutant of StopReading: leaving the loop early counts as completed.
StopAsCompleted ==
    /\ at["reader"] = "reading"
    /\ Enter("reader", "completed")
    /\ UNCHANGED <<place, started, flags, row, left>>

\* The provider raises, a limit or the deadline is exceeded, the consumer is
\* cancelled or closes the iterator: the read ends without completed = True.
StopReading ==
    /\ at["reader"] = "reading"
    /\ Enter("reader", "failed")
    /\ UNCHANGED <<place, started, flags, row, left>>

\* aclose before the first __anext__: close_unstarted cancels the expiry task
\* and waits for the lock.  A task that is cancelled inside its finalization
\* ends there; the provider's aclose may swallow the cancellation.
CloseUnstarted ==
    /\ at["reader"] = "unstarted"
    /\ \E p \in {at["timer"], "over"} :
          /\ at["timer"] \in {"sleeping", "releasing", "pausing"} => p = "over"
          /\ at["timer"] = "gaveup" => p = "gaveup"
          /\ at' = [timer |-> p, reader |-> "waiting"]
    /\ UNCHANGED <<place, started, flags, verdict, attempt, row, left>>

\* close_unstarted gets the lock.
FinalizeUnstarted ==
    /\ at["reader"] = "waiting"
    /\ Enter("reader", "failed")
    /\ UNCHANGED <<place, started, flags, row, left>>

\* The consumer's task is cancelled at an await of begin or of its clean-up.
Kill ==
    /\ \/ at["reader"] = "beginning" /\ Goes("reader", "over")
       \/ at["reader"] \in Holding \cup {"waiting"} /\ Goes("reader", "killed")
    /\ UNCHANGED <<place, started, flags, verdict, attempt, row, left>>

-----------------------------------------------------------------------------
(* The attempts of _finalize_stream, by whichever task holds the lock.      *)

\* The outcome: complete; else mark_unknown; else nothing is known for sure,
\* for a transaction that raises may have been committed.
Settles ==
    \/ /\ recorded
       /\ UNCHANGED <<row, recorded>>
    \/ /\ ~recorded
       /\ \/ row = "started" /\ row' \in {verdict, "outcome_unknown"}
          \/ row = verdict /\ UNCHANGED row
       /\ recorded' = TRUE
    \/ /\ ~recorded
       /\ row' \in {row} \cup (IF row = "started" THEN {verdict, "outcome_unknown"} ELSE {})
       /\ UNCHANGED recorded

\* aclose returns or raises; a closed iterator is not closed again.  The
\* outcome is recorded before the next await.
CloseAndRecord(t) ==
    /\ at[t] = "closing"
    /\ closed' \in {closed, TRUE}
    /\ Settles
    /\ Goes(t, "releasing")
    /\ UNCHANGED <<place, started, released, verdict, attempt, left>>

\* release of the admission lease, which may raise.
Release(t) ==
    /\ at[t] = "releasing"
    /\ released' \in {released, TRUE}
    /\ Goes(t, IF closed /\ recorded /\ released' THEN "over" ELSE "pausing")
    /\ UNCHANGED <<place, started, closed, recorded, verdict, attempt, row, left>>

\* After sleep(0): the second attempt, or the end with a logged error.
Again(t) ==
    /\ at[t] = "pausing"
    /\ IF attempt = 1 THEN Goes(t, "closing") /\ attempt' = 2
                      ELSE Goes(t, "gaveup") /\ UNCHANGED attempt
    /\ UNCHANGED <<place, started, flags, verdict, row, left>>

Finalize(t) == CloseAndRecord(t) \/ Release(t) \/ Again(t)

Consumer == \/ Claim \/ AskBegin \/ BeginIteration \/ Chunk \/ ReadToEnd
            \/ StopReading \/ CloseUnstarted \/ FinalizeUnstarted \/ Kill

Next == \/ Register
        \/ Expire
        \/ Consumer
        \/ \E t \in Tasks : Finalize(t)

\* The loop runs what is ready, sleeps end, and the deadline of managed ends
\* a read.  No consumer is bound to claim a stream, to read it or to close it.
Fairness ==
    /\ WF_vars(Expire)
    /\ WF_vars(BeginIteration)
    /\ WF_vars(ReadToEnd \/ StopReading)
    /\ WF_vars(FinalizeUnstarted)
    /\ \A t \in Tasks : WF_vars(Finalize(t))

Spec == Init /\ [][Next]_vars /\ Fairness

-----------------------------------------------------------------------------

\* A stream is on record as completed only when every chunk of it was read:
\* no expiry, disconnect, failure or retry of the clean-up turns a part of a
\* stream into a completed write.  A stream read after its expiry task gave up
\* is excepted: begin admits it, for finalized is still false, and its closed
\* iterator ends at once.
CompletedIsWhole == row = "completed" /\ ~GaveUp => left = 0

\* While a consumer reads, nobody finalizes: the iterator is open, the
\* admission is held, the outcome is open and the lock is free.
ReadsUndisturbed ==
    at["reader"] = "reading" /\ ~GaveUp =>
        ~closed /\ ~released /\ row = "started" /\ Free

\* Claimed or not, read or not, every stream is closed, recorded and released
\* in the end, unless a finalizer gives up after two attempts or the
\* consumer's task is cancelled during its own clean-up.
StreamSettles ==
    place = "pending" ~> \/ Finalized
                         \/ \E t \in Tasks : at[t] \in {"gaveup", "killed"}
=============================================================================
