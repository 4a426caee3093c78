----------------------------- MODULE TerminalView -----------------------------
(***************************************************************************)
(* The terminal application of the command line client: one display, and   *)
(* the calls that may still be under way when the user has moved on - a    *)
(* run being created, one being opened, a stream followed and reconnected, *)
(* the single read a stream falls back to, and the frames of an aborted    *)
(* stream that had been received already. Runs go the ways of RunLifecycle *)
(* that the display tells apart; `published' is how much of a run's events *)
(* the log has.                                                            *)
(***************************************************************************)
EXTENDS Integers, Sequences, FiniteSets

CONSTANTS
  AskedRuns,  \* the runs, in whatever order they are asked
  MAX_STREAM_RETRIES,
  MaxCalls    \* bound on the questions and on the runs opened

NoRun == "none"

ASSUME TerminalAssumption == MAX_STREAM_RETRIES \in Nat /\ MaxCalls \in Nat /\ NoRun \notin AskedRuns

VARIABLES
  rows,       \* the runs' rows
  eventsOf,   \* their events, in order
  published,  \* how many of them are in the log
  state,      \* EngineState, its error the run whose call failed
  calls,      \* createRun and fetchRun under way
  made,
  followed,   \* the subscription that is followed
  leftover    \* received frames of an aborted one

terminalVars == <<rows, eventsOf, published, state, calls, made, followed, leftover>>
serverSide == <<rows, eventsOf, published>>

-----------------------------------------------------------------------------
Ended == {"COMPLETE", "FAILED", "CANCELED"}
RowStatuses == {"QUEUED", "FANNING_OUT"} \cup Ended

NoRow == [status |-> "QUEUED", answered |-> FALSE]
NoStream == [run |-> NoRun, at |-> "closed", afterSeq |-> 0, upTo |-> 0, attempts |-> 0]
NoStale == [run |-> NoRun, next |-> 1, upTo |-> 0]
Idle == [run |-> NoRun, row |-> NoRow, phase |-> "idle", error |-> NoRun]

TerminalEvents == {"run.completed", "run.failed", "run.canceled"}

StatusOf(event) ==
  CASE event = "run.completed" -> "COMPLETE" [] event = "run.failed" -> "FAILED"
    [] event = "run.canceled" -> "CANCELED"

EventOf(status) == CHOOSE e \in TerminalEvents : StatusOf(e) = status

-----------------------------------------------------------------------------
(* The server: rows, then their events. *)

Moves(r, row, event) ==
  /\ rows' = [rows EXCEPT ![r] = row]
  /\ eventsOf' = [eventsOf EXCEPT ![r] = Append(@, event)]
  /\ UNCHANGED <<published, state, calls, made, followed, leftover>>

RowsMove(r) ==
  /\ eventsOf[r] # <<>> /\ rows[r].status \notin Ended
  /\ \/ rows[r].status = "QUEUED" /\ Moves(r, [rows[r] EXCEPT !.status = "FANNING_OUT"], "run.status")
     \/ /\ rows[r].status = "FANNING_OUT" /\ ~rows[r].answered
        /\ Moves(r, [rows[r] EXCEPT !.answered = TRUE], "candidate.settled")
     \/ rows[r].answered /\ Moves(r, [rows[r] EXCEPT !.status = "COMPLETE"], "run.completed")
     \/ \E status \in {"FAILED", "CANCELED"} :
          Moves(r, [rows[r] EXCEPT !.status = status], EventOf(status))

EventLogged(r) ==
  /\ published[r] < Len(eventsOf[r])
  /\ published' = [published EXCEPT ![r] = @ + 1]
  /\ UNCHANGED <<rows, eventsOf, state, calls, made, followed, leftover>>

-----------------------------------------------------------------------------
(* engineReducer. *)

phaseOf(row) ==
  IF row.status = "COMPLETE" THEN "done" ELSE IF row.status \in Ended THEN "failed" ELSE "running"

(* Variant: a run that was queued is shown as under way before it is.       *)
LoadedStateAhead(r, row) ==
  [run |-> r, row |-> [row EXCEPT !.status = IF @ = "QUEUED" THEN "FANNING_OUT" ELSE @],
   phase |-> phaseOf(row), error |-> NoRun]

LoadedState(r, row) == [run |-> r, row |-> row, phase |-> phaseOf(row), error |-> NoRun]

ErrorState(s, r) == [s EXCEPT !.phase = "failed", !.error = r]

(* A snapshot is shown whatever its run; another event only of the run that *)
(* is shown.                                                                *)
engineReducer(s, r, event, snapshot) ==
  IF event = "run.snapshot" THEN [run |-> r, row |-> snapshot, phase |-> "running", error |-> NoRun]
  ELSE IF s.run # r THEN s
  ELSE CASE event = "run.status" -> [s EXCEPT !.row.status = "FANNING_OUT"]
         [] event = "candidate.settled" -> [s EXCEPT !.row.answered = TRUE]
         [] event \in TerminalEvents -> LoadedState(r, [s.row EXCEPT !.status = StatusOf(event)])

-----------------------------------------------------------------------------
(* ask, openRun, ^n. *)

(* What an open stream has received and not yielded may still be yielded.   *)
Aborted ==
  IF followed.at = "open" /\ followed.afterSeq < followed.upTo
  THEN [run |-> followed.run, next |-> followed.afterSeq + 1, upTo |-> followed.upTo] ELSE NoStale

follow(r) ==
  /\ leftover' = Aborted
  /\ followed' = [NoStream EXCEPT !.run = r, !.at = "connecting"]

Call(kind, r) == [kind |-> kind, run |-> r, row |-> NoRow, read |-> FALSE]

ask(r) ==
  /\ made < MaxCalls /\ made' = made + 1
  /\ eventsOf[r] = <<>> /\ \A c \in calls : c.run # r
  /\ state' = [Idle EXCEPT !.phase = "starting"]
  /\ calls' = calls \cup {Call("ask", r)}
  /\ UNCHANGED <<followed, leftover>> /\ UNCHANGED serverSide

openRun(r) ==
  /\ made < MaxCalls /\ made' = made + 1
  /\ eventsOf[r] # <<>>
  /\ calls' = calls \cup {Call("open", r)}
  /\ UNCHANGED <<state, followed, leftover>> /\ UNCHANGED serverSide

(* The server's side of createRun and of fetchRun.                          *)
Served(c) ==
  /\ c \in calls /\ ~c.read
  /\ calls' = (calls \ {c}) \cup {[c EXCEPT !.read = TRUE, !.row = rows[c.run]]}
  /\ eventsOf' = IF c.kind = "ask" THEN [eventsOf EXCEPT ![c.run] = <<"run.snapshot">>] ELSE eventsOf
  /\ UNCHANGED <<rows, published, state, made, followed, leftover>>

(* The answer is shown, whatever is shown by now, and a run that has not    *)
(* completed or failed is followed.                                         *)
Answered(c) ==
  /\ c \in calls /\ c.read
  /\ calls' = calls \ {c}
  /\ state' = LoadedState(c.run, c.row)
  /\ IF c.kind = "ask" \/ (c.kind = "open" /\ c.row.status \notin {"COMPLETE", "FAILED"})
     THEN follow(c.run) ELSE UNCHANGED <<followed, leftover>>
  /\ UNCHANGED made /\ UNCHANGED serverSide

(* No answer: opening a run leaves the display, the others show their error *)
(* over whatever run is shown by now.                                       *)
CallFails(c) ==
  /\ c \in calls /\ calls' = calls \ {c}
  /\ state' = IF c.kind = "open" THEN state ELSE ErrorState(state, c.run)
  /\ UNCHANGED <<made, followed, leftover>> /\ UNCHANGED serverSide

NewRunKey ==
  /\ state' = Idle
  /\ leftover' = Aborted /\ followed' = NoStream
  /\ UNCHANGED <<calls, made>> /\ UNCHANGED serverSide

-----------------------------------------------------------------------------
(* follow: the loop. *)

streamRest == <<calls, made>>

(* A run that is over and has nothing to replay is told from its row.       *)
streamRun ==
  LET r == followed.run
  IN /\ followed.at = "connecting"
     /\ IF rows[r].status \in Ended /\ published[r] <= followed.afterSeq
        THEN /\ state' = engineReducer(engineReducer(state, r, "run.snapshot", rows[r]),
                                       r, EventOf(rows[r].status), NoRow)
             /\ followed' = NoStream
        ELSE /\ followed' = [followed EXCEPT !.at = "open", !.upTo = followed.afterSeq]
             /\ UNCHANGED state
     /\ UNCHANGED leftover /\ UNCHANGED streamRest /\ UNCHANGED serverSide

(* A chunk arrives, of as many frames as there are.                         *)
ChunkArrives ==
  /\ followed.at = "open" /\ followed.upTo < published[followed.run]
  /\ followed' = [followed EXCEPT !.upTo = published[followed.run]]
  /\ UNCHANGED <<state, leftover>> /\ UNCHANGED streamRest /\ UNCHANGED serverSide

FrameYielded ==
  LET seq == followed.afterSeq + 1
      event == eventsOf[followed.run][seq]
  IN /\ followed.at = "open" /\ seq <= followed.upTo
     /\ state' = engineReducer(state, followed.run, event, NoRow)
     /\ followed' = IF event \in TerminalEvents THEN NoStream
                  ELSE [followed EXCEPT !.afterSeq = seq, !.attempts = 0]
     /\ UNCHANGED leftover /\ UNCHANGED streamRest /\ UNCHANGED serverSide

StaleFrameYielded ==
  /\ leftover.next <= leftover.upTo
  /\ state' = engineReducer(state, leftover.run, eventsOf[leftover.run][leftover.next], NoRow)
  /\ leftover' = [leftover EXCEPT !.next = @ + 1]
  /\ UNCHANGED followed /\ UNCHANGED streamRest /\ UNCHANGED serverSide

FeedEnds ==
  /\ followed.at = "open" /\ followed.afterSeq = followed.upTo
  /\ followed' = [followed EXCEPT !.at = "connecting"]
  /\ UNCHANGED <<state, leftover>> /\ UNCHANGED streamRest /\ UNCHANGED serverSide

(* Out of patience: one read, which nothing aborts.                         *)
StreamBreaks ==
  /\ followed.at \in {"connecting", "open"}
  /\ IF followed.attempts + 1 > MAX_STREAM_RETRIES
     THEN /\ calls' = calls \cup {Call("fallback", followed.run)}
          /\ followed' = NoStream
     ELSE /\ followed' = [followed EXCEPT !.at = "connecting", !.attempts = @ + 1]
          /\ UNCHANGED calls
  /\ UNCHANGED <<state, made, leftover>> /\ UNCHANGED serverSide

-----------------------------------------------------------------------------
TerminalInit ==
  /\ rows = [r \in AskedRuns |-> NoRow] /\ eventsOf = [r \in AskedRuns |-> <<>>]
  /\ published = [r \in AskedRuns |-> 0]
  /\ state = Idle /\ calls = {} /\ made = 0
  /\ followed = NoStream /\ leftover = NoStale

TerminalNext ==
  \/ \E r \in AskedRuns : RowsMove(r) \/ EventLogged(r) \/ ask(r) \/ openRun(r)
  \/ \E c \in calls : Served(c) \/ Answered(c) \/ CallFails(c)
  \/ NewRunKey \/ streamRun \/ ChunkArrives \/ FrameYielded \/ StaleFrameYielded
  \/ FeedEnds \/ StreamBreaks

TerminalSpec == TerminalInit /\ [][TerminalNext]_terminalVars

Rows == [status : RowStatuses, answered : BOOLEAN]

TerminalTypeOK ==
  /\ rows \in [AskedRuns -> Rows]
  /\ \A r \in AskedRuns : published[r] \in 0..Len(eventsOf[r])
  /\ state \in [run : AskedRuns \cup {NoRun}, row : Rows, error : AskedRuns \cup {NoRun},
                phase : {"idle", "starting", "running", "done", "failed"}]
  /\ calls \subseteq [kind : {"ask", "open", "fallback"}, run : AskedRuns, row : Rows, read : BOOLEAN]
  /\ made \in 0..MaxCalls
  /\ followed.attempts \in 0..MAX_STREAM_RETRIES /\ followed.at \in {"closed", "connecting", "open"}

(* Whatever was under way when the user moved on, the display shows of a    *)
(* run only what that run has come to: no other run's events are mixed in,  *)
(* the phase is `done' only of a run that completed, and `failed' only of   *)
(* one that ended otherwise - unless a call that failed put it there, with  *)
(* its error on show, whichever run that call was for (cli/src/state.ts,    *)
(* engineReducer: an event of another run is ignored, an error is not).     *)
ShownIsOneRun ==
  state.run # NoRun =>
    LET row == rows[state.run]
    IN /\ state.row.answered => row.answered
       /\ state.row.status \in Ended => state.row.status = row.status
       /\ state.row.status = "FANNING_OUT" => "run.status" \in {eventsOf[state.run][i] : i \in 1..Len(eventsOf[state.run])}
       /\ state.phase = "done" => row.status = "COMPLETE"
       /\ state.phase = "failed" /\ state.error = NoRun => row.status \in {"FAILED", "CANCELED"}
=============================================================================
