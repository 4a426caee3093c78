-------------------------------- MODULE RunView --------------------------------
(***************************************************************************)
(* The run page of the web app: a snapshot rendered by the server, and a   *)
(* reducer that brings it up to date from the run's events, over a         *)
(* connection that may be lost and is made again from the last sequence    *)
(* number. What the server sends on a connection is as in ProgressBus; the *)
(* run itself goes the ways of RunLifecycle that have events, one delivery  *)
(* of a job at a time.                                                     *)
(*                                                                         *)
(* An answer's text is whether there is any.                               *)
(***************************************************************************)
EXTENDS Integers, Sequences, FiniteSets

CONSTANTS
  Panel,         \* the candidates
  MaxTries,      \* bound on a candidate's attempts
  MaxBreaks,     \* bound on the connections that are lost
  MaxUnlogged    \* bound on the events whose append fails

ASSUME RunViewAssumption == MaxTries \in Nat /\ MaxBreaks \in Nat /\ MaxUnlogged \in Nat

VARIABLES
  actual,    \* the run's rows
  tries,     \* attempts of each candidate
  owed,      \* events whose rows are written, in the order to be published
  events,    \* the durable log
  unlogged,  \* how many events never got into it
  view,      \* RunStreamState
  feed,      \* the subscription: its state, the last position sent, the frames on their way
  breaks

viewVars == <<actual, tries, owed, events, unlogged, view, feed, breaks>>
runRest == <<view, feed, breaks>>
pageRest == <<actual, tries, owed, events, unlogged>>

-----------------------------------------------------------------------------
Finals == {"COMPLETE", "FAILED", "CANCELED"}

NewRun == [status |-> "PENDING", synthesis |-> FALSE,
           candidate |-> [c \in Panel |-> [status |-> "PENDING", content |-> FALSE]]]

Event(type) == [type |-> type, candidate |-> "none", result |-> NewRun.candidate, run |-> NewRun]

Settlements == {[status |-> "OK", content |-> TRUE], [status |-> "ERROR", content |-> TRUE],
                [status |-> "ERROR", content |-> FALSE]}

EndsWith(status) ==
  CASE status = "COMPLETE" -> "run.completed" [] status = "FAILED" -> "run.failed"
    [] status = "CANCELED" -> "run.canceled"

terminalEvents == {"run.completed", "run.failed", "run.canceled"}

isTerminalEvent(e) == e.type \in terminalEvents

-----------------------------------------------------------------------------
(* The run. *)

Writes(run, es) ==
  /\ actual' = run /\ owed' = owed \o es
  /\ UNCHANGED <<events, unlogged>> /\ UNCHANGED runRest

CandidateEvent(type, c, run) == [Event(type) EXCEPT !.candidate = c, !.result = run.candidate]

(* The first attempt, or another of one that threw. Each announces the      *)
(* fan-out again.                                                           *)
Starts(c) ==
  /\ actual.status \in {"PENDING", "FANNING_OUT"}
  /\ actual.candidate[c].status \in {"PENDING", "RUNNING"} /\ tries[c] < MaxTries
  /\ tries' = [tries EXCEPT ![c] = @ + 1]
  /\ LET run == [actual EXCEPT !.status = "FANNING_OUT", !.candidate[c].status = "RUNNING"]
     IN Writes(run, <<Event("run.status"), CandidateEvent("candidate.started", c, run)>>)

Settles(c) ==
  /\ actual.candidate[c].status = "RUNNING"
  /\ \E result \in Settlements :
       LET run == [actual EXCEPT !.candidate[c] = result]
       IN Writes(run, <<CandidateEvent("candidate.settled", c, run)>>)
  /\ UNCHANGED tries

Synthesizes ==
  /\ actual.status = "FANNING_OUT" /\ \E c \in Panel : actual.candidate[c].status = "OK"
  /\ \A c \in Panel : actual.candidate[c].status \in {"OK", "ERROR"}
  /\ Writes([actual EXCEPT !.status = "SYNTHESIZING"], <<Event("synthesis.started")>>)
  /\ UNCHANGED tries

Completes ==
  /\ actual.status = "SYNTHESIZING"
  /\ Writes([actual EXCEPT !.status = "COMPLETE", !.synthesis = TRUE],
            <<Event("synthesis.settled"), Event("run.completed")>>)
  /\ UNCHANGED tries

(* Fails or is canceled; candidates under way settle without a word.        *)
Concludes(status) ==
  /\ actual.status \notin Finals
  /\ Writes([actual EXCEPT !.status = status, !.candidate = [c \in Panel |->
               IF @[c].status = "RUNNING" THEN [@[c] EXCEPT !.status = "CANCELED"] ELSE @[c]]],
            <<Event(EndsWith(status))>>)
  /\ UNCHANGED tries

Publishes ==
  /\ owed # <<>>
  /\ events' = Append(events, Head(owed)) /\ owed' = Tail(owed)
  /\ UNCHANGED <<actual, tries, unlogged>> /\ UNCHANGED runRest

-----------------------------------------------------------------------------
(* applyRunEvent. *)

withCandidate(run, e) == [run EXCEPT !.candidate[e.candidate] = e.result[e.candidate]]

ClosedView(v, run) == [v EXCEPT !.connection = "closed", !.run = run]

(* An event without a sequence number, 0, moves no cursor.                  *)
Advanced(cursor, seq) == IF seq > cursor THEN seq ELSE cursor

applyRunEvent(v, e, seq) ==
  LET next == [v EXCEPT !.cursor = Advanced(@, seq)]
      run == next.run
  IN CASE e.type = "run.snapshot" -> [next EXCEPT !.run = e.run]
       [] e.type = "run.status" -> [next EXCEPT !.run.status = "FANNING_OUT"]
       [] e.type = "candidate.started" ->
            [next EXCEPT !.run.candidate[e.candidate].status = "RUNNING",
                         !.streaming = @ \cup {e.candidate}]
       [] e.type = "candidate.delta" ->
            IF run.candidate[e.candidate].content THEN next
            ELSE [next EXCEPT !.streaming = @ \cup {e.candidate}]
       [] e.type = "candidate.settled" ->
            [next EXCEPT !.run = withCandidate(run, e), !.streaming = @ \ {e.candidate}]
       [] e.type = "synthesis.started" -> [next EXCEPT !.run.status = "SYNTHESIZING"]
       [] e.type = "synthesis.settled" -> [next EXCEPT !.run.synthesis = TRUE]
       [] e.type = "run.completed" -> ClosedView(next, [run EXCEPT !.status = "COMPLETE"])
       [] e.type = "run.failed" -> ClosedView(next, [run EXCEPT !.status = "FAILED"])
       [] e.type = "run.canceled" -> ClosedView(next, [run EXCEPT !.status = "CANCELED"])

-----------------------------------------------------------------------------
(* useRunStream. *)

Away == [at |-> "away", sent |-> 0, frames |-> <<>>]

Waiting == [at |-> "waiting", sent |-> 0, frames |-> <<>>]

finished == view.run.status \in Finals

(* The page is rendered from one GET; a run that is over is not followed.   *)
initialRunStreamState ==
  /\ feed.at = "away"
  /\ view' = [run |-> actual, streaming |-> {}, cursor |-> 0,
              connection |-> IF actual.status \in Finals THEN "closed" ELSE "idle"]
  /\ feed' = IF actual.status \in Finals THEN [Away EXCEPT !.at = "stopped"] ELSE Waiting
  /\ UNCHANGED breaks /\ UNCHANGED pageRest

Reported(v, state) == [v EXCEPT !.connection = IF @ = "closed" THEN @ ELSE state]

(* Variant: the feed is followed from its tail.                             *)
streamRunFromTail ==
  /\ feed.at = "waiting"
  /\ feed' = [at |-> "open", sent |-> Len(events), frames |-> <<>>]
  /\ view' = Reported(view, "connecting")
  /\ UNCHANGED breaks /\ UNCHANGED pageRest

(* A run that is over and has nothing to replay is told from its row.       *)
streamRun ==
  /\ feed.at = "waiting"
  /\ feed' = IF actual.status \in Finals /\ Len(events) <= view.cursor
             THEN [at |-> "told", sent |-> 0, frames |->
                     <<[Event("run.snapshot") EXCEPT !.run = actual], Event(EndsWith(actual.status))>>]
             ELSE [at |-> "open", sent |-> view.cursor, frames |-> <<>>]
  /\ view' = Reported(view, "connecting")
  /\ UNCHANGED breaks /\ UNCHANGED pageRest

Applied(e, seq) ==
  /\ view' = applyRunEvent(Reported(view, "live"), e, seq)
  /\ feed' = IF isTerminalEvent(e) THEN [Away EXCEPT !.at = "stopped"]
             ELSE IF feed.at = "told" THEN [feed EXCEPT !.frames = Tail(@)]
             ELSE IF seq > 0 THEN [feed EXCEPT !.sent = seq] ELSE feed
  /\ UNCHANGED breaks

Told ==
  /\ feed.at = "told" /\ Applied(Head(feed.frames), 0)
  /\ UNCHANGED pageRest

Receives ==
  /\ feed.at = "open" /\ feed.sent < Len(events)
  /\ Applied(events[feed.sent + 1], feed.sent + 1)
  /\ UNCHANGED pageRest

(* A token of an attempt the reader knows has begun, perhaps long over.     *)
ReceivesDelta(c) ==
  /\ feed.at = "open"
  /\ \E i \in 1..feed.sent : events[i].type = "candidate.started" /\ events[i].candidate = c
  /\ Applied([Event("candidate.delta") EXCEPT !.candidate = c], 0)
  /\ UNCHANGED pageRest

(* toFrame: an append fails; who is connected may get the event all the     *)
(* same, once it has what came before.                                      *)
AppendFailsLive ==
  /\ owed # <<>> /\ unlogged < MaxUnlogged
  /\ unlogged' = unlogged + 1 /\ owed' = Tail(owed)
  /\ \/ UNCHANGED runRest
     \/ feed.at = "open" /\ feed.sent = Len(events) /\ Applied(Head(owed), 0)
  /\ UNCHANGED <<actual, tries, events>>

(* React renders: the effect of a finished run is torn down.                *)
Renders ==
  /\ feed.at \in {"waiting", "told", "open"} /\ finished
  /\ feed' = [Away EXCEPT !.at = "stopped"]
  /\ UNCHANGED <<view, breaks>> /\ UNCHANGED pageRest

(* The connection is lost; after a while it is made again.                  *)
Breaks ==
  /\ feed.at \in {"told", "open"} /\ breaks < MaxBreaks /\ breaks' = breaks + 1
  /\ feed' = Waiting
  /\ view' = Reported(view, "reconnecting")
  /\ UNCHANGED pageRest

-----------------------------------------------------------------------------
(* startRun has published the snapshot of a run whose jobs are queued.      *)
ViewInit ==
  /\ actual = NewRun /\ tries = [c \in Panel |-> 0]
  /\ owed = <<Event("run.snapshot")>> /\ events = <<>> /\ unlogged = 0
  /\ view = [run |-> NewRun, streaming |-> {}, cursor |-> 0, connection |-> "idle"]
  /\ feed = Away /\ breaks = 0

RunMoves ==
  \/ \E c \in Panel : Starts(c) \/ Settles(c)
  \/ Synthesizes \/ Completes \/ \E status \in {"FAILED", "CANCELED"} : Concludes(status)

PageMoves == initialRunStreamState \/ streamRun \/ Told \/ Receives \/ Renders

ViewNext ==
  RunMoves \/ Publishes \/ AppendFailsLive \/ PageMoves \/ Breaks
    \/ \E c \in Panel : ReceivesDelta(c)

(* Events are published, and the page keeps reading and reconnecting.       *)
ViewSpec ==
  ViewInit /\ [][ViewNext]_viewVars /\ WF_viewVars(Publishes)
    /\ WF_viewVars(streamRun \/ Told \/ Receives \/ Renders)

(* Types, and that the page's cursor is an event that was published.        *)
ShownPanel == [Panel -> [status: {"PENDING", "RUNNING", "OK", "ERROR", "CANCELED"},
                          content: BOOLEAN]]
RunsShown == [status: Finals \cup {"PENDING", "FANNING_OUT", "SYNTHESIZING"},
              synthesis: BOOLEAN, candidate: ShownPanel]
Announced == [type: terminalEvents \cup {"run.snapshot", "run.status", "candidate.started",
                "candidate.delta", "candidate.settled", "synthesis.started", "synthesis.settled"},
              candidate: Panel \cup {"none"}, result: ShownPanel, run: RunsShown]

ViewTypeOK ==
  /\ actual \in RunsShown /\ tries \in [Panel -> 0..MaxTries]
  /\ owed \in Seq(Announced) /\ events \in Seq(Announced)
  /\ unlogged \in 0..MaxUnlogged /\ breaks \in 0..MaxBreaks
  /\ view \in [run: RunsShown, streaming: SUBSET Panel, cursor: 0..Len(events),
               connection: {"idle", "connecting", "live", "reconnecting", "closed"}]
  /\ feed \in [at: {"away", "waiting", "told", "open", "stopped"}, sent: 0..Len(events),
               frames: Seq(Announced)]

(* Whatever part of the run the page was loaded in, and however often its   *)
(* connection broke, a page that follows a run shows how it ended - and, of *)
(* one that completed, every candidate and the synthesis - as long as every *)
(* event got into the log (web/src/lib/run-stream.ts: "Replay is idempotent"*)
(* although it starts from an older snapshot than the page).                *)
ViewCatchesUp ==
  []<>(actual.status \in Finals /\ feed.at # "away" =>
         \/ unlogged > 0
         \/ view.run.status = actual.status /\ (actual.status = "COMPLETE" => view.run = actual))
=============================================================================
