-------------------------------- MODULE SdkAsk --------------------------------
(***************************************************************************)
(* The SDK's ask(): create a run, follow its event stream, fetch it again  *)
(* and return it. Each request is retried a few times; the stream, once    *)
(* its response has begun, is not. Its body arrives in chunks that respect *)
(* no frame, and ends when the run does, or earlier: with an error, or, as *)
(* the handler's framework closes the response of a feed that failed,      *)
(* without one. The caller may abort at any time.                          *)
(*                                                                         *)
(* A frame is its event and the empty line that ends it.                   *)
(***************************************************************************)
EXTENDS Integers, SequencesExt, FiniteSetsExt

CONSTANTS
  MaxRetries,
  MaxEphemeral    \* bound on the pings and deltas

ASSUME SdkAssumption == MaxRetries \in Nat /\ MaxEphemeral \in Nat

VARIABLES
  run,        \* the run's row
  owed,       \* the events its writers have not yet published
  eventLog,
  body,       \* the response of the stream, and its bytes on their way
  sent,       \* the events put on it (history, never read)
  buffer, yielded,
  asking,     \* where the call is, the requests it made in vain, its result
  aborted, ephemeral,
  unreported  \* history: what went wrong that ask() does not report

sdkVars == <<run, owed, eventLog, body, sent, buffer, yielded, asking, aborted, ephemeral, unreported>>
serverVars == <<run, owed, eventLog>>
streamVars == <<body, sent, buffer, yielded, ephemeral>>

-----------------------------------------------------------------------------
Over == {"COMPLETE", "FAILED", "CANCELED"}

eventOf == [COMPLETE |-> "run.completed", FAILED |-> "run.failed", CANCELED |-> "run.canceled",
            FANNING_OUT |-> "run.status", QUEUED |-> "run.snapshot"]

Ending == {"run.completed", "run.failed", "run.canceled"}

NoBody == [at |-> "none", wire |-> <<>>, next |-> 1]

(* An event as it is written.                                               *)
Frame(event) == <<event, "nl", "nl">>

Waits(at) == [at |-> at, tries |-> 0, result |-> "none"]

-----------------------------------------------------------------------------
(* The run: its row, then its event. The last is also what a cancellation,  *)
(* this client's or another's, comes to.                                    *)
RunBecomes(status) ==
  /\ run' = status /\ owed' = Append(owed, eventOf[status])
  /\ UNCHANGED <<eventLog, asking, aborted, unreported>> /\ UNCHANGED streamVars

ServerMoves ==
  \/ run = "none" /\ asking.at = "create" /\ RunBecomes("QUEUED")
  \/ run = "QUEUED" /\ RunBecomes("FANNING_OUT")
  \/ run = "FANNING_OUT" /\ RunBecomes("COMPLETE")
  \/ run \in {"QUEUED", "FANNING_OUT"} /\ \E status \in {"FAILED", "CANCELED"} : RunBecomes(status)

PublishEvents ==
  /\ owed # <<>>
  /\ eventLog' = Append(eventLog, Head(owed)) /\ owed' = Tail(owed)
  /\ UNCHANGED <<run, asking, aborted, unreported>> /\ UNCHANGED streamVars

-----------------------------------------------------------------------------
(* GET /v1/runs/:id/events. *)

Writes(event, next) ==
  /\ body' = [body EXCEPT !.wire = @ \o Frame(event), !.next = next,
                          !.at = IF event \in Ending THEN "ended" ELSE @]
  /\ sent' = Append(sent, event)
  /\ UNCHANGED <<buffer, yielded, asking, aborted, unreported>> /\ UNCHANGED serverVars

SendEvent ==
  /\ body.at = "open" /\ body.next <= Len(eventLog)
  /\ Writes(eventLog[body.next], body.next + 1) /\ UNCHANGED ephemeral

SendEphemeral ==
  /\ body.at = "open" /\ ephemeral < MaxEphemeral /\ ephemeral' = ephemeral + 1
  /\ \E event \in {"ping", "candidate.delta"} : Writes(event, body.next)

(* The feed fails and the response ends; or the connection does, and what   *)
(* was on its way is lost.                                                  *)
FeedFails ==
  /\ body.at = "open"
  /\ body' = [body EXCEPT !.at = "ended"]
  /\ unreported' = unreported \cup {"cut"}
  /\ UNCHANGED <<sent, buffer, yielded, asking, aborted, ephemeral>> /\ UNCHANGED serverVars

ConnectionBreaks ==
  /\ body.at \in {"open", "ended"} /\ asking.at = "read"
  /\ body' = [body EXCEPT !.at = "broken", !.wire = <<>>]
  /\ UNCHANGED <<sent, buffer, yielded, asking, aborted, ephemeral, unreported>> /\ UNCHANGED serverVars

-----------------------------------------------------------------------------
(* Http.send. No answer, or one worth another attempt; a caller who has     *)
(* given up is not kept waiting for it. The cancellation is on its own.     *)
SendFails ==
  /\ asking.at \in {"create", "stream", "retrieve", "cancel"}
  /\ asking' = IF asking.tries < MaxRetries /\ (aborted => asking.at = "cancel")
            THEN [asking EXCEPT !.tries = @ + 1]
            ELSE Waits(IF asking.at = "stream" /\ aborted THEN "cancel" ELSE "threw")
  /\ unreported' = IF asking.at = "cancel" /\ asking'.at = "threw" THEN unreported \cup {"cancel"} ELSE unreported
  /\ UNCHANGED aborted /\ UNCHANGED serverVars /\ UNCHANGED streamVars

-----------------------------------------------------------------------------
(* readRunEventStream. *)

Empties(bytes) == {i \in 1..(Len(bytes) - 1) : bytes[i] = "nl" /\ bytes[i + 1] = "nl"}

(* The frames that are events of a run, in their order: the k-th is at the  *)
(* place that has k of them up to it.                                       *)
Events(bytes) == {i \in DOMAIN bytes : bytes[i] \notin {"nl", "ping"}}

UpTo(places, i) == Cardinality({j \in places : j <= i})

Place(places, k) == CHOOSE i \in places : UpTo(places, i) = k

decodeSseFrames(bytes) ==
  [k \in 1..Cardinality(Events(bytes)) |-> bytes[Place(Events(bytes), k)]]

(* Those whose empty line has come, and what is left of the buffer.         *)
decoded(bytes) ==
  IF Empties(bytes) = {} THEN <<>>
  ELSE decodeSseFrames(SubSeq(bytes, 1, Max(Empties(bytes))))

rest(bytes) ==
  IF Empties(bytes) = {} THEN bytes ELSE SubSeq(bytes, Max(Empties(bytes)) + 2, Len(bytes))

(* Variant: any event named run.* ends the loop.                            *)
isTerminalEventRun(event) == event \in Ending \cup {"run.status", "run.snapshot"}

isTerminalEvent(event) == event \in Ending

(* A chunk of any size. The loop is left at the first terminal event.       *)
ReadChunk ==
  /\ asking.at = "read" /\ body.wire # <<>> /\ ~aborted
  /\ \E n \in 1..Len(body.wire) :
       LET bytes == buffer \o SubSeq(body.wire, 1, n)
       IN /\ body' = [body EXCEPT !.wire = SubSeq(@, n + 1, Len(@))]
          /\ buffer' = rest(bytes) /\ yielded' = yielded \o decoded(bytes)
          /\ asking' = IF \E i \in DOMAIN decoded(bytes) : isTerminalEvent(decoded(bytes)[i])
                    THEN Waits("retrieve") ELSE asking
  /\ UNCHANGED <<sent, aborted, ephemeral, unreported>> /\ UNCHANGED serverVars

ReadDone ==
  /\ asking.at = "read" /\ body.wire = <<>> /\ body.at = "ended" /\ ~aborted
  /\ asking' = Waits("retrieve")
  /\ UNCHANGED <<aborted, unreported>> /\ UNCHANGED serverVars /\ UNCHANGED streamVars

-----------------------------------------------------------------------------
(* Sce.ask. *)

askRest == <<aborted, unreported>>

(* The response that is replayed for a repeated key is the first one.       *)
Created ==
  /\ asking.at = "create" /\ run # "none" /\ ~aborted
  /\ asking' = Waits("stream")
  /\ UNCHANGED askRest /\ UNCHANGED serverVars /\ UNCHANGED streamVars

(* A run that is over and has nothing to replay is told from its row.       *)
StreamOpens ==
  LET told == IF run \in Over /\ eventLog = <<>> THEN <<"run.snapshot", eventOf[run]>> ELSE <<>>
  IN /\ asking.at = "stream" /\ ~aborted
     /\ asking' = Waits("read")
     /\ body' = [at |-> IF told = <<>> THEN "open" ELSE "ended", next |-> 1,
                 wire |-> IF told = <<>> THEN <<>> ELSE Frame(told[1]) \o Frame(told[2])]
     /\ sent' = told
     /\ UNCHANGED <<buffer, yielded, ephemeral>> /\ UNCHANGED askRest /\ UNCHANGED serverVars

(* An error while reading is passed on; the caller's own is a cancellation  *)
(* first.                                                                   *)
FollowingFails ==
  /\ asking.at = "read" /\ (aborted \/ body.at = "broken")
  /\ asking' = Waits(IF aborted THEN "cancel" ELSE "threw")
  /\ UNCHANGED askRest /\ UNCHANGED serverVars /\ UNCHANGED streamVars

Canceled ==
  /\ asking.at = "cancel" /\ run \in Over
  /\ asking' = Waits("threw")
  /\ UNCHANGED askRest /\ UNCHANGED serverVars /\ UNCHANGED streamVars

Retrieved ==
  /\ asking.at = "retrieve" /\ ~aborted
  /\ asking' = [Waits("returned") EXCEPT !.result = run]
  /\ UNCHANGED askRest /\ UNCHANGED serverVars /\ UNCHANGED streamVars

(* The caller's signal.                                                     *)
Abort ==
  /\ asking.at \in {"create", "stream", "read", "retrieve"} /\ ~aborted
  /\ aborted' = TRUE
  /\ unreported' = IF asking.at = "create" THEN unreported \cup {"unknown"} ELSE unreported
  /\ UNCHANGED asking /\ UNCHANGED serverVars /\ UNCHANGED streamVars

-----------------------------------------------------------------------------
SdkInit ==
  /\ run = "none" /\ owed = <<>> /\ eventLog = <<>>
  /\ body = NoBody /\ sent = <<>> /\ buffer = <<>> /\ yielded = <<>>
  /\ asking = Waits("create") /\ aborted = FALSE /\ ephemeral = 0 /\ unreported = {}

SdkNext ==
  \/ ServerMoves \/ PublishEvents
  \/ SendEvent \/ SendEphemeral \/ FeedFails \/ ConnectionBreaks
  \/ SendFails \/ ReadChunk \/ ReadDone
  \/ Created \/ StreamOpens \/ FollowingFails \/ Canceled \/ Retrieved \/ Abort

SdkSpec == SdkInit /\ [][SdkNext]_sdkVars

Spoken == {eventOf[s] : s \in DOMAIN eventOf} \cup {"ping", "candidate.delta"}

SdkTypeOK ==
  /\ run \in DOMAIN eventOf \cup {"none"}
  /\ owed \in Seq(Spoken) /\ eventLog \in Seq(Spoken) /\ sent \in Seq(Spoken) /\ yielded \in Seq(Spoken)
  /\ body \in [at: {"none", "open", "ended", "broken"}, wire: Seq(Spoken \cup {"nl"}), next: Nat]
  /\ buffer \in Seq(Spoken \cup {"nl"})
  /\ asking \in [at: {"create", "stream", "read", "retrieve", "cancel", "returned", "threw"},
                 tries: 0..MaxRetries, result: {"none"} \cup DOMAIN eventOf]
  /\ aborted \in BOOLEAN /\ ephemeral \in 0..MaxEphemeral
  /\ unreported \subseteq {"cut", "cancel", "unknown"}

(* However requests are retried and wherever the connection breaks: ask()   *)
(* "resolves with the finished run" (sdk/src/client.ts) or throws, unless   *)
(* the server ended the stream early without an error. It has no more than  *)
(* the events the server sent, in their order, wherever the chunks were cut *)
(* (shared/src/sse.ts).                                                     *)
AskIsFinal ==
  /\ asking.at = "returned" => asking.result \in Over \/ "cut" \in unreported
  /\ IsPrefix(yielded, decodeSseFrames(sent))

(* A caller that gives up leaves the run over (client.ts: "Aborting via     *)
(* `signal` stops the stream *and* cancels the run"), unless it did so      *)
(* before it was told of the run, the stream had been ended early, or the   *)
(* cancellation could not be delivered.                                     *)
AbandonedRunStops ==
  asking.at = "threw" /\ aborted /\ run # "none" =>
    run \in Over \/ unreported # {}

(* What ask() promises of the run (sdk/src/client.ts): what it resolves     *)
(* with and yields, and what it leaves behind when it is abandoned.         *)
AskSettlesItsRun == AskIsFinal /\ AbandonedRunStops
=============================================================================
