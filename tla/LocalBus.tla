------------------------------ MODULE LocalBus ------------------------------
(***************************************************************************)
(* The progress bus of RUN_TRANSPORT=local: publishers and readers share   *)
(* one process. An event is appended to the log in Postgres and handed to  *)
(* the listeners of that moment; a reader registers its listener, replays  *)
(* the log and then drains what its listener was given.                    *)
(*                                                                         *)
(* What runs between two awaits is one step. An event is its position in   *)
(* the log, 0 when its append failed, and whether it is terminal; the      *)
(* ephemeral candidate.delta and the heartbeats are left out.              *)
(***************************************************************************)
EXTENDS Naturals, Sequences

CONSTANTS
  Emitters,     \* the jobs and handlers of the process that publish
  Watchers,     \* clients of GET /runs/:id/events
  BackfillPage, \* rows per page of the backfill
  MaxEmitted,   \* bound on the log
  MaxMishaps,   \* bound on restarts, failed appends and failed handlers
  MaxHangups    \* bound on the connections that are lost

ASSUME LocalBusAssumption ==
  /\ BackfillPage \in Nat \ {0}
  /\ MaxEmitted \in Nat /\ MaxMishaps \in Nat /\ MaxHangups \in Nat

VARIABLES
  concluded,  \* the run's status is terminal
  rows,       \* the RunEvent rows: whether each is terminal
  emitting,   \* what each publisher is about to do, with which frame
  tail,       \* each reader's connection: its step, its page, its pending queue
  cursor,     \* the last id each reader got
  handed,     \* the durable events each reader got (history, never read)
  mishaps,
  hangups

localBusVars == <<concluded, rows, emitting, tail, cursor, handed, mishaps, hangups>>

LocalFrames == [seq: Nat, terminal: BOOLEAN]

NoFrame == [seq |-> 0, terminal |-> FALSE]

Away == [at |-> "away", page |-> <<>>, short |-> FALSE, pending |-> <<>>]

Silent == [at |-> "idle", frame |-> NoFrame]

(* A connection that has registered its listener.                           *)
Listening(r) == tail[r].at \in {"backfill", "follow"}

-----------------------------------------------------------------------------
publishing == <<concluded, rows, emitting, mishaps>>

(* A terminal status is written before it is announced.                     *)
Concludes(p) ==
  /\ emitting[p].at = "idle" /\ Len(rows) < MaxEmitted
  /\ concluded' = TRUE
  /\ emitting' = [emitting EXCEPT ![p].at = "conclude"]
  /\ UNCHANGED <<rows, tail, cursor, handed, mishaps, hangups>>

(* toFrame awaits the append; its answer comes back in a later step.        *)
toFrame(p) ==
  /\ emitting[p].at = "conclude" \/ (emitting[p].at = "idle" /\ Len(rows) < MaxEmitted)
  /\ LET ends == emitting[p].at = "conclude"
     IN  \/ /\ rows' = Append(rows, ends)
            /\ emitting' = [emitting EXCEPT ![p] =
                 [at |-> "fan", frame |-> [seq |-> Len(rows) + 1, terminal |-> ends]]]
            /\ UNCHANGED mishaps
         \/ /\ mishaps < MaxMishaps /\ mishaps' = mishaps + 1
            /\ emitting' = [emitting EXCEPT ![p] =
                 [at |-> "fan", frame |-> [seq |-> 0, terminal |-> ends]]]
            /\ UNCHANGED rows
  /\ UNCHANGED <<concluded, tail, cursor, handed, hangups>>

(* Every listener registered by now is called with the frame.               *)
publish(p) ==
  /\ emitting[p].at = "fan"
  /\ tail' = [r \in Watchers |->
                IF Listening(r) THEN [tail[r] EXCEPT !.pending = Append(@, emitting[p].frame)]
                ELSE tail[r]]
  /\ emitting' = [emitting EXCEPT ![p] = Silent]
  /\ UNCHANGED <<concluded, rows, cursor, handed, mishaps, hangups>>

(* A handler fails between the status and its event.                        *)
NeverAnnounced(p) ==
  /\ emitting[p].at = "conclude"
  /\ mishaps < MaxMishaps /\ mishaps' = mishaps + 1
  /\ emitting' = [emitting EXCEPT ![p] = Silent]
  /\ UNCHANGED <<concluded, rows, tail, cursor, handed, hangups>>

(* The process restarts: publishers, listeners and queues are gone at once. *)
Restart ==
  /\ mishaps < MaxMishaps /\ mishaps' = mishaps + 1
  /\ emitting' = [p \in Emitters |-> Silent]
  /\ tail' = [r \in Watchers |-> IF tail[r].at = "closed" THEN tail[r] ELSE Away]
  /\ UNCHANGED <<concluded, rows, cursor, handed, hangups>>

-----------------------------------------------------------------------------
(* The SSE route: a run that is over and has nothing new ends at once.      *)
Opens(r) ==
  /\ tail[r].at = "away"
  /\ \/ concluded /\ tail' = [tail EXCEPT ![r].at = "latest"]
     \/ ~concluded /\ tail' = [tail EXCEPT ![r].at = "backfill"]
  /\ UNCHANGED <<cursor, handed, hangups>> /\ UNCHANGED publishing

ComparesLatest(r) ==
  /\ tail[r].at = "latest"
  /\ tail' = [tail EXCEPT ![r].at = IF Len(rows) <= cursor[r] THEN "closed" ELSE "backfill"]
  /\ UNCHANGED <<cursor, handed, hangups>> /\ UNCHANGED publishing

(* listRunEvents: a page of the rows after the cursor.                      *)
backfillPage(r) ==
  LET last == IF Len(rows) < cursor[r] + BackfillPage THEN Len(rows) ELSE cursor[r] + BackfillPage
  IN  [i \in 1..(last - cursor[r]) |->
         [seq |-> cursor[r] + i, terminal |-> rows[cursor[r] + i]]]

backfill(r) ==
  /\ tail[r].at = "backfill" /\ tail[r].page = <<>> /\ ~tail[r].short
  /\ tail' = [tail EXCEPT ![r].page = backfillPage(r),
                          ![r].short = Len(backfillPage(r)) < BackfillPage]
  /\ UNCHANGED <<cursor, handed, hangups>> /\ UNCHANGED publishing

(* Variant: the listener is registered once the backfill is through.        *)
FollowsAfresh(r) ==
  /\ tail[r].at = "backfill" /\ tail[r].page = <<>> /\ tail[r].short
  /\ tail' = [tail EXCEPT ![r].at = "follow", ![r].pending = <<>>]
  /\ UNCHANGED <<cursor, handed, hangups>> /\ UNCHANGED publishing

Follows(r) ==
  /\ tail[r].at = "backfill" /\ tail[r].page = <<>> /\ tail[r].short
  /\ tail' = [tail EXCEPT ![r].at = "follow"]
  /\ UNCHANGED <<cursor, handed, hangups>> /\ UNCHANGED publishing

(* One event is sent, and a terminal one ends the stream.                   *)
Yields(r, frame, rest) ==
  /\ tail' = [tail EXCEPT ![r] = IF frame.terminal THEN [Away EXCEPT !.at = "closed"] ELSE rest]
  /\ IF frame.seq = 0 THEN UNCHANGED <<cursor, handed>>
     ELSE /\ cursor' = [cursor EXCEPT ![r] = frame.seq]
          /\ handed' = [handed EXCEPT ![r] = Append(@, frame.seq)]
  /\ UNCHANGED hangups /\ UNCHANGED publishing

SendsRow(r) ==
  /\ tail[r].at = "backfill" /\ tail[r].page # <<>>
  /\ Yields(r, Head(tail[r].page), [tail[r] EXCEPT !.page = Tail(@)])

(* The frames the backfill has already sent are passed over.                *)
SendsPending(r) ==
  /\ tail[r].at = "follow" /\ tail[r].pending # <<>>
  /\ LET frame == Head(tail[r].pending)
         rest  == [tail[r] EXCEPT !.pending = Tail(@)]
     IN  IF frame.seq # 0 /\ frame.seq <= cursor[r]
           THEN /\ tail' = [tail EXCEPT ![r] = rest]
                /\ UNCHANGED <<cursor, handed, hangups>> /\ UNCHANGED publishing
           ELSE Yields(r, frame, rest)

(* The connection is lost: the listener goes, with what it was given.       *)
HangsUp(r) ==
  /\ tail[r].at \notin {"away", "closed"}
  /\ hangups < MaxHangups /\ hangups' = hangups + 1
  /\ tail' = [tail EXCEPT ![r] = Away]
  /\ UNCHANGED <<cursor, handed>> /\ UNCHANGED publishing

-----------------------------------------------------------------------------
LocalBusInit ==
  /\ concluded = FALSE /\ rows = <<>>
  /\ emitting = [p \in Emitters |-> Silent]
  /\ tail = [r \in Watchers |-> Away]
  /\ cursor = [r \in Watchers |-> 0]
  /\ handed = [r \in Watchers |-> <<>>]
  /\ mishaps = 0 /\ hangups = 0

LocalBusNext ==
  \/ \E p \in Emitters : Concludes(p) \/ toFrame(p) \/ publish(p) \/ NeverAnnounced(p)
  \/ Restart
  \/ \E r \in Watchers :
       \/ Opens(r) \/ ComparesLatest(r) \/ backfill(r) \/ Follows(r)
       \/ SendsRow(r) \/ SendsPending(r) \/ HangsUp(r)

LocalBusSpec == LocalBusInit /\ [][LocalBusNext]_localBusVars

-----------------------------------------------------------------------------
LocalBusTypeOK ==
  /\ concluded \in BOOLEAN /\ rows \in Seq(BOOLEAN)
  /\ emitting \in [Emitters -> [at: {"idle", "conclude", "fan"}, frame: LocalFrames]]
  /\ tail \in [Watchers -> [at: {"away", "latest", "backfill", "follow", "closed"},
                            page: Seq(LocalFrames), short: BOOLEAN, pending: Seq(LocalFrames)]]
  /\ cursor \in [Watchers -> 0..Len(rows)]
  /\ handed \in [Watchers -> Seq(Nat)]
  /\ mishaps \in 0..MaxMishaps /\ hangups \in 0..MaxHangups

(* While one handler of the process publishes, the local bus implements the *)
(* same feed as the Redis one, and keeps it across failed appends, lost     *)
(* connections and restarts, which the Redis bus does not: whoever was      *)
(* listening when the process died reconnects and finds the log.            *)
LocalFeed == INSTANCE EventFeed WITH
  Readers <- Watchers, published <- Len(rows), over <- concluded, received <- handed,
  ended <- {r \in Watchers : tail[r].at = "closed"}

LocalImplementsFeed == LocalFeed!FeedSpec
=============================================================================
