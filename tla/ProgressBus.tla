----------------------------- MODULE ProgressBus -----------------------------
(***************************************************************************)
(* The durable progress bus of one run: publishers (the workers, the API   *)
(* and the reaper) append an event to the RunEvent log in Postgres and     *)
(* then to a Redis Stream; a reader of the SSE endpoint joins the two, and *)
(* reconnects with the id of the last event it got.                        *)
(*                                                                         *)
(* An event is its position in the log and whether it ends the stream.     *)
(* Ephemeral events (candidate.delta) have no position, are never replayed *)
(* and move no cursor; they are left out, and so is the expiry of an idle  *)
(* stream. The local transport of the same interface is LocalBus.          *)
(***************************************************************************)
EXTENDS Naturals, Sequences

CONSTANTS
  Publishers,    \* processes that publish events of the run
  Readers,       \* clients of GET /runs/:id/events
  PageSize,      \* rows per page of the backfill
  StreamMaxLen,  \* RUN_STREAM_MAX_LEN, what MAXLEN keeps of the stream
  MaxEvents,     \* bound on the log
  MaxBusFaults,  \* bound on crashes, failed appends and failed xadds
  MaxDrops       \* bound on the connections that are lost

ASSUME BusAssumption ==
  /\ PageSize \in Nat \ {0}
  /\ StreamMaxLen \in Nat \ {0}
  /\ MaxEvents \in Nat /\ MaxBusFaults \in Nat /\ MaxDrops \in Nat

VARIABLES
  over,     \* the run's status is terminal
  log,      \* the RunEvent rows, in the order of their seq
  stream,   \* the entries ever added to the Redis Stream, by id
  trimmed,  \* the ids up to which MAXLEN has discarded them
  pub,      \* what each publisher is about to do, with which frame
  conn,     \* the server's end of each reader's connection
  seen,     \* the last id each reader got, its resume cursor
  got,      \* the durable events each reader got (history, never read)
  busFaults,
  drops

busVars == <<over, log, stream, trimmed, pub, conn, seen, got, busFaults, drops>>

(* A frame: its seq, 0 for none, and whether its event is terminal.         *)
Frames == [seq: Nat, terminal: BOOLEAN]

Nothing == [seq |-> 0, terminal |-> FALSE]

(* A connection: its next step, the stream id it follows from, the frames   *)
(* it has read and not sent, and whether the last page came back short.     *)
Connections == [at: {"off", "latest", "join", "backfill", "follow", "done"},
                last: Nat, pending: Seq(Frames), short: BOOLEAN]

Closed == [at |-> "off", last |-> 0, pending |-> <<>>, short |-> FALSE]

-----------------------------------------------------------------------------
(* Publishing: the log first, then the stream.                              *)

readerVars == <<conn, seen, got, drops>>

(* Some process writes a terminal status, and then announces it.            *)
Conclude(p) ==
  /\ pub[p].at = "idle" /\ Len(log) < MaxEvents
  /\ over' = TRUE
  /\ pub' = [pub EXCEPT ![p].at = "conclude"]
  /\ UNCHANGED <<log, stream, trimmed, busFaults>> /\ UNCHANGED readerVars

(* appendRunEvent takes the next seq under the lock of the run's row.       *)
AppendEvent(p) ==
  /\ pub[p].at = "conclude" \/ (pub[p].at = "idle" /\ Len(log) < MaxEvents)
  /\ LET frame == [seq |-> Len(log) + 1, terminal |-> pub[p].at = "conclude"]
     IN  /\ log' = Append(log, frame)
         /\ pub' = [pub EXCEPT ![p] = [at |-> "xadd", frame |-> frame]]
  /\ UNCHANGED <<over, stream, trimmed, busFaults>> /\ UNCHANGED readerVars

(* toFrame: an append that fails is downgraded to a frame without a seq.    *)
AppendFails(p) ==
  /\ busFaults < MaxBusFaults /\ busFaults' = busFaults + 1
  /\ pub[p].at \in {"idle", "conclude"}
  /\ pub' = [pub EXCEPT ![p] = [at |-> "xadd",
               frame |-> [seq |-> 0, terminal |-> pub[p].at = "conclude"]]]
  /\ UNCHANGED <<over, log, stream, trimmed>> /\ UNCHANGED readerVars

(* XADD MAXLEN ~: at least StreamMaxLen entries survive the trim.           *)
Xadd(p) ==
  /\ pub[p].at = "xadd"
  /\ stream' = Append(stream, pub[p].frame)
  /\ \/ UNCHANGED trimmed
     \/ Len(stream) + 1 > StreamMaxLen /\ trimmed' = Len(stream) + 1 - StreamMaxLen
  /\ pub' = [pub EXCEPT ![p] = [at |-> "idle", frame |-> Nothing]]
  /\ UNCHANGED <<over, log, busFaults>> /\ UNCHANGED readerVars

(* The process dies, or Redis does not take the entry.                      *)
PublishFails(p) ==
  /\ pub[p].at # "idle"
  /\ busFaults < MaxBusFaults /\ busFaults' = busFaults + 1
  /\ pub' = [pub EXCEPT ![p] = [at |-> "idle", frame |-> Nothing]]
  /\ UNCHANGED <<over, log, stream, trimmed>> /\ UNCHANGED readerVars

-----------------------------------------------------------------------------
(* Reading.                                                                 *)

publisherVars == <<over, log, stream, trimmed, pub, busFaults>>

(* getRun: a run that is over may have nothing left to send.                *)
Connect(r) ==
  /\ conn[r].at = "off"
  /\ conn' = [conn EXCEPT ![r] = [Closed EXCEPT !.at = IF over THEN "latest" ELSE "join"]]
  /\ UNCHANGED <<seen, got, drops>> /\ UNCHANGED publisherVars

(* latestEventSeq <= afterSeq: a snapshot and a closing event, then the end.*)
CompareLatest(r) ==
  /\ conn[r].at = "latest"
  /\ conn' = [conn EXCEPT ![r].at = IF Len(log) <= seen[r] THEN "done" ELSE "join"]
  /\ UNCHANGED <<seen, got, drops>> /\ UNCHANGED publisherVars

(* The id of the stream's last entry, 0 when it has none.                   *)
tailId == IF trimmed = Len(stream) THEN 0 ELSE Len(stream)

RecordTail(r) ==
  /\ conn[r].at = "join"
  /\ conn' = [conn EXCEPT ![r].at = "backfill", ![r].last = tailId]
  /\ UNCHANGED <<seen, got, drops>> /\ UNCHANGED publisherVars

(* listRunEvents: the rows after the cursor, at most a page of them.        *)
page(afterSeq) ==
  SubSeq(log, afterSeq + 1,
         IF Len(log) < afterSeq + PageSize THEN Len(log) ELSE afterSeq + PageSize)

(* Variant: one page is taken for the whole log.                            *)
ReadPageOnce(r) ==
  /\ conn[r].at = "backfill" /\ conn[r].pending = <<>> /\ ~conn[r].short
  /\ conn' = [conn EXCEPT ![r].pending = page(seen[r]), ![r].short = TRUE]
  /\ UNCHANGED <<seen, got, drops>> /\ UNCHANGED publisherVars

ReadPage(r) ==
  /\ conn[r].at = "backfill" /\ conn[r].pending = <<>> /\ ~conn[r].short
  /\ conn' = [conn EXCEPT ![r].pending = page(seen[r]),
                          ![r].short = Len(page(seen[r])) < PageSize]
  /\ UNCHANGED <<seen, got, drops>> /\ UNCHANGED publisherVars

(* Variant: the stream is followed from its tail after the backfill.        *)
EndBackfillAtTail(r) ==
  /\ conn[r].at = "backfill" /\ conn[r].pending = <<>> /\ conn[r].short
  /\ conn' = [conn EXCEPT ![r].at = "follow", ![r].last = tailId]
  /\ UNCHANGED <<seen, got, drops>> /\ UNCHANGED publisherVars

EndBackfill(r) ==
  /\ conn[r].at = "backfill" /\ conn[r].pending = <<>> /\ conn[r].short
  /\ conn' = [conn EXCEPT ![r].at = "follow"]
  /\ UNCHANGED <<seen, got, drops>> /\ UNCHANGED publisherVars

(* XREAD from the last id: whatever entries are left after it.              *)
ReadStream(r) ==
  /\ conn[r].at = "follow" /\ conn[r].pending = <<>>
  /\ LET from == IF conn[r].last < trimmed THEN trimmed ELSE conn[r].last
     IN  /\ from < Len(stream)
         /\ conn' = [conn EXCEPT ![r].pending = SubSeq(stream, from + 1, Len(stream)),
                                 ![r].last = Len(stream)]
  /\ UNCHANGED <<seen, got, drops>> /\ UNCHANGED publisherVars

(* Variant: an event the backfill already sent is not recognised.           *)
staleNever(r) == FALSE

(* The stream repeats an event the reader has: it is passed over.           *)
stale(r) ==
  /\ conn[r].at = "follow"
  /\ Head(conn[r].pending).seq # 0 /\ Head(conn[r].pending).seq <= seen[r]

Skip(r) ==
  /\ conn[r].pending # <<>> /\ stale(r)
  /\ conn' = [conn EXCEPT ![r].pending = Tail(@)]
  /\ UNCHANGED <<seen, got, drops>> /\ UNCHANGED publisherVars

(* One event is sent; a terminal one ends the stream.                       *)
SendFrame(r) ==
  /\ conn[r].pending # <<>> /\ ~stale(r)
  /\ LET frame == Head(conn[r].pending)
     IN  /\ IF frame.seq = 0
              THEN UNCHANGED <<seen, got>>
              ELSE /\ seen' = [seen EXCEPT ![r] = frame.seq]
                   /\ got' = [got EXCEPT ![r] = Append(@, frame.seq)]
         /\ conn' = [conn EXCEPT ![r] =
                       IF frame.terminal THEN [Closed EXCEPT !.at = "done"]
                       ELSE [conn[r] EXCEPT !.pending = Tail(conn[r].pending)]]
  /\ UNCHANGED drops /\ UNCHANGED publisherVars

(* The connection is lost, with whatever was not sent; the client resumes   *)
(* with Last-Event-ID.                                                      *)
Drop(r) ==
  /\ conn[r].at \in {"latest", "join", "backfill", "follow"}
  /\ drops < MaxDrops /\ drops' = drops + 1
  /\ conn' = [conn EXCEPT ![r] = Closed]
  /\ UNCHANGED <<seen, got>> /\ UNCHANGED publisherVars

-----------------------------------------------------------------------------
BusInit ==
  /\ over = FALSE /\ log = <<>> /\ stream = <<>> /\ trimmed = 0
  /\ pub = [p \in Publishers |-> [at |-> "idle", frame |-> Nothing]]
  /\ conn = [r \in Readers |-> Closed]
  /\ seen = [r \in Readers |-> 0]
  /\ got = [r \in Readers |-> <<>>]
  /\ busFaults = 0 /\ drops = 0

Publish(p) == Conclude(p) \/ AppendEvent(p) \/ Xadd(p)

Subscribe(r) ==
  \/ Connect(r) \/ CompareLatest(r) \/ RecordTail(r) \/ ReadPage(r) \/ EndBackfill(r)
  \/ ReadStream(r) \/ Skip(r) \/ SendFrame(r)

BusNext ==
  \/ \E p \in Publishers : Publish(p) \/ AppendFails(p) \/ PublishFails(p)
  \/ \E r \in Readers : Subscribe(r) \/ Drop(r)

BusSpec == BusInit /\ [][BusNext]_busVars

(* A publisher finishes the event it began; the server keeps reading and    *)
(* sending, and the client reconnects. Nobody is obliged to publish.        *)
BusFairness ==
  /\ \A p \in Publishers : WF_busVars(pub[p].at # "idle" /\ Publish(p))
  /\ \A r \in Readers : WF_busVars(Subscribe(r))

BusFairSpec == BusSpec /\ BusFairness

-----------------------------------------------------------------------------
(* Types, and that no frame carries a seq its log does not have.            *)
BusTypeOK ==
  /\ over \in BOOLEAN
  /\ log \in Seq(Frames)
  /\ stream \in Seq(Frames)
  /\ trimmed \in 0..Len(stream)
  /\ pub \in [Publishers -> [at: {"idle", "conclude", "xadd"}, frame: Frames]]
  /\ conn \in [Readers -> Connections]
  /\ seen \in [Readers -> 0..Len(log)]
  /\ got \in [Readers -> Seq(Nat)]
  /\ busFaults \in 0..MaxBusFaults /\ drops \in 0..MaxDrops

(* However many processes publish, whatever is trimmed, lost or reconnected,*)
(* a reader never gets an event twice, nor one older than one it has.       *)
NothingTwice ==
  \A r \in Readers : \A i, j \in 1..Len(got[r]) : i < j => got[r][i] < got[r][j]

(* The bus implements the feed it promises, as long as one process          *)
(* publishes, nothing fails and the stream outlasts the slowest reader.     *)
Feed == INSTANCE EventFeed WITH
  published <- Len(log), over <- over, received <- got,
  ended <- {r \in Readers : conn[r].at = "done"}

ImplementsFeed == Feed!FeedSpec

(* Once the run is over, every reader's stream is eventually closed, however*)
(* often it had to reconnect.                                               *)
StreamEnds == []<>(over => \A r \in Readers : conn[r].at = "done")

(* A reader never misses an event (queue/src/bus.ts:37: "each event exactly *)
(* once, in order, with no gap").                                           *)
ReaderMissesNothing == [][\A r \in Readers : seen'[r] \in {seen[r], seen[r] + 1}]_seen
=============================================================================
