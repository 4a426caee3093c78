----------------------------- MODULE StreamProofs -----------------------------
(***************************************************************************)
(* The progress bus, for any number of publishers, readers, events,        *)
(* faults and lost connections: no reader gets an event twice or out of    *)
(* order; and for one publisher without faults, a log the stream retains:  *)
(* the bus implements EventFeed. The display of the terminal, for any runs, *)
(* calls and retries: it shows of a run what that run has come to. And the *)
(* SDK's ask(), for any retries, chunks and pings: what it resolves with,  *)
(* what it yields and what it leaves behind.                               *)
(***************************************************************************)
EXTENDS ProgressBus, TerminalView, SdkAsk, SequenceTheorems, FiniteSetTheorems, WellFoundedInduction, TLAPS

(* Every frame on its way carries a seq the log has.                        *)
FrameInv ==
  /\ \A i \in 1..Len(log) : log[i].seq = i
  /\ \A i \in 1..Len(stream) : stream[i].seq <= Len(log)
  /\ \A p \in Publishers : pub[p].frame.seq <= Len(log)
  /\ \A r \in Readers : \A i \in 1..Len(conn[r].pending) :
       conn[r].pending[i].seq <= Len(log)

(* A backfilling connection holds the rows right after the reader's cursor, *)
(* and the cursor is past everything the reader got.                        *)
CursorInv ==
  /\ \A r \in Readers : conn[r].at = "backfill" =>
       \A i \in 1..Len(conn[r].pending) : conn[r].pending[i].seq = seen[r] + i
  /\ \A r \in Readers : conn[r].at \notin {"backfill", "follow"} => conn[r].pending = <<>>
  /\ \A r \in Readers : \A i \in 1..Len(got[r]) : got[r][i] <= seen[r]
  /\ NothingTwice

BusInv == BusTypeOK /\ FrameInv /\ CursorInv
-----------------------------------------------------------------------------
(* A page is the rows after the cursor, and short only at the log's end.    *)
LEMMA PageRows ==
  ASSUME log \in Seq(Frames), \A i \in 1..Len(log) : log[i].seq = i,
         NEW a \in 0..Len(log)
  PROVE  /\ page(a) \in Seq(Frames)
         /\ a + Len(page(a)) <= Len(log)
         /\ \A i \in 1..Len(page(a)) : page(a)[i] = log[a + i] /\ page(a)[i].seq = a + i
         /\ Len(page(a)) < PageSize => a + Len(page(a)) = Len(log)
<1>. PageSize \in Nat \ {0}
  BY BusAssumption
<1>. DEFINE b == IF Len(log) < a + PageSize THEN Len(log) ELSE a + PageSize
<1>1. Len(log) \in Nat
  BY LenProperties
<1>2. a \in Nat /\ b \in Nat /\ a <= b /\ b <= Len(log) /\ (b - a < PageSize => b = Len(log))
  BY <1>1
<1>3. \A i \in a + 1 .. b : log[i] \in Frames
  BY <1>1, <1>2, ElementOfSeq
<1>4. /\ SubSeq(log, a + 1, b) \in Seq(Frames)
      /\ Len(SubSeq(log, a + 1, b)) = IF a + 1 <= b THEN b - (a + 1) + 1 ELSE 0
      /\ \A i \in 1 .. b - (a + 1) + 1 : SubSeq(log, a + 1, b)[i] = log[a + 1 + i - 1]
  <2>. HIDE DEF b
  <2>1. a + 1 \in Int /\ b \in Int
    BY <1>2
  <2>. QED  BY <1>3, <2>1, SubSeqProperties
<1>5. page(a) = SubSeq(log, a + 1, b)
  BY DEF page
<1>. HIDE DEF b
<1>6. Len(page(a)) = b - a
  BY <1>2, <1>4, <1>5
<1>7. ASSUME NEW i \in 1..(b - a)
      PROVE  page(a)[i] = log[a + i] /\ log[a + i].seq = a + i
  <2>1. i \in 1 .. b - (a + 1) + 1 /\ a + 1 + i - 1 = a + i /\ a + i \in 1..Len(log)
    BY <1>1, <1>2
  <2>2. page(a)[i] = log[a + 1 + i - 1]
    BY <1>4, <1>5, <2>1
  <2>. QED  BY <2>1, <2>2
<1>. QED  BY <1>1, <1>2, <1>4, <1>5, <1>6, <1>7

(* What is read from the stream: the entries from + 1 onwards.              *)
LEMMA StreamRows ==
  ASSUME stream \in Seq(Frames), NEW from \in 0..Len(stream)
  PROVE  LET entries == SubSeq(stream, from + 1, Len(stream))
         IN  /\ entries \in Seq(Frames)
             /\ Len(entries) = Len(stream) - from
             /\ \A i \in 1..Len(entries) : entries[i] = stream[from + i]
<1>1. Len(stream) \in Nat
  BY LenProperties
<1>2. \A i \in from + 1 .. Len(stream) : stream[i] \in Frames
  BY <1>1, ElementOfSeq
<1>3. from + 1 \in Int /\ Len(stream) \in Int
  BY <1>1
<1>4. LET entries == SubSeq(stream, from + 1, Len(stream))
      IN  /\ entries \in Seq(Frames)
          /\ Len(entries) = IF from + 1 <= Len(stream) THEN Len(stream) - (from + 1) + 1 ELSE 0
          /\ \A i \in 1 .. Len(stream) - (from + 1) + 1 : entries[i] = stream[from + 1 + i - 1]
  BY <1>2, <1>3, SubSeqProperties
<1>. QED  BY <1>1, <1>4
-----------------------------------------------------------------------------
(* A publisher appends at the end of the log and adds what it appended: the*)
(* readers' order stands.                                                  *)
LEMMA PublisherStep ==
  ASSUME BusInv, NEW p \in Publishers, Publish(p) \/ AppendFails(p) \/ PublishFails(p)
  PROVE  BusInv'
<1>. USE DEF Frames, Nothing
<1>1. Len(log) \in Nat /\ Len(stream) \in Nat
  BY LenProperties DEF BusInv, BusTypeOK
<1>2. UNCHANGED <<conn, seen, got, drops>>
  BY DEF Publish, Conclude, AppendEvent, Xadd, AppendFails, PublishFails, readerVars
<1>3. /\ log' \in Seq(Frames) /\ Len(log') \in Nat /\ Len(log) <= Len(log')
      /\ \A i \in 1..Len(log') : log'[i].seq = i
  <2>1. CASE AppendEvent(p)
    <3>. DEFINE frame == [seq |-> Len(log) + 1, terminal |-> pub[p].at = "conclude"]
    <3>1. frame \in Frames /\ frame.seq = Len(log) + 1
      BY <1>1
    <3>2. log' = Append(log, frame)
      BY <2>1 DEF AppendEvent
    <3>. HIDE DEF frame
    <3>. QED  BY <1>1, <3>1, <3>2 DEF BusInv, BusTypeOK, FrameInv
  <2>2. CASE log' = log
    <3>1. log \in Seq(Frames) /\ \A i \in 1..Len(log) : log[i].seq = i
      BY DEF BusInv, BusTypeOK, FrameInv
    <3>. QED  BY ONLY <1>1, <2>2, <3>1
  <2>. QED  BY <2>1, <2>2 DEF Publish, Conclude, Xadd, AppendFails, PublishFails
<1>4. /\ pub' \in [Publishers -> [at: {"idle", "conclude", "xadd"}, frame: Frames]]
      /\ \A q \in Publishers : pub'[q].frame.seq <= Len(log')
  <2>1. CASE AppendEvent(p)
    <3>. DEFINE frame == [seq |-> Len(log) + 1, terminal |-> pub[p].at = "conclude"]
    <3>1. frame \in Frames /\ frame.seq = Len(log) + 1
      BY <1>1
    <3>2. log' = Append(log, frame) /\ pub' = [pub EXCEPT ![p] = [at |-> "xadd", frame |-> frame]]
      BY <2>1 DEF AppendEvent
    <3>. HIDE DEF frame
    <3>3. Len(log') = Len(log) + 1
      BY <3>1, <3>2 DEF BusInv, BusTypeOK
    <3>. QED  BY <1>1, <3>1, <3>2, <3>3 DEF BusInv, BusTypeOK, FrameInv
  <2>2. CASE Conclude(p)
    BY <1>1, <2>2 DEF Conclude, BusInv, BusTypeOK, FrameInv
  <2>3. CASE Xadd(p)
    BY <1>1, <2>3 DEF Xadd, BusInv, BusTypeOK, FrameInv
  <2>4. CASE PublishFails(p)
    BY <1>1, <2>4 DEF PublishFails, BusInv, BusTypeOK, FrameInv
  <2>5. CASE AppendFails(p)
    <3>. DEFINE frame == [seq |-> 0, terminal |-> pub[p].at = "conclude"]
    <3>1. frame \in Frames /\ frame.seq = 0
      OBVIOUS
    <3>2. UNCHANGED log /\ pub' = [pub EXCEPT ![p] = [at |-> "xadd", frame |-> frame]]
      BY <2>5 DEF AppendFails
    <3>. HIDE DEF frame
    <3>. QED  BY <1>1, <3>1, <3>2 DEF BusInv, BusTypeOK, FrameInv
  <2>. QED  BY <2>1, <2>2, <2>3, <2>4, <2>5 DEF Publish
<1>5. /\ stream' \in Seq(Frames) /\ trimmed' \in 0..Len(stream')
      /\ \A i \in 1..Len(stream') : stream'[i].seq <= Len(log')
  <2>1. CASE Xadd(p)
    <3>1. pub[p].frame \in Frames /\ pub[p].frame.seq <= Len(log) /\ UNCHANGED log
      BY <2>1 DEF Xadd, BusInv, BusTypeOK, FrameInv
    <3>2. stream' = Append(stream, pub[p].frame)
      BY <2>1 DEF Xadd
    <3>3. stream' \in Seq(Frames) /\ Len(stream') = Len(stream) + 1
      BY <3>1, <3>2 DEF BusInv, BusTypeOK
    <3>4. ASSUME NEW i \in 1..Len(stream') PROVE stream'[i].seq <= Len(log')
      <4>1. \/ i \in 1..Len(stream) /\ stream'[i] = stream[i]
            \/ i = Len(stream) + 1 /\ stream'[i] = pub[p].frame
        BY <1>1, <3>1, <3>2, <3>3 DEF BusInv, BusTypeOK
      <4>2. i \in 1..Len(stream) => stream[i].seq <= Len(log)
        BY DEF BusInv, FrameInv
      <4>. QED  BY <3>1, <4>1, <4>2
    <3>5. StreamMaxLen \in Nat
      BY BusAssumption
    <3>6. trimmed' = trimmed \/ (Len(stream) + 1 > StreamMaxLen /\ trimmed' = Len(stream) + 1 - StreamMaxLen)
      BY <2>1 DEF Xadd
    <3>7. trimmed' \in 0..Len(stream')
      BY <1>1, <3>3, <3>5, <3>6 DEF BusInv, BusTypeOK
    <3>. QED  BY <3>3, <3>4, <3>7
  <2>2. CASE UNCHANGED <<stream, trimmed>>
    <3>1. \A i \in 1..Len(stream) : stream[i] \in Frames
      BY ElementOfSeq DEF BusInv, BusTypeOK
    <3>2. \A i \in 1..Len(stream) : stream[i].seq \in Nat /\ stream[i].seq <= Len(log)
      BY <3>1 DEF BusInv, FrameInv
    <3>3. \A i \in 1..Len(stream) : stream[i].seq <= Len(log')
      BY ONLY <1>1, <1>3, <3>2
    <3>. QED  BY <1>1, <2>2, <3>3 DEF BusInv, BusTypeOK
  <2>. QED  BY <2>1, <2>2 DEF Publish, Conclude, AppendEvent, AppendFails, PublishFails
<1>6. over' \in BOOLEAN
  BY DEF Publish, Conclude, AppendEvent, Xadd, AppendFails, PublishFails, BusInv, BusTypeOK
<1>7. busFaults' \in 0..MaxBusFaults
  <2>1. busFaults' = busFaults \/ (busFaults < MaxBusFaults /\ busFaults' = busFaults + 1)
    BY DEF Publish, Conclude, AppendEvent, Xadd, AppendFails, PublishFails
  <2>. QED  BY <2>1, BusAssumption DEF BusInv, BusTypeOK
<1>8. seen' \in [Readers -> 0..Len(log')]
  BY <1>1, <1>2, <1>3 DEF BusInv, BusTypeOK
<1>9. BusTypeOK'
  BY <1>2, <1>3, <1>4, <1>5, <1>6, <1>7, <1>8 DEF BusInv, BusTypeOK
<1>10. \A r \in Readers : \A i \in 1..Len(conn'[r].pending) : conn'[r].pending[i].seq <= Len(log')
  <2>1. ASSUME NEW r \in Readers, NEW i \in 1..Len(conn[r].pending)
        PROVE  conn[r].pending[i].seq \in Nat
    <3>1. conn[r].pending \in Seq(Frames)
      BY DEF BusInv, BusTypeOK, Connections
    <3>2. conn[r].pending[i] \in Frames
      BY <3>1, ElementOfSeq
    <3>. QED  BY <3>2
  <2>2. \A r \in Readers : \A i \in 1..Len(conn[r].pending) : conn[r].pending[i].seq <= Len(log)
    BY DEF BusInv, FrameInv
  <2>3. ASSUME NEW r \in Readers, NEW i \in 1..Len(conn'[r].pending)
        PROVE  conn'[r].pending[i].seq <= Len(log')
    <3>1. conn' = conn
      BY <1>2
    <3>2. /\ i \in 1..Len(conn[r].pending)
          /\ conn'[r].pending[i].seq = conn[r].pending[i].seq
      BY ONLY <2>3, <3>1
    <3>3. conn[r].pending[i].seq \in Nat /\ conn[r].pending[i].seq <= Len(log)
      BY <2>1, <2>2, <3>2
    <3>4. Len(log) \in Nat /\ Len(log') \in Nat /\ Len(log) <= Len(log')
      BY <1>1, <1>3
    <3>. QED  BY ONLY <3>2, <3>3, <3>4
  <2>. QED  BY <2>3
<1>. QED  BY <1>2, <1>3, <1>4, <1>5, <1>9, <1>10 DEF BusInv, FrameInv, CursorInv, NothingTwice

(* What a reader's step makes of its connection and its cursor.             *)
LEMMA ReaderMoves ==
  ASSUME BusInv, NEW r \in Readers, Subscribe(r) \/ Drop(r)
  PROVE  /\ conn' = [conn EXCEPT ![r] = conn'[r]] /\ conn'[r] \in Connections
         /\ \A i \in 1..Len(conn'[r].pending) : conn'[r].pending[i].seq <= Len(log)
         /\ conn'[r].at = "backfill" =>
              \A i \in 1..Len(conn'[r].pending) : conn'[r].pending[i].seq = seen'[r] + i
         /\ conn'[r].at \notin {"backfill", "follow"} => conn'[r].pending = <<>>
         /\ \/ UNCHANGED <<seen, got>>
            \/ \E s \in 1..Len(log) :
                 /\ s > seen[r]
                 /\ seen' = [seen EXCEPT ![r] = s]
                 /\ got' = [got EXCEPT ![r] = Append(@, s)]
<1>. conn \in [Readers -> Connections] /\ seen \in [Readers -> 0..Len(log)] /\ Len(log) \in Nat
  BY LenProperties DEF BusInv, BusTypeOK
<1>. conn[r] \in Connections /\ conn[r].pending \in Seq(Frames) /\ seen[r] \in 0..Len(log)
  BY DEF Connections
<1>0. /\ log \in Seq(Frames) /\ \A i \in 1..Len(log) : log[i].seq = i
      /\ stream \in Seq(Frames) /\ trimmed \in 0..Len(stream) /\ Len(stream) \in Nat
      /\ \A i \in 1..Len(stream) : stream[i].seq <= Len(log)
  BY LenProperties DEF BusInv, BusTypeOK, FrameInv
<1>a. /\ \A i \in 1..Len(conn[r].pending) : conn[r].pending[i].seq <= Len(log)
      /\ conn[r].at = "backfill" =>
              \A i \in 1..Len(conn[r].pending) : conn[r].pending[i].seq = seen[r] + i
      /\ conn[r].at \notin {"backfill", "follow"} => conn[r].pending = <<>>
  BY DEF BusInv, FrameInv, CursorInv
<1>1. CASE Connect(r)
  <2>1. PICK at \in {"latest", "join"} : conn' = [conn EXCEPT ![r] = [Closed EXCEPT !.at = at]]
    BY <1>1 DEF Connect
  <2>2. /\ [Closed EXCEPT !.at = at] \in Connections
        /\ [Closed EXCEPT !.at = at].at = at
        /\ [Closed EXCEPT !.at = at].pending = <<>>
    BY EmptySeq DEF Closed, Connections
  <2>3. conn'[r] = [Closed EXCEPT !.at = at] /\ conn' = [conn EXCEPT ![r] = conn'[r]]
    BY <2>1
  <2>4. Len(<<>>) = 0
    OBVIOUS
  <2>5. UNCHANGED <<seen, got>>
    BY <1>1 DEF Connect
  <2>. QED  BY <2>2, <2>3, <2>4, <2>5
<1>2. CASE CompareLatest(r)
  <2>1. PICK at \in {"done", "join"} :
          /\ UNCHANGED <<seen, got>> /\ conn[r].pending = <<>> /\ Len(conn[r].pending) = 0
          /\ conn' = [conn EXCEPT ![r].at = at]
    BY <1>2, <1>a DEF CompareLatest
  <2>2. conn'[r] = [conn[r] EXCEPT !.at = at] /\ conn' = [conn EXCEPT ![r] = conn'[r]]
    BY <2>1
  <2>3. conn'[r] \in Connections /\ conn'[r].at = at /\ conn'[r].pending = <<>>
    BY <2>1, <2>2 DEF Connections
  <2>. QED  BY <2>1, <2>2, <2>3
<1>3. CASE RecordTail(r)
  <2>1. /\ UNCHANGED <<seen, got>> /\ conn[r].pending = <<>> /\ Len(conn[r].pending) = 0
        /\ conn' = [conn EXCEPT ![r].at = "backfill", ![r].last = tailId]
    BY <1>3, <1>a DEF RecordTail
  <2>2. tailId \in Nat
    BY <1>0 DEF tailId
  <2>3. conn'[r] = [conn[r] EXCEPT !.at = "backfill", !.last = tailId]
    BY <2>1
  <2>4. conn' = [conn EXCEPT ![r] = conn'[r]]
    BY <2>1, <2>3
  <2>5. conn'[r] \in Connections /\ conn'[r].pending = <<>>
    BY <2>1, <2>2, <2>3 DEF Connections
  <2>. QED  BY <2>1, <2>4, <2>5
<1>4. CASE ReadPage(r)
  <2>. DEFINE P == page(seen[r])
  <2>1. /\ P \in Seq(Frames) /\ Len(P) \in Nat /\ seen[r] + Len(P) <= Len(log)
        /\ \A i \in 1..Len(P) : P[i].seq = seen[r] + i
    BY <1>0, PageRows, LenProperties
  <2>2. \A i \in 1..Len(P) : P[i].seq <= Len(log)
    BY <2>1
  <2>3. /\ UNCHANGED <<seen, got>> /\ conn[r].at = "backfill"
        /\ conn' = [conn EXCEPT ![r].pending = P, ![r].short = Len(P) < PageSize]
    BY <1>4 DEF ReadPage
  <2>. DEFINE short == Len(P) < PageSize
  <2>. short \in BOOLEAN
    OBVIOUS
  <2>. HIDE DEF P, short
  <2>4. conn'[r] = [conn[r] EXCEPT !.pending = P, !.short = short]
    BY <2>3 DEF short
  <2>5. conn'[r] \in Connections /\ conn'[r].pending = P /\ conn'[r].at = "backfill"
    BY <2>1, <2>3, <2>4 DEF Connections
  <2>6. conn' = [conn EXCEPT ![r] = conn'[r]]
    BY <2>3, <2>4
  <2>. QED  BY <2>1, <2>2, <2>3, <2>5, <2>6
<1>5. CASE EndBackfill(r)
  <2>1. /\ UNCHANGED <<seen, got>> /\ conn[r].pending = <<>> /\ Len(conn[r].pending) = 0
        /\ conn' = [conn EXCEPT ![r].at = "follow"]
    BY <1>5, <1>a DEF EndBackfill
  <2>2. conn'[r] = [conn[r] EXCEPT !.at = "follow"] /\ conn' = [conn EXCEPT ![r] = conn'[r]]
    BY <2>1
  <2>3. conn'[r] \in Connections /\ conn'[r].at = "follow" /\ conn'[r].pending = <<>>
    BY <2>1, <2>2 DEF Connections
  <2>. QED  BY <2>1, <2>2, <2>3
<1>6. CASE ReadStream(r)
  <2>1. PICK from \in 0..Len(stream) :
          conn' = [conn EXCEPT ![r].pending = SubSeq(stream, from + 1, Len(stream)),
                               ![r].last = Len(stream)]
    <3>. DEFINE start == IF conn[r].last < trimmed THEN trimmed ELSE conn[r].last
    <3>1. start < Len(stream)
      BY <1>6 DEF ReadStream
    <3>2. conn' = [conn EXCEPT ![r].pending = SubSeq(stream, start + 1, Len(stream)),
                               ![r].last = Len(stream)]
      BY <1>6 DEF ReadStream
    <3>3. start \in Nat
      BY <1>0 DEF Connections
    <3>. HIDE DEF start
    <3>4. start \in 0..Len(stream)
      BY <1>0, <3>1, <3>3
    <3>. WITNESS start \in 0..Len(stream)
    <3>. QED  BY <3>2
  <2>. DEFINE P == SubSeq(stream, from + 1, Len(stream))
  <2>2. /\ P \in Seq(Frames) /\ Len(P) = Len(stream) - from
        /\ \A i \in 1..Len(P) : P[i] = stream[from + i]
    BY <1>0, StreamRows
  <2>3. \A i \in 1..Len(P) : P[i].seq <= Len(log)
    BY <1>0, <2>2
  <2>4. UNCHANGED <<seen, got>> /\ conn[r].at = "follow"
    BY <1>6 DEF ReadStream
  <2>5. conn' = [conn EXCEPT ![r].pending = P, ![r].last = Len(stream)]
    BY <2>1
  <2>. HIDE DEF P
  <2>6. conn'[r] = [conn[r] EXCEPT !.pending = P, !.last = Len(stream)]
    BY <2>5
  <2>7. conn'[r] \in Connections /\ conn'[r].pending = P /\ conn'[r].at = "follow"
    BY <1>0, <2>2, <2>4, <2>6 DEF Connections
  <2>8. conn' = [conn EXCEPT ![r] = conn'[r]]
    BY <2>5, <2>6
  <2>. QED  BY <2>3, <2>4, <2>7, <2>8
<1>7. ASSUME conn[r].pending # <<>>
      PROVE  LET T == Tail(conn[r].pending)
             IN  /\ T \in Seq(Frames) /\ Len(T) = Len(conn[r].pending) - 1
                 /\ \A i \in 1..Len(T) : T[i] = conn[r].pending[i + 1]
                 /\ Len(conn[r].pending) \in Nat \ {0}
                 /\ Head(conn[r].pending) = conn[r].pending[1] /\ Head(conn[r].pending) \in Frames
  BY <1>7, HeadTailProperties, EmptySeq
<1>8. CASE Skip(r)
  <2>. DEFINE T == Tail(conn[r].pending)
  <2>1. conn[r].pending # <<>> /\ conn[r].at = "follow" /\ UNCHANGED <<seen, got>>
        /\ conn' = [conn EXCEPT ![r].pending = T]
    BY <1>8 DEF Skip, stale
  <2>2. /\ T \in Seq(Frames) /\ Len(T) = Len(conn[r].pending) - 1
        /\ Len(conn[r].pending) \in Nat \ {0}
        /\ \A i \in 1..Len(T) : T[i] = conn[r].pending[i + 1]
    BY <1>7, <2>1
  <2>5. \A i \in 1..Len(T) : T[i].seq <= Len(log)
    <3>. HIDE DEF T
    <3>1. \A i \in 1..Len(T) : i + 1 \in 1..Len(conn[r].pending)
      BY <2>2
    <3>. QED  BY <1>a, <2>2, <3>1
  <2>. HIDE DEF T
  <2>3. conn'[r] = [conn[r] EXCEPT !.pending = T] /\ conn' = [conn EXCEPT ![r] = conn'[r]]
    BY <2>1
  <2>4. conn'[r] \in Connections /\ conn'[r].pending = T /\ conn'[r].at = "follow"
    BY <2>1, <2>2, <2>3 DEF Connections
  <2>. QED  BY <2>1, <2>3, <2>4, <2>5
<1>9. CASE SendFrame(r)
  <2>. DEFINE T == Tail(conn[r].pending)
              frame == Head(conn[r].pending)
  <2>1. conn[r].pending # <<>> /\ ~stale(r) /\ conn[r].at \in {"backfill", "follow"}
    BY <1>9, <1>a DEF SendFrame
  <2>2. /\ T \in Seq(Frames) /\ Len(T) = Len(conn[r].pending) - 1 /\ Len(conn[r].pending) \in Nat \ {0}
        /\ \A i \in 1..Len(T) : T[i] = conn[r].pending[i + 1]
        /\ frame = conn[r].pending[1] /\ frame \in Frames
    BY <1>7, <2>1
  <2>3. frame.seq \in Nat /\ frame.seq <= Len(log)
    BY <1>a, <2>2 DEF Frames
  <2>4. frame.seq # 0 => frame.seq > seen[r]
    <3>1. CASE conn[r].at = "follow"
      BY <2>1, <2>3, <3>1 DEF stale
    <3>2. CASE conn[r].at = "backfill"
      BY <1>a, <2>2, <3>2
    <3>. QED  BY <2>1, <3>1, <3>2
  <2>5. conn[r].at = "backfill" => frame.seq = seen[r] + 1
    BY <1>a, <2>2
  <2>6. \/ frame.seq = 0 /\ UNCHANGED <<seen, got>>
        \/ /\ frame.seq # 0
           /\ seen' = [seen EXCEPT ![r] = frame.seq]
           /\ got' = [got EXCEPT ![r] = Append(got[r], frame.seq)]
    <3>1. IF frame.seq = 0 THEN UNCHANGED <<seen, got>>
          ELSE /\ seen' = [seen EXCEPT ![r] = frame.seq]
               /\ got' = [got EXCEPT ![r] = Append(got[r], frame.seq)]
      BY <1>9 DEF SendFrame
    <3>. HIDE DEF frame
    <3>. QED  BY <3>1
  <2>7. conn' = [conn EXCEPT ![r] = IF frame.terminal THEN [Closed EXCEPT !.at = "done"]
                                    ELSE [conn[r] EXCEPT !.pending = T]]
    BY <1>9 DEF SendFrame
  <2>8. /\ [Closed EXCEPT !.at = "done"] \in Connections
        /\ [Closed EXCEPT !.at = "done"].at = "done"
        /\ [Closed EXCEPT !.at = "done"].pending = <<>>
    BY EmptySeq DEF Closed, Connections
  <2>. HIDE DEF T, frame
  <2>9. \/ UNCHANGED <<seen, got>>
        \/ \E s \in 1..Len(log) :
             /\ s > seen[r]
             /\ seen' = [seen EXCEPT ![r] = s]
             /\ got' = [got EXCEPT ![r] = Append(@, s)]
    BY <2>3, <2>4, <2>6
  <2>10. CASE frame.terminal
    <3>1. conn'[r] = [Closed EXCEPT !.at = "done"] /\ conn' = [conn EXCEPT ![r] = conn'[r]]
      BY <2>7, <2>10
    <3>2. conn'[r] \in Connections /\ conn'[r].at = "done" /\ conn'[r].pending = <<>>
          /\ Len(conn'[r].pending) = 0
      BY <2>8, <3>1
    <3>. QED  BY <2>9, <3>1, <3>2
  <2>11. CASE ~frame.terminal
    <3>1. conn'[r] = [conn[r] EXCEPT !.pending = T] /\ conn' = [conn EXCEPT ![r] = conn'[r]]
      BY <2>7, <2>11
    <3>2. conn'[r] \in Connections /\ conn'[r].pending = T /\ conn'[r].at = conn[r].at
      BY <2>2, <3>1 DEF Connections
    <3>. \A i \in 1..Len(T) : i + 1 \in 1..Len(conn[r].pending)
      BY <2>2
    <3>3. \A i \in 1..Len(T) : T[i].seq <= Len(log)
      BY <1>a, <2>2
    <3>4. ASSUME conn[r].at = "backfill", NEW i \in 1..Len(T)
          PROVE  T[i].seq = seen'[r] + i
      <4>1. T[i].seq = seen[r] + (i + 1)
        BY <1>a, <2>2, <3>4
      <4>2. seen'[r] = seen[r] + 1
        BY <2>3, <2>5, <2>6, <3>4
      <4>. QED  BY <2>2, <4>1, <4>2
    <3>. QED  BY <2>1, <2>9, <3>1, <3>2, <3>3, <3>4
  <2>. QED  BY <2>10, <2>11
<1>10. CASE Drop(r)
  <2>1. conn' = [conn EXCEPT ![r] = Closed] /\ UNCHANGED <<seen, got>>
    BY <1>10 DEF Drop
  <2>2. Closed \in Connections /\ Closed.pending = <<>> /\ Closed.at = "off" /\ Len(Closed.pending) = 0
    BY DEF Closed, Connections
  <2>. QED  BY <2>1, <2>2
<1>. QED
  BY <1>1, <1>2, <1>3, <1>4, <1>5, <1>6, <1>8, <1>9, <1>10 DEF Subscribe

(* A reader's step only moves its cursor forward, to what it appends.       *)
LEMMA ReaderStep ==
  ASSUME BusInv, NEW r \in Readers, Subscribe(r) \/ Drop(r)
  PROVE  BusInv'
<1>1. /\ UNCHANGED publisherVars
      /\ drops' = drops \/ (drops < MaxDrops /\ drops' = drops + 1)
  BY DEF Subscribe, Connect, CompareLatest, RecordTail, ReadPage, EndBackfill, ReadStream,
         Skip, SendFrame, Drop
<1>2. UNCHANGED <<over, log, stream, trimmed, pub, busFaults>>
  BY <1>1 DEF publisherVars
<1>3. drops' \in 0..MaxDrops
  BY <1>1, BusAssumption DEF BusInv, BusTypeOK
<1>4. /\ conn' = [conn EXCEPT ![r] = conn'[r]] /\ conn'[r] \in Connections
      /\ \A i \in 1..Len(conn'[r].pending) : conn'[r].pending[i].seq <= Len(log)
      /\ conn'[r].at = "backfill" =>
           \A i \in 1..Len(conn'[r].pending) : conn'[r].pending[i].seq = seen'[r] + i
      /\ conn'[r].at \notin {"backfill", "follow"} => conn'[r].pending = <<>>
      /\ \/ UNCHANGED <<seen, got>>
         \/ \E s \in 1..Len(log) :
              /\ s > seen[r]
              /\ seen' = [seen EXCEPT ![r] = s]
              /\ got' = [got EXCEPT ![r] = Append(got[r], s)]
  BY ReaderMoves, Zenon
<1>5. conn \in [Readers -> Connections] /\ conn' \in [Readers -> Connections]
  BY <1>4 DEF BusInv, BusTypeOK
<1>6. \A q \in Readers : q # r => conn'[q] = conn[q]
  BY <1>4, <1>5
<1>7. /\ \A q \in Readers : \A i \in 1..Len(conn'[q].pending) : conn'[q].pending[i].seq <= Len(log)
      /\ \A q \in Readers : conn'[q].at \notin {"backfill", "follow"} => conn'[q].pending = <<>>
  BY <1>4, <1>6 DEF BusInv, FrameInv, CursorInv
<1>8. /\ seen \in [Readers -> 0..Len(log)] /\ got \in [Readers -> Seq(Nat)] /\ Len(log) \in Nat
      /\ \A q \in Readers : \A i \in 1..Len(got[q]) : got[q][i] <= seen[q]
      /\ \A q \in Readers : \A i, j \in 1..Len(got[q]) : i < j => got[q][i] < got[q][j]
      /\ \A q \in Readers : conn[q].at = "backfill" =>
           \A i \in 1..Len(conn[q].pending) : conn[q].pending[i].seq = seen[q] + i
  BY LenProperties DEF BusInv, BusTypeOK, CursorInv, NothingTwice
<1>9. CASE UNCHANGED <<seen, got>>
  <2>1. ASSUME NEW q \in Readers, conn'[q].at = "backfill"
        PROVE  \A i \in 1..Len(conn'[q].pending) : conn'[q].pending[i].seq = seen'[q] + i
    <3>1. CASE q = r
      BY <1>4, <2>1, <3>1
    <3>2. CASE q # r
      BY <1>6, <1>8, <1>9, <2>1, <3>2
    <3>. QED  BY <3>1, <3>2
  <2>2. BusTypeOK'
    BY <1>2, <1>3, <1>5, <1>9 DEF BusInv, BusTypeOK
  <2>3. FrameInv'
    BY <1>2, <1>7 DEF BusInv, FrameInv
  <2>4. CursorInv'
    BY <1>7, <1>8, <1>9, <2>1 DEF CursorInv, NothingTwice
  <2>. QED  BY <2>2, <2>3, <2>4 DEF BusInv
<1>10. ASSUME NEW s \in 1..Len(log), s > seen[r],
              seen' = [seen EXCEPT ![r] = s],
              got' = [got EXCEPT ![r] = Append(got[r], s)]
       PROVE  BusInv'
  <2>1. /\ seen' \in [Readers -> 0..Len(log)] /\ seen'[r] = s
        /\ \A q \in Readers : q # r => seen'[q] = seen[q] /\ got'[q] = got[q]
    BY <1>8, <1>10
  <2>2. /\ got'[r] = Append(got[r], s) /\ got'[r] \in Seq(Nat) /\ Len(got'[r]) = Len(got[r]) + 1
        /\ Len(got[r]) \in Nat
        /\ \A i \in 1..Len(got[r]) : got'[r][i] = got[r][i] /\ got[r][i] \in Nat
        /\ got'[r][Len(got[r]) + 1] = s
    <3>1. got[r] \in Seq(Nat) /\ got'[r] = Append(got[r], s) /\ s \in Nat
      BY <1>8, <1>10
    <3>2. Len(got[r]) \in Nat /\ \A i \in 1..Len(got[r]) : got[r][i] \in Nat
      BY ONLY <3>1, LenProperties, ElementOfSeq
    <3>. QED  BY ONLY <3>1, <3>2, AppendProperties
  <2>3. got' \in [Readers -> Seq(Nat)]
    BY <1>8, <1>10, <2>2
  <2>4. \A q \in Readers : \A i \in 1..Len(got'[q]) : got'[q][i] <= seen'[q]
    <3>1. ASSUME NEW i \in 1..Len(got'[r]) PROVE got'[r][i] <= seen'[r]
      <4>1. CASE i = Len(got[r]) + 1
        BY <2>1, <2>2, <4>1
      <4>2. CASE i \in 1..Len(got[r])
        BY <1>8, <1>10, <2>1, <2>2, <4>2
      <4>. QED  BY <2>2, <4>1, <4>2
    <3>. QED  BY <1>8, <2>1, <3>1
  <2>5. \A q \in Readers : \A i, j \in 1..Len(got'[q]) : i < j => got'[q][i] < got'[q][j]
    <3>1. ASSUME NEW i \in 1..Len(got'[r]), NEW j \in 1..Len(got'[r]), i < j
          PROVE  got'[r][i] < got'[r][j]
      <4>1. i \in 1..Len(got[r])
        BY <2>2, <3>1
      <4>2. CASE j = Len(got[r]) + 1
        BY <1>8, <1>10, <2>2, <4>1, <4>2
      <4>3. CASE j \in 1..Len(got[r])
        BY <1>8, <2>2, <3>1, <4>1, <4>3
      <4>4. j = Len(got[r]) + 1 \/ j \in 1..Len(got[r])
        BY <2>2
      <4>. QED  BY <4>2, <4>3, <4>4
    <3>. QED  BY <1>8, <2>1, <3>1
  <2>6. ASSUME NEW q \in Readers, conn'[q].at = "backfill"
        PROVE  \A i \in 1..Len(conn'[q].pending) : conn'[q].pending[i].seq = seen'[q] + i
    <3>1. CASE q = r
      BY <1>4, <2>6, <3>1
    <3>2. CASE q # r
      BY <1>6, <1>8, <2>1, <2>6, <3>2
    <3>. QED  BY <3>1, <3>2
  <2>7. BusTypeOK'
    BY <1>2, <1>3, <1>5, <2>1, <2>3 DEF BusInv, BusTypeOK
  <2>8. FrameInv'
    BY <1>2, <1>7 DEF BusInv, FrameInv
  <2>9. CursorInv'
    BY <1>7, <2>4, <2>5, <2>6 DEF CursorInv, NothingTwice
  <2>. QED  BY <2>7, <2>8, <2>9 DEF BusInv
<1>. QED  BY <1>4, <1>9, <1>10

-----------------------------------------------------------------------------
(* Nothing is published and nothing is read.                               *)
LEMMA BusStart == BusInit => BusInv
<1>. SUFFICES ASSUME BusInit PROVE BusInv
  OBVIOUS
<1>1. <<>> \in Seq(Frames) /\ Len(<<>>) = 0 /\ <<>> \in Seq(Nat)
  BY EmptySeq
<1>2. Closed \in Connections /\ Closed.pending = <<>> /\ Closed.at = "off"
  BY EmptySeq DEF Closed, Connections
<1>3. Nothing \in Frames /\ Nothing.seq = 0
  BY DEF Nothing, Frames
<1>4. /\ \A r \in Readers : conn[r] = Closed /\ seen[r] = 0 /\ got[r] = <<>>
      /\ \A p \in Publishers : pub[p] = [at |-> "idle", frame |-> Nothing]
  BY DEF BusInit
<1>5. BusTypeOK
  <2>1. pub \in [Publishers -> [at: {"idle", "conclude", "xadd"}, frame: Frames]]
    BY <1>3 DEF BusInit
  <2>2. conn \in [Readers -> Connections] /\ got \in [Readers -> Seq(Nat)]
    BY <1>1, <1>2 DEF BusInit
  <2>3. log \in Seq(Frames) /\ stream \in Seq(Frames) /\ trimmed \in 0..Len(stream)
    BY <1>1 DEF BusInit
  <2>4. seen \in [Readers -> 0..Len(log)]
    BY <1>1 DEF BusInit
  <2>5. over \in BOOLEAN
    BY DEF BusInit
  <2>6. busFaults \in 0..MaxBusFaults /\ drops \in 0..MaxDrops
    <3>1. busFaults = 0 /\ drops = 0
      BY DEF BusInit
    <3>. QED  BY <3>1, BusAssumption
  <2>. QED  BY <2>1, <2>2, <2>3, <2>4, <2>5, <2>6 DEF BusTypeOK
<1>6. FrameInv
  BY <1>1, <1>2, <1>3, <1>4 DEF BusInit, FrameInv
<1>7. CursorInv
  BY <1>1, <1>2, <1>4 DEF CursorInv, NothingTwice
<1>. QED  BY <1>5, <1>6, <1>7 DEF BusInv

(* BusInv is inductive: every publisher's and every reader's step keeps it. *)
THEOREM BusInvariant == BusSpec => []BusInv
<1>1. BusInit => BusInv
  BY BusStart
<1>2. BusInv /\ [BusNext]_busVars => BusInv'
  <2>1. ASSUME BusInv, BusNext PROVE BusInv'
    BY <2>1, PublisherStep, ReaderStep DEF BusNext
  <2>2. ASSUME BusInv, UNCHANGED busVars PROVE BusInv'
    BY <2>2 DEF busVars, BusInv, BusTypeOK, FrameInv, CursorInv, NothingTwice
  <2>. QED  BY <2>1, <2>2
<1>. QED  BY <1>1, <1>2, PTL DEF BusSpec

(* The bus keeps its types, whatever crashes, fails or is trimmed: a frame's *)
(* seq is 0 or a row's, and a cursor (queue/src/bus.ts seen) is a row's too. *)
THEOREM BusTyping == BusSpec => []BusTypeOK
<1>1. BusInv => BusTypeOK
  BY DEF BusInv
<1>. QED  BY <1>1, BusInvariant, PTL

(* queue/src/bus.ts:37, the half that always holds: a reader gets no event   *)
(* twice and none after a later one, for any publishers, faults and trims.   *)
THEOREM NeverTwice == BusSpec => []NothingTwice
<1>1. BusInv => NothingTwice
  BY DEF BusInv, CursorInv
<1>. QED  BY <1>1, BusInvariant, PTL


-----------------------------------------------------------------------------
(* The refinement. With one publisher and no faults the stream is the log,   *)
(* or the log but for the event being published.                             *)
StreamIsLog ==
  /\ trimmed = 0 /\ Len(stream) <= Len(log) /\ Len(log) <= MaxEvents
  /\ \A i \in 1..Len(stream) : stream[i] = log[i]
  /\ \A p \in Publishers :
       /\ pub[p].at = "xadd" => Len(log) = Len(stream) + 1 /\ pub[p].frame = log[Len(log)]
       /\ pub[p].at # "xadd" => Len(log) = Len(stream)
       /\ pub[p].at = "conclude" => over /\ Len(log) < MaxEvents

(* A stream is closed, or about to be, only when the run is over.            *)
EndsWhenOver ==
  /\ \A i \in 1..Len(log) : log[i].terminal => over
  /\ \A r \in Readers : conn[r].at \in {"latest", "done"} => over

(* Where a reader stands: a backfill holds the rows after the cursor, and    *)
(* reaches the id it will follow from before it ends; a follower holds the   *)
(* entries up to the last id it read, and has all those before them.         *)
InPlace(r) ==
  /\ conn[r].last <= Len(stream)
  /\ conn[r].at \notin {"backfill", "follow"} => ~conn[r].short
  /\ conn[r].at = "backfill" =>
       /\ seen[r] + Len(conn[r].pending) <= Len(log)
       /\ \A i \in 1..Len(conn[r].pending) : conn[r].pending[i] = log[seen[r] + i]
       /\ conn[r].short => conn[r].last <= seen[r] + Len(conn[r].pending)
  /\ conn[r].at = "follow" =>
       /\ Len(conn[r].pending) <= conn[r].last
       /\ conn[r].last <= seen[r] + Len(conn[r].pending)
       /\ \A i \in 1..Len(conn[r].pending) :
            conn[r].pending[i] = log[(conn[r].last - Len(conn[r].pending)) + i]

(* What a reader got is the log's prefix up to its cursor.                   *)
GotPrefix(r) == Len(got[r]) = seen[r] /\ \A i \in 1..seen[r] : got[r][i] = i

FeedInv ==
  StreamIsLog /\ EndsWhenOver /\ \A r \in Readers : InPlace(r) /\ GotPrefix(r)

(* What the bus must be configured as to keep the promise of the feed.       *)
Alone == MaxBusFaults = 0 /\ MaxEvents <= StreamMaxLen /\ \A p, q \in Publishers : p = q

(* Alone, a publisher extends the log of the feed or, with the stream,     *)
(* nothing of it.                                                          *)
LEMMA FeedPublisher ==
  ASSUME Alone, BusInv, FeedInv, NEW p \in Publishers,
         Publish(p) \/ AppendFails(p) \/ PublishFails(p)
  PROVE  FeedInv' /\ [Feed!FeedNext]_(Feed!feedVars)
<1>1. /\ log \in Seq(Frames) /\ stream \in Seq(Frames)
      /\ Len(log) \in Nat /\ Len(stream) \in Nat /\ over \in BOOLEAN
      /\ MaxEvents \in Nat /\ StreamMaxLen \in Nat
  BY BusAssumption, LenProperties DEF BusInv, BusTypeOK
<1>2. /\ conn \in [Readers -> Connections] /\ seen \in [Readers -> 0..Len(log)]
      /\ pub \in [Publishers -> [at: {"idle", "conclude", "xadd"}, frame: Frames]]
  BY DEF BusInv, BusTypeOK
<1>3. UNCHANGED <<conn, seen, got>>
  BY DEF Publish, Conclude, AppendEvent, Xadd, AppendFails, PublishFails, readerVars
<1>4. Conclude(p) \/ AppendEvent(p) \/ Xadd(p)
  <2>1. busFaults \in Nat /\ busFaults <= 0
    BY BusAssumption DEF Alone, BusInv, BusTypeOK
  <2>. QED  BY <2>1 DEF Alone, Publish, AppendFails, PublishFails
<1>5. \A q \in Publishers : q = p
  BY DEF Alone
<1>6. /\ trimmed = 0 /\ Len(stream) <= Len(log) /\ Len(log) <= MaxEvents
      /\ \A i \in 1..Len(stream) : stream[i] = log[i]
      /\ pub[p].at = "xadd" => Len(log) = Len(stream) + 1 /\ pub[p].frame = log[Len(log)]
      /\ pub[p].at # "xadd" => Len(log) = Len(stream)
      /\ pub[p].at = "conclude" => over /\ Len(log) < MaxEvents
  BY DEF FeedInv, StreamIsLog
<1>7. /\ \A i \in 1..Len(log) : log[i].terminal => over
      /\ \A r \in Readers : conn[r].at \in {"latest", "done"} => over
      /\ \A r \in Readers : InPlace(r) /\ GotPrefix(r)
  BY DEF FeedInv, EndsWhenOver
<1>8. \A r \in Readers : GotPrefix(r)'
  BY <1>3, <1>7 DEF GotPrefix
<1>9. CASE Conclude(p)
  <2>1. /\ over' = TRUE /\ UNCHANGED <<log, stream, trimmed>> /\ Len(log) < MaxEvents
        /\ pub[p].at = "idle" /\ pub' = [pub EXCEPT ![p].at = "conclude"]
    BY <1>9 DEF Conclude
  <2>2. pub'[p].at = "conclude"
    BY <1>2, <2>1
  <2>3. StreamIsLog'
    BY <1>5, <1>6, <2>1, <2>2 DEF StreamIsLog
  <2>4. EndsWhenOver'
    BY <2>1 DEF EndsWhenOver
  <2>5. \A r \in Readers : InPlace(r)'
    BY <1>3, <1>7, <2>1 DEF InPlace
  <2>6. Feed!RunConcludes
    BY <1>3, <2>1 DEF Feed!RunConcludes
  <2>. QED  BY <1>8, <2>3, <2>4, <2>5, <2>6 DEF FeedInv, Feed!FeedNext
<1>10. CASE AppendEvent(p)
  <2>. DEFINE frame == [seq |-> Len(log) + 1, terminal |-> pub[p].at = "conclude"]
  <2>1. frame \in Frames /\ (frame.terminal => over)
    BY <1>1, <1>6 DEF Frames
  <2>2. /\ log' = Append(log, frame) /\ pub' = [pub EXCEPT ![p] = [at |-> "xadd", frame |-> frame]]
        /\ UNCHANGED <<over, stream, trimmed>>
        /\ pub[p].at = "conclude" \/ (pub[p].at = "idle" /\ Len(log) < MaxEvents)
    BY <1>10 DEF AppendEvent
  <2>. HIDE DEF frame
  <2>3. /\ Len(log') = Len(log) + 1 /\ log'[Len(log) + 1] = frame
        /\ \A i \in 1..Len(log) : log'[i] = log[i]
    BY <1>1, <2>1, <2>2
  <2>4. pub'[p].at = "xadd" /\ pub'[p].frame = frame
    BY <1>2, <2>2
  <2>5. Len(log') = Len(stream) + 1 /\ Len(log) < MaxEvents
    BY <1>6, <2>2, <2>3
  <2>6. StreamIsLog'
    BY <1>1, <1>5, <1>6, <2>2, <2>3, <2>4, <2>5 DEF StreamIsLog
  <2>7. EndsWhenOver'
    <3>1. ASSUME NEW i \in 1..Len(log'), log'[i].terminal PROVE over'
      <4>1. i \in 1..Len(log) \/ i = Len(log) + 1
        BY <1>1, <2>3
      <4>. QED  BY <1>7, <2>1, <2>2, <2>3, <3>1, <4>1
    <3>. QED  BY <1>3, <1>7, <2>2, <3>1 DEF EndsWhenOver
  <2>8. ASSUME NEW r \in Readers PROVE InPlace(r)'
    <3>. DEFINE c == conn[r]
                s == seen[r]
                n == Len(conn[r].pending)
    <3>1. /\ c.last \in Nat /\ s \in Nat /\ n \in Nat
      BY <1>2, LenProperties DEF Connections
    <3>2. InPlace(r)
      BY <1>7
    <3>3. c.last <= Len(stream) /\ UNCHANGED <<conn, seen, stream>>
      BY <1>3, <2>2, <3>2 DEF InPlace
    <3>4. ASSUME c.at = "backfill"
          PROVE  /\ s + n <= Len(log')
                 /\ \A i \in 1..n : c.pending[i] = log'[s + i]
                 /\ c.short => c.last <= s + n
      <4>1. /\ s + n <= Len(log) /\ \A i \in 1..n : c.pending[i] = log[s + i]
            /\ c.short => c.last <= s + n
        BY <3>2, <3>4 DEF InPlace
      <4>. HIDE DEF c, s, n
      <4>2. \A i \in 1..n : s + i \in 1..Len(log)
        BY <1>1, <3>1, <4>1
      <4>3. \A i \in 1..n : c.pending[i] = log'[s + i]
        BY <2>3, <4>1, <4>2
      <4>4. s + n <= Len(log')
        BY <1>1, <2>3, <3>1, <4>1
      <4>. QED  BY <4>1, <4>3, <4>4
    <3>5. ASSUME c.at = "follow"
          PROVE  /\ n <= c.last /\ c.last <= s + n
                 /\ \A i \in 1..n : c.pending[i] = log'[(c.last - n) + i]
      <4>1. /\ n <= c.last /\ c.last <= s + n
            /\ \A i \in 1..n : c.pending[i] = log[(c.last - n) + i]
        BY <3>2, <3>5 DEF InPlace
      <4>2. c.last <= Len(log)
        BY <1>1, <1>6, <3>1, <3>3
      <4>. HIDE DEF c, s, n
      <4>3. \A i \in 1..n : (c.last - n) + i \in 1..Len(log)
        BY <1>1, <3>1, <4>1, <4>2
      <4>. QED  BY <2>3, <4>1, <4>3
    <3>. QED  BY <3>2, <3>3, <3>4, <3>5 DEF InPlace
  <2>9. Feed!PublishEvent
    BY <1>3, <2>2, <2>3 DEF Feed!PublishEvent
  <2>. QED  BY <1>8, <2>6, <2>7, <2>8, <2>9 DEF FeedInv, Feed!FeedNext
<1>11. CASE Xadd(p)
  <2>1. /\ pub[p].at = "xadd" /\ stream' = Append(stream, pub[p].frame)
        /\ pub' = [pub EXCEPT ![p] = [at |-> "idle", frame |-> Nothing]]
        /\ UNCHANGED <<over, log>>
        /\ trimmed' = trimmed \/ Len(stream) + 1 > StreamMaxLen
    BY <1>11 DEF Xadd
  <2>2. trimmed' = 0
    BY <1>1, <1>6, <2>1 DEF Alone
  <2>3. pub[p].frame \in Frames /\ pub[p].frame = log[Len(log)] /\ Len(log) = Len(stream) + 1
    BY <1>2, <1>6, <2>1
  <2>4. /\ Len(stream') = Len(stream) + 1 /\ stream'[Len(stream) + 1] = pub[p].frame
        /\ \A i \in 1..Len(stream) : stream'[i] = stream[i]
    BY <1>1, <2>1, <2>3
  <2>5. pub'[p].at = "idle"
    BY <1>2, <2>1
  <2>6. \A i \in 1..Len(stream') : stream'[i] = log'[i]
    <3>1. ASSUME NEW i \in 1..Len(stream') PROVE stream'[i] = log[i]
      <4>1. i \in 1..Len(stream) \/ i = Len(stream) + 1
        BY <1>1, <2>4
      <4>. QED  BY <1>6, <2>3, <2>4, <4>1
    <3>. QED  BY <2>1, <3>1
  <2>7. StreamIsLog'
    <3>1. Len(log') = Len(stream') /\ Len(log') <= MaxEvents
      BY <1>6, <2>1, <2>3, <2>4
    <3>2. Len(stream') <= Len(log')
      BY <1>1, <2>1, <3>1
    <3>3. \A q \in Publishers : pub'[q].at = "idle"
      BY <1>5, <2>5
    <3>. QED  BY <2>2, <2>6, <3>1, <3>2, <3>3 DEF StreamIsLog
  <2>8. EndsWhenOver'
    BY <1>3, <1>7, <2>1 DEF EndsWhenOver
  <2>9. ASSUME NEW r \in Readers PROVE InPlace(r)'
    <3>1. conn[r].last \in Nat /\ conn[r].last <= Len(stream)
      BY <1>2, <1>7 DEF Connections, InPlace
    <3>2. conn'[r].last <= Len(stream')
      BY <1>1, <1>3, <2>4, <3>1
    <3>. QED  BY <1>3, <1>7, <2>1, <3>2 DEF InPlace
  <2>10. UNCHANGED Feed!feedVars
    BY <1>3, <2>1 DEF Feed!feedVars
  <2>. QED  BY <1>8, <2>7, <2>8, <2>9, <2>10 DEF FeedInv
<1>. QED  BY <1>4, <1>9, <1>10, <1>11

(* A reader's step that leaves its cursor alone maps to a stutter or closes *)
(* its feed, and keeps FeedInv when the reader is still in its place.       *)
LEMMA FeedStays ==
  ASSUME BusInv, FeedInv, NEW r \in Readers, UNCHANGED publisherVars, UNCHANGED <<seen, got>>,
         conn' = [conn EXCEPT ![r] = conn'[r]], InPlace(r)',
         conn'[r].at \in {"latest", "done"} => over,
         conn[r].at = "done" => conn'[r].at = "done"
  PROVE  FeedInv' /\ [Feed!FeedNext]_(Feed!feedVars)
<1>1. UNCHANGED <<over, log, stream, trimmed, pub>>
  BY DEF publisherVars
<1>2. conn \in [Readers -> Connections]
  BY DEF BusInv, BusTypeOK
<1>3. \A q \in Readers : q # r => conn'[q] = conn[q]
  BY <1>2
<1>4. \A q \in Readers : InPlace(q)'
  BY <1>1, <1>3 DEF FeedInv, InPlace
<1>5. \A q \in Readers : GotPrefix(q)'
  BY DEF FeedInv, GotPrefix
<1>6. StreamIsLog' /\ EndsWhenOver'
  BY <1>1, <1>3 DEF FeedInv, StreamIsLog, EndsWhenOver
<1>7. CASE conn'[r].at = "done"
  <2>1. {q \in Readers : conn'[q].at = "done"} = {q \in Readers : conn[q].at = "done"} \cup {r}
    BY <1>3, <1>7
  <2>2. Feed!CloseFeed(r)
    BY <1>1, <1>7, <2>1 DEF Feed!CloseFeed
  <2>. QED  BY <1>4, <1>5, <1>6, <2>2 DEF FeedInv, Feed!FeedNext
<1>8. CASE conn'[r].at # "done"
  <2>1. {q \in Readers : conn'[q].at = "done"} = {q \in Readers : conn[q].at = "done"}
    BY <1>3, <1>8
  <2>2. UNCHANGED Feed!feedVars
    BY <1>1, <2>1 DEF Feed!feedVars
  <2>. QED  BY <1>4, <1>5, <1>6, <2>2 DEF FeedInv
<1>. QED  BY <1>7, <1>8

(* What is sent is the event after the cursor, whether it was read from the *)
(* log or from the stream.                                                  *)
LEMMA FeedSends ==
  ASSUME BusInv, FeedInv, NEW r \in Readers, SendFrame(r)
  PROVE  FeedInv' /\ [Feed!FeedNext]_(Feed!feedVars)
<1>. DEFINE T == Tail(conn[r].pending)
            n == Len(conn[r].pending)
            frame == conn[r].pending[1]
            s == seen[r]
            last == conn[r].last
<1>1. /\ log \in Seq(Frames) /\ Len(log) \in Nat /\ Len(stream) \in Nat
      /\ \A i \in 1..Len(log) : log[i].seq = i
      /\ conn \in [Readers -> Connections] /\ seen \in [Readers -> 0..Len(log)]
      /\ got \in [Readers -> Seq(Nat)]
  BY LenProperties DEF BusInv, BusTypeOK, FrameInv
<1>2. /\ conn[r].pending \in Seq(Frames) /\ conn[r].pending # <<>> /\ ~stale(r)
      /\ conn[r].at \in {"backfill", "follow"} /\ last \in Nat
  BY <1>1 DEF SendFrame, BusInv, CursorInv, Connections
<1>3. /\ T \in Seq(Frames) /\ Len(T) = n - 1 /\ n \in Nat \ {0}
      /\ \A i \in 1..Len(T) : T[i] = conn[r].pending[i + 1]
      /\ Head(conn[r].pending) = frame /\ frame \in Frames
  BY <1>2, HeadTailProperties, EmptySeq
<1>4. InPlace(r) /\ GotPrefix(r) /\ last <= Len(stream) /\ Len(stream) <= Len(log)
  BY DEF FeedInv, InPlace, StreamIsLog
<1>5. s \in Nat /\ s <= Len(log)
  BY <1>1
<1>6. s + 1 <= Len(log) /\ frame = log[s + 1]
  <2>1. CASE conn[r].at = "backfill"
    <3>1. s + n <= Len(log) /\ \A i \in 1..n : conn[r].pending[i] = log[s + i]
      BY <1>4, <2>1 DEF InPlace
    <3>. HIDE DEF n
    <3>. QED  BY <1>1, <1>3, <1>5, <3>1
  <2>2. CASE conn[r].at = "follow"
    <3>. DEFINE k == (last - n) + 1
    <3>1. n <= last /\ last <= s + n /\ \A i \in 1..n : conn[r].pending[i] = log[(last - n) + i]
      BY <1>4, <2>2 DEF InPlace
    <3>2. k \in 1..Len(log) /\ k <= s + 1
      <4>. HIDE DEF n, last, s
      <4>. QED  BY <1>1, <1>2, <1>3, <1>4, <1>5, <3>1
    <3>3. frame = log[k] /\ frame.seq = k
      <4>. HIDE DEF n, last, s
      <4>. QED  BY <1>1, <1>3, <3>1, <3>2
    <3>4. ~(frame.seq # 0 /\ frame.seq <= s)
      BY <1>2, <1>3, <2>2 DEF stale
    <3>5. k = s + 1
      <4>. HIDE DEF k, s, frame
      <4>. QED  BY <1>1, <1>5, <3>2, <3>3, <3>4
    <3>. QED  BY <3>2, <3>3, <3>5
  <2>. QED  BY <1>2, <2>1, <2>2
<1>7. frame.seq = s + 1
  BY <1>1, <1>5, <1>6
<1>8. seen' = [seen EXCEPT ![r] = s + 1] /\ got' = [got EXCEPT ![r] = Append(got[r], s + 1)]
  <2>1. IF frame.seq = 0 THEN UNCHANGED <<seen, got>>
        ELSE /\ seen' = [seen EXCEPT ![r] = frame.seq]
             /\ got' = [got EXCEPT ![r] = Append(got[r], frame.seq)]
    BY <1>3 DEF SendFrame
  <2>. HIDE DEF frame, s
  <2>. QED  BY <1>5, <1>7, <2>1
<1>9. conn' = [conn EXCEPT ![r] = IF frame.terminal THEN [Closed EXCEPT !.at = "done"]
                                  ELSE [conn[r] EXCEPT !.pending = T]]
  BY <1>3 DEF SendFrame
<1>10. UNCHANGED <<over, log, stream, trimmed, pub>>
  BY DEF SendFrame, publisherVars
<1>11. frame.terminal => over
  BY <1>5, <1>6 DEF FeedInv, EndsWhenOver
<1>12. /\ seen'[r] = s + 1 /\ got'[r] = Append(got[r], s + 1)
       /\ \A q \in Readers : q # r => seen'[q] = seen[q] /\ got'[q] = got[q] /\ conn'[q] = conn[q]
  BY <1>1, <1>8, <1>9
<1>13. GotPrefix(r)'
  <2>1. got[r] \in Seq(Nat) /\ Len(got[r]) = s /\ \A i \in 1..s : got[r][i] = i
    BY <1>1, <1>4 DEF GotPrefix
  <2>2. Len(got'[r]) = s + 1 /\ got'[r][s + 1] = s + 1 /\ \A i \in 1..s : got'[r][i] = i
    <3>. HIDE DEF s
    <3>. QED  BY <1>5, <1>12, <2>1
  <2>. QED  BY <1>5, <1>12, <2>2 DEF GotPrefix
<1>14. ASSUME NEW q \in Readers, q # r PROVE InPlace(q)' /\ GotPrefix(q)'
  <2>1. /\ seen'[q] = seen[q] /\ got'[q] = got[q] /\ conn'[q] = conn[q]
        /\ log' = log /\ stream' = stream
    BY <1>10, <1>12, <1>14
  <2>2. InPlace(q) /\ GotPrefix(q)
    BY <1>14 DEF FeedInv
  <2>3. InPlace(q)'
    BY ONLY <2>1, <2>2 DEF InPlace
  <2>4. GotPrefix(q)'
    BY ONLY <2>1, <2>2 DEF GotPrefix
  <2>. QED  BY <2>3, <2>4
<1>15. StreamIsLog'
  BY <1>10 DEF FeedInv, StreamIsLog
<1>16. \A q \in Readers : q # r => (conn'[q].at \in {"latest", "done"} => over')
  BY <1>10, <1>12 DEF FeedInv, EndsWhenOver
<1>17. Len(got[r]) = s /\ r \notin {q \in Readers : conn[q].at = "done"}
  BY <1>2, <1>4 DEF GotPrefix
<1>. HIDE DEF T, n, frame, s, last
<1>18. CASE frame.terminal
  <2>1. conn'[r] = [Closed EXCEPT !.at = "done"]
    BY <1>1, <1>9, <1>18
  <2>2. conn'[r].at = "done" /\ conn'[r].last = 0 /\ ~conn'[r].short
    BY <2>1 DEF Closed
  <2>3. InPlace(r)'
    BY <1>1, <1>10, <2>2 DEF InPlace
  <2>4. EndsWhenOver'
    BY <1>10, <1>11, <1>16, <1>18 DEF FeedInv, EndsWhenOver
  <2>5. {q \in Readers : conn'[q].at = "done"} = {q \in Readers : conn[q].at = "done"} \cup {r}
    BY <1>12, <2>2
  <2>6. Feed!Receive(r)
    BY <1>1, <1>5, <1>6, <1>8, <1>10, <1>11, <1>17, <1>18, <2>5 DEF Feed!Receive
  <2>. QED  BY <1>13, <1>14, <1>15, <2>3, <2>4, <2>6 DEF FeedInv, Feed!FeedNext
<1>19. CASE ~frame.terminal
  <2>1. conn'[r] = [conn[r] EXCEPT !.pending = T]
    BY <1>1, <1>9, <1>19
  <2>2. /\ conn'[r].pending = T /\ conn'[r].at = conn[r].at
        /\ conn'[r].last = last /\ conn'[r].short = conn[r].short
    BY <1>1, <2>1 DEF Connections, last
  <2>3. \A i \in 1..Len(T) : i + 1 \in 1..n
    BY <1>3
  <2>4. ASSUME conn[r].at = "backfill"
        PROVE  /\ (s + 1) + Len(T) <= Len(log)
               /\ \A i \in 1..Len(T) : T[i] = log[(s + 1) + i]
               /\ conn[r].short => last <= (s + 1) + Len(T)
    <3>1. /\ s + n <= Len(log) /\ \A i \in 1..n : conn[r].pending[i] = log[s + i]
          /\ conn[r].short => last <= s + n
      BY <1>4, <2>4 DEF InPlace, s, n, last
    <3>2. (s + 1) + Len(T) = s + n
      BY <1>3, <1>5
    <3>3. \A i \in 1..Len(T) : T[i] = log[s + (i + 1)] /\ s + (i + 1) = (s + 1) + i
      BY <1>3, <1>5, <2>3, <3>1
    <3>. QED  BY <3>1, <3>2, <3>3
  <2>5. ASSUME conn[r].at = "follow"
        PROVE  /\ Len(T) <= last /\ last <= (s + 1) + Len(T)
               /\ \A i \in 1..Len(T) : T[i] = log[(last - Len(T)) + i]
    <3>1. n <= last /\ last <= s + n /\ \A i \in 1..n : conn[r].pending[i] = log[(last - n) + i]
      BY <1>4, <2>5 DEF InPlace, s, n, last
    <3>2. (s + 1) + Len(T) = s + n /\ Len(T) <= last
      BY <1>2, <1>3, <1>5, <3>1
    <3>3. \A i \in 1..Len(T) : /\ T[i] = log[(last - n) + (i + 1)]
                               /\ (last - n) + (i + 1) = (last - Len(T)) + i
      BY <1>2, <1>3, <2>3, <3>1
    <3>. QED  BY <3>1, <3>2, <3>3
  <2>6. InPlace(r)'
    BY <1>4, <1>10, <1>12, <2>2, <2>4, <2>5 DEF InPlace
  <2>7. EndsWhenOver'
    <3>1. conn'[r].at \notin {"latest", "done"}
      BY <1>2, <2>2
    <3>. QED  BY <1>10, <1>16, <3>1 DEF FeedInv, EndsWhenOver
  <2>8. {q \in Readers : conn'[q].at = "done"} = {q \in Readers : conn[q].at = "done"}
    BY <1>2, <1>12, <2>2
  <2>9. Feed!Receive(r)
    BY <1>1, <1>5, <1>6, <1>8, <1>10, <1>17, <2>8 DEF Feed!Receive
  <2>. QED  BY <1>13, <1>14, <1>15, <2>6, <2>7, <2>9 DEF FeedInv, Feed!FeedNext
<1>. QED  BY <1>18, <1>19

(* A reader takes the next events of the log, or nothing of it.            *)
LEMMA FeedReader ==
  ASSUME BusInv, FeedInv, NEW r \in Readers, Subscribe(r) \/ Drop(r)
  PROVE  FeedInv' /\ [Feed!FeedNext]_(Feed!feedVars)
<1>1. /\ log \in Seq(Frames) /\ stream \in Seq(Frames)
      /\ Len(log) \in Nat /\ Len(stream) \in Nat
      /\ \A i \in 1..Len(log) : log[i].seq = i
      /\ conn \in [Readers -> Connections] /\ seen \in [Readers -> 0..Len(log)]
  BY LenProperties DEF BusInv, BusTypeOK, FrameInv
<1>2. /\ conn[r].at \notin {"backfill", "follow"} => conn[r].pending = <<>>
      /\ conn[r] \in Connections /\ conn[r].pending \in Seq(Frames)
      /\ conn[r].last \in Nat /\ seen[r] \in Nat /\ seen[r] <= Len(log)
  BY <1>1 DEF BusInv, CursorInv, Connections
<1>3. /\ trimmed = 0 /\ Len(stream) <= Len(log) /\ \A i \in 1..Len(stream) : stream[i] = log[i]
      /\ InPlace(r) /\ conn[r].last <= Len(stream)
      /\ conn[r].at \in {"latest", "done"} => over
  BY DEF FeedInv, StreamIsLog, EndsWhenOver, InPlace
<1>4. Len(<<>>) = 0
  OBVIOUS
<1>5. CASE Connect(r)
  <2>1. UNCHANGED <<seen, got>> /\ UNCHANGED publisherVars /\ conn[r].at = "off"
    BY <1>5 DEF Connect
  <2>2. PICK at \in {"latest", "join"} : /\ at = "latest" => over
                                         /\ conn' = [conn EXCEPT ![r] = [Closed EXCEPT !.at = at]]
    BY <1>5 DEF Connect
  <2>3. conn'[r] = [Closed EXCEPT !.at = at] /\ conn' = [conn EXCEPT ![r] = conn'[r]]
    BY <1>1, <2>2
  <2>4. conn'[r].at = at /\ conn'[r].last = 0 /\ ~conn'[r].short
    BY <2>3 DEF Closed
  <2>5. InPlace(r)'
    BY <1>1, <2>1, <2>4 DEF InPlace, publisherVars
  <2>. QED  BY <2>1, <2>2, <2>3, <2>4, <2>5, FeedStays
<1>6. CASE CompareLatest(r)
  <2>1. UNCHANGED <<seen, got>> /\ UNCHANGED publisherVars /\ conn[r].at = "latest"
    BY <1>6 DEF CompareLatest
  <2>2. PICK at \in {"done", "join"} : conn' = [conn EXCEPT ![r].at = at]
    BY <1>6 DEF CompareLatest
  <2>3. conn'[r] = [conn[r] EXCEPT !.at = at] /\ conn' = [conn EXCEPT ![r] = conn'[r]]
    BY <1>1, <2>2
  <2>4. conn'[r].at = at /\ conn'[r].last = conn[r].last /\ conn'[r].short = conn[r].short
    BY <1>2, <2>3 DEF Connections
  <2>5. InPlace(r)'
    BY <1>2, <1>3, <2>1, <2>4 DEF InPlace, publisherVars
  <2>. QED  BY <1>3, <2>1, <2>3, <2>4, <2>5, FeedStays
<1>7. CASE RecordTail(r)
  <2>1. /\ UNCHANGED <<seen, got>> /\ UNCHANGED publisherVars /\ conn[r].at = "join"
        /\ conn' = [conn EXCEPT ![r].at = "backfill", ![r].last = tailId]
    BY <1>7 DEF RecordTail
  <2>2. tailId \in Nat /\ tailId <= Len(stream)
    BY <1>1, <1>3 DEF tailId
  <2>3. conn'[r] = [conn[r] EXCEPT !.at = "backfill", !.last = tailId]
    BY <1>1, <2>1
  <2>4. conn' = [conn EXCEPT ![r] = conn'[r]]
    BY <2>1, <2>3
  <2>5. /\ conn'[r].at = "backfill" /\ conn'[r].last = tailId /\ conn'[r].pending = <<>>
        /\ conn'[r].short = conn[r].short
    <3>1. /\ conn[r] \in [at: {"off", "latest", "join", "backfill", "follow", "done"},
                          last: Nat, pending: Seq(Frames), short: BOOLEAN]
          /\ conn[r].pending = <<>>
      BY <1>2, <2>1 DEF Connections
    <3>. QED  BY ONLY <2>3, <3>1
  <2>6. ~conn[r].short
    BY <1>3, <2>1 DEF InPlace
  <2>7. InPlace(r)'
    BY <1>1, <1>2, <1>4, <2>1, <2>2, <2>5, <2>6 DEF InPlace, publisherVars
  <2>. QED  BY <2>1, <2>4, <2>5, <2>7, FeedStays
<1>8. CASE ReadPage(r)
  <2>. DEFINE P == page(seen[r])
              short == Len(P) < PageSize
  <2>1. /\ UNCHANGED <<seen, got>> /\ UNCHANGED publisherVars /\ conn[r].at = "backfill"
        /\ conn' = [conn EXCEPT ![r].pending = P, ![r].short = short]
    BY <1>8 DEF ReadPage
  <2>2. /\ P \in Seq(Frames) /\ Len(P) \in Nat /\ seen[r] + Len(P) <= Len(log)
        /\ \A i \in 1..Len(P) : P[i] = log[seen[r] + i]
        /\ short => seen[r] + Len(P) = Len(log)
    BY <1>1, PageRows, LenProperties
  <2>. short \in BOOLEAN
    OBVIOUS
  <2>. HIDE DEF P, short
  <2>3. conn'[r] = [conn[r] EXCEPT !.pending = P, !.short = short]
    BY <1>1, <2>1
  <2>4. conn' = [conn EXCEPT ![r] = conn'[r]]
    BY <2>1, <2>3
  <2>5. /\ conn'[r].at = "backfill" /\ conn'[r].pending = P /\ conn'[r].short = short
        /\ conn'[r].last = conn[r].last
    <3>1. /\ conn[r] \in [at: {"off", "latest", "join", "backfill", "follow", "done"},
                          last: Nat, pending: Seq(Frames), short: BOOLEAN]
          /\ conn[r].at = "backfill"
      BY <1>2, <2>1 DEF Connections
    <3>. QED  BY ONLY <2>3, <3>1
  <2>6. short => conn[r].last <= seen[r] + Len(P)
    BY <1>1, <1>2, <1>3, <2>2
  <2>7. InPlace(r)'
    BY <1>3, <2>1, <2>2, <2>5, <2>6 DEF InPlace, publisherVars
  <2>. QED  BY <2>1, <2>4, <2>5, <2>7, FeedStays
<1>9. CASE EndBackfill(r)
  <2>1. /\ UNCHANGED <<seen, got>> /\ UNCHANGED publisherVars
        /\ conn[r].at = "backfill" /\ conn[r].pending = <<>> /\ conn[r].short
        /\ conn' = [conn EXCEPT ![r].at = "follow"]
    BY <1>9 DEF EndBackfill
  <2>2. conn'[r] = [conn[r] EXCEPT !.at = "follow"] /\ conn' = [conn EXCEPT ![r] = conn'[r]]
    BY <1>1, <2>1
  <2>3. conn'[r].at = "follow" /\ conn'[r].last = conn[r].last /\ conn'[r].pending = <<>>
    BY <1>2, <2>1, <2>2 DEF Connections
  <2>4. conn[r].last <= seen[r] + 0
    BY <1>3, <1>4, <2>1 DEF InPlace
  <2>5. InPlace(r)'
    BY <1>2, <1>3, <1>4, <2>1, <2>3, <2>4 DEF InPlace, publisherVars
  <2>. QED  BY <2>1, <2>2, <2>3, <2>5, FeedStays
<1>10. CASE ReadStream(r)
  <2>. DEFINE last == conn[r].last
              P == SubSeq(stream, last + 1, Len(stream))
  <2>1. ~(last < trimmed)
    BY <1>2, <1>3
  <2>2. /\ UNCHANGED <<seen, got>> /\ UNCHANGED publisherVars
        /\ conn[r].at = "follow" /\ conn[r].pending = <<>>
        /\ conn' = [conn EXCEPT ![r].pending = P, ![r].last = Len(stream)]
    BY <1>10, <2>1 DEF ReadStream
  <2>3. /\ P \in Seq(Frames) /\ Len(P) = Len(stream) - last
        /\ \A i \in 1..Len(P) : P[i] = stream[last + i]
    <3>1. last \in 0..Len(stream)
      BY <1>1, <1>2, <1>3
    <3>. HIDE DEF last
    <3>. QED  BY <1>1, <3>1, StreamRows
  <2>4. last <= seen[r]
    BY <1>2, <1>3, <1>4, <2>2 DEF InPlace
  <2>. HIDE DEF P
  <2>5. conn'[r] = [conn[r] EXCEPT !.pending = P, !.last = Len(stream)]
    BY <1>1, <2>2
  <2>6. conn' = [conn EXCEPT ![r] = conn'[r]]
    BY <2>2, <2>5
  <2>7. conn'[r].at = "follow" /\ conn'[r].pending = P /\ conn'[r].last = Len(stream)
    <3>1. /\ conn[r] \in [at: {"off", "latest", "join", "backfill", "follow", "done"},
                          last: Nat, pending: Seq(Frames), short: BOOLEAN]
          /\ conn[r].at = "follow"
      BY <1>2, <2>2 DEF Connections
    <3>. QED  BY ONLY <2>5, <3>1
  <2>8. /\ Len(P) <= Len(stream) /\ Len(stream) <= seen[r] + Len(P)
        /\ Len(stream) - Len(P) = last
    BY <1>1, <1>2, <1>3, <2>3, <2>4
  <2>9. \A i \in 1..Len(P) : P[i] = log[(Len(stream) - Len(P)) + i]
    <3>1. ASSUME NEW i \in 1..Len(P) PROVE P[i] = log[last + i]
      <4>. HIDE DEF last
      <4>1. last + i \in 1..Len(stream)
        BY <1>1, <1>2, <1>3, <2>3 DEF last
      <4>. QED  BY <1>3, <2>3, <4>1
    <3>. QED  BY <2>8, <3>1
  <2>10. InPlace(r)'
    BY <1>1, <2>2, <2>7, <2>8, <2>9 DEF InPlace, publisherVars
  <2>. QED  BY <2>2, <2>6, <2>7, <2>10, FeedStays
<1>11. CASE Skip(r)
  <2>. DEFINE T == Tail(conn[r].pending)
              n == Len(conn[r].pending)
              s == seen[r]
              last == conn[r].last
  <2>1. /\ UNCHANGED <<seen, got>> /\ UNCHANGED publisherVars
        /\ conn[r].pending # <<>> /\ conn[r].at = "follow"
        /\ Head(conn[r].pending).seq <= s
        /\ conn' = [conn EXCEPT ![r].pending = T]
    BY <1>11 DEF Skip, stale
  <2>2. /\ T \in Seq(Frames) /\ Len(T) = n - 1 /\ n \in Nat \ {0}
        /\ \A i \in 1..Len(T) : T[i] = conn[r].pending[i + 1]
        /\ Head(conn[r].pending) = conn[r].pending[1]
    BY <1>2, <2>1, HeadTailProperties, EmptySeq
  <2>3. n <= last /\ last <= s + n /\ \A i \in 1..n : conn[r].pending[i] = log[(last - n) + i]
    BY <1>3, <2>1 DEF InPlace
  <2>4. last \in Nat /\ last <= Len(log) /\ s \in Nat
    BY <1>1, <1>2, <1>3
  <2>5. conn[r].pending[1].seq <= s
    BY <2>1, <2>2
  <2>6. conn'[r] = [conn[r] EXCEPT !.pending = T] /\ conn' = [conn EXCEPT ![r] = conn'[r]]
    BY <1>1, <2>1
  <2>7. conn'[r].at = "follow" /\ conn'[r].pending = T /\ conn'[r].last = last
    BY <1>2, <2>1, <2>6 DEF Connections
  <2>8. /\ Len(T) <= last /\ last <= s + Len(T)
        /\ \A i \in 1..Len(T) : T[i] = log[(last - Len(T)) + i]
    <3>. HIDE DEF T, n, s, last
    <3>1. 1 \in 1..n /\ (last - n) + 1 \in 1..Len(log)
      BY <1>1, <2>2, <2>3, <2>4
    <3>2. (last - n) + 1 <= s
      BY <1>1, <2>3, <2>5, <3>1
    <3>3. \A i \in 1..Len(T) : i + 1 \in 1..n /\ (last - n) + (i + 1) = (last - Len(T)) + i
      BY <2>2, <2>3, <2>4
    <3>4. \A i \in 1..Len(T) : T[i] = log[(last - n) + (i + 1)]
      BY <2>2, <2>3, <3>3
    <3>. QED  BY <2>2, <2>3, <2>4, <3>2, <3>3, <3>4
  <2>. HIDE DEF T
  <2>9. InPlace(r)'
    BY <1>3, <2>1, <2>7, <2>8 DEF InPlace, publisherVars
  <2>. QED  BY <2>1, <2>6, <2>7, <2>9, FeedStays
<1>12. CASE Drop(r)
  <2>1. /\ UNCHANGED <<seen, got>> /\ UNCHANGED publisherVars
        /\ conn' = [conn EXCEPT ![r] = Closed] /\ conn[r].at # "done"
    BY <1>12 DEF Drop
  <2>2. conn'[r].at = "off" /\ conn'[r].last = 0 /\ ~conn'[r].short
        /\ conn' = [conn EXCEPT ![r] = conn'[r]]
    BY <1>1, <2>1 DEF Closed
  <2>3. InPlace(r)'
    BY <1>1, <2>1, <2>2 DEF InPlace, publisherVars
  <2>. QED  BY <2>1, <2>2, <2>3, FeedStays
<1>13. CASE SendFrame(r)
  BY <1>13, FeedSends
<1>. QED
  BY <1>5, <1>6, <1>7, <1>8, <1>9, <1>10, <1>11, <1>12, <1>13 DEF Subscribe

(* queue/src/bus.ts:37, the whole of it, under the conditions it needs: one  *)
(* process publishes the run's events, no publication fails, and the stream  *)
(* retains them all. Then every reader, however often its connection drops,  *)
(* gets the log's events in order, each once, with no gap.                   *)
THEOREM BusImplementsFeed ==
  ASSUME Alone
  PROVE  BusSpec => ImplementsFeed
<1>1. BusInit => FeedInv /\ Feed!FeedInit
  <2>. SUFFICES ASSUME BusInit PROVE FeedInv /\ Feed!FeedInit
    OBVIOUS
  <2>1. Len(<<>>) = 0 /\ MaxEvents \in Nat
    BY BusAssumption
  <2>2. /\ \A r \in Readers : conn[r] = Closed /\ seen[r] = 0 /\ got[r] = <<>>
        /\ \A p \in Publishers : pub[p].at = "idle"
        /\ over = FALSE /\ log = <<>> /\ stream = <<>> /\ trimmed = 0
    BY DEF BusInit
  <2>3. \A r \in Readers : conn[r].at = "off" /\ conn[r].last = 0 /\ ~conn[r].short
    BY <2>2 DEF Closed
  <2>4. StreamIsLog /\ EndsWhenOver
    BY <2>1, <2>2, <2>3 DEF StreamIsLog, EndsWhenOver
  <2>5. \A r \in Readers : InPlace(r) /\ GotPrefix(r)
    BY <2>1, <2>2, <2>3 DEF InPlace, GotPrefix
  <2>6. {r \in Readers : conn[r].at = "done"} = {}
    BY <2>3
  <2>7. Feed!FeedInit
    BY <2>1, <2>2, <2>6 DEF BusInit, Feed!FeedInit
  <2>. QED  BY <2>4, <2>5, <2>7 DEF FeedInv
<1>2. BusInv /\ FeedInv /\ [BusNext]_busVars => FeedInv' /\ [Feed!FeedNext]_(Feed!feedVars)
  <2>1. ASSUME BusInv, FeedInv, BusNext PROVE FeedInv' /\ [Feed!FeedNext]_(Feed!feedVars)
    BY <2>1, FeedPublisher, FeedReader DEF BusNext
  <2>2. ASSUME BusInv, FeedInv, UNCHANGED busVars PROVE FeedInv' /\ UNCHANGED Feed!feedVars
    BY <2>2 DEF busVars, FeedInv, StreamIsLog, EndsWhenOver, InPlace, GotPrefix, Feed!feedVars
  <2>. QED  BY <2>1, <2>2
<1>. QED  BY <1>1, <1>2, BusInvariant, PTL DEF BusSpec, ImplementsFeed, Feed!FeedSpec


-----------------------------------------------------------------------------
(* The display of the terminal, and the runs it may be shown. *)

RunEvents == {"run.snapshot", "run.status", "candidate.settled"} \cup TerminalEvents

Calling == [kind : {"ask", "open", "fallback"}, run : AskedRuns, row : Rows, read : BOOLEAN]

Displays == [run : AskedRuns \cup {NoRun}, row : Rows, error : AskedRuns \cup {NoRun},
             phase : {"idle", "starting", "running", "done", "failed"}]

Subscriptions == [run : AskedRuns \cup {NoRun}, at : {"closed", "connecting", "open"},
                  afterSeq : Nat, upTo : Nat, attempts : 0..MAX_STREAM_RETRIES]

Leftovers == [run : AskedRuns \cup {NoRun}, next : Nat \ {0}, upTo : Nat]

Happened(r, event) == event \in {eventsOf[r][i] : i \in 1..Len(eventsOf[r])}

(* What a row that was read earlier may say of the run.                     *)
Backed(r, row) ==
  /\ row.answered => rows[r].answered
  /\ row.status \in Ended => row.status = rows[r].status
  /\ row.status = "FANNING_OUT" => Happened(r, "run.status")

(* What the phase says of it, unless a failed call put it there.            *)
PhaseBacked(r, s) ==
  /\ s.phase = "done" => rows[r].status = "COMPLETE"
  /\ s.phase = "failed" /\ s.error = NoRun => rows[r].status \in {"FAILED", "CANCELED"}

(* So may an event.                                                         *)
EventBacked(r, event) ==
  /\ event = "candidate.settled" => rows[r].answered
  /\ event \in TerminalEvents => StatusOf(event) = rows[r].status

(* The events of a run say what its row does.                               *)
RunInv(r) ==
  /\ published[r] <= Len(eventsOf[r])
  /\ eventsOf[r] = <<>> => rows[r] = NoRow
  /\ rows[r].status = "FANNING_OUT" => Happened(r, "run.status")
  /\ \A i \in 1..Len(eventsOf[r]) : EventBacked(r, eventsOf[r][i])

ServerInv ==
  /\ rows \in [AskedRuns -> Rows] /\ eventsOf \in [AskedRuns -> Seq(RunEvents)]
  /\ published \in [AskedRuns -> Nat] /\ \A r \in AskedRuns : RunInv(r)

DisplayOK(s) == s \in Displays /\ (s.run # NoRun => Backed(s.run, s.row) /\ PhaseBacked(s.run, s))

ShownInv == DisplayOK(state)

(* A run is created by one request, and nobody knows it before.             *)
CallsInv ==
  /\ calls \subseteq Calling /\ made \in 0..MaxCalls
  /\ \A c \in calls :
       /\ Backed(c.run, c.row)
       /\ c.kind = "ask" /\ ~c.read <=> eventsOf[c.run] = <<>>
  /\ \A c, d \in calls : eventsOf[c.run] = <<>> /\ d.run = c.run => d = c

(* A stream has received no more than was published, and so had an aborted  *)
(* one.                                                                     *)
StreamOK(f) ==
  /\ f \in Subscriptions
  /\ f.at # "closed" =>
       /\ f.run \in AskedRuns /\ eventsOf[f.run] # <<>>
       /\ f.afterSeq <= f.upTo /\ f.upTo <= published[f.run]

LeftoverOK(l) ==
  l \in Leftovers /\ (l.next <= l.upTo => l.run \in AskedRuns /\ l.upTo <= published[l.run])

StreamInv == StreamOK(followed) /\ LeftoverOK(leftover)

ScreenInv == ServerInv /\ ShownInv /\ CallsInv /\ StreamInv

(* What the server's steps leave as it was said.                            *)
ServerKeeps ==
  \A r \in AskedRuns :
    /\ eventsOf[r] # <<>> => eventsOf'[r] # <<>>
    /\ published[r] <= published'[r]
    /\ \A row \in Rows : Backed(r, row) => Backed(r, row)'
    /\ rows[r].status \in Ended => rows'[r] = rows[r]

(* Each end has its event.                                                  *)
LEMMA EventOfStatus ==
  ASSUME NEW status \in Ended
  PROVE  EventOf(status) \in TerminalEvents /\ StatusOf(EventOf(status)) = status
  <1>1. \E e \in TerminalEvents : StatusOf(e) = status
    BY DEF Ended, TerminalEvents, StatusOf
  <1>. QED  BY <1>1, Zenon DEF EventOf

(* The events that end a stream.                                            *)
LEMMA Endings ==
  /\ \A event \in TerminalEvents : StatusOf(event) \in Ended
  /\ Ended \subseteq RowStatuses /\ "FANNING_OUT" \notin Ended /\ "QUEUED" \notin Ended
  /\ "run.snapshot" \notin TerminalEvents /\ "run.status" \notin TerminalEvents /\ "candidate.settled" \notin TerminalEvents
  BY DEF TerminalEvents, StatusOf, Ended, RowStatuses

(* An event that is one of the run's leaves the display backed.             *)
LEMMA ReducerShows ==
  ASSUME NEW old, DisplayOK(old), NEW r \in AskedRuns, NEW event \in RunEvents, NEW snapshot \in Rows,
         EventBacked(r, event), event = "run.status" => Happened(r, event), Backed(r, snapshot)
  PROVE  DisplayOK(engineReducer(old, r, event, snapshot))
  <1>. DEFINE s == engineReducer(old, r, event, snapshot)
  <1>1. CASE event = "run.snapshot"
    BY <1>1 DEF engineReducer, Displays, DisplayOK, PhaseBacked
  <1>2. CASE event # "run.snapshot" /\ old.run # r
    BY <1>2 DEF engineReducer, DisplayOK
  <1>3. CASE event = "run.status" /\ old.run = r
    <2>. DEFINE row == [old.row EXCEPT !.status = "FANNING_OUT"]
    <2>1. row \in Rows /\ row.status = "FANNING_OUT" /\ row.answered = old.row.answered
      BY DEF DisplayOK, Displays, Rows, RowStatuses
    <2>2. s = [old EXCEPT !.row = row]
      <3>1. s = [old EXCEPT !.row.status = "FANNING_OUT"]
        BY <1>3, Endings DEF engineReducer
      <3>. HIDE DEF s
      <3>. QED  BY <3>1 DEF DisplayOK, Displays
    <2>. HIDE DEF row
    <2>3. s \in Displays /\ s.run = r /\ s.row = row /\ s.phase = old.phase /\ s.error = old.error
      BY <1>3, <2>1, <2>2 DEF DisplayOK, Displays
    <2>. HIDE DEF s
    <2>4. (Backed(r, row) /\ PhaseBacked(r, s)) \/ r = NoRun
      BY <1>3, <2>1, <2>3, Endings DEF DisplayOK, Backed, PhaseBacked
    <2>. QED  BY <2>3, <2>4 DEF s, DisplayOK
  <1>4. CASE event = "candidate.settled" /\ old.run = r
    <2>. DEFINE row == [old.row EXCEPT !.answered = TRUE]
    <2>1. row \in Rows /\ row.status = old.row.status /\ row.answered = TRUE
      BY DEF DisplayOK, Displays, Rows
    <2>2. s = [old EXCEPT !.row = row]
      <3>1. s = [old EXCEPT !.row.answered = TRUE]
        BY <1>4, Endings DEF engineReducer
      <3>. HIDE DEF s
      <3>. QED  BY <3>1 DEF DisplayOK, Displays
    <2>. HIDE DEF row
    <2>3. s \in Displays /\ s.run = r /\ s.row = row /\ s.phase = old.phase /\ s.error = old.error
      BY <1>4, <2>1, <2>2 DEF DisplayOK, Displays
    <2>. HIDE DEF s
    <2>4. (Backed(r, row) /\ PhaseBacked(r, s)) \/ r = NoRun
      BY <1>4, <2>1, <2>3 DEF DisplayOK, Backed, EventBacked, PhaseBacked
    <2>. QED  BY <2>3, <2>4 DEF s, DisplayOK
  <1>5. CASE event \in TerminalEvents /\ old.run = r
    <2>. DEFINE row == [old.row EXCEPT !.status = StatusOf(event)]
    <2>1. row \in Rows /\ row.status = StatusOf(event) /\ row.answered = old.row.answered
      BY <1>5, Endings DEF DisplayOK, Displays, Rows
    <2>2. s = LoadedState(r, row)
      BY <1>5, Endings DEF engineReducer
    <2>. HIDE DEF row
    <2>3. s \in Displays /\ s.run = r /\ s.row = row /\ s.phase = phaseOf(row)
      BY <2>1, <2>2 DEF LoadedState, phaseOf, Displays
    <2>. HIDE DEF s
    <2>4. (Backed(r, row) /\ PhaseBacked(r, s)) \/ r = NoRun
      <3>1. Backed(r, row) \/ r = NoRun
        BY <1>5, <2>1, Endings DEF DisplayOK, Backed, EventBacked
      <3>2. row.status \in Ended /\ row.status = rows[r].status
        BY <1>5, <2>1, Endings DEF EventBacked
      <3>. QED  BY <2>3, <3>1, <3>2 DEF PhaseBacked, phaseOf, Ended
    <2>. QED  BY <2>3, <2>4 DEF s, DisplayOK
  <1>. QED  BY <1>1, <1>2, <1>3, <1>4, <1>5 DEF RunEvents

(* The row moves, and its event follows.                                    *)
LEMMA RowMoves ==
  ASSUME ServerInv, NEW r \in AskedRuns, NEW row \in Rows, NEW event \in RunEvents,
         Moves(r, row, event), eventsOf[r] # <<>>, rows[r].status \notin Ended,
         rows[r].answered => row.answered,
         event = "candidate.settled" => row.answered,
         event \in TerminalEvents => StatusOf(event) = row.status,
         row.status = "FANNING_OUT" => rows[r].status = "FANNING_OUT" \/ event = "run.status"
  PROVE  /\ ServerInv' /\ ServerKeeps
         /\ \A q \in AskedRuns : eventsOf'[q] = <<>> <=> eventsOf[q] = <<>>
         /\ UNCHANGED <<published, state, calls, made, followed, leftover>>
  <1>1. /\ rows' = [rows EXCEPT ![r] = row] /\ eventsOf' = [eventsOf EXCEPT ![r] = Append(eventsOf[r], event)]
        /\ UNCHANGED <<published, state, calls, made, followed, leftover>>
    BY DEF Moves
  <1>2. /\ rows' \in [AskedRuns -> Rows] /\ eventsOf' \in [AskedRuns -> Seq(RunEvents)]
        /\ published' \in [AskedRuns -> Nat]
        /\ \A q \in AskedRuns \ {r} : rows'[q] = rows[q] /\ eventsOf'[q] = eventsOf[q]
        /\ rows'[r] = row /\ eventsOf'[r] = Append(eventsOf[r], event)
    BY <1>1 DEF ServerInv
  <1>3. /\ eventsOf[r] \in Seq(RunEvents) /\ Len(eventsOf'[r]) = Len(eventsOf[r]) + 1
        /\ eventsOf'[r][Len(eventsOf[r]) + 1] = event
        /\ \A i \in 1..Len(eventsOf[r]) : eventsOf'[r][i] = eventsOf[r][i]
    BY <1>2 DEF ServerInv
  <1>4. /\ Happened(r, "run.status") => Happened(r, "run.status")'
        /\ event = "run.status" => Happened(r, "run.status")'
    BY <1>3 DEF Happened
  <1>5. RunInv(r)'
    <2>1. published[r] <= Len(eventsOf[r]) /\ published[r] \in Nat /\ RunInv(r)
      BY DEF ServerInv, RunInv
    <2>2. published'[r] <= Len(eventsOf'[r]) /\ eventsOf'[r] # <<>>
      BY <1>1, <1>2, <1>3, <2>1
    <2>3. ASSUME NEW i \in 1..Len(eventsOf'[r]) PROVE EventBacked(r, eventsOf[r][i])'
      <3>1. CASE i \in 1..Len(eventsOf[r])
        <4>1. EventBacked(r, eventsOf[r][i]) /\ eventsOf'[r][i] = eventsOf[r][i]
          BY <1>3, <2>1, <3>1 DEF RunInv
        <4>. QED  BY <1>2, <4>1, Endings DEF EventBacked
      <3>2. CASE i = Len(eventsOf[r]) + 1
        BY <1>2, <1>3, <3>2 DEF EventBacked
      <3>. QED  BY <1>3, <3>1, <3>2
    <2>. QED  BY <1>2, <1>4, <2>1, <2>2, <2>3 DEF RunInv
  <1>6. ASSUME NEW q \in AskedRuns, q # r PROVE RunInv(q)'
    BY <1>1, <1>2, <1>6 DEF ServerInv, RunInv, EventBacked, Happened
  <1>7. ServerKeeps
    <2>1. ASSUME NEW q \in AskedRuns, NEW old \in Rows, Backed(q, old) PROVE Backed(q, old)'
      <3>1. CASE q = r
        BY <1>2, <1>4, <2>1, <3>1, Endings DEF Backed
      <3>2. CASE q # r
        BY <1>2, <2>1, <3>2 DEF Backed, Happened
      <3>. QED  BY <3>1, <3>2
    <2>2. \A q \in AskedRuns : eventsOf[q] # <<>> => eventsOf'[q] # <<>>
      BY <1>2, <1>3
    <2>3. \A q \in AskedRuns : published[q] <= published'[q]
      BY <1>1 DEF ServerInv
    <2>4. \A q \in AskedRuns : rows[q].status \in Ended => rows'[q] = rows[q]
      BY <1>2
    <2>. QED  BY <2>1, <2>2, <2>3, <2>4 DEF ServerKeeps
  <1>8. \A q \in AskedRuns : eventsOf'[q] = <<>> <=> eventsOf[q] = <<>>
    BY <1>2, <1>3
  <1>9. ServerInv'
    BY <1>2, <1>5, <1>6 DEF ServerInv
  <1>. QED  BY <1>1, <1>7, <1>8, <1>9

(* What the display, a call or a stream was given stays backed.             *)
LEMMA ShownStays ==
  ASSUME ScreenInv, ServerInv', ServerKeeps,
         \A q \in AskedRuns : eventsOf'[q] = <<>> <=> eventsOf[q] = <<>>,
         UNCHANGED <<state, calls, made, followed, leftover>>
  PROVE  ScreenInv'
  <1>1. ShownInv'
    <2>1. state.run # NoRun => state.run \in AskedRuns /\ state.row \in Rows
      BY DEF ScreenInv, ShownInv, DisplayOK, Displays
    <2>2. state.run # NoRun => Backed(state.run, state.row)'
      BY <2>1 DEF ScreenInv, ShownInv, DisplayOK, ServerKeeps
    <2>3. state.run # NoRun => PhaseBacked(state.run, state)'
      BY <2>1 DEF ScreenInv, ShownInv, DisplayOK, PhaseBacked, ServerKeeps, Ended
    <2>. QED  BY <2>2, <2>3 DEF ScreenInv, ShownInv, DisplayOK
  <1>2. CallsInv'
    <2>1. ASSUME NEW c \in calls
          PROVE  /\ Backed(c.run, c.row)' /\ (c.kind = "ask" /\ ~c.read <=> eventsOf'[c.run] = <<>>)
                 /\ c.run \in AskedRuns
      <3>1. c.run \in AskedRuns /\ c.row \in Rows
        BY DEF ScreenInv, CallsInv, Calling
      <3>. QED  BY <3>1 DEF ScreenInv, CallsInv, ServerKeeps
    <2>2. \A c, d \in calls : eventsOf'[c.run] = <<>> /\ d.run = c.run => d = c
      BY <2>1 DEF ScreenInv, CallsInv
    <2>. QED  BY <2>1, <2>2 DEF ScreenInv, CallsInv
  <1>3. StreamInv'
    <2>1. /\ followed.at # "closed" => followed.upTo \in Int /\ followed.run \in AskedRuns
          /\ leftover.upTo \in Int
      BY DEF ScreenInv, StreamInv, StreamOK, LeftoverOK, Subscriptions, Leftovers
    <2>2. \A r \in AskedRuns : published[r] \in Int /\ published'[r] \in Int
      BY DEF ScreenInv, ServerInv
    <2>. QED  BY <2>1, <2>2 DEF ScreenInv, StreamInv, StreamOK, LeftoverOK, ServerKeeps
  <1>. QED  BY <1>1, <1>2, <1>3 DEF ScreenInv

(* The server moves a run or logs an event.                                 *)
LEMMA ServerSteps ==
  ASSUME ScreenInv, NEW r \in AskedRuns, RowsMove(r) \/ EventLogged(r)
  PROVE  ScreenInv'
  <1>1. ServerInv /\ rows[r] \in Rows
    BY DEF ScreenInv, ServerInv
  <1>2. CASE RowsMove(r)
    <2>1. PICK row \in Rows, event \in RunEvents :
            /\ Moves(r, row, event) /\ (rows[r].answered => row.answered)
            /\ event = "candidate.settled" => row.answered
            /\ event \in TerminalEvents => StatusOf(event) = row.status
            /\ row.status = "FANNING_OUT" => rows[r].status = "FANNING_OUT" \/ event = "run.status"
      <3>1. CASE rows[r].status = "QUEUED" /\ Moves(r, [rows[r] EXCEPT !.status = "FANNING_OUT"], "run.status")
        <4>. DEFINE row == [rows[r] EXCEPT !.status = "FANNING_OUT"]
        <4>1. row \in Rows /\ row.answered = rows[r].answered /\ Moves(r, row, "run.status") /\ "run.status" \in RunEvents
          BY <1>1, <3>1 DEF Rows, RowStatuses, RunEvents
        <4>. HIDE DEF row
        <4>. QED  BY <4>1, Endings
      <3>2. CASE Moves(r, [rows[r] EXCEPT !.answered = TRUE], "candidate.settled")
        <4>. DEFINE row == [rows[r] EXCEPT !.answered = TRUE]
        <4>1. row \in Rows /\ row.answered /\ row.status = rows[r].status /\ Moves(r, row, "candidate.settled") /\ "candidate.settled" \in RunEvents
          BY <1>1, <3>2 DEF Rows, RunEvents
        <4>. HIDE DEF row
        <4>. QED  BY <4>1, Endings
      <3>3. ASSUME NEW status \in Ended, NEW event \in TerminalEvents, StatusOf(event) = status,
                   Moves(r, [rows[r] EXCEPT !.status = status], event)
            PROVE  \E row \in Rows, e \in RunEvents :
                     /\ Moves(r, row, e) /\ (rows[r].answered => row.answered)
                     /\ e = "candidate.settled" => row.answered
                     /\ e \in TerminalEvents => StatusOf(e) = row.status
                     /\ row.status = "FANNING_OUT" => rows[r].status = "FANNING_OUT" \/ e = "run.status"
        <4>. DEFINE row == [rows[r] EXCEPT !.status = status]
        <4>1. row \in Rows /\ row.answered = rows[r].answered /\ row.status = status /\ Moves(r, row, event) /\ event \in RunEvents
          BY <1>1, <3>3, Endings DEF Rows, RunEvents
        <4>. HIDE DEF row
        <4>. QED  BY <3>3, <4>1, Endings
      <3>4. \/ rows[r].status = "QUEUED" /\ Moves(r, [rows[r] EXCEPT !.status = "FANNING_OUT"], "run.status")
            \/ Moves(r, [rows[r] EXCEPT !.answered = TRUE], "candidate.settled")
            \/ \E status \in Ended, event \in TerminalEvents :
                 StatusOf(event) = status /\ Moves(r, [rows[r] EXCEPT !.status = status], event)
        <4>1. "COMPLETE" \in Ended /\ "run.completed" \in TerminalEvents /\ StatusOf("run.completed") = "COMPLETE"
              /\ {"FAILED", "CANCELED"} \subseteq Ended
          BY DEF Ended, TerminalEvents, StatusOf
        <4>. HIDE DEF Ended
        <4>. QED  BY <1>2, <4>1, EventOfStatus, Zenon DEF RowsMove
      <3>. QED  BY <3>1, <3>2, <3>3, <3>4
    <2>2. eventsOf[r] # <<>> /\ rows[r].status \notin Ended
      BY <1>2, Zenon DEF RowsMove
    <2>3. /\ ServerInv' /\ ServerKeeps
          /\ \A q \in AskedRuns : eventsOf'[q] = <<>> <=> eventsOf[q] = <<>>
          /\ UNCHANGED <<published, state, calls, made, followed, leftover>>
      BY <1>1, <2>1, <2>2, RowMoves
    <2>. QED  BY <2>3, ShownStays
  <1>3. CASE EventLogged(r)
    <2>1. /\ published[r] < Len(eventsOf[r]) /\ published' = [published EXCEPT ![r] = published[r] + 1]
          /\ UNCHANGED <<rows, eventsOf, state, calls, made, followed, leftover>>
      BY <1>3 DEF EventLogged
    <2>2. /\ published' \in [AskedRuns -> Nat] /\ published'[r] = published[r] + 1 /\ published[r] \in Nat
          /\ \A q \in AskedRuns : q # r => published'[q] = published[q]
      BY <1>1, <2>1 DEF ServerInv
    <2>3. Len(eventsOf[r]) \in Nat
      BY <1>1 DEF ServerInv
    <2>4. ASSUME NEW q \in AskedRuns PROVE RunInv(q)'
      BY <1>1, <2>1, <2>2, <2>3 DEF ServerInv, RunInv, EventBacked, Happened
    <2>5. ServerInv'
      BY <1>1, <2>1, <2>2, <2>4 DEF ServerInv
    <2>6. ServerKeeps
      <3>1. \A q \in AskedRuns : published[q] \in Int
        BY <1>1 DEF ServerInv
      <3>2. \A q \in AskedRuns : published[q] <= published'[q]
        BY <2>2, <3>1
      <3>. QED  BY <2>1, <3>2 DEF ServerKeeps, Backed, Happened
    <2>. QED  BY <2>1, <2>5, <2>6, ShownStays
  <1>. QED  BY <1>2, <1>3

(* Where the server stands still, what was backed is.                       *)
LEMMA ServerStill ==
  ASSUME ServerInv, UNCHANGED serverSide
  PROVE  /\ ServerInv' /\ UNCHANGED <<rows, eventsOf, published>>
         /\ \A r, row : Backed(r, row)' <=> Backed(r, row)
  BY DEF ServerInv, serverSide, RunInv, EventBacked, Happened, Backed

(* A row as it is backs itself.                                             *)
LEMMA RowBacked ==
  ASSUME ServerInv, NEW r \in AskedRuns
  PROVE  Backed(r, rows[r]) /\ rows[r] \in Rows /\ NoRow \in Rows /\ Backed(r, NoRow)
  BY Endings DEF ServerInv, RunInv, Backed, NoRow, Rows, RowStatuses

(* A call is answered by the server: a run is created, or its row is read.  *)
LEMMA ServedStep ==
  ASSUME ScreenInv, NEW c \in calls, Served(c)
  PROVE  ScreenInv'
  <1>. DEFINE r == c.run
              new == [c EXCEPT !.read = TRUE, !.row = rows[r]]
  <1>1. /\ ~c.read /\ calls' = (calls \ {c}) \cup {new}
        /\ eventsOf' = IF c.kind = "ask" THEN [eventsOf EXCEPT ![r] = <<"run.snapshot">>] ELSE eventsOf
        /\ UNCHANGED <<rows, published, state, made, followed, leftover>>
    BY DEF Served
  <1>2. /\ ServerInv /\ CallsInv /\ c \in Calling /\ r \in AskedRuns /\ rows[r] \in Rows
        /\ c.kind = "ask" <=> eventsOf[r] = <<>>
    <2>1. c \in Calling /\ (c.kind = "ask" /\ ~c.read <=> eventsOf[c.run] = <<>>)
      BY DEF ScreenInv, CallsInv
    <2>. QED  BY <1>1, <2>1 DEF ScreenInv, ServerInv, Calling
  <1>3. new \in Calling /\ new.kind = c.kind /\ new.run = r /\ new.read /\ new.row = rows[r]
    BY <1>2 DEF Calling
  <1>4. ServerInv' /\ ServerKeeps /\ eventsOf'[r] # <<>> /\ \A q \in AskedRuns : q # r => eventsOf'[q] = eventsOf[q]
    <2>1. CASE c.kind = "ask"
      <3>1. rows[r] = NoRow /\ eventsOf[r] = <<>>
        BY <1>2, <2>1 DEF ServerInv, RunInv
      <3>2. /\ eventsOf' \in [AskedRuns -> Seq(RunEvents)] /\ eventsOf'[r] = <<"run.snapshot">>
            /\ \A q \in AskedRuns : q # r => eventsOf'[q] = eventsOf[q]
        BY <1>1, <1>2, <2>1 DEF ServerInv, RunEvents
      <3>3. published[r] = 0
        BY <1>2, <3>1 DEF ServerInv, RunInv
      <3>4. RunInv(r)'
        BY <1>1, <3>1, <3>2, <3>3, Endings DEF RunInv, EventBacked, NoRow
      <3>5. ASSUME NEW q \in AskedRuns, q # r PROVE RunInv(q)'
        BY <1>1, <1>2, <3>2, <3>5 DEF ServerInv, RunInv, EventBacked, Happened
      <3>6. ServerInv'
        BY <1>1, <1>2, <3>2, <3>4, <3>5 DEF ServerInv
      <3>7. ASSUME NEW q \in AskedRuns, NEW row \in Rows, Backed(q, row) PROVE Backed(q, row)'
        <4>1. CASE q = r
          <5>1. ~Happened(r, "run.status")
            BY <3>1 DEF Happened
          <5>. QED  BY <1>1, <3>7, <4>1, <5>1 DEF Backed
        <4>2. CASE q # r
          BY <1>1, <3>2, <3>7, <4>2 DEF Backed, Happened
        <4>. QED  BY <4>1, <4>2
      <3>8. eventsOf'[r] # <<>>
        BY <3>2
      <3>9. \A q \in AskedRuns : published[q] <= published'[q] /\ rows'[q] = rows[q]
        BY <1>1, <1>2 DEF ServerInv
      <3>10. \A q \in AskedRuns : eventsOf[q] # <<>> => eventsOf'[q] # <<>>
        BY <3>1, <3>2
      <3>. QED  BY <3>2, <3>6, <3>7, <3>8, <3>9, <3>10 DEF ServerKeeps
    <2>2. CASE c.kind # "ask"
      <3>1. UNCHANGED serverSide
        BY <1>1, <2>2 DEF serverSide
      <3>2. /\ ServerInv' /\ UNCHANGED <<rows, eventsOf, published>>
            /\ \A q, row : Backed(q, row)' <=> Backed(q, row)
        BY <1>2, <3>1, ServerStill
      <3>3. \A q \in AskedRuns : published[q] <= published'[q]
        BY <1>1, <1>2 DEF ServerInv
      <3>. QED  BY <1>2, <2>2, <3>2, <3>3 DEF ServerKeeps
    <2>. QED  BY <2>1, <2>2
  <1>. HIDE DEF new
  <1>5. ShownInv'
    <2>1. state.run # NoRun => state.run \in AskedRuns /\ state.row \in Rows
      BY DEF ScreenInv, ShownInv, DisplayOK, Displays
    <2>2. state.run # NoRun => Backed(state.run, state.row)'
      <3>1. UNCHANGED state
        BY <1>1
      <3>. QED  BY <1>4, <2>1, <3>1 DEF ScreenInv, ShownInv, DisplayOK, ServerKeeps
    <2>. QED  BY <1>1, <2>2 DEF ScreenInv, ShownInv, DisplayOK, Backed, PhaseBacked, Happened
  <1>6. CallsInv'
    <2>1. Backed(r, rows[r])' /\ ~(new.kind = "ask" /\ ~new.read)
      BY <1>1, <1>2, <1>3, <1>4, RowBacked DEF ServerKeeps
    <2>2. PICK row : row = rows[r]
      OBVIOUS
    <2>3. ASSUME NEW d \in calls'
          PROVE  /\ Backed(d.run, d.row)' /\ (d.kind = "ask" /\ ~d.read <=> eventsOf'[d.run] = <<>>)
      <3>1. CASE d \in calls
        <4>1. d.run \in AskedRuns /\ d.row \in Rows /\ d \in calls
          BY <3>1, <1>2 DEF CallsInv, Calling
        <4>2. Backed(d.run, d.row)'
          BY <1>2, <1>4, <4>1 DEF CallsInv, ServerKeeps
        <4>3. d.kind = "ask" /\ ~d.read <=> eventsOf'[d.run] = <<>>
          <5>1. CASE d.run = r
            <6>1. eventsOf[r] = <<>> => d = c
              BY <1>2, <4>1, <5>1 DEF CallsInv
            <6>2. CASE d = c
              BY <1>1, <1>3, <1>4, <5>1, <6>2
            <6>3. CASE d # c
              BY <1>2, <1>4, <4>1, <5>1, <6>1, <6>3 DEF CallsInv
            <6>. QED  BY <6>2, <6>3
          <5>2. CASE d.run # r
            BY <1>2, <1>4, <4>1, <5>2 DEF CallsInv
          <5>. QED  BY <5>1, <5>2
        <4>. QED  BY <4>2, <4>3
      <3>2. CASE d = new
        <4>1. Backed(r, row)' /\ d.run = r /\ d.row = row
          BY <1>1, <1>3, <2>1, <2>2, <3>2 DEF Backed, Happened
        <4>. QED  BY <1>3, <1>4, <3>2, <4>1 DEF Backed, Happened
      <3>. QED  BY <1>1, <3>1, <3>2
    <2>4. ASSUME NEW d \in calls', NEW e \in calls', eventsOf'[d.run] = <<>>, e.run = d.run PROVE e = d
      <3>1. d.run # r
        BY <1>4, <2>4
      <3>2. d \in calls /\ e \in calls
        BY <1>1, <1>3, <2>4, <3>1
      <3>3. d.run \in AskedRuns
        BY <1>2, <3>2 DEF CallsInv, Calling
      <3>. QED  BY <1>2, <1>4, <2>4, <3>1, <3>2, <3>3 DEF CallsInv
    <2>5. calls' \subseteq Calling /\ made' \in 0..MaxCalls
      BY <1>1, <1>2, <1>3 DEF CallsInv
    <2>. QED  BY <2>3, <2>4, <2>5 DEF CallsInv
  <1>7. StreamInv'
    <2>1. UNCHANGED <<followed, leftover, published>> /\ followed.at # "closed" => followed.run \in AskedRuns
      BY <1>1 DEF ScreenInv, StreamInv, StreamOK, LeftoverOK
    <2>. QED  BY <1>1, <1>4, <2>1 DEF ScreenInv, StreamInv, StreamOK, LeftoverOK, ServerKeeps
  <1>. QED  BY <1>4, <1>5, <1>6, <1>7 DEF ScreenInv

(* What is left of an aborted stream it had received.                       *)
LEMMA AbortedHad ==
  ASSUME StreamInv
  PROVE  LeftoverOK(Aborted)
  BY DEF StreamInv, StreamOK, LeftoverOK, Aborted, NoStale, Subscriptions, Leftovers

(* A subscription, and what opening or changing one gives.                  *)
LEMMA ClosedStream == NoStream \in Subscriptions /\ NoStream.at = "closed"
  <1>1. 0 \in 0..MAX_STREAM_RETRIES
    BY TerminalAssumption
  <1>. QED  BY <1>1 DEF NoStream, Subscriptions

LEMMA NewStream ==
  ASSUME NEW r \in AskedRuns, NEW new, new = [NoStream EXCEPT !.run = r, !.at = "connecting"]
  PROVE  new \in Subscriptions /\ new.run = r /\ new.at = "connecting" /\ new.afterSeq = 0 /\ new.upTo = 0
  <1>1. 0 \in 0..MAX_STREAM_RETRIES
    BY TerminalAssumption
  <1>. QED  BY <1>1 DEF NoStream, Subscriptions

(* A call that is made.                                                     *)
LEMMA CallMade ==
  ASSUME ServerInv, CallsInv, NEW r \in AskedRuns, NEW kind \in {"ask", "open", "fallback"},
         UNCHANGED serverSide, made' \in 0..MaxCalls, calls' = calls \cup {Call(kind, r)},
         kind = "ask" <=> eventsOf[r] = <<>>, kind = "ask" => \A c \in calls : c.run # r
  PROVE  CallsInv'
  <1>. DEFINE new == Call(kind, r)
  <1>1. new \in Calling /\ new.kind = kind /\ new.run = r /\ ~new.read /\ new.row = NoRow
    BY RowBacked DEF Call, Calling
  <1>2. /\ UNCHANGED <<rows, eventsOf, published>>
        /\ \A q, row : Backed(q, row)' <=> Backed(q, row)
    BY ServerStill
  <1>3. Backed(r, NoRow)
    BY RowBacked
  <1>. HIDE DEF new
  <1>4. \A c \in calls' : Backed(c.run, c.row) /\ (c.kind = "ask" /\ ~c.read <=> eventsOf[c.run] = <<>>)
    BY <1>1, <1>3 DEF CallsInv, new
  <1>5. \A c, d \in calls' : eventsOf[c.run] = <<>> /\ d.run = c.run => d = c
    BY <1>1 DEF CallsInv, new
  <1>6. calls' \subseteq Calling
    BY <1>1 DEF CallsInv, new
  <1>. QED  BY <1>2, <1>4, <1>5, <1>6 DEF CallsInv, Backed, Happened

(* A call that is over.                                                     *)
LEMMA CallOver ==
  ASSUME ServerInv, CallsInv, UNCHANGED serverSide, UNCHANGED made, calls' \subseteq calls
  PROVE  CallsInv'
  BY ServerStill DEF CallsInv, Backed, Happened

(* A step of the client, of which the server knows nothing.                 *)
LEMMA ClientStep ==
  ASSUME ScreenInv, UNCHANGED serverSide, CallsInv', DisplayOK(state)', StreamOK(followed)', LeftoverOK(leftover)'
  PROVE  ScreenInv'
  BY ServerStill DEF ScreenInv, ShownInv, StreamInv

(* What the client sets, backed by the server as it is.                     *)
LEMMA SetDisplay ==
  ASSUME ServerInv, UNCHANGED serverSide, NEW s, DisplayOK(s), state' = s
  PROVE  DisplayOK(state)'
  BY ServerStill DEF DisplayOK, Backed, PhaseBacked, Happened

LEMMA SetStream ==
  ASSUME ServerInv, UNCHANGED serverSide, NEW f, StreamOK(f), followed' = f
  PROVE  StreamOK(followed)'
  BY ServerStill DEF StreamOK

LEMMA SetLeftover ==
  ASSUME ServerInv, UNCHANGED serverSide, NEW l, LeftoverOK(l), leftover' = l
  PROVE  LeftoverOK(leftover)'
  BY ServerStill DEF LeftoverOK

(* Rows that are backed are shown.                                          *)
LEMMA LoadedShows ==
  ASSUME NEW r \in AskedRuns, NEW row \in Rows, Backed(r, row)
  PROVE  DisplayOK(LoadedState(r, row))
  BY DEF DisplayOK, LoadedState, phaseOf, Displays, Backed, PhaseBacked, Ended

(* A call's error leaves the run on show as it was.                         *)
LEMMA ErrorShows ==
  ASSUME NEW s, DisplayOK(s), NEW r \in AskedRuns
  PROVE  DisplayOK(ErrorState(s, r))
  <1>1. PICK new : new = [s EXCEPT !.phase = "failed", !.error = r]
    OBVIOUS
  <1>2. /\ new \in Displays /\ new.run = s.run /\ new.row = s.row
        /\ new.phase = "failed" /\ new.error = r
    BY <1>1 DEF DisplayOK, Displays
  <1>3. new.error # NoRun
    BY <1>2, TerminalAssumption
  <1>4. DisplayOK(new)
    BY <1>2, <1>3 DEF DisplayOK, PhaseBacked
  <1>. QED  BY <1>1, <1>4, Zenon DEF ErrorState

(* So is nothing at all.                                                    *)
LEMMA EmptyShows ==
  ASSUME ServerInv, NEW phase \in {"idle", "starting"}
  PROVE  DisplayOK([Idle EXCEPT !.phase = phase]) /\ DisplayOK(Idle)
  BY DEF DisplayOK, Idle, Displays, NoRow, Rows, RowStatuses

(* A call starts, is answered or fails.                                     *)
LEMMA CallSteps ==
  ASSUME ScreenInv,
         \/ \E r \in AskedRuns : ask(r) \/ openRun(r)
         \/ \E c \in calls : Answered(c) \/ CallFails(c)
  PROVE  ScreenInv'
  <1>1. ServerInv /\ CallsInv /\ StreamInv /\ DisplayOK(state) /\ MaxCalls \in Nat
    BY TerminalAssumption DEF ScreenInv, ShownInv
  <1>2. UNCHANGED serverSide
    BY DEF ask, openRun, Answered, CallFails
  <1>3. ASSUME NEW r \in AskedRuns, ask(r) PROVE ScreenInv'
    <2>1. CallsInv'
      <3>1. made' \in 0..MaxCalls
        BY <1>1, <1>3 DEF ask, CallsInv
      <3>. QED  BY <1>1, <1>2, <1>3, <3>1, CallMade DEF ask
    <2>2. DisplayOK(state)'
      <3>1. state' = [Idle EXCEPT !.phase = "starting"]
        BY <1>3 DEF ask
      <3>2. DisplayOK([Idle EXCEPT !.phase = "starting"])
        BY <1>1, EmptyShows
      <3>. QED  BY <1>1, <1>2, <3>1, <3>2, SetDisplay
    <2>3. UNCHANGED <<followed, leftover>>
      BY <1>3 DEF ask
    <2>4. StreamOK(followed)' /\ LeftoverOK(leftover)'
      BY <1>1, <1>2, <2>3, SetStream, SetLeftover DEF StreamInv
    <2>. QED  BY <1>2, <2>1, <2>2, <2>4, ClientStep
  <1>4. ASSUME NEW r \in AskedRuns, openRun(r) PROVE ScreenInv'
    <2>1. CallsInv'
      <3>1. made' \in 0..MaxCalls
        BY <1>1, <1>4 DEF openRun, CallsInv
      <3>. QED  BY <1>1, <1>2, <1>4, <3>1, CallMade DEF openRun
    <2>2. UNCHANGED <<state, followed, leftover>>
      BY <1>4 DEF openRun
    <2>3. DisplayOK(state)' /\ StreamOK(followed)' /\ LeftoverOK(leftover)'
      BY <1>1, <1>2, <2>2, SetDisplay, SetStream, SetLeftover DEF StreamInv
    <2>. QED  BY <1>2, <2>1, <2>3, ClientStep
  <1>5. ASSUME NEW c \in calls, Answered(c) PROVE ScreenInv'
    <2>1. CallsInv'
      BY <1>1, <1>2, <1>5, CallOver DEF Answered
    <2>2. c.run \in AskedRuns /\ c.row \in Rows /\ Backed(c.run, c.row) /\ eventsOf[c.run] # <<>> /\ c.read
      BY <1>1, <1>5 DEF CallsInv, Calling, Answered
    <2>3. DisplayOK(state)'
      BY <1>1, <1>2, <1>5, <2>2, LoadedShows, SetDisplay DEF Answered
    <2>4. follow(c.run) \/ UNCHANGED <<followed, leftover>>
      BY <1>5 DEF Answered
    <2>5. CASE follow(c.run)
      <3>1. PICK new : new = [NoStream EXCEPT !.run = c.run, !.at = "connecting"]
        OBVIOUS
      <3>2. followed' = new /\ leftover' = Aborted
        BY <2>5, <3>1 DEF follow
      <3>3. published[c.run] \in Nat
        BY <1>1, <2>2 DEF ServerInv
      <3>4. new \in Subscriptions /\ new.run = c.run /\ new.at = "connecting" /\ new.afterSeq = 0 /\ new.upTo = 0
        BY <2>2, <3>1, NewStream, Zenon
      <3>5. StreamOK(new)
        BY <2>2, <3>3, <3>4 DEF StreamOK
      <3>6. StreamOK(followed)' /\ LeftoverOK(leftover)'
        BY <1>1, <1>2, <3>2, <3>5, AbortedHad, SetStream, SetLeftover
      <3>. QED  BY <1>2, <2>1, <2>3, <3>6, ClientStep
    <2>6. CASE UNCHANGED <<followed, leftover>>
      <3>1. StreamOK(followed)' /\ LeftoverOK(leftover)'
        BY <1>1, <1>2, <2>6, SetStream, SetLeftover DEF StreamInv
      <3>. QED  BY <1>2, <2>1, <2>3, <3>1, ClientStep
    <2>. QED  BY <2>4, <2>5, <2>6
  <1>6. ASSUME NEW c \in calls, CallFails(c) PROVE ScreenInv'
    <2>1. CallsInv'
      BY <1>1, <1>2, <1>6, CallOver DEF CallFails
    <2>2. PICK s : s = IF c.kind = "open" THEN state ELSE ErrorState(state, c.run)
      OBVIOUS
    <2>3. DisplayOK(s)
      <3>1. c.run \in AskedRuns
        BY <1>1, <1>6 DEF CallsInv, Calling
      <3>. QED  BY <1>1, <2>2, <3>1, ErrorShows, Zenon
    <2>4. state' = s /\ UNCHANGED <<followed, leftover>>
      BY <1>6, <2>2 DEF CallFails
    <2>5. DisplayOK(state)' /\ StreamOK(followed)' /\ LeftoverOK(leftover)'
      BY <1>1, <1>2, <2>3, <2>4, SetDisplay, SetStream, SetLeftover DEF StreamInv
    <2>. QED  BY <1>2, <2>1, <2>5, ClientStep
  <1>. QED  BY <1>3, <1>4, <1>5, <1>6

(* The user starts over, or the stream moves.                               *)
LEMMA StreamSteps ==
  ASSUME ScreenInv, NewRunKey \/ streamRun \/ ChunkArrives \/ FrameYielded \/ StaleFrameYielded \/ FeedEnds
  PROVE  ScreenInv'
  <1>1. ServerInv /\ CallsInv /\ StreamOK(followed) /\ LeftoverOK(leftover) /\ StreamInv /\ DisplayOK(state)
    BY DEF ScreenInv, ShownInv, StreamInv
  <1>2. UNCHANGED serverSide /\ UNCHANGED <<calls, made>>
    BY DEF NewRunKey, streamRun, ChunkArrives, FrameYielded, StaleFrameYielded, FeedEnds, streamRest
  <1>3. CallsInv'
    BY <1>1, <1>2, CallOver
  <1>4. StreamOK(NoStream)
    BY ClosedStream DEF StreamOK
  <1>5. ASSUME followed.at # "closed"
        PROVE  /\ followed.run \in AskedRuns /\ followed \in Subscriptions /\ published[followed.run] \in Nat
               /\ followed.afterSeq \in Nat /\ followed.upTo \in Nat
               /\ published[followed.run] <= Len(eventsOf[followed.run])
               /\ eventsOf[followed.run] \in Seq(RunEvents)
    BY <1>1, <1>5 DEF StreamOK, ServerInv, RunInv, Subscriptions
  <1>6. ASSUME NEW r \in AskedRuns, NEW seq \in 1..published[r]
        PROVE  DisplayOK(engineReducer(state, r, eventsOf[r][seq], NoRow)) /\ eventsOf[r][seq] \in RunEvents
    <2>1. published[r] \in Nat /\ published[r] <= Len(eventsOf[r]) /\ eventsOf[r] \in Seq(RunEvents) /\ RunInv(r)
      BY <1>1 DEF ServerInv, RunInv
    <2>2. seq \in 1..Len(eventsOf[r])
      BY <2>1
    <2>3. eventsOf[r][seq] \in RunEvents /\ EventBacked(r, eventsOf[r][seq]) /\ Happened(r, eventsOf[r][seq])
      BY <2>1, <2>2 DEF RunInv, Happened
    <2>4. Backed(r, NoRow) /\ NoRow \in Rows
      BY <1>1, RowBacked
    <2>. QED  BY <1>1, <2>3, <2>4, ReducerShows
  <1>7. CASE NewRunKey
    <2>1. state' = Idle /\ leftover' = Aborted /\ followed' = NoStream
      BY <1>7 DEF NewRunKey
    <2>2. DisplayOK(state)' /\ StreamOK(followed)' /\ LeftoverOK(leftover)'
      BY <1>1, <1>2, <1>4, <2>1, EmptyShows, AbortedHad, SetDisplay, SetStream, SetLeftover
    <2>. QED  BY <1>2, <1>3, <2>2, ClientStep
  <1>8. CASE streamRun
    <2>. DEFINE r == followed.run
    <2>1. followed.at = "connecting" /\ UNCHANGED leftover
      BY <1>8 DEF streamRun
    <2>2. LeftoverOK(leftover)'
      BY <1>1, <1>2, <2>1, SetLeftover
    <2>3. CASE rows[r].status \in Ended /\ published[r] <= followed.afterSeq
      <3>1. PICK first : first = engineReducer(state, r, "run.snapshot", rows[r])
        OBVIOUS
      <3>2. PICK event : event = EventOf(rows[r].status)
        OBVIOUS
      <3>3. state' = engineReducer(first, r, event, NoRow) /\ followed' = NoStream
        BY <1>8, <2>3, <3>1, <3>2 DEF streamRun
      <3>4. event \in TerminalEvents /\ StatusOf(event) = rows[r].status
        BY <2>3, <3>2, EventOfStatus
      <3>5. DisplayOK(first)
        <4>1. Backed(r, rows[r]) /\ rows[r] \in Rows /\ EventBacked(r, "run.snapshot") /\ "run.snapshot" \in RunEvents
          BY <1>1, <1>5, <2>1, RowBacked, Endings DEF EventBacked, RunEvents
        <4>. QED  BY <1>1, <1>5, <2>1, <3>1, <4>1, ReducerShows
      <3>6. DisplayOK(engineReducer(first, r, event, NoRow))
        <4>1. Backed(r, NoRow) /\ NoRow \in Rows /\ EventBacked(r, event) /\ event \in RunEvents /\ event # "run.status"
          BY <1>1, <1>5, <2>1, <3>4, RowBacked, Endings DEF EventBacked, RunEvents
        <4>. QED  BY <1>5, <2>1, <3>5, <4>1, ReducerShows
      <3>7. DisplayOK(state)' /\ StreamOK(followed)'
        BY <1>1, <1>2, <1>4, <3>3, <3>6, SetDisplay, SetStream
      <3>. QED  BY <1>2, <1>3, <2>2, <3>7, ClientStep
    <2>4. CASE ~(rows[r].status \in Ended /\ published[r] <= followed.afterSeq)
      <3>1. PICK new : new = [followed EXCEPT !.at = "open", !.upTo = followed.afterSeq]
        OBVIOUS
      <3>2. followed' = new /\ UNCHANGED state
        BY <1>8, <2>4, <3>1 DEF streamRun
      <3>3. new \in Subscriptions /\ new.run = r /\ new.afterSeq = followed.afterSeq /\ new.upTo = followed.afterSeq
        BY <1>5, <2>1, <3>1 DEF Subscriptions
      <3>4. StreamOK(new)
        BY <1>1, <1>5, <2>1, <3>3 DEF StreamOK
      <3>5. DisplayOK(state)' /\ StreamOK(followed)'
        BY <1>1, <1>2, <3>2, <3>4, SetDisplay, SetStream
      <3>. QED  BY <1>2, <1>3, <2>2, <3>5, ClientStep
    <2>. QED  BY <2>3, <2>4
  <1>9. CASE ChunkArrives
    <2>1. PICK new : new = [followed EXCEPT !.upTo = published[followed.run]]
      OBVIOUS
    <2>2. followed.at = "open" /\ followed' = new /\ UNCHANGED <<state, leftover>> /\ followed.upTo < published[followed.run]
      BY <1>9, <2>1 DEF ChunkArrives
    <2>3. /\ new \in Subscriptions /\ new.run = followed.run /\ new.afterSeq = followed.afterSeq
          /\ new.upTo = published[followed.run]
      BY <1>5, <2>1, <2>2 DEF Subscriptions
    <2>4. StreamOK(new)
      BY <1>1, <1>5, <2>2, <2>3 DEF StreamOK
    <2>5. DisplayOK(state)' /\ StreamOK(followed)' /\ LeftoverOK(leftover)'
      BY <1>1, <1>2, <2>2, <2>4, SetDisplay, SetStream, SetLeftover
    <2>. QED  BY <1>2, <1>3, <2>5, ClientStep
  <1>10. CASE FrameYielded
    <2>. DEFINE r == followed.run
                seq == followed.afterSeq + 1
                event == eventsOf[r][seq]
    <2>1. PICK new : new = IF event \in TerminalEvents THEN NoStream ELSE [followed EXCEPT !.afterSeq = seq, !.attempts = 0]
      OBVIOUS
    <2>2. /\ followed.at = "open" /\ seq <= followed.upTo /\ followed' = new /\ UNCHANGED leftover
          /\ state' = engineReducer(state, r, event, NoRow)
      BY <1>10, <2>1 DEF FrameYielded
    <2>3. r \in AskedRuns /\ seq \in 1..published[r]
      BY <1>1, <1>5, <2>2 DEF StreamOK
    <2>4. DisplayOK(engineReducer(state, r, event, NoRow))
      BY <1>6, <2>3
    <2>5. StreamOK(new)
      <3>1. CASE event \in TerminalEvents
        BY <1>4, <2>1, <3>1
      <3>2. CASE event \notin TerminalEvents
        <4>1. 0 \in 0..MAX_STREAM_RETRIES
          BY TerminalAssumption
        <4>2. seq \in Nat /\ new = [followed EXCEPT !.afterSeq = seq, !.attempts = 0]
          BY <1>5, <2>1, <2>2, <3>2
        <4>. HIDE DEF seq
        <4>3. new \in Subscriptions /\ new.run = r /\ new.afterSeq = seq /\ new.upTo = followed.upTo
          BY <1>5, <2>2, <4>1, <4>2 DEF Subscriptions
        <4>. QED  BY <1>1, <2>2, <4>3 DEF StreamOK
      <3>. QED  BY <3>1, <3>2
    <2>6. DisplayOK(state)' /\ StreamOK(followed)' /\ LeftoverOK(leftover)'
      BY <1>1, <1>2, <2>2, <2>4, <2>5, SetDisplay, SetStream, SetLeftover
    <2>. QED  BY <1>2, <1>3, <2>6, ClientStep
  <1>11. CASE StaleFrameYielded
    <2>. DEFINE r == leftover.run
                event == eventsOf[r][leftover.next]
    <2>1. PICK new : new = [leftover EXCEPT !.next = leftover.next + 1]
      OBVIOUS
    <2>2. /\ leftover.next <= leftover.upTo /\ leftover' = new /\ UNCHANGED followed
          /\ state' = engineReducer(state, r, event, NoRow)
      BY <1>11, <2>1 DEF StaleFrameYielded
    <2>3. r \in AskedRuns /\ leftover.next \in 1..published[r] /\ published[r] \in Nat
      BY <1>1, <2>2 DEF LeftoverOK, Leftovers, ServerInv
    <2>4. DisplayOK(engineReducer(state, r, event, NoRow))
      BY <1>6, <2>3
    <2>5. LeftoverOK(new)
      BY <1>1, <2>1, <2>2 DEF LeftoverOK, Leftovers
    <2>6. DisplayOK(state)' /\ StreamOK(followed)' /\ LeftoverOK(leftover)'
      BY <1>1, <1>2, <2>2, <2>4, <2>5, SetDisplay, SetStream, SetLeftover
    <2>. QED  BY <1>2, <1>3, <2>6, ClientStep
  <1>12. CASE FeedEnds
    <2>1. PICK new : new = [followed EXCEPT !.at = "connecting"]
      OBVIOUS
    <2>2. followed.at = "open" /\ followed' = new /\ UNCHANGED <<state, leftover>>
      BY <1>12, <2>1 DEF FeedEnds
    <2>3. new \in Subscriptions /\ new.run = followed.run /\ new.afterSeq = followed.afterSeq /\ new.upTo = followed.upTo
      BY <1>5, <2>1, <2>2 DEF Subscriptions
    <2>4. StreamOK(new)
      BY <1>1, <2>2, <2>3 DEF StreamOK
    <2>5. DisplayOK(state)' /\ StreamOK(followed)' /\ LeftoverOK(leftover)'
      BY <1>1, <1>2, <2>2, <2>4, SetDisplay, SetStream, SetLeftover
    <2>. QED  BY <1>2, <1>3, <2>5, ClientStep
  <1>. QED  BY <1>7, <1>8, <1>9, <1>10, <1>11, <1>12

(* The stream breaks: it is connected again, or a read takes its place.     *)
LEMMA BreakStep ==
  ASSUME ScreenInv, StreamBreaks
  PROVE  ScreenInv'
  <1>1. ServerInv /\ CallsInv /\ StreamOK(followed) /\ LeftoverOK(leftover) /\ DisplayOK(state)
    BY DEF ScreenInv, ShownInv, StreamInv
  <1>2. /\ UNCHANGED serverSide /\ UNCHANGED <<state, made, leftover>> /\ followed.at # "closed"
        /\ followed.run \in AskedRuns /\ followed \in Subscriptions /\ eventsOf[followed.run] # <<>>
    BY <1>1 DEF StreamBreaks, StreamOK
  <1>3. DisplayOK(state)' /\ LeftoverOK(leftover)'
    BY <1>1, <1>2, SetDisplay, SetLeftover
  <1>4. CASE followed.attempts + 1 > MAX_STREAM_RETRIES
    <2>1. followed' = NoStream /\ calls' = calls \cup {Call("fallback", followed.run)}
      BY <1>4 DEF StreamBreaks
    <2>2. StreamOK(followed)'
      <3>1. StreamOK(NoStream)
        BY ClosedStream DEF StreamOK
      <3>. QED  BY <1>1, <1>2, <2>1, <3>1, SetStream
    <2>3. CallsInv'
      <3>1. made' \in 0..MaxCalls
        BY <1>1, <1>2 DEF CallsInv
      <3>. QED  BY <1>1, <1>2, <2>1, <3>1, CallMade
    <2>. QED  BY <1>2, <1>3, <2>2, <2>3, ClientStep
  <1>5. CASE ~(followed.attempts + 1 > MAX_STREAM_RETRIES)
    <2>1. PICK new : new = [followed EXCEPT !.at = "connecting", !.attempts = followed.attempts + 1]
      OBVIOUS
    <2>2. followed' = new /\ UNCHANGED calls
      BY <1>5, <2>1 DEF StreamBreaks
    <2>3. followed.attempts + 1 \in 0..MAX_STREAM_RETRIES
      BY <1>2, <1>5, TerminalAssumption DEF Subscriptions
    <2>4. new \in Subscriptions /\ new.run = followed.run /\ new.afterSeq = followed.afterSeq /\ new.upTo = followed.upTo
      BY <1>2, <2>1, <2>3 DEF Subscriptions
    <2>5. StreamOK(new)
      BY <1>1, <1>2, <2>4 DEF StreamOK
    <2>6. StreamOK(followed)' /\ CallsInv'
      BY <1>1, <1>2, <2>2, <2>5, SetStream, CallOver
    <2>. QED  BY <1>2, <1>3, <2>6, ClientStep
  <1>. QED  BY <1>4, <1>5

(* The display and everything under way, whatever the user does while the   *)
(* runs go on.                                                              *)
THEOREM ScreenInvariant == TerminalSpec => []ScreenInv
  <1>1. TerminalInit => ScreenInv
    <2>. SUFFICES ASSUME TerminalInit PROVE ScreenInv
      OBVIOUS
    <2>1. NoRow \in Rows /\ NoRow.status = "QUEUED"
      BY DEF NoRow, Rows, RowStatuses
    <2>2. ServerInv
      <3>1. rows \in [AskedRuns -> Rows] /\ eventsOf \in [AskedRuns -> Seq(RunEvents)] /\ published \in [AskedRuns -> Nat]
        BY <2>1 DEF TerminalInit
      <3>2. \A r \in AskedRuns : RunInv(r)
        BY <2>1 DEF TerminalInit, RunInv
      <3>. QED  BY <3>1, <3>2 DEF ServerInv
    <2>3. ShownInv
      BY <2>2, EmptyShows DEF TerminalInit, ShownInv
    <2>4. CallsInv
      BY TerminalAssumption DEF TerminalInit, CallsInv
    <2>5. StreamInv
      BY ClosedStream DEF TerminalInit, StreamInv, StreamOK, LeftoverOK, NoStale, Leftovers
    <2>. QED  BY <2>2, <2>3, <2>4, <2>5 DEF ScreenInv
  <1>2. ScreenInv /\ [TerminalNext]_terminalVars => ScreenInv'
    <2>. SUFFICES ASSUME ScreenInv, [TerminalNext]_terminalVars PROVE ScreenInv'
      OBVIOUS
    <2>1. CASE UNCHANGED terminalVars
      <3>1. UNCHANGED <<serverSide, state, calls, made, followed, leftover>>
        BY <2>1 DEF terminalVars, serverSide
      <3>2. ServerInv /\ CallsInv /\ StreamOK(followed) /\ LeftoverOK(leftover) /\ DisplayOK(state)
        BY DEF ScreenInv, ShownInv, StreamInv
      <3>3. DisplayOK(state)' /\ StreamOK(followed)' /\ LeftoverOK(leftover)' /\ CallsInv'
        BY <3>1, <3>2, SetDisplay, SetStream, SetLeftover, CallOver
      <3>. QED  BY <3>1, <3>3, ClientStep
    <2>. QED  BY <2>1, ServerSteps, ServedStep, CallSteps, StreamSteps, BreakStep DEF TerminalNext
  <1>. QED  BY <1>1, <1>2, PTL DEF TerminalSpec

(* Types (TerminalTypeOK).                                                  *)
THEOREM TerminalTyped == TerminalSpec => []TerminalTypeOK
  <1>1. ScreenInv => TerminalTypeOK
    BY DEF ScreenInv, ServerInv, RunInv, ShownInv, DisplayOK, CallsInv, StreamInv, StreamOK,
           Displays, Calling, Subscriptions, TerminalTypeOK
  <1>. QED  BY <1>1, ScreenInvariant, PTL

(* The display shows of a run only what that run has come to, and a failed  *)
(* phase that is not the run's own only with a failed call's error          *)
(* (ShownIsOneRun).                                                         *)
THEOREM OneRunShown == TerminalSpec => []ShownIsOneRun
  <1>1. ScreenInv => ShownIsOneRun
    BY DEF ScreenInv, ShownInv, DisplayOK, Backed, PhaseBacked, Happened, ShownIsOneRun
  <1>. QED  BY <1>1, ScreenInvariant, PTL

-----------------------------------------------------------------------------
(* The SDK's ask(). *)

(* The places of a set, counted from the first, fill 1..n. *)
LEMMA PlacesCount ==
  ASSUME NEW I \in SUBSET Nat, IsFiniteSet(I)
  PROVE  /\ Cardinality(I) \in Nat
         /\ \A i \in I : UpTo(I, i) \in 1..Cardinality(I)
         /\ \A i, j \in I : i < j => UpTo(I, i) < UpTo(I, j)
         /\ \A k \in 1..Cardinality(I) : \E i \in I : UpTo(I, i) = k
  <1>. DEFINE n == Cardinality(I)
              rank == [i \in I |-> UpTo(I, i)]
  <1>1. n \in Nat
    BY FS_CardinalityType
  <1>2. \A i \in I : UpTo(I, i) \in 1..n
    <2>1. ASSUME NEW i \in I PROVE UpTo(I, i) \in 1..n
      <3>. DEFINE Q == {j \in I : j <= i}
      <3>1. Q \in SUBSET I /\ i \in Q /\ UpTo(I, i) = Cardinality(Q)
        BY DEF UpTo
      <3>. HIDE DEF Q
      <3>2. /\ IsFiniteSet(Q) /\ Cardinality(Q) <= n /\ Cardinality(Q) \in Nat /\ Cardinality(Q) # 0
        BY <3>1, FS_Subset, FS_CardinalityType, FS_EmptySet
      <3>. HIDE DEF n
      <3>. QED  BY <1>1, <3>1, <3>2
    <2>. QED  BY <2>1
  <1>3. \A i, j \in I : i < j => UpTo(I, i) < UpTo(I, j)
    <2>1. ASSUME NEW i \in I, NEW j \in I, i < j PROVE UpTo(I, i) < UpTo(I, j)
      <3>. DEFINE P == {x \in I : x <= i}
                  Q == {x \in I : x <= j}
      <3>1. P \in SUBSET Q /\ Q \in SUBSET I /\ j \in Q /\ j \notin P
        <4>1. \A x \in I : x <= i => x <= j
          BY <2>1
        <4>2. j <= j /\ ~(j <= i)
          BY <2>1
        <4>. QED  BY <4>1, <4>2
      <3>2. UpTo(I, i) = Cardinality(P) /\ UpTo(I, j) = Cardinality(Q)
        BY DEF UpTo
      <3>. HIDE DEF P, Q
      <3>3. IsFiniteSet(Q)
        BY <3>1, FS_Subset
      <3>4. Cardinality(P) <= Cardinality(Q) /\ Cardinality(P) # Cardinality(Q)
        BY <3>1, <3>3, FS_Subset
      <3>5. UpTo(I, i) \in Nat /\ UpTo(I, j) \in Nat
        <4>. HIDE DEF n
        <4>. QED  BY <1>1, <1>2
      <3>. QED  BY <3>2, <3>4, <3>5
    <2>. QED  BY <2>1
  <1>4. \A k \in 1..n : \E i \in I : UpTo(I, i) = k
    <2>1. rank \in [I -> 1..n] /\ \A i \in I : rank[i] = UpTo(I, i)
      BY <1>2
    <2>. HIDE DEF rank, n
    <2>2. \A i, j \in I : rank[i] = rank[j] => i = j
      <3>1. ASSUME NEW i \in I, NEW j \in I, rank[i] = rank[j] PROVE i = j
        <4>1. i \in Nat /\ j \in Nat /\ UpTo(I, i) \in Nat /\ UpTo(I, j) \in Nat
          BY <1>1, <1>2
        <4>2. ~(UpTo(I, i) < UpTo(I, j)) /\ ~(UpTo(I, j) < UpTo(I, i))
          BY <2>1, <3>1, <4>1
        <4>. QED  BY <1>3, <4>1, <4>2
      <3>. QED  BY <3>1
    <2>3. rank \in Injection(I, 1..n)
      BY <2>1, <2>2 DEF Injection, IsInjective
    <2>4. IsFiniteSet(1..n) /\ Cardinality(1..n) = n
      BY <1>1, FS_Interval
    <2>5. rank \in Surjection(I, 1..n)
      BY <2>3, <2>4, FS_Injection DEF n
    <2>. QED  BY <2>1, <2>5 DEF Surjection
  <1>. QED  BY <1>1, <1>2, <1>3, <1>4

(* The k-th place is the only one with k up to it. *)
LEMMA PlaceIsUnique ==
  ASSUME NEW I \in SUBSET Nat, IsFiniteSet(I), NEW i \in I
  PROVE  Place(I, UpTo(I, i)) = i
  <1>1. ASSUME NEW j \in I, UpTo(I, j) = UpTo(I, i) PROVE j = i
    <2>1. i \in Nat /\ j \in Nat /\ UpTo(I, i) \in Nat /\ UpTo(I, j) \in Nat
      BY PlacesCount
    <2>2. ~(UpTo(I, i) < UpTo(I, j)) /\ ~(UpTo(I, j) < UpTo(I, i))
      BY <1>1, <2>1
    <2>. QED  BY <2>1, <2>2, PlacesCount
  <1>. QED  BY <1>1 DEF Place

(* What is decoded is among the bytes. *)
LEMMA DecodedIsAmong ==
  ASSUME NEW S, NEW s \in Seq(S)
  PROVE  /\ Events(s) \in SUBSET Nat /\ IsFiniteSet(Events(s))
         /\ \A i \in Events(s) : i \in 1..Len(s)
         /\ decodeSseFrames(s) \in Seq(S)
         /\ Len(decodeSseFrames(s)) = Cardinality(Events(s))
         /\ \A k \in 1..Cardinality(Events(s)) : \E i \in Events(s) :
              decodeSseFrames(s)[k] = s[i] /\ UpTo(Events(s), i) = k
  <1>. DEFINE I == Events(s)
              n == Cardinality(I)
              d == decodeSseFrames(s)
  <1>1. Len(s) \in Nat /\ DOMAIN s = 1..Len(s) /\ \A i \in 1..Len(s) : s[i] \in S
    BY ElementOfSeq, LenProperties
  <1>2. I \in SUBSET (1..Len(s))
    BY <1>1 DEF Events
  <1>3. IsFiniteSet(I) /\ I \in SUBSET Nat
    <2>1. IsFiniteSet(1..Len(s))
      BY <1>1, FS_Interval
    <2>2. I \in SUBSET Nat
      BY <1>1, <1>2
    <2>. HIDE DEF I
    <2>3. IsFiniteSet(I)
      BY <1>2, <2>1, FS_Subset
    <2>. QED  BY <2>2, <2>3
  <1>4. n \in Nat /\ \A k \in 1..n : \E i \in I : UpTo(I, i) = k
    <2>. HIDE DEF I
    <2>. QED  BY <1>3, PlacesCount
  <1>5. d = [k \in 1..n |-> s[Place(I, k)]]
    BY DEF decodeSseFrames
  <1>. HIDE DEF I, n, d
  <1>6. ASSUME NEW k \in 1..n
        PROVE  \E i \in I : d[k] = s[i] /\ UpTo(I, i) = k
    <2>1. PICK i \in I : UpTo(I, i) = k
      BY <1>4
    <2>2. Place(I, k) = i
      BY <1>3, <2>1, PlaceIsUnique
    <2>. QED  BY <1>5, <2>1, <2>2
  <1>7. \A k \in 1..n : d[k] \in S
    BY <1>1, <1>2, <1>6
  <1>8. d \in Seq(S) /\ Len(d) = n
    <2>1. DOMAIN d = 1..n /\ d = [k \in 1..n |-> d[k]]
      BY <1>5
    <2>. QED  BY <1>4, <1>7, <2>1
  <1>. QED  BY <1>2, <1>3, <1>6, <1>8 DEF I, n, d

(* The places of a sequence put behind another are moved by its length. *)
LEMMA PlacesShift ==
  ASSUME NEW J \in SUBSET Nat, IsFiniteSet(J), NEW n \in Nat
  PROVE  LET T == {n + j : j \in J}
         IN  IsFiniteSet(T) /\ Cardinality(T) = Cardinality(J)
  <1>. DEFINE T == {n + j : j \in J}
              f == [j \in J |-> n + j]
  <1>1. f \in [J -> T] /\ \A j \in J : f[j] = n + j
    OBVIOUS
  <1>2. \A t \in T : \E j \in J : f[j] = t
    OBVIOUS
  <1>3. \A i, j \in J : f[i] = f[j] => i = j
    <2>1. ASSUME NEW i \in J, NEW j \in J, f[i] = f[j] PROVE i = j
      <3>1. i \in Nat /\ j \in Nat /\ n + i = n + j
        BY <1>1, <2>1
      <3>. QED  BY <3>1
    <2>. QED  BY <2>1
  <1>. HIDE DEF f, T
  <1>4. f \in Bijection(J, T)
    BY <1>1, <1>2, <1>3 DEF Bijection, Injection, Surjection, IsInjective
  <1>5. ExistsBijection(J, T)
    BY <1>4 DEF ExistsBijection
  <1>. QED  BY <1>5, FS_Bijection DEF T

(* To decode two pieces is to decode each. *)
LEMMA DecodeConcat ==
  ASSUME NEW S, NEW s \in Seq(S), NEW t \in Seq(S)
  PROVE  decodeSseFrames(s \o t) = decodeSseFrames(s) \o decodeSseFrames(t)
  <1>. DEFINE u == s \o t
              I == Events(s)
              J == Events(t)
              K == Events(u)
              m == Len(s)
              T == {m + j : j \in J}
              a == decodeSseFrames(s)
              b == decodeSseFrames(t)
              c == decodeSseFrames(u)
  <1>1. /\ m \in Nat /\ Len(t) \in Nat
        /\ u \in Seq(S) /\ Len(u) = m + Len(t)
        /\ \A i \in 1..m : u[i] = s[i]
        /\ \A j \in 1..Len(t) : u[m + j] = t[j]
        /\ DOMAIN s = 1..m /\ DOMAIN t = 1..Len(t) /\ DOMAIN u = 1..(m + Len(t))
    <2>1. m \in Nat /\ Len(t) \in Nat /\ DOMAIN s = 1..m /\ DOMAIN t = 1..Len(t)
      BY LenProperties
    <2>2. u \in Seq(S) /\ Len(u) = m + Len(t)
      BY ConcatProperties
    <2>3. \A i \in 1..(m + Len(t)) : u[i] = IF i <= m THEN s[i] ELSE t[i - m]
      BY ConcatProperties
    <2>4. DOMAIN u = 1..(m + Len(t))
      BY <2>2, LenProperties
    <2>. HIDE DEF u, m
    <2>5. \A i \in 1..m : u[i] = s[i]
      BY <2>1, <2>3
    <2>6. ASSUME NEW j \in 1..Len(t) PROVE u[m + j] = t[j]
      <3>1. m + j \in 1..(m + Len(t)) /\ ~(m + j <= m) /\ (m + j) - m = j
        BY <2>1
      <3>. QED  BY <2>3, <3>1
    <2>. QED  BY <2>1, <2>2, <2>4, <2>5, <2>6
  <1>2. /\ I \in SUBSET Nat /\ IsFiniteSet(I) /\ \A i \in I : i \in 1..m
        /\ J \in SUBSET Nat /\ IsFiniteSet(J) /\ \A j \in J : j \in 1..Len(t)
        /\ K \in SUBSET Nat /\ IsFiniteSet(K)
        /\ a \in Seq(S) /\ b \in Seq(S) /\ c \in Seq(S)
        /\ Len(a) = Cardinality(I) /\ Len(b) = Cardinality(J) /\ Len(c) = Cardinality(K)
    <2>. HIDE DEF u
    <2>. QED  BY <1>1, DecodedIsAmong
  <1>3. \A i : i \in K <=> i \in I \/ i \in T
    <2>1. ASSUME NEW i \in I PROVE i \in K
      BY <1>1, <1>2, <2>1 DEF Events
    <2>2. ASSUME NEW j \in J PROVE m + j \in K
      <3>1. j \in 1..Len(t) /\ t[j] \notin {"nl", "ping"}
        BY <1>1 DEF Events
      <3>2. m + j \in 1..(m + Len(t)) /\ u[m + j] = t[j]
        BY <1>1, <3>1
      <3>. QED  BY <1>1, <3>1, <3>2 DEF Events
    <2>3. ASSUME NEW i \in K PROVE i \in I \/ \E j \in J : i = m + j
      <3>1. i \in 1..(m + Len(t)) /\ u[i] \notin {"nl", "ping"}
        BY <1>1 DEF Events
      <3>2. CASE i <= m
        <4>1. i \in 1..m
          BY <1>1, <3>1, <3>2
        <4>. QED  BY <1>1, <3>1, <4>1 DEF Events
      <3>3. CASE ~(i <= m)
        <4>1. i - m \in 1..Len(t) /\ i = m + (i - m)
          BY <1>1, <3>1, <3>3
        <4>2. u[i] = t[i - m]
          BY <1>1, <4>1
        <4>3. i - m \in J
          BY <1>1, <3>1, <4>1, <4>2 DEF Events
        <4>. QED  BY <4>1, <4>3
      <3>. QED  BY <3>2, <3>3
    <2>. HIDE DEF I, J, K, m
    <2>. QED  BY <2>1, <2>2, <2>3
  <1>4. IsFiniteSet(T) /\ Cardinality(T) = Cardinality(J)
    <2>. HIDE DEF J, m
    <2>. QED  BY <1>1, <1>2, PlacesShift
  <1>. HIDE DEF I, J, K, m, u, a, b, c
  <1>5. \A x \in T : x \in Nat /\ x > m
    <2>1. ASSUME NEW j \in J PROVE m + j \in Nat /\ m + j > m
      <3>1. j \in Nat /\ j >= 1
        BY <1>1, <1>2
      <3>. QED  BY <1>1, <3>1
    <2>. QED  BY <2>1
  <1>6. /\ Cardinality(I) \in Nat /\ Cardinality(J) \in Nat /\ Cardinality(K) = Cardinality(I) + Cardinality(J)
    <2>1. K = I \cup T /\ I \cap T = {}
      <3>1. \A i \in I : i \notin T
        BY <1>1, <1>2, <1>5
      <3>. HIDE DEF T
      <3>. QED  BY <1>3, <3>1
    <2>. HIDE DEF T
    <2>2. Cardinality(I) \in Nat /\ Cardinality(J) \in Nat
      BY <1>2, FS_CardinalityType
    <2>3. Cardinality(I \cup T) = Cardinality(I) + Cardinality(T) - Cardinality(I \cap T)
      BY <1>2, <1>4, FS_Union
    <2>4. Cardinality(I \cap T) = 0 /\ Cardinality(K) = Cardinality(I \cup T)
      BY <2>1, FS_EmptySet
    <2>. QED  BY <1>4, <2>2, <2>3, <2>4
  <1>7. ASSUME NEW i \in I PROVE UpTo(K, i) = UpTo(I, i)
    <2>1. \A x : (x \in K /\ x <= i) <=> (x \in I /\ x <= i)
      BY <1>1, <1>2, <1>3, <1>5
    <2>2. {x \in K : x <= i} = {x \in I : x <= i}
      BY <2>1
    <2>. QED  BY <2>2 DEF UpTo
  <1>8. ASSUME NEW j \in J PROVE UpTo(K, m + j) = Cardinality(I) + UpTo(J, j)
    <2>. DEFINE Q == {x \in J : x <= j}
                R == {m + x : x \in Q}
                P == {x \in K : x <= m + j}
    <2>1. Q \in SUBSET Nat /\ Q \in SUBSET J /\ UpTo(J, j) = Cardinality(Q)
      BY <1>2 DEF UpTo
    <2>2. IsFiniteSet(Q)
      <3>. HIDE DEF Q
      <3>. QED  BY <1>2, <2>1, FS_Subset
    <2>3. IsFiniteSet(R) /\ Cardinality(R) = Cardinality(Q)
      <3>. HIDE DEF Q
      <3>. QED  BY <1>1, <2>1, <2>2, PlacesShift
    <2>4. \A x : x \in P <=> x \in I \/ x \in R
      <3>1. ASSUME NEW x \in P PROVE x \in I \/ x \in R
        <4>1. CASE x \in I
          BY <4>1
        <4>2. CASE x \in T
          <5>1. PICK y \in J : x = m + y
            BY <4>2
          <5>2. y \in Nat /\ j \in Nat /\ m + y <= m + j
            BY <1>2, <3>1, <5>1
          <5>3. y <= j
            BY <1>1, <5>2
          <5>. QED  BY <5>1, <5>3
        <4>. QED  BY <1>3, <4>1, <4>2
      <3>2. ASSUME NEW x \in I PROVE x \in P
        <4>1. x <= m + j
          BY <1>1, <1>2
        <4>. QED  BY <1>3, <4>1
      <3>3. ASSUME NEW x \in R PROVE x \in P
        <4>1. PICK y \in Q : x = m + y
          OBVIOUS
        <4>2. y \in J /\ y <= j /\ y \in Nat /\ j \in Nat
          BY <1>2
        <4>3. m + y <= m + j
          BY <1>1, <4>2
        <4>. QED  BY <1>3, <4>1, <4>2, <4>3
      <3>. HIDE DEF P, R
      <3>. QED  BY <3>1, <3>2, <3>3
    <2>5. \A x \in R : x \notin I
      <3>1. \A x \in R : x \in T
        OBVIOUS
      <3>. HIDE DEF R, T
      <3>2. \A x \in R : x \in Nat /\ x > m
        BY <1>5, <3>1
      <3>3. \A x \in I : x \in Nat /\ x <= m
        BY <1>1, <1>2
      <3>. QED  BY <1>1, <3>2, <3>3
    <2>6. P = I \cup R /\ I \cap R = {}
      <3>. HIDE DEF P, R
      <3>. QED  BY <2>4, <2>5
    <2>7. UpTo(K, m + j) = Cardinality(P)
      BY DEF UpTo
    <2>. HIDE DEF P, Q, R
    <2>8. Cardinality(P) = Cardinality(I) + Cardinality(R)
      <3>1. Cardinality(I \cup R) = Cardinality(I) + Cardinality(R) - Cardinality(I \cap R)
        BY <1>2, <2>3, FS_Union
      <3>2. Cardinality(I) \in Nat /\ Cardinality(R) \in Nat
        BY <1>2, <2>3, FS_CardinalityType
      <3>3. Cardinality(I \cap R) = 0 /\ Cardinality(P) = Cardinality(I \cup R)
        BY <2>6, FS_EmptySet
      <3>. QED  BY <3>1, <3>2, <3>3
    <2>. QED  BY <2>1, <2>3, <2>7, <2>8
  <1>9. ASSUME NEW k \in 1..Cardinality(I) PROVE c[k] = a[k]
    <2>1. PICK i \in I : a[k] = s[i] /\ UpTo(I, i) = k
      BY DecodedIsAmong DEF a, I
    <2>2. i \in K /\ UpTo(K, i) = k /\ u[i] = s[i]
      BY <1>1, <1>2, <1>3, <1>7, <2>1
    <2>3. Place(K, k) = i
      BY <1>2, <2>2, PlaceIsUnique
    <2>4. k \in 1..Cardinality(K)
      BY <1>6
    <2>5. c[k] = u[Place(K, k)]
      BY <2>4 DEF c, K, decodeSseFrames
    <2>. QED  BY <2>1, <2>2, <2>3, <2>5
  <1>10. ASSUME NEW k \in 1..Cardinality(J) PROVE c[Cardinality(I) + k] = b[k]
    <2>1. PICK j \in J : b[k] = t[j] /\ UpTo(J, j) = k
      BY DecodedIsAmong DEF b, J
    <2>2. m + j \in K /\ UpTo(K, m + j) = Cardinality(I) + k /\ u[m + j] = t[j]
      <3>1. m + j \in T /\ j \in 1..Len(t)
        BY <1>2
      <3>. HIDE DEF T
      <3>. QED  BY <1>1, <1>3, <1>8, <2>1, <3>1
    <2>3. Place(K, Cardinality(I) + k) = m + j
      BY <1>2, <2>2, PlaceIsUnique
    <2>4. Cardinality(I) + k \in 1..Cardinality(K)
      BY <1>6
    <2>5. c[Cardinality(I) + k] = u[Place(K, Cardinality(I) + k)]
      BY <2>4 DEF c, K, decodeSseFrames
    <2>. QED  BY <2>1, <2>2, <2>3, <2>5
  <1>11. c = a \o b
    <2>. DEFINE d == a \o b
                p == Cardinality(I)
                q == Cardinality(J)
    <2>1. /\ d \in Seq(S) /\ Len(d) = p + q
          /\ \A k \in 1..(p + q) : d[k] = IF k <= p THEN a[k] ELSE b[k - p]
      <3>1. a \in Seq(S) /\ b \in Seq(S) /\ Len(a) = p /\ Len(b) = q
        BY <1>2
      <3>. HIDE DEF p, q
      <3>2. /\ a \o b \in Seq(S) /\ Len(a \o b) = Len(a) + Len(b)
            /\ \A k \in 1..(Len(a) + Len(b)) : (a \o b)[k] = IF k <= Len(a) THEN a[k] ELSE b[k - Len(a)]
        BY <3>1, ConcatProperties
      <3>. QED  BY <3>1, <3>2
    <2>2. p \in Nat /\ q \in Nat /\ Len(c) = p + q
      BY <1>2, <1>6
    <2>. HIDE DEF d, p, q
    <2>3. ASSUME NEW k \in 1..(p + q) PROVE c[k] = d[k]
      <3>1. CASE k <= p
        <4>1. k \in 1..p
          BY <2>2, <3>1
        <4>2. c[k] = a[k]
          BY <1>9, <4>1 DEF p
        <4>. QED  BY <2>1, <3>1, <4>2
      <3>2. CASE ~(k <= p)
        <4>1. k - p \in 1..q /\ p + (k - p) = k
          BY <2>2, <3>2
        <4>2. c[p + (k - p)] = b[k - p]
          BY <1>10, <4>1 DEF p, q
        <4>. QED  BY <2>1, <3>2, <4>1, <4>2
      <3>. QED  BY <3>1, <3>2
    <2>4. c = d
      BY <1>2, <2>1, <2>2, <2>3, SeqEqual
    <2>. QED  BY <2>4 DEF d
  <1>. QED  BY <1>11 DEF a, b, c, u

(* One item: an event, or what no event comes of. *)
LEMMA DecodeOne ==
  ASSUME NEW S, NEW x \in S
  PROVE  decodeSseFrames(<<x>>) = IF x \in {"nl", "ping"} THEN <<>> ELSE <<x>>
  <1>. DEFINE s == <<x>>
              I == Events(s)
              d == decodeSseFrames(s)
  <1>1. s \in Seq(S) /\ Len(s) = 1 /\ s[1] = x /\ DOMAIN s = 1..1
    OBVIOUS
  <1>2. I = IF x \in {"nl", "ping"} THEN {} ELSE {1}
    <2>. HIDE DEF s
    <2>1. 1..1 = {1}
      OBVIOUS
    <2>. QED  BY <1>1, <2>1 DEF Events
  <1>3. /\ d \in Seq(S) /\ Len(d) = Cardinality(I)
        /\ \A k \in 1..Cardinality(I) : \E i \in I : d[k] = s[i] /\ UpTo(I, i) = k
    <2>. HIDE DEF s
    <2>. QED  BY <1>1, DecodedIsAmong
  <1>. HIDE DEF s, I, d
  <1>4. CASE x \in {"nl", "ping"}
    <2>1. Len(d) = 0
      BY <1>2, <1>3, <1>4, FS_EmptySet
    <2>2. d = <<>>
      BY <1>3, <2>1, EmptySeq
    <2>. QED  BY <1>4, <2>2 DEF d, s
  <1>5. CASE x \notin {"nl", "ping"}
    <2>1. Cardinality({1}) = 1
      BY FS_Singleton
    <2>2. I = {1} /\ Len(d) = 1
      BY <1>2, <1>3, <1>5, <2>1
    <2>3. d[1] = x
      BY <1>1, <1>3, <2>1, <2>2
    <2>4. d = <<x>>
      <3>1. <<x>> \in Seq(S) /\ Len(<<x>>) = 1 /\ <<x>>[1] = x
        OBVIOUS
      <3>. QED  BY <1>3, <2>2, <2>3, <3>1, SeqEqual
    <2>. QED  BY <1>5, <2>4 DEF d, s
  <1>. QED  BY <1>4, <1>5

(* Nothing comes of nothing. *)
LEMMA DecodeNothing ==
  decodeSseFrames(<<>>) = <<>>
  <1>1. <<>> \in Seq({}) /\ Events(<<>>) = {}
    BY DEF Events
  <1>2. decodeSseFrames(<<>>) \in Seq({}) /\ Len(decodeSseFrames(<<>>)) = 0
    BY <1>1, DecodedIsAmong, FS_EmptySet
  <1>. QED  BY <1>2, EmptySeq

(* A frame is decoded to the event that was put in it. *)
LEMMA DecodeFrame ==
  ASSUME NEW S, NEW x \in S, "nl" \in S
  PROVE  /\ Frame(x) \in Seq(S)
         /\ decodeSseFrames(Frame(x)) = decodeSseFrames(<<x>>)
  <1>1. Frame(x) = <<x>> \o (<<"nl">> \o <<"nl">>) /\ Frame(x) \in Seq(S)
    BY DEF Frame
  <1>2. <<x>> \in Seq(S) /\ <<"nl">> \in Seq(S) /\ <<"nl">> \o <<"nl">> \in Seq(S)
    OBVIOUS
  <1>3. decodeSseFrames(<<"nl">>) = <<>>
    BY DecodeOne
  <1>4. decodeSseFrames(<<"nl">> \o <<"nl">>) = <<>> \o <<>>
    BY <1>2, <1>3, DecodeConcat
  <1>5. decodeSseFrames(Frame(x)) = decodeSseFrames(<<x>>) \o <<>>
    <2>1. <<>> \o <<>> = <<>>
      OBVIOUS
    <2>. QED  BY <1>1, <1>2, <1>4, <2>1, DecodeConcat
  <1>6. decodeSseFrames(<<x>>) \in Seq(S)
    BY <1>2, DecodedIsAmong
  <1>. QED  BY <1>1, <1>5, <1>6, ConcatEmptySeq

(* There is a last one. *)
LEMMA GreatestExists ==
  ASSUME NEW n \in Nat, NEW D \in SUBSET (1..n), D # {}
  PROVE  Max(D) \in D /\ \A d \in D : d <= Max(D)
  <1>. DEFINE less == {pair \in Nat \X Nat : pair[1] < pair[2]}
              C == {n - d : d \in D}
  <1>1. \A i, j \in Nat : <<i, j>> \in less <=> i < j
    OBVIOUS
  <1>2. IsWellFoundedOn(less, Nat)
    BY NatLessThanWellFounded DEF OpToRel
  <1>. HIDE DEF less
  <1>3. C \subseteq Nat /\ C # {}
    <2>1. ASSUME NEW d \in D PROVE n - d \in Nat
      <3>1. d \in 1..n
        OBVIOUS
      <3>. QED  BY <3>1
    <2>2. PICK d \in D : TRUE
      OBVIOUS
    <2>3. n - d \in C
      BY Zenon
    <2>. QED  BY <2>1, <2>3, Zenon
  <1>4. PICK c \in C : \A i \in C : <<i, c>> \notin less
    <2>. HIDE DEF C
    <2>. QED  BY <1>2, <1>3, WFMin
  <1>5. PICK m \in D : c = n - m
    BY <1>4
  <1>6. ASSUME NEW d \in D PROVE d <= m
    <2>0. n - d \in C
      BY Zenon
    <2>. HIDE DEF C
    <2>1. d \in 1..n /\ m \in 1..n
      OBVIOUS
    <2>2. n - d \in Nat /\ n - m \in Nat /\ d \in Nat /\ m \in Nat
      BY <2>1
    <2>3. ~(n - d < n - m)
      BY <1>1, <1>4, <1>5, <2>0, <2>2
    <2>. QED  BY <2>2, <2>3
  <1>. QED  BY <1>6 DEF Max

(* Nothing is lost or said twice where the buffer is cut. *)
LEMMA DecodeCuts ==
  ASSUME NEW S, "nl" \in S, NEW bytes \in Seq(S)
  PROVE  /\ decoded(bytes) \in Seq(S) /\ rest(bytes) \in Seq(S)
         /\ decodeSseFrames(bytes) = decoded(bytes) \o decodeSseFrames(rest(bytes))
         /\ \A i \in DOMAIN decoded(bytes) : \E j \in DOMAIN bytes : decoded(bytes)[i] = bytes[j]
         /\ \A i \in DOMAIN rest(bytes) : \E j \in DOMAIN bytes : rest(bytes)[i] = bytes[j]
  <1>1. Len(bytes) \in Nat /\ DOMAIN bytes = 1..Len(bytes) /\ \A i \in 1..Len(bytes) : bytes[i] \in S
    BY LenProperties, ElementOfSeq
  <1>2. CASE Empties(bytes) = {}
    <2>1. decoded(bytes) = <<>> /\ rest(bytes) = bytes
      BY <1>2 DEF decoded, rest
    <2>2. decodeSseFrames(bytes) \in Seq(S)
      BY DecodedIsAmong
    <2>3. DOMAIN <<>> = {} /\ <<>> \in Seq(S)
      OBVIOUS
    <2>. QED  BY <2>1, <2>2, <2>3, ConcatEmptySeq
  <1>3. CASE Empties(bytes) # {}
    <2>. DEFINE m == Max(Empties(bytes))
                front == SubSeq(bytes, 1, m)
                gap == SubSeq(bytes, m + 1, m + 1)
                back == SubSeq(bytes, m + 2, Len(bytes))
    <2>1. decoded(bytes) = decodeSseFrames(front) /\ rest(bytes) = back
      BY <1>3 DEF decoded, rest
    <2>2. m \in 1..(Len(bytes) - 1) /\ bytes[m + 1] = "nl"
      <3>1. Len(bytes) \in Nat \ {0}
        BY <1>1, <1>3 DEF Empties
      <3>2. Empties(bytes) \in SUBSET (1..Len(bytes))
        BY <1>1 DEF Empties
      <3>3. m \in Empties(bytes)
        BY <1>1, <1>3, <3>2, GreatestExists
      <3>. QED  BY <3>3 DEF Empties
    <2>. HIDE DEF m
    <2>3. /\ front \in Seq(S) /\ Len(front) = m /\ \A i \in 1..m : front[i] = bytes[i]
      <3>1. \A i \in 1..m : bytes[i] \in S
        BY <1>1, <2>2
      <3>2. /\ front \in Seq(S) /\ Len(front) = IF 1 <= m THEN m - 1 + 1 ELSE 0
            /\ \A i \in 1..(m - 1 + 1) : front[i] = bytes[1 + i - 1]
        BY <2>2, <3>1, SubSeqProperties
      <3>. HIDE DEF front
      <3>. QED  BY <2>2, <3>2
    <2>4. gap = <<"nl">>
      <3>1. \A i \in (m + 1)..(m + 1) : bytes[i] \in S
        BY <1>1, <2>2
      <3>2. /\ gap \in Seq(S) /\ Len(gap) = IF m + 1 <= m + 1 THEN (m + 1) - (m + 1) + 1 ELSE 0
            /\ \A i \in 1..((m + 1) - (m + 1) + 1) : gap[i] = bytes[(m + 1) + i - 1]
        BY <2>2, <3>1, SubSeqProperties
      <3>. HIDE DEF gap
      <3>3. Len(gap) = 1 /\ gap[1] = "nl"
        BY <2>2, <3>2
      <3>4. <<"nl">> \in Seq(S) /\ Len(<<"nl">>) = 1 /\ <<"nl">>[1] = "nl"
        OBVIOUS
      <3>. QED  BY <3>2, <3>3, <3>4, SeqEqual
    <2>5. /\ back \in Seq(S) /\ Len(back) \in Nat /\ DOMAIN back = 1..Len(back)
          /\ \A i \in 1..Len(back) : (m + 1) + i \in 1..Len(bytes) /\ back[i] = bytes[(m + 1) + i]
      <3>1. \A i \in (m + 2)..Len(bytes) : bytes[i] \in S
        BY <1>1, <2>2
      <3>2. /\ back \in Seq(S) /\ Len(back) = IF m + 2 <= Len(bytes) THEN Len(bytes) - (m + 2) + 1 ELSE 0
            /\ \A i \in 1..(Len(bytes) - (m + 2) + 1) : back[i] = bytes[(m + 2) + i - 1]
        BY <1>1, <2>2, <3>1, SubSeqProperties
      <3>3. Len(back) \in Nat /\ DOMAIN back = 1..Len(back)
        BY <3>2, LenProperties
      <3>. HIDE DEF back
      <3>4. ASSUME NEW i \in 1..Len(back)
            PROVE  (m + 1) + i \in 1..Len(bytes) /\ back[i] = bytes[(m + 1) + i]
        <4>0. Len(back) = Len(bytes) - m - 1
          <5>1. CASE m + 2 <= Len(bytes)
            BY <1>1, <2>2, <3>2, <5>1
          <5>2. CASE ~(m + 2 <= Len(bytes))
            <6>1. Len(back) = 0
              BY <3>2, <5>2
            <6>2. PICK l \in Nat : l = Len(bytes)
              BY <1>1, Zenon
            <6>3. m \in 1..(l - 1) /\ ~(m + 2 <= l)
              BY <2>2, <5>2, <6>2
            <6>4. l - m - 1 = 0
              BY <6>3
            <6>. QED  BY <6>1, <6>2, <6>4
          <5>. QED  BY <5>1, <5>2
        <4>1. i \in 1..(Len(bytes) - (m + 2) + 1)
          BY <1>1, <2>2, <4>0
        <4>2. (m + 2) + i - 1 = (m + 1) + i /\ (m + 1) + i \in 1..Len(bytes)
          BY <1>1, <2>2, <4>1
        <4>. QED  BY <3>2, <4>1, <4>2
      <3>. QED  BY <3>2, <3>3, <3>4
    <2>6. bytes = front \o (gap \o back)
      <3>1. gap \o back = SubSeq(bytes, m + 1, Len(bytes))
        <4>1. m + 1 \in 1..(Len(bytes) + 1) /\ m + 1 \in ((m + 1) - 1)..Len(bytes) /\ Len(bytes) \in (m + 1)..Len(bytes)
              /\ (m + 1) + 1 = m + 2
          BY <1>1, <2>2
        <4>2. SubSeq(bytes, m + 1, m + 1) \o SubSeq(bytes, (m + 1) + 1, Len(bytes)) = SubSeq(bytes, m + 1, Len(bytes))
          BY <4>1, ConcatAdjacentSubSeq
        <4>. QED  BY <4>1, <4>2
      <3>2. front \o SubSeq(bytes, m + 1, Len(bytes)) = SubSeq(bytes, 1, Len(bytes))
        <4>1. 1 \in 1..(Len(bytes) + 1) /\ m \in (1 - 1)..Len(bytes) /\ Len(bytes) \in m..Len(bytes)
          BY <1>1, <2>2
        <4>. QED  BY <4>1, ConcatAdjacentSubSeq
      <3>3. SubSeq(bytes, 1, Len(bytes)) = bytes
        BY SubSeqFull
      <3>. QED  BY <3>1, <3>2, <3>3
    <2>. HIDE DEF front, gap, back
    <2>7. decodeSseFrames(bytes) = decodeSseFrames(front) \o decodeSseFrames(back)
      <3>1. gap \in Seq(S) /\ decodeSseFrames(gap) = <<>>
        BY <2>4, DecodeOne
      <3>2. gap \o back \in Seq(S)
        BY <2>5, <3>1, ConcatProperties
      <3>3. decodeSseFrames(bytes) = decodeSseFrames(front) \o decodeSseFrames(gap \o back)
        BY <2>3, <2>6, <3>2, DecodeConcat
      <3>4. decodeSseFrames(gap \o back) = <<>> \o decodeSseFrames(back)
        BY <2>5, <3>1, DecodeConcat
      <3>5. decodeSseFrames(back) \in Seq(S)
        BY <2>5, DecodedIsAmong
      <3>. QED  BY <3>3, <3>4, <3>5, ConcatEmptySeq
    <2>8. decodeSseFrames(front) \in Seq(S)
      BY <2>3, DecodedIsAmong
    <2>9. \A i \in DOMAIN decodeSseFrames(front) : \E j \in DOMAIN bytes : decodeSseFrames(front)[i] = bytes[j]
      <3>1. DOMAIN decodeSseFrames(front) = 1..Cardinality(Events(front))
        BY DEF decodeSseFrames
      <3>2. ASSUME NEW i \in 1..Cardinality(Events(front))
            PROVE  \E j \in DOMAIN bytes : decodeSseFrames(front)[i] = bytes[j]
        <4>1. PICK j \in Events(front) : decodeSseFrames(front)[i] = front[j]
          BY <2>3, <3>2, DecodedIsAmong
        <4>2. j \in 1..m
          BY <2>3, DecodedIsAmong
        <4>3. j \in DOMAIN bytes
          BY <1>1, <2>2, <4>2
        <4>. QED  BY <2>3, <4>1, <4>2, <4>3
      <3>. QED  BY <3>1, <3>2
    <2>10. \A i \in DOMAIN back : \E j \in DOMAIN bytes : back[i] = bytes[j]
      BY <1>1, <2>5
    <2>. QED  BY <2>1, <2>5, <2>7, <2>8, <2>9, <2>10
  <1>. QED  BY <1>2, <1>3

Bytes == Spoken \cup {"nl"}

(* An event that says the run is over is found in no part of the stream     *)
(* before it is.                                                            *)
Tells(s) == \E i \in DOMAIN s : s[i] \in Ending

(* Where the call is, the stream has come as far. *)
AskOK ==
  /\ asking.at \in {"create", "stream"} => body = NoBody /\ sent = <<>> /\ buffer = <<>> /\ yielded = <<>>
  /\ body.at = "none" => asking.at # "read" /\ body.wire = <<>>
  /\ body.at = "broken" => body.wire = <<>>
  /\ body.next \in Nat \ {0}
  /\ asking.at = "create" /\ aborted => "unknown" \in unreported

(* What was sent is what was yielded and what is still to be decoded, until *)
(* the connection breaks.                                                   *)
Accounted ==
  IF body.at = "broken" THEN IsPrefix(yielded, decodeSseFrames(sent))
  ELSE decodeSseFrames(sent) = yielded \o decodeSseFrames(buffer \o body.wire)

SettledInv ==
  /\ Tells(owed) \/ Tells(eventLog) \/ Tells(buffer) \/ Tells(body.wire) => run \in Over
  /\ body.at = "ended" \/ asking.at = "retrieve" => run \in Over \/ "cut" \in unreported
  /\ asking.at = "returned" => asking.result \in Over \/ "cut" \in unreported
  /\ AbandonedRunStops

SdkInv == SdkTypeOK /\ AskOK /\ Accounted /\ SettledInv

Statuses == {"COMPLETE", "FAILED", "CANCELED", "FANNING_OUT", "QUEUED"}

(* The events, and which of them say that a run is over.                    *)
LEMMA Words ==
  /\ DOMAIN eventOf = Statuses /\ Over \subseteq Statuses /\ "none" \notin Statuses
  /\ \A s \in Statuses : eventOf[s] \in Spoken /\ (eventOf[s] \in Ending => s \in Over)
  /\ {"ping", "candidate.delta", "run.snapshot"} \subseteq Spoken
  /\ {"ping", "candidate.delta", "run.snapshot", "nl"} \cap Ending = {}
  /\ Spoken \subseteq Bytes /\ "nl" \in Bytes
  <1>1. DOMAIN eventOf = Statuses
    BY DEF eventOf, Statuses
  <1>2. /\ eventOf["COMPLETE"] = "run.completed" /\ eventOf["FAILED"] = "run.failed"
        /\ eventOf["CANCELED"] = "run.canceled" /\ eventOf["FANNING_OUT"] = "run.status"
        /\ eventOf["QUEUED"] = "run.snapshot"
    BY DEF eventOf
  <1>3. \A s \in Statuses : eventOf[s] \in Spoken
    BY <1>1 DEF Spoken
  <1>4. \A s \in Statuses : eventOf[s] \in Ending => s \in Over
    BY <1>2 DEF Statuses, Ending, Over
  <1>5. "run.snapshot" \in Spoken
    BY <1>2, <1>3 DEF Statuses
  <1>. QED  BY <1>1, <1>3, <1>4, <1>5 DEF Spoken, Bytes, Statuses, Over, Ending

(* What is put together tells what its parts tell. *)
LEMMA TellsParts ==
  ASSUME NEW S, NEW s \in Seq(S)
  PROVE  /\ \A t \in Seq(S) : Tells(s \o t) <=> Tells(s) \/ Tells(t)
         /\ \A x \in S : Tells(Append(s, x)) <=> Tells(s) \/ x \in Ending
         /\ s # <<>> => (Tells(s) <=> Head(s) \in Ending \/ Tells(Tail(s)))
         /\ ~Tells(<<>>)
  <1>0. Len(s) \in Nat /\ DOMAIN s = 1..Len(s)
    BY LenProperties
  <1>1. ASSUME NEW t \in Seq(S) PROVE Tells(s \o t) <=> Tells(s) \/ Tells(t)
    <2>1. Len(t) \in Nat /\ DOMAIN t = 1..Len(t)
      BY LenProperties
    <2>2. /\ DOMAIN (s \o t) = 1..(Len(s) + Len(t))
          /\ \A i \in 1..(Len(s) + Len(t)) : (s \o t)[i] = IF i <= Len(s) THEN s[i] ELSE t[i - Len(s)]
      <3>1. s \o t \in Seq(S) /\ Len(s \o t) = Len(s) + Len(t)
        BY ConcatProperties
      <3>2. DOMAIN (s \o t) = 1..(Len(s) + Len(t))
        BY <3>1, LenProperties
      <3>. QED  BY <3>2, ConcatProperties
    <2>. DEFINE u == s \o t
    <2>. HIDE DEF u
    <2>3. ASSUME NEW i \in DOMAIN s PROVE i \in DOMAIN u /\ u[i] = s[i]
      BY <1>0, <2>1, <2>2 DEF u
    <2>4. ASSUME NEW i \in DOMAIN t PROVE Len(s) + i \in DOMAIN u /\ u[Len(s) + i] = t[i]
      <3>1. /\ Len(s) + i \in 1..(Len(s) + Len(t)) /\ ~(Len(s) + i <= Len(s))
            /\ (Len(s) + i) - Len(s) = i
        BY <1>0, <2>1
      <3>. QED  BY <2>2, <3>1 DEF u
    <2>5. ASSUME NEW i \in DOMAIN u
          PROVE  (i \in DOMAIN s /\ u[i] = s[i]) \/ \E j \in DOMAIN t : u[i] = t[j]
      <3>1. i \in 1..(Len(s) + Len(t))
        BY <2>2 DEF u
      <3>2. CASE i <= Len(s)
        <4>1. i \in 1..Len(s)
          BY <1>0, <2>1, <3>1, <3>2
        <4>. QED  BY <1>0, <2>3, <4>1
      <3>3. CASE ~(i <= Len(s))
        <4>1. i - Len(s) \in 1..Len(t)
          BY <1>0, <2>1, <3>1, <3>3
        <4>. QED  BY <2>1, <2>2, <3>1, <3>3, <4>1 DEF u
      <3>. QED  BY <3>2, <3>3
    <2>6. Tells(u) <=> Tells(s) \/ Tells(t)
      BY <2>3, <2>4, <2>5 DEF Tells
    <2>. QED  BY <2>6 DEF u
  <1>2. ASSUME NEW x \in S PROVE Tells(Append(s, x)) <=> Tells(s) \/ x \in Ending
    <2>1. Append(s, x) = s \o <<x>> /\ <<x>> \in Seq(S)
      BY AppendIsConcat
    <2>2. Tells(<<x>>) <=> x \in Ending
      <3>1. DOMAIN <<x>> = {1} /\ <<x>>[1] = x
        OBVIOUS
      <3>. QED  BY <3>1 DEF Tells
    <2>. QED  BY <1>1, <2>1, <2>2
  <1>3. ASSUME s # <<>> PROVE Tells(s) <=> Head(s) \in Ending \/ Tells(Tail(s))
    <2>1. /\ Tail(s) \in Seq(S) /\ Len(Tail(s)) = Len(s) - 1 /\ Head(s) = s[1] /\ Len(s) # 0
          /\ \A i \in 1..Len(Tail(s)) : Tail(s)[i] = s[i + 1]
      BY <1>3, HeadTailProperties, EmptySeq
    <2>2. DOMAIN Tail(s) = 1..(Len(s) - 1)
      BY <2>1, LenProperties
    <2>. DEFINE t == Tail(s)
    <2>3. \A i \in DOMAIN t : i + 1 \in DOMAIN s /\ t[i] = s[i + 1]
      BY <1>0, <2>1, <2>2
    <2>4. \A i \in DOMAIN s : i = 1 \/ (i - 1 \in DOMAIN t /\ t[i - 1] = s[i])
      <3>1. ASSUME NEW i \in DOMAIN s, i # 1 PROVE i - 1 \in DOMAIN t /\ t[i - 1] = s[i]
        <4>1. i - 1 \in 1..(Len(s) - 1) /\ (i - 1) + 1 = i
          BY <1>0, <3>1
        <4>. QED  BY <2>1, <2>2, <4>1
      <3>. QED  BY <3>1
    <2>5. 1 \in DOMAIN s
      BY <1>0, <2>1
    <2>. HIDE DEF t
    <2>6. Tells(s) <=> s[1] \in Ending \/ Tells(t)
      BY <2>3, <2>4, <2>5 DEF Tells
    <2>. QED  BY <2>1, <2>6 DEF t
  <1>4. ~Tells(<<>>)
    <2>1. DOMAIN <<>> = {}
      OBVIOUS
    <2>. QED  BY <2>1 DEF Tells
  <1>. QED  BY <1>1, <1>2, <1>3, <1>4

(* What has the parts of another among its parts tells no more. *)
LEMMA TellsLess ==
  ASSUME NEW s, NEW t, \A i \in DOMAIN t : \E j \in DOMAIN s : t[i] = s[j], Tells(t)
  PROVE  Tells(s)
  BY DEF Tells

(* What begins a sequence is a prefix of it. *)
LEMMA BeginsIsPrefix ==
  ASSUME NEW S, NEW s \in Seq(S), NEW t \in Seq(S)
  PROVE  IsPrefix(s, s \o t)
  <1>1. /\ Len(s) \in Nat /\ Len(t) \in Nat /\ DOMAIN s = 1..Len(s)
        /\ s \o t \in Seq(S) /\ Len(s \o t) = Len(s) + Len(t)
        /\ \A i \in 1..(Len(s) + Len(t)) : (s \o t)[i] = IF i <= Len(s) THEN s[i] ELSE t[i - Len(s)]
    BY ConcatProperties, LenProperties
  <1>. DEFINE u == s \o t
  <1>2. DOMAIN u = 1..(Len(s) + Len(t))
    BY <1>1, LenProperties
  <1>3. \A i \in 1..Len(s) : i \in 1..(Len(s) + Len(t)) /\ u[i] = s[i]
    BY <1>1
  <1>. HIDE DEF u
  <1>4. IsPrefix(s, u)
    BY <1>1, <1>2, <1>3 DEF IsPrefix
  <1>. QED  BY <1>4 DEF u

Bodies == [at: {"none", "open", "ended", "broken"}, wire: Seq(Bytes), next: Nat]

Askings == [at: {"create", "stream", "read", "retrieve", "cancel", "returned", "threw"},
            tries: 0..MaxRetries, result: {"none"} \cup Statuses]

(* The types, with the records named.                                       *)
LEMMA SdkTypes ==
  ASSUME SdkTypeOK
  PROVE  /\ run \in Statuses \cup {"none"}
         /\ owed \in Seq(Spoken) /\ eventLog \in Seq(Spoken) /\ sent \in Seq(Spoken)
         /\ yielded \in Seq(Spoken) /\ buffer \in Seq(Bytes)
         /\ body \in Bodies /\ asking \in Askings
         /\ aborted \in BOOLEAN /\ ephemeral \in 0..MaxEphemeral
         /\ unreported \subseteq {"cut", "cancel", "unknown"}
  BY Words DEF SdkTypeOK, Bodies, Askings, Bytes

(* The call begins with nothing sent and nothing yielded.                   *)
LEMMA SdkInvStarts ==
  SdkInit => SdkInv
  <1>. SUFFICES ASSUME SdkInit PROVE SdkInv
    OBVIOUS
  <1>1. NoBody \in Bodies /\ NoBody.at = "none" /\ NoBody.wire = <<>> /\ NoBody.next = 1
    BY DEF NoBody, Bodies
  <1>2. /\ Waits("create") \in Askings /\ Waits("create").at = "create"
        /\ Waits("create").result = "none"
    BY SdkAssumption DEF Waits, Askings
  <1>3. \A S : <<>> \in Seq(S)
    OBVIOUS
  <1>4. SdkTypeOK
    <2>1. 0 \in 0..MaxEphemeral
      BY SdkAssumption
    <2>2. body \in Bodies /\ asking \in Askings /\ run = "none"
      BY <1>1, <1>2 DEF SdkInit
    <2>3. /\ owed = <<>> /\ eventLog = <<>> /\ sent = <<>> /\ buffer = <<>> /\ yielded = <<>>
          /\ aborted = FALSE /\ ephemeral = 0 /\ unreported = {}
      BY DEF SdkInit
    <2>. QED  BY <1>3, <2>1, <2>2, <2>3, Words DEF SdkTypeOK, Bodies, Askings, Bytes
  <1>5. AskOK
    BY <1>1, <1>2 DEF SdkInit, AskOK
  <1>6. Accounted
    <2>1. <<>> \o <<>> = <<>>
      OBVIOUS
    <2>. QED  BY <1>1, <2>1, DecodeNothing DEF SdkInit, Accounted
  <1>7. SettledInv
    BY <1>1, <1>2, <1>3, TellsParts DEF SdkInit, SettledInv, AbandonedRunStops
  <1>. QED  BY <1>4, <1>5, <1>6, <1>7 DEF SdkInv

(* A run that ends is over before its event is owed.                        *)
LEMMA ServerKeepsInv ==
  ASSUME SdkInv, ServerMoves
  PROVE  SdkInv'
  <1>0. SdkTypeOK /\ AskOK /\ Accounted /\ SettledInv
    BY DEF SdkInv
  <1>1. PICK status \in Statuses :
          /\ run \notin Over /\ (run = "none" => asking.at = "create")
          /\ run' = status /\ owed' = Append(owed, eventOf[status])
          /\ UNCHANGED <<eventLog, asking, aborted, unreported>> /\ UNCHANGED streamVars
    BY DEF ServerMoves, RunBecomes, Statuses, Over
  <1>2. eventOf[status] \in Spoken /\ (eventOf[status] \in Ending => status \in Over)
    BY Words
  <1>3. owed \in Seq(Spoken)
    BY <1>0, SdkTypes
  <1>4. owed' \in Seq(Spoken) /\ (Tells(owed') => Tells(owed) \/ eventOf[status] \in Ending)
    BY <1>1, <1>2, <1>3, TellsParts, AppendProperties
  <1>5. SdkTypeOK'
    BY <1>0, <1>1, <1>4, Words DEF SdkTypeOK, streamVars
  <1>6. AskOK' /\ Accounted'
    BY <1>0, <1>1 DEF AskOK, Accounted, streamVars
  <1>7. SettledInv'
    BY <1>0, <1>1, <1>2, <1>4 DEF SettledInv, AbandonedRunStops, streamVars, Tells
  <1>. QED  BY <1>5, <1>6, <1>7 DEF SdkInv

(* What is published was owed.                                              *)
LEMMA PublishKeepsInv ==
  ASSUME SdkInv, PublishEvents
  PROVE  SdkInv'
  <1>0. SdkTypeOK /\ AskOK /\ Accounted /\ SettledInv
    BY DEF SdkInv
  <1>1. /\ owed # <<>> /\ eventLog' = Append(eventLog, Head(owed)) /\ owed' = Tail(owed)
        /\ UNCHANGED <<run, asking, aborted, unreported>> /\ UNCHANGED streamVars
    BY DEF PublishEvents
  <1>2. owed \in Seq(Spoken) /\ eventLog \in Seq(Spoken)
    BY <1>0, SdkTypes
  <1>3. /\ Head(owed) \in Spoken /\ Tail(owed) \in Seq(Spoken)
        /\ Tells(owed) <=> Head(owed) \in Ending \/ Tells(Tail(owed))
    BY <1>1, <1>2, TellsParts, HeadTailProperties
  <1>4. /\ eventLog' \in Seq(Spoken)
        /\ Tells(eventLog') <=> Tells(eventLog) \/ Head(owed) \in Ending
    BY <1>1, <1>2, <1>3, TellsParts, AppendProperties
  <1>5. SdkTypeOK'
    BY <1>0, <1>1, <1>3, <1>4 DEF SdkTypeOK, streamVars
  <1>6. AskOK' /\ Accounted'
    BY <1>0, <1>1 DEF AskOK, Accounted, streamVars
  <1>7. SettledInv'
    <2>1. Tells(owed') \/ Tells(eventLog') => Tells(owed) \/ Tells(eventLog)
      BY <1>1, <1>3, <1>4
    <2>. QED  BY <1>0, <1>1, <2>1 DEF SettledInv, AbandonedRunStops, streamVars, Tells
  <1>. QED  BY <1>5, <1>6, <1>7 DEF SdkInv

(* An event put on the stream is one more to decode. *)
LEMMA WritesKeepsInv ==
  ASSUME SdkInv, body.at = "open", NEW event \in Spoken, event \in Ending => run \in Over,
         NEW next \in Nat \ {0}, Writes(event, next), ephemeral' \in 0..MaxEphemeral
  PROVE  SdkInv'
  <1>. DEFINE wire == body.wire
              b == [body EXCEPT !.wire = wire \o Frame(event), !.next = next,
                                !.at = IF event \in Ending THEN "ended" ELSE body.at]
  <1>0. SdkTypeOK /\ AskOK /\ Accounted /\ SettledInv
    BY DEF SdkInv
  <1>1. /\ body' = b /\ sent' = Append(sent, event)
        /\ UNCHANGED <<buffer, yielded, asking, aborted, unreported>> /\ UNCHANGED serverVars
    BY DEF Writes
  <1>2. /\ body \in Bodies /\ sent \in Seq(Spoken) /\ yielded \in Seq(Spoken)
        /\ buffer \in Seq(Bytes) /\ wire \in Seq(Bytes) /\ asking \in Askings
    BY <1>0, SdkTypes DEF Bodies
  <1>3. /\ event \in Bytes /\ Frame(event) \in Seq(Bytes)
        /\ decodeSseFrames(Frame(event)) = decodeSseFrames(<<event>>)
    BY Words, DecodeFrame
  <1>4. wire \o Frame(event) \in Seq(Bytes)
    BY <1>2, <1>3, ConcatProperties
  <1>5. /\ b \in Bodies /\ b.wire = wire \o Frame(event) /\ b.next = next
        /\ b.at = IF event \in Ending THEN "ended" ELSE "open"
    BY <1>2, <1>4 DEF Bodies
  <1>. HIDE DEF wire, b
  <1>6. Tells(b.wire) => Tells(wire) \/ event \in Ending
    <2>1. Tells(Frame(event)) => event \in Ending
      <3>1. DOMAIN Frame(event) = 1..3 /\ Frame(event)[1] = event /\ Frame(event)[2] = "nl"
            /\ Frame(event)[3] = "nl"
        BY DEF Frame
      <3>2. "nl" \notin Ending
        BY DEF Ending
      <3>3. \A i \in 1..3 : i = 1 \/ i = 2 \/ i = 3
        OBVIOUS
      <3>. QED  BY <3>1, <3>2, <3>3 DEF Tells
    <2>. QED  BY <1>2, <1>3, <1>5, <2>1, TellsParts
  <1>7. sent' \in Seq(Spoken)
    BY <1>1, <1>2, AppendProperties
  <1>8. SdkTypeOK'
    BY <1>0, <1>1, <1>5, <1>7 DEF SdkTypeOK, Bodies, Bytes, serverVars
  <1>9. AskOK'
    BY <1>0, <1>1, <1>5 DEF AskOK, NoBody, serverVars
  <1>10. Accounted'
    <2>1. decodeSseFrames(sent') = decodeSseFrames(sent) \o decodeSseFrames(<<event>>)
      <3>1. Append(sent, event) = sent \o <<event>> /\ <<event>> \in Seq(Spoken)
        BY <1>2, AppendIsConcat
      <3>. QED  BY <1>1, <1>2, <3>1, DecodeConcat
    <2>2. decodeSseFrames(sent) = yielded \o decodeSseFrames(buffer \o wire)
      BY <1>0 DEF Accounted, wire
    <2>3. decodeSseFrames(buffer \o b.wire)
            = decodeSseFrames(buffer \o wire) \o decodeSseFrames(<<event>>)
      <3>0. buffer \o wire \in Seq(Bytes)
        BY <1>2, ConcatProperties
      <3>1. buffer \o b.wire = (buffer \o wire) \o Frame(event)
        <4>1. (buffer \o wire) \o Frame(event) = buffer \o (wire \o Frame(event))
          BY <1>2, <1>3, ConcatAssociative
        <4>. QED  BY <1>5, <4>1
      <3>. QED  BY <1>3, <3>0, <3>1, DecodeConcat
    <2>4. /\ decodeSseFrames(buffer \o wire) \in Seq(Bytes) /\ decodeSseFrames(<<event>>) \in Seq(Bytes)
          /\ yielded \in Seq(Bytes)
      <3>1. buffer \o wire \in Seq(Bytes) /\ <<event>> \in Seq(Bytes)
        BY <1>2, <1>3, ConcatProperties
      <3>2. yielded \in Seq(Bytes)
        BY <1>2, Words, SeqMonotonic
      <3>. QED  BY <3>1, <3>2, DecodedIsAmong
    <2>5. decodeSseFrames(sent') = yielded \o decodeSseFrames(buffer \o b.wire)
      BY <2>1, <2>2, <2>3, <2>4, ConcatAssociative
    <2>. QED  BY <1>1, <1>5, <2>5 DEF Accounted
  <1>11. SettledInv'
    BY <1>0, <1>1, <1>5, <1>6 DEF SettledInv, AbandonedRunStops, serverVars, Tells, wire
  <1>. QED  BY <1>8, <1>9, <1>10, <1>11 DEF SdkInv

(* What is sent was published.                                              *)
LEMMA SendEventKeepsInv ==
  ASSUME SdkInv, SendEvent
  PROVE  SdkInv'
  <1>1. SdkTypeOK /\ AskOK /\ SettledInv
    BY DEF SdkInv
  <1>2. /\ body.at = "open" /\ body.next <= Len(eventLog) /\ UNCHANGED ephemeral
        /\ Writes(eventLog[body.next], body.next + 1)
    BY DEF SendEvent
  <1>3. eventLog \in Seq(Spoken) /\ body.next \in Nat \ {0} /\ ephemeral \in 0..MaxEphemeral
    BY <1>1, SdkTypes DEF AskOK
  <1>4. body.next \in DOMAIN eventLog /\ eventLog[body.next] \in Spoken
    BY <1>2, <1>3, LenProperties, ElementOfSeq
  <1>5. eventLog[body.next] \in Ending => run \in Over
    BY <1>1, <1>4 DEF SettledInv, Tells
  <1>. QED  BY <1>2, <1>3, <1>4, <1>5, WritesKeepsInv

(* Pings and deltas end nothing.                                            *)
LEMMA SendEphemeralKeepsInv ==
  ASSUME SdkInv, SendEphemeral
  PROVE  SdkInv'
  <1>1. SdkTypeOK /\ AskOK
    BY DEF SdkInv
  <1>2. PICK event \in {"ping", "candidate.delta"} :
          /\ body.at = "open" /\ ephemeral < MaxEphemeral /\ ephemeral' = ephemeral + 1
          /\ Writes(event, body.next)
    BY DEF SendEphemeral
  <1>3. body.next \in Nat \ {0} /\ ephemeral' \in 0..MaxEphemeral
    BY <1>1, <1>2, SdkTypes, SdkAssumption DEF AskOK
  <1>4. event \in Spoken /\ event \notin Ending
    BY Words
  <1>. QED  BY <1>2, <1>3, <1>4, WritesKeepsInv

(* The response ends early. *)
LEMMA FeedFailsKeepsInv ==
  ASSUME SdkInv, FeedFails
  PROVE  SdkInv'
  <1>. DEFINE b == [body EXCEPT !.at = "ended"]
  <1>0. SdkTypeOK /\ AskOK /\ Accounted /\ SettledInv
    BY DEF SdkInv
  <1>1. /\ body.at = "open" /\ body' = b /\ unreported' = unreported \cup {"cut"}
        /\ UNCHANGED <<sent, buffer, yielded, asking, aborted, ephemeral>> /\ UNCHANGED serverVars
    BY DEF FeedFails
  <1>2. body \in Bodies
    BY <1>0, SdkTypes
  <1>3. b \in Bodies /\ b.at = "ended" /\ b.wire = body.wire /\ b.next = body.next
    BY <1>2 DEF Bodies
  <1>. HIDE DEF b
  <1>4. SdkTypeOK'
    BY <1>0, <1>1, <1>3, Words DEF SdkTypeOK, Bodies, Bytes, serverVars
  <1>5. AskOK'
    BY <1>0, <1>1, <1>3 DEF AskOK, NoBody
  <1>6. Accounted'
    BY <1>0, <1>1, <1>3 DEF Accounted
  <1>7. SettledInv'
    BY <1>0, <1>1, <1>3 DEF SettledInv, AbandonedRunStops, serverVars, Tells
  <1>. QED  BY <1>4, <1>5, <1>6, <1>7 DEF SdkInv

(* What was yielded when the connection breaks began what was sent. *)
LEMMA ConnectionBreaksKeepsInv ==
  ASSUME SdkInv, ConnectionBreaks
  PROVE  SdkInv'
  <1>. DEFINE b == [body EXCEPT !.at = "broken", !.wire = <<>>]
  <1>0. SdkTypeOK /\ AskOK /\ Accounted /\ SettledInv
    BY DEF SdkInv
  <1>1. /\ body.at \in {"open", "ended"} /\ asking.at = "read" /\ body' = b
        /\ UNCHANGED <<sent, buffer, yielded, asking, aborted, ephemeral, unreported>>
        /\ UNCHANGED serverVars
    BY DEF ConnectionBreaks
  <1>2. body \in Bodies /\ buffer \in Seq(Bytes) /\ yielded \in Seq(Spoken)
    BY <1>0, SdkTypes
  <1>3. /\ b \in Bodies /\ b.at = "broken" /\ b.wire = <<>> /\ b.next = body.next
        /\ body.wire \in Seq(Bytes)
    <2>1. <<>> \in Seq(Bytes)
      OBVIOUS
    <2>2. body.wire \in Seq(Bytes)
      BY <1>2 DEF Bodies
    <2>3. b \in Bodies
      BY <1>2, <2>1 DEF Bodies
    <2>4. b.at = "broken" /\ b.wire = <<>> /\ b.next = body.next
      BY <1>2 DEF Bodies
    <2>. QED  BY <2>2, <2>3, <2>4
  <1>. HIDE DEF b
  <1>4. SdkTypeOK'
    BY <1>0, <1>1, <1>3, Words DEF SdkTypeOK, Bodies, Bytes, serverVars
  <1>5. AskOK'
    BY <1>0, <1>1, <1>3 DEF AskOK, NoBody
  <1>6. Accounted'
    <2>. DEFINE left == decodeSseFrames(buffer \o body.wire)
    <2>1. buffer \o body.wire \in Seq(Bytes) /\ yielded \in Seq(Bytes)
      BY <1>2, <1>3, ConcatProperties, SeqMonotonic, Words
    <2>2. left \in Seq(Bytes)
      BY <2>1, DecodedIsAmong
    <2>3. decodeSseFrames(sent) = yielded \o left
      BY <1>0, <1>1 DEF Accounted
    <2>4. IsPrefix(yielded, yielded \o left)
      BY <2>1, <2>2, BeginsIsPrefix
    <2>. QED  BY <1>1, <1>3, <2>3, <2>4 DEF Accounted
  <1>7. SettledInv'
    <2>1. ~Tells(b.wire)
      <3>1. DOMAIN <<>> = {}
        OBVIOUS
      <3>. QED  BY <1>3, <3>1 DEF Tells
    <2>. QED  BY <1>0, <1>1, <1>3, <2>1 DEF SettledInv, AbandonedRunStops, serverVars, Tells
  <1>. QED  BY <1>4, <1>5, <1>6, <1>7 DEF SdkInv

(* A call that moves on has made no request in vain.                        *)
LEMMA WaitsIsAsking ==
  ASSUME NEW at \in {"create", "stream", "read", "retrieve", "cancel", "returned", "threw"}
  PROVE  Waits(at) \in Askings /\ Waits(at).at = at /\ Waits(at).result = "none"
  BY SdkAssumption DEF Waits, Askings

(* A step of the call that leaves the stream alone. *)
LEMMA CallKeepsInv ==
  ASSUME SdkInv, asking' \in Askings, aborted' \in BOOLEAN, UNCHANGED serverVars, UNCHANGED streamVars,
         unreported \subseteq unreported', unreported' \subseteq {"cut", "cancel", "unknown"},
         asking'.at \in {"create", "stream"} => asking.at \in {"create", "stream"},
         asking'.at = "read" => asking.at = "read",
         asking'.at = "create" /\ aborted' => "unknown" \in unreported',
         asking'.at = "retrieve" => run \in Over \/ "cut" \in unreported',
         asking'.at = "returned" => asking'.result \in Over \/ "cut" \in unreported',
         AbandonedRunStops'
  PROVE  SdkInv'
  <1>0. SdkTypeOK /\ AskOK /\ Accounted /\ SettledInv
    BY DEF SdkInv
  <1>1. /\ run' = run /\ owed' = owed /\ eventLog' = eventLog /\ body' = body /\ sent' = sent
        /\ buffer' = buffer /\ yielded' = yielded /\ ephemeral' = ephemeral
    BY DEF serverVars, streamVars
  <1>2. SdkTypeOK'
    <2>1. asking' \in [at: {"create", "stream", "read", "retrieve", "cancel", "returned", "threw"},
                       tries: 0..MaxRetries, result: {"none"} \cup DOMAIN eventOf]
      BY Words DEF Askings
    <2>. QED  BY <1>0, <1>1, <2>1 DEF SdkTypeOK
  <1>3. AskOK'
    BY <1>0, <1>1 DEF AskOK
  <1>4. Accounted'
    BY <1>0, <1>1 DEF Accounted
  <1>5. SettledInv'
    BY <1>0, <1>1 DEF SettledInv, Tells
  <1>. QED  BY <1>2, <1>3, <1>4, <1>5 DEF SdkInv

(* A request that is given up was not a cancellation, or is owned to be. *)
LEMMA SendFailsKeepsInv ==
  ASSUME SdkInv, SendFails
  PROVE  SdkInv'
  <1>. DEFINE again == [asking EXCEPT !.tries = asking.tries + 1]
              next == IF asking.at = "stream" /\ aborted THEN "cancel" ELSE "threw"
              ended == Waits(next)
  <1>0. SdkTypeOK /\ AskOK /\ SettledInv
    BY DEF SdkInv
  <1>1. /\ asking.at \in {"create", "stream", "retrieve", "cancel"}
        /\ asking' = IF asking.tries < MaxRetries /\ (aborted => asking.at = "cancel") THEN again ELSE ended
        /\ unreported' = IF asking.at = "cancel" /\ asking'.at = "threw" THEN unreported \cup {"cancel"} ELSE unreported
        /\ aborted' = aborted /\ UNCHANGED serverVars /\ UNCHANGED streamVars
    BY DEF SendFails
  <1>2. /\ asking \in Askings /\ aborted \in BOOLEAN /\ unreported \subseteq {"cut", "cancel", "unknown"}
    BY <1>0, SdkTypes
  <1>3. asking.tries < MaxRetries => again \in Askings /\ again.at = asking.at
    BY <1>2, SdkAssumption DEF Askings
  <1>4. ended \in Askings /\ ended.at = next
    BY WaitsIsAsking
  <1>. HIDE DEF again, ended
  <1>5. asking' \in Askings /\ (asking'.at = asking.at \/ asking'.at = next)
    BY <1>1, <1>3, <1>4
  <1>6. AbandonedRunStops'
    BY <1>0, <1>1, <1>5 DEF AskOK, SettledInv, AbandonedRunStops, serverVars
  <1>. QED  BY <1>0, <1>1, <1>2, <1>5, <1>6, CallKeepsInv DEF AskOK, SettledInv

(* A stream ended with its run, or was cut.                                 *)
LEMMA ReadDoneKeepsInv ==
  ASSUME SdkInv, ReadDone
  PROVE  SdkInv'
  <1>0. SdkTypeOK /\ SettledInv
    BY DEF SdkInv
  <1>1. /\ asking.at = "read" /\ body.at = "ended" /\ asking' = Waits("retrieve")
        /\ UNCHANGED <<aborted, unreported>> /\ UNCHANGED serverVars /\ UNCHANGED streamVars
    BY DEF ReadDone
  <1>2. asking' \in Askings /\ asking'.at = "retrieve"
    BY <1>1, WaitsIsAsking
  <1>3. aborted \in BOOLEAN /\ unreported \subseteq {"cut", "cancel", "unknown"}
    BY <1>0, SdkTypes
  <1>4. AbandonedRunStops'
    BY <1>2 DEF AbandonedRunStops
  <1>. QED  BY <1>0, <1>1, <1>2, <1>3, <1>4, CallKeepsInv DEF SettledInv

(* The steps of the call that leave the stream alone.                       *)
LEMMA CallStepsKeepInv ==
  ASSUME SdkInv, Created \/ FollowingFails \/ Canceled \/ Retrieved \/ Abort
  PROVE  SdkInv'
  <1>0. SdkTypeOK /\ AskOK /\ SettledInv
    BY DEF SdkInv
  <1>1. /\ asking \in Askings /\ aborted \in BOOLEAN /\ unreported \subseteq {"cut", "cancel", "unknown"}
        /\ run \in Statuses \cup {"none"}
    BY <1>0, SdkTypes
  <1>2. CASE Created
    <2>1. /\ asking.at = "create" /\ asking' = Waits("stream")
          /\ UNCHANGED askRest /\ UNCHANGED serverVars /\ UNCHANGED streamVars
      BY <1>2 DEF Created
    <2>2. asking' \in Askings /\ asking'.at = "stream"
      BY <2>1, WaitsIsAsking
    <2>3. AbandonedRunStops'
      BY <2>2 DEF AbandonedRunStops
    <2>. QED  BY <1>1, <2>1, <2>2, <2>3, CallKeepsInv DEF askRest
  <1>3. CASE FollowingFails
    <2>. DEFINE next == IF aborted THEN "cancel" ELSE "threw"
    <2>1. /\ asking.at = "read" /\ asking' = Waits(next)
          /\ UNCHANGED askRest /\ UNCHANGED serverVars /\ UNCHANGED streamVars
      BY <1>3 DEF FollowingFails
    <2>2. asking' \in Askings /\ asking'.at = next
      BY <2>1, WaitsIsAsking
    <2>3. AbandonedRunStops'
      BY <2>1, <2>2 DEF AbandonedRunStops, askRest
    <2>. QED  BY <1>1, <2>1, <2>2, <2>3, CallKeepsInv DEF askRest
  <1>4. CASE Canceled
    <2>1. /\ run \in Over /\ asking' = Waits("threw")
          /\ UNCHANGED askRest /\ UNCHANGED serverVars /\ UNCHANGED streamVars
      BY <1>4 DEF Canceled
    <2>2. asking' \in Askings /\ asking'.at = "threw"
      BY <2>1, WaitsIsAsking
    <2>3. AbandonedRunStops'
      BY <2>1, <2>2 DEF AbandonedRunStops, serverVars
    <2>. QED  BY <1>1, <2>1, <2>2, <2>3, CallKeepsInv DEF askRest
  <1>5. CASE Retrieved
    <2>. DEFINE result == [Waits("returned") EXCEPT !.result = run]
    <2>1. /\ asking.at = "retrieve" /\ asking' = result
          /\ UNCHANGED askRest /\ UNCHANGED serverVars /\ UNCHANGED streamVars
      BY <1>5 DEF Retrieved
    <2>2. result \in Askings /\ result.at = "returned" /\ result.result = run
      BY <1>1, WaitsIsAsking DEF Askings
    <2>. HIDE DEF result
    <2>3. AbandonedRunStops'
      BY <2>1, <2>2 DEF AbandonedRunStops
    <2>. QED  BY <1>0, <1>1, <2>1, <2>2, <2>3, CallKeepsInv DEF askRest, SettledInv
  <1>6. CASE Abort
    <2>1. /\ asking.at \in {"create", "stream", "read", "retrieve"} /\ aborted' = TRUE
          /\ unreported' = IF asking.at = "create" THEN unreported \cup {"unknown"} ELSE unreported
          /\ asking' = asking /\ UNCHANGED serverVars /\ UNCHANGED streamVars
      BY <1>6 DEF Abort
    <2>2. AbandonedRunStops'
      BY <2>1 DEF AbandonedRunStops
    <2>. QED  BY <1>0, <1>1, <2>1, <2>2, CallKeepsInv DEF SettledInv
  <1>. QED  BY <1>2, <1>3, <1>4, <1>5, <1>6

(* A run that is over is told in two frames. *)
LEMMA StreamOpensKeepsInv ==
  ASSUME SdkInv, StreamOpens
  PROVE  SdkInv'
  <1>. DEFINE replays == run \in Over /\ eventLog = <<>>
              told == IF replays THEN <<"run.snapshot", eventOf[run]>> ELSE <<>>
              wire == IF told = <<>> THEN <<>> ELSE Frame(told[1]) \o Frame(told[2])
              b == [at |-> IF told = <<>> THEN "open" ELSE "ended", next |-> 1, wire |-> wire]
  <1>0. SdkTypeOK /\ AskOK /\ SettledInv
    BY DEF SdkInv
  <1>1. /\ asking.at = "stream" /\ asking' = Waits("read") /\ body' = b /\ sent' = told
        /\ UNCHANGED <<buffer, yielded, ephemeral>> /\ UNCHANGED askRest /\ UNCHANGED serverVars
    BY DEF StreamOpens
  <1>2. asking' \in Askings /\ asking'.at = "read"
    BY <1>1, WaitsIsAsking
  <1>3. buffer = <<>> /\ yielded = <<>>
    BY <1>0, <1>1 DEF AskOK
  <1>4. /\ told \in Seq(Spoken) /\ wire \in Seq(Bytes)
        /\ decodeSseFrames(told) = decodeSseFrames(wire)
        /\ told # <<>> => run \in Over
        /\ told = <<>> => wire = <<>>
    <2>1. CASE replays
      <3>. DEFINE s1 == <<"run.snapshot">>
                  s2 == <<eventOf[run]>>
                  w1 == Frame("run.snapshot")
                  w2 == Frame(eventOf[run])
      <3>1. /\ "run.snapshot" \in Spoken /\ eventOf[run] \in Spoken
            /\ "run.snapshot" \in Bytes /\ eventOf[run] \in Bytes /\ "nl" \in Bytes
        BY <2>1, Words
      <3>2. told = <<"run.snapshot", eventOf[run]>> /\ told # <<>>
        BY <2>1
      <3>3. wire = w1 \o w2
        BY <3>2
      <3>4. told = s1 \o s2 /\ s1 \in Seq(Spoken) /\ s2 \in Seq(Spoken) /\ told \in Seq(Spoken)
        BY <3>1, <3>2
      <3>5. /\ w1 \in Seq(Bytes) /\ decodeSseFrames(w1) = decodeSseFrames(s1)
            /\ w2 \in Seq(Bytes) /\ decodeSseFrames(w2) = decodeSseFrames(s2)
        BY <3>1, DecodeFrame
      <3>. HIDE DEF s1, s2, w1, w2, told, wire
      <3>6. decodeSseFrames(told) = decodeSseFrames(s1) \o decodeSseFrames(s2)
        BY <3>4, DecodeConcat
      <3>7. decodeSseFrames(wire) = decodeSseFrames(w1) \o decodeSseFrames(w2) /\ wire \in Seq(Bytes)
        BY <3>3, <3>5, DecodeConcat, ConcatProperties
      <3>. QED  BY <2>1, <3>2, <3>4, <3>5, <3>6, <3>7
    <2>2. CASE ~replays
      BY <2>2
    <2>. QED  BY <2>1, <2>2
  <1>. HIDE DEF told, wire
  <1>5. /\ b \in Bodies /\ b.at \in {"open", "ended"} /\ b.wire = wire /\ b.next = 1
        /\ (b.at = "ended" => told # <<>>)
    BY <1>4 DEF Bodies
  <1>. HIDE DEF b
  <1>6. SdkTypeOK'
    BY <1>0, <1>1, <1>2, <1>4, <1>5, Words
       DEF SdkTypeOK, Bodies, Askings, Bytes, askRest, serverVars
  <1>7. AskOK'
    BY <1>1, <1>2, <1>5 DEF AskOK
  <1>8. Accounted'
    <2>1. <<>> \o wire = wire /\ decodeSseFrames(wire) \in Seq(Bytes)
      BY <1>4, ConcatEmptySeq, DecodedIsAmong
    <2>2. <<>> \o decodeSseFrames(wire) = decodeSseFrames(wire)
      BY <2>1, ConcatEmptySeq
    <2>. QED  BY <1>1, <1>3, <1>4, <1>5, <2>1, <2>2 DEF Accounted
  <1>9. SettledInv'
    <2>1. ~Tells(<<>>)
      <3>1. DOMAIN <<>> = {}
        OBVIOUS
      <3>. QED  BY <3>1 DEF Tells
    <2>2. Tells(b.wire) => run \in Over
      BY <1>4, <1>5, <2>1
    <2>3. run' = run /\ owed' = owed /\ eventLog' = eventLog /\ buffer' = buffer
      BY <1>1 DEF serverVars
    <2>. QED  BY <1>0, <1>1, <1>2, <1>4, <1>5, <2>2, <2>3 DEF SettledInv, AbandonedRunStops, Tells
  <1>. QED  BY <1>6, <1>7, <1>8, <1>9 DEF SdkInv

(* What begins a sequence is made of what the sequence is made of. *)
LEMMA BeginningIsOf ==
  ASSUME NEW S, NEW T, NEW s \in Seq(S), NEW t \in Seq(S), s \o t \in Seq(T)
  PROVE  s \in Seq(T)
  <1>1. /\ Len(s) \in Nat /\ Len(t) \in Nat /\ s \in [1..Len(s) -> S] /\ Len(s \o t) = Len(s) + Len(t)
        /\ \A i \in 1..(Len(s) + Len(t)) : (s \o t)[i] = IF i <= Len(s) THEN s[i] ELSE t[i - Len(s)]
    BY ConcatProperties, LenProperties
  <1>2. \A i \in 1..(Len(s) + Len(t)) : (s \o t)[i] \in T
    BY <1>1, ElementOfSeq
  <1>3. \A i \in 1..Len(s) : i \in 1..(Len(s) + Len(t)) /\ i <= Len(s)
    BY <1>1
  <1>4. \A i \in 1..Len(s) : s[i] \in T
    BY <1>1, <1>2, <1>3
  <1>5. SubSeq(s, 1, Len(s)) \in Seq(T)
    BY <1>1, <1>4, SubSeqProperties
  <1>. QED  BY <1>5, SubSeqFull

(* What a chunk brings is taken from the stream and yielded or kept. *)
LEMMA ReadChunkKeepsInv ==
  ASSUME SdkInv, ReadChunk
  PROVE  SdkInv'
  <1>0. SdkTypeOK /\ AskOK /\ Accounted /\ SettledInv
    BY DEF SdkInv
  <1>. DEFINE Takes(n, bytes) ==
                /\ body' = [body EXCEPT !.wire = SubSeq(body.wire, n + 1, Len(body.wire))]
                /\ buffer' = rest(bytes) /\ yielded' = yielded \o decoded(bytes)
                /\ asking' = IF \E i \in DOMAIN decoded(bytes) : isTerminalEvent(decoded(bytes)[i])
                             THEN Waits("retrieve") ELSE asking
  <1>1. PICK n \in 1..Len(body.wire) : Takes(n, buffer \o SubSeq(body.wire, 1, n))
    BY Zenon DEF ReadChunk
  <1>2. /\ asking.at = "read" /\ body.wire # <<>> /\ ~aborted
        /\ UNCHANGED <<sent, aborted, ephemeral, unreported>> /\ UNCHANGED serverVars
    BY DEF ReadChunk
  <1>. DEFINE wire == body.wire
              chunk == SubSeq(wire, 1, n)
              left == SubSeq(wire, n + 1, Len(wire))
              bytes == buffer \o chunk
              new == decoded(bytes)
              b == [body EXCEPT !.wire = left]
  <1>. HIDE DEF Takes
  <1>3. /\ body \in Bodies /\ buffer \in Seq(Bytes) /\ yielded \in Seq(Spoken) /\ yielded \in Seq(Bytes)
        /\ sent \in Seq(Spoken) /\ asking \in Askings /\ wire \in Seq(Bytes)
    <2>1. body \in Bodies /\ yielded \in Seq(Spoken)
      BY <1>0, SdkTypes
    <2>. QED  BY <1>0, <2>1, SdkTypes, SeqMonotonic, Words DEF Bodies
  <1>4. body.at \in {"open", "ended"}
    BY <1>0, <1>2, <1>3 DEF AskOK, Bodies
  <1>5. chunk \in Seq(Bytes) /\ left \in Seq(Bytes) /\ wire = chunk \o left
    <2>0. Len(wire) \in Nat /\ n \in 1..Len(wire)
      BY <1>3, LenProperties
    <2>1. \A i \in 1..Len(wire) : wire[i] \in Bytes
      BY <1>3, ElementOfSeq
    <2>. HIDE DEF wire
    <2>2. chunk \in Seq(Bytes)
      <3>1. \A i \in 1..n : wire[i] \in Bytes
        BY <2>0, <2>1
      <3>. QED  BY <2>0, <3>1, SubSeqProperties
    <2>3. left \in Seq(Bytes)
      <3>1. \A i \in (n + 1)..Len(wire) : wire[i] \in Bytes
        BY <2>0, <2>1
      <3>. QED  BY <2>0, <3>1, SubSeqProperties
    <2>4. chunk \o left = SubSeq(wire, 1, Len(wire))
      <3>1. 1 \in 1..(Len(wire) + 1) /\ n \in (1 - 1)..Len(wire) /\ Len(wire) \in n..Len(wire)
        BY <2>0
      <3>. QED  BY <1>3, <3>1, ConcatAdjacentSubSeq
    <2>5. SubSeq(wire, 1, Len(wire)) = wire
      BY <1>3, SubSeqFull
    <2>6. wire = chunk \o left
      BY <2>4, <2>5, Zenon
    <2>. QED  BY <2>2, <2>3, <2>6, Zenon
  <1>6. /\ b \in Bodies /\ b.at = body.at /\ b.wire = left /\ b.next = body.next
    BY <1>3, <1>5 DEF Bodies
  <1>7. /\ body' = b /\ buffer' = rest(bytes) /\ yielded' = yielded \o new
        /\ asking' = IF Tells(new) THEN Waits("retrieve") ELSE asking
    BY <1>1 DEF isTerminalEvent, Tells, Takes
  <1>. HIDE DEF wire, chunk, left, b
  <1>8. bytes \in Seq(Bytes)
    BY <1>3, <1>5, ConcatProperties
  <1>. HIDE DEF bytes
  <1>9. /\ new \in Seq(Bytes) /\ rest(bytes) \in Seq(Bytes)
        /\ decodeSseFrames(bytes) = new \o decodeSseFrames(rest(bytes))
        /\ Tells(new) => Tells(bytes)
        /\ Tells(rest(bytes)) => Tells(bytes)
    <2>1. "nl" \in Bytes
      BY Words
    <2>2. /\ new \in Seq(Bytes) /\ rest(bytes) \in Seq(Bytes)
          /\ decodeSseFrames(bytes) = new \o decodeSseFrames(rest(bytes))
          /\ \A i \in DOMAIN new : \E j \in DOMAIN bytes : new[i] = bytes[j]
          /\ \A i \in DOMAIN rest(bytes) : \E j \in DOMAIN bytes : rest(bytes)[i] = bytes[j]
      BY <1>8, <2>1, DecodeCuts
    <2>. HIDE DEF new
    <2>. QED  BY <2>2, TellsLess
  <1>. HIDE DEF new
  <1>10. decodeSseFrames(sent) = (yielded \o new) \o decodeSseFrames(rest(bytes) \o left)
    <2>. DEFINE kept == decodeSseFrames(rest(bytes))
                later == decodeSseFrames(left)
    <2>0. kept \in Seq(Bytes) /\ later \in Seq(Bytes) /\ decodeSseFrames(bytes) \in Seq(Bytes)
      BY <1>5, <1>8, <1>9, DecodedIsAmong
    <2>1. decodeSseFrames(rest(bytes) \o left) = kept \o later
      BY <1>5, <1>9, DecodeConcat
    <2>2. buffer \o wire = bytes \o left
      <3>1. (buffer \o chunk) \o left = buffer \o (chunk \o left)
        BY <1>3, <1>5, ConcatAssociative
      <3>. QED  BY <1>5, <3>1 DEF bytes
    <2>3. decodeSseFrames(buffer \o wire) = decodeSseFrames(bytes) \o later
      BY <1>5, <1>8, <2>2, DecodeConcat
    <2>4. decodeSseFrames(sent) = yielded \o decodeSseFrames(buffer \o wire)
      BY <1>0, <1>4 DEF Accounted, wire
    <2>. HIDE DEF kept, later
    <2>5. (new \o kept) \o later = new \o (kept \o later)
      BY <1>9, <2>0, ConcatAssociative
    <2>. DEFINE both == kept \o later
    <2>6. both \in Seq(Bytes)
      BY <2>0, ConcatProperties
    <2>. HIDE DEF both
    <2>7. (yielded \o new) \o both = yielded \o (new \o both)
      <3>1. yielded \in Seq(Bytes) /\ new \in Seq(Bytes)
        BY <1>3, <1>9
      <3>. QED  BY <2>6, <3>1, ConcatAssociative
    <2>. QED  BY <1>9, <2>1, <2>3, <2>4, <2>5, <2>7 DEF kept, both
  <1>11. yielded' \in Seq(Spoken)
    <2>1. yielded \o new \in Seq(Bytes) /\ rest(bytes) \o left \in Seq(Bytes)
      BY <1>3, <1>5, <1>9, ConcatProperties
    <2>2. decodeSseFrames(rest(bytes) \o left) \in Seq(Bytes)
      BY <2>1, DecodedIsAmong
    <2>3. decodeSseFrames(sent) \in Seq(Spoken)
      BY <1>3, DecodedIsAmong
    <2>4. yielded \o new \in Seq(Spoken)
      BY <1>10, <2>1, <2>2, <2>3, BeginningIsOf
    <2>. QED  BY <1>7, <2>4
  <1>12. asking' \in Askings /\ asking'.at = IF Tells(new) THEN "retrieve" ELSE "read"
    <2>1. Waits("retrieve") \in Askings /\ Waits("retrieve").at = "retrieve"
      BY WaitsIsAsking
    <2>. QED  BY <1>2, <1>3, <1>7, <2>1
  <1>13. /\ Tells(bytes) => run \in Over
         /\ Tells(left) => run \in Over
    <2>1. Tells(buffer) \/ Tells(wire) => run \in Over
      BY <1>0 DEF SettledInv, wire
    <2>2. Tells(bytes) <=> Tells(buffer) \/ Tells(chunk)
      BY <1>3, <1>5, TellsParts DEF bytes
    <2>3. Tells(wire) <=> Tells(chunk) \/ Tells(left)
      BY <1>5, TellsParts
    <2>. QED  BY <2>1, <2>2, <2>3
  <1>14. SdkTypeOK'
    BY <1>0, <1>2, <1>6, <1>7, <1>9, <1>11, <1>12, Words DEF SdkTypeOK, Bodies, Askings, Bytes, serverVars
  <1>15. AskOK'
    BY <1>0, <1>2, <1>4, <1>6, <1>7, <1>12 DEF AskOK
  <1>16. Accounted'
    BY <1>2, <1>4, <1>6, <1>7, <1>10 DEF Accounted
  <1>17. SettledInv'
    <2>1. /\ run' = run /\ owed' = owed /\ eventLog' = eventLog /\ unreported' = unreported
          /\ body'.wire = left /\ body'.at = body.at
      BY <1>2, <1>6, <1>7 DEF serverVars
    <2>2. Tells(owed') \/ Tells(eventLog') => run \in Over
      BY <1>0, <2>1 DEF SettledInv, Tells
    <2>3. Tells(buffer') \/ Tells(body'.wire) => run \in Over
      BY <1>7, <1>9, <1>13, <2>1
    <2>4. asking'.at = "retrieve" => run \in Over
      BY <1>9, <1>12, <1>13
    <2>5. AbandonedRunStops' /\ asking'.at # "returned"
      BY <1>12 DEF AbandonedRunStops
    <2>. QED  BY <1>0, <2>1, <2>2, <2>3, <2>4, <2>5 DEF SettledInv, Tells
  <1>. QED  BY <1>14, <1>15, <1>16, <1>17 DEF SdkInv

(* Each step keeps the account.                                             *)
LEMMA SdkInvSteps ==
  SdkInv /\ [SdkNext]_sdkVars => SdkInv'
  <1>1. ASSUME SdkInv, UNCHANGED sdkVars PROVE SdkInv'
    <2>1. SdkTypeOK /\ AskOK /\ Accounted /\ SettledInv
      BY <1>1 DEF SdkInv
    <2>2. SdkTypeOK' /\ AskOK' /\ Accounted'
      BY <1>1, <2>1 DEF sdkVars, SdkTypeOK, AskOK, Accounted
    <2>3. SettledInv'
      BY <1>1, <2>1 DEF sdkVars, SettledInv, AbandonedRunStops, Tells
    <2>. QED  BY <2>2, <2>3 DEF SdkInv
  <1>. QED  BY <1>1, ServerKeepsInv, PublishKeepsInv, SendEventKeepsInv, SendEphemeralKeepsInv,
               FeedFailsKeepsInv, ConnectionBreaksKeepsInv, SendFailsKeepsInv, ReadChunkKeepsInv,
               ReadDoneKeepsInv, StreamOpensKeepsInv, CallStepsKeepInv DEF SdkNext

(* Every byte the server put on the stream is accounted for, and nothing    *)
(* the call was told of the run's end is untrue.                            *)
THEOREM SdkInvariant == SdkSpec => []SdkInv
  BY SdkInvStarts, SdkInvSteps, PTL DEF SdkSpec

(* The account gives what ask() promises.                                   *)
LEMMA InvSettles ==
  SdkInv => AskSettlesItsRun
  <1>. SUFFICES ASSUME SdkInv PROVE AskSettlesItsRun
    OBVIOUS
  <1>0. SdkTypeOK /\ Accounted /\ SettledInv
    BY DEF SdkInv
  <1>1. /\ yielded \in Seq(Bytes) /\ buffer \in Seq(Bytes) /\ body.wire \in Seq(Bytes)
    <2>1. yielded \in Seq(Spoken) /\ body \in Bodies /\ buffer \in Seq(Bytes)
      BY <1>0, SdkTypes
    <2>. QED  BY <2>1, SeqMonotonic, Words DEF Bodies
  <1>2. IsPrefix(yielded, decodeSseFrames(sent))
    <2>. DEFINE left == decodeSseFrames(buffer \o body.wire)
    <2>1. CASE body.at = "broken"
      BY <1>0, <2>1 DEF Accounted
    <2>2. CASE body.at # "broken"
      <3>1. buffer \o body.wire \in Seq(Bytes)
        BY <1>1, ConcatProperties
      <3>2. left \in Seq(Bytes)
        BY <3>1, DecodedIsAmong
      <3>3. IsPrefix(yielded, yielded \o left)
        BY <1>1, <3>2, BeginsIsPrefix
      <3>. QED  BY <1>0, <2>2, <3>3 DEF Accounted
    <2>. QED  BY <2>1, <2>2
  <1>. QED  BY <1>0, <1>2 DEF AskSettlesItsRun, AskIsFinal, SettledInv

(* What ask() promises of its run (sdk/src/client.ts) it keeps for every    *)
(* number of retries, wherever the chunks are cut and the connection breaks.*)
THEOREM AskSettles == SdkSpec => []AskSettlesItsRun
  BY SdkInvariant, InvSettles, PTL
=============================================================================
