---------------------------- MODULE ClientsProofs ----------------------------
(****************************************************************************)
(* What the callers of a finished run see, for any number of visitors,      *)
(* links, processes, servers, endpoints, faults and deliveries: a kept run  *)
(* is readable and a link is judged fresh; a session of the command line    *)
(* survives its refreshes; a receiver of webhooks handles an end once; a    *)
(* walk through the history misses nothing that was there all along.        *)
(****************************************************************************)
EXTENDS CliSession, RunArchive, RunHistory, Receivers, SequenceTheorems, FiniteSetTheorems, TLAPS

-----------------------------------------------------------------------------
(* The archive. *)

Rows == [status: {"pending", "ok", "failed"}, body: Bodies]
Writes == [at: {"idle", "store", "row"}, slot: Slots, kind: {"whole", "partial"}, body: Bodies]
Shares == [at: {"none", "checked", "live", "gone"}, expires: 0..Never, revoked: BOOLEAN]

(* A visit under way is of a link; the link of an idle one is any value.    *)
Visits == [at: {"idle", "look", "body", "served", "refused"}, link: Links \cup {NoVisit.link},
           dead: BOOLEAN, body: Bodies]

ArchiveTypes ==
  /\ kept \in BOOLEAN /\ objects \subseteq Keys /\ row \in [Slots -> Rows]
  /\ write \in [Deliveries -> Writes] /\ deletion \in [at: {"idle", "rows", "objects"}, keys: SUBSET Keys]
  /\ reading \in [at: {"idle", "body", "done"}, body: Bodies, found: {"none", "text", "unavailable"}]
  /\ link \in [Links -> Shares] /\ visit \in [Visitors -> Visits] /\ clock \in 0..LastTick

(* While the run is kept no object is deleted, so whoever holds a key of    *)
(* one finds it.                                                            *)
StoredInv ==
  /\ deletion.at = "objects" => ~kept
  /\ kept =>
       /\ \A s \in Slots : row[s].body.ref \subseteq objects
       /\ \A w \in Deliveries : write[w].at = "row" => write[w].body.ref \subseteq objects
       /\ reading.body.ref \subseteq objects
       /\ \A v \in Visitors : visit[v].body.ref \subseteq objects
  /\ KeptRunsAreReadable

(* A synthesis that is settled has a text, and a link that is live has one. *)
AnswerInv ==
  /\ hasAnswer => row[Synthesis].body # NoText
  /\ \A w \in Deliveries :
       /\ write[w].slot = Synthesis => write[w].kind = "whole"
       /\ write[w].at = "row" => write[w].body # NoText
  /\ \A l \in Links :
       /\ link[l].at = "live" => kept
       /\ link[l].at \in {"checked", "live"} /\ kept => hasAnswer

(* What was dead when the visit began is dead until it ends.                *)
JudgedInv ==
  /\ \A v \in Visitors :
       LET x == visit[v] IN
       /\ x.at # "idle" => x.link \in Links /\ link[x.link].at \in {"live", "gone"}
       /\ x.at = "look" /\ x.dead => ~shareIsLive(x.link)
       /\ x.at \in {"body", "served"} => ~x.dead
       /\ x.at = "body" => x.body # NoText
  /\ VisitsAreJudgedFresh

ArchiveInv == ArchiveTypes /\ StoredInv /\ AnswerInv /\ JudgedInv

LEMMA BodyKinds ==
  /\ NoText \in Bodies /\ NoText.ref = {}
  /\ Inline \in Bodies /\ Inline.ref = {} /\ Inline # NoText
  /\ \A key \in Keys : StoredAt(key) \in Bodies /\ StoredAt(key).ref = {key} /\ StoredAt(key) # NoText
  /\ \A b \in Bodies : b.ref \in SUBSET Keys
  <1>1. NoText \in Bodies /\ NoText.ref = {} /\ ~NoText.inline
    BY DEF NoText, Bodies
  <1>2. Inline \in Bodies /\ Inline.ref = {} /\ Inline.inline
    BY DEF Inline, Bodies
  <1>3. \A key \in Keys : StoredAt(key) \in Bodies /\ StoredAt(key).ref = {key}
    BY DEF StoredAt, Bodies
  <1>4. \A b \in Bodies : b.ref \in SUBSET Keys
    BY DEF Bodies
  <1>. QED  BY <1>1, <1>2, <1>3, <1>4

LEMMA RecordStart ==
  /\ BlankRow \in Rows /\ BlankRow.status = "pending" /\ BlankRow.body = NoText
  /\ NoWrite \in Writes /\ NoWrite.at = "idle" /\ NoWrite.kind = "whole"
  /\ NoReading \in [at: {"idle", "body", "done"}, body: Bodies, found: {"none", "text", "unavailable"}]
  /\ NoReading.body = NoText /\ NoReading.found = "none"
  /\ NoLink \in Shares /\ NoLink.at = "none"
  /\ NoVisit \in Visits /\ NoVisit.at = "idle" /\ NoVisit.body = NoText
  <1>1. BlankRow \in Rows /\ BlankRow.status = "pending" /\ BlankRow.body = NoText
    BY BodyKinds DEF BlankRow, Rows
  <1>2. NoWrite \in Writes /\ NoWrite.at = "idle" /\ NoWrite.kind = "whole"
    BY BodyKinds DEF NoWrite, Writes, Slots
  <1>3. /\ NoReading \in [at: {"idle", "body", "done"}, body: Bodies, found: {"none", "text", "unavailable"}]
        /\ NoReading.body = NoText /\ NoReading.found = "none"
    BY BodyKinds DEF NoReading
  <1>4. NoLink \in Shares /\ NoLink.at = "none"
    BY ArchiveAssumption DEF NoLink, Shares
  <1>5. NoVisit \in Visits /\ NoVisit.at = "idle" /\ NoVisit.body = NoText
    <2>. DEFINE any == CHOOSE l \in Links : TRUE
    <2>1. NoVisit = [at |-> "idle", link |-> any, dead |-> FALSE, body |-> NoText]
      BY DEF NoVisit
    <2>. HIDE DEF any
    <2>2. NoVisit.link = any
      BY <2>1
    <2>. QED  BY <2>1, <2>2, BodyKinds DEF Visits
  <1>. QED  BY <1>1, <1>2, <1>3, <1>4, <1>5

-----------------------------------------------------------------------------
(* What a step that leaves the shares, or the answers, alone preserves.     *)
LEMMA JudgedKept ==
  ASSUME JudgedInv, UNCHANGED shareVars  PROVE JudgedInv'
BY DEF JudgedInv, shareVars, VisitsAreJudgedFresh, shareIsLive

LEMMA AnswerKept ==
  ASSUME AnswerInv, UNCHANGED <<kept, row, write, link>>  PROVE AnswerInv'
BY DEF AnswerInv, hasAnswer

(* A link that is not live any more stays so, and a dead visit with it.     *)
LEMMA JudgedAfterLinks ==
  ASSUME JudgedInv, UNCHANGED visit,
         \A l \in Links : link[l].at \in {"live", "gone"} =>
           link'[l].at \in {"live", "gone"} /\ (shareIsLive(l)' => shareIsLive(l))
  PROVE  JudgedInv'
  <1>1. ASSUME NEW v \in Visitors
        PROVE  /\ visit[v].at # "idle" =>
                    visit[v].link \in Links /\ link'[visit[v].link].at \in {"live", "gone"}
               /\ visit[v].at = "look" /\ visit[v].dead => ~shareIsLive(visit[v].link)'
               /\ visit[v].at = "refused" => visit[v].dead \/ ~shareIsLive(visit[v].link)'
    <2>1. CASE visit[v].at = "idle"
      BY <2>1
    <2>2. CASE visit[v].at # "idle"
      <3>1. PICK l \in Links : l = visit[v].link /\ link[l].at \in {"live", "gone"}
        BY <2>2 DEF JudgedInv
      <3>2. link'[l].at \in {"live", "gone"} /\ (shareIsLive(l)' => shareIsLive(l))
        BY <3>1
      <3>. QED  BY <3>1, <3>2 DEF JudgedInv, VisitsAreJudgedFresh, shareIsLive
    <2>. QED  BY <2>1, <2>2
  <1>. QED  BY <1>1 DEF JudgedInv, VisitsAreJudgedFresh, shareIsLive

-----------------------------------------------------------------------------
(* The writers. *)

IsWrite(y, at, s, kind, b) ==
  y \in Writes /\ y.at = at /\ y.slot = s /\ y.kind = kind /\ y.body = b

LEMMA WriteStores ==
  \A x \in Writes, b \in Bodies : IsWrite([x EXCEPT !.at = "row", !.body = b], "row", x.slot, x.kind, b)
BY DEF Writes, IsWrite

LEMMA WriteStarts ==
  \A s \in Slots, kind \in {"whole", "partial"} :
    IsWrite([NoWrite EXCEPT !.at = "store", !.slot = s, !.kind = kind], "store", s, kind, NoText)
BY BodyKinds DEF NoWrite, Writes, IsWrite

(* A writer moves; what it holds it may hold.                               *)
LEMMA WriterMoves ==
  ASSUME ArchiveInv, NEW w \in Deliveries, NEW y \in Writes,
         write' = [write EXCEPT ![w] = y], objects' \in SUBSET Keys, objects \subseteq objects',
         y.slot = Synthesis => y.kind = "whole",
         y.at = "row" => y.body # NoText /\ y.body.ref \subseteq objects',
         UNCHANGED <<deletion, reading>>, UNCHANGED rowVars, UNCHANGED shareVars
  PROVE  ArchiveInv'
  <1>0. UNCHANGED <<kept, row, deletion, reading, link, visit, clock>>
    BY DEF rowVars, shareVars
  <1>1. ArchiveTypes'
    BY <1>0 DEF ArchiveInv, ArchiveTypes
  <1>2. \A v \in Deliveries : write'[v] = IF v = w THEN y ELSE write[v]
    BY DEF ArchiveInv, ArchiveTypes
  <1>3. StoredInv'
    BY <1>0, <1>2 DEF ArchiveInv, StoredInv, KeptRunsAreReadable
  <1>4. AnswerInv'
    BY <1>0, <1>2 DEF ArchiveInv, AnswerInv, hasAnswer
  <1>. QED  BY <1>1, <1>3, <1>4, JudgedKept DEF ArchiveInv

(* A row is written; the synthesis' only with a text that is there.         *)
LEMMA RowMoves ==
  ASSUME ArchiveInv, NEW s \in Slots, NEW z \in Rows, kept,
         row' = [row EXCEPT ![s] = z], z.body.ref \subseteq objects,
         s = Synthesis => z.status = "ok" /\ z.body # NoText,
         write' \in [Deliveries -> Writes],
         \A w \in Deliveries : write'[w] = write[w] \/ write'[w] = NoWrite,
         UNCHANGED <<kept, objects, deletion, reading>>, UNCHANGED shareVars
  PROVE  ArchiveInv'
  <1>0. UNCHANGED <<kept, objects, deletion, reading, link, visit, clock>>
    BY DEF shareVars
  <1>1. ArchiveTypes'
    BY <1>0 DEF ArchiveInv, ArchiveTypes
  <1>2. \A t \in Slots : row'[t] = IF t = s THEN z ELSE row[t]
    BY DEF ArchiveInv, ArchiveTypes
  <1>3. StoredInv'
    <2>1. \A t \in Slots : row'[t].body.ref \subseteq objects
      BY <1>2 DEF ArchiveInv, StoredInv
    <2>2. \A w \in Deliveries : write'[w].at = "row" => write'[w].body.ref \subseteq objects
      BY RecordStart DEF ArchiveInv, StoredInv
    <2>. QED  BY <1>0, <2>1, <2>2 DEF ArchiveInv, StoredInv, KeptRunsAreReadable
  <1>4. AnswerInv'
    <2>1. Synthesis \in Slots
      BY DEF Slots
    <2>2. /\ hasAnswer => hasAnswer'
          /\ hasAnswer' => row'[Synthesis].body # NoText
      BY <1>2, <2>1 DEF ArchiveInv, AnswerInv, hasAnswer
    <2>3. \A w \in Deliveries : /\ write'[w].slot = Synthesis => write'[w].kind = "whole"
                                /\ write'[w].at = "row" => write'[w].body # NoText
      BY RecordStart DEF ArchiveInv, AnswerInv
    <2>. QED  BY <1>0, <2>2, <2>3 DEF ArchiveInv, AnswerInv
  <1>. QED  BY <1>1, <1>3, <1>4, JudgedKept DEF ArchiveInv

LEMMA WriterStep ==
  ASSUME ArchiveInv, NEW w \in Deliveries,
         WriteBegins(w) \/ storeBody(w) \/ WriteRow(w) \/ WriteFails(w)
  PROVE  ArchiveInv'
  <1>0. /\ write \in [Deliveries -> Writes] /\ write[w] \in Writes /\ objects \in SUBSET Keys
        /\ row \in [Slots -> Rows]
        /\ write[w].slot \in Slots /\ write[w].kind \in {"whole", "partial"} /\ write[w].body \in Bodies
        /\ write[w].slot = Synthesis => write[w].kind = "whole"
    BY DEF ArchiveInv, ArchiveTypes, AnswerInv, Writes
  <1>1. CASE WriteBegins(w)
    <2>1. PICK s \in Slots, kind \in {"whole", "partial"} :
            /\ s = Synthesis => kind = "whole"
            /\ write' = [write EXCEPT ![w] = [NoWrite EXCEPT !.at = "store", !.slot = s, !.kind = kind]]
      BY <1>1, Zenon DEF WriteBegins
    <2>. DEFINE y == [NoWrite EXCEPT !.at = "store", !.slot = s, !.kind = kind]
    <2>2. IsWrite(y, "store", s, kind, NoText)
      BY WriteStarts, Zenon
    <2>. HIDE DEF y
    <2>3. /\ UNCHANGED <<objects, deletion, reading>> /\ UNCHANGED rowVars /\ UNCHANGED shareVars
          /\ write' = [write EXCEPT ![w] = y]
      BY <1>1, <2>1, Zenon DEF WriteBegins, y
    <2>4. y \in Writes /\ (y.slot = Synthesis => y.kind = "whole") /\ y.at # "row"
      BY <2>1, <2>2 DEF IsWrite
    <2>. QED  BY <1>0, <2>3, <2>4, WriterMoves
  <1>2. CASE storeBody(w)
    <2>1. /\ UNCHANGED <<deletion, reading>> /\ UNCHANGED rowVars /\ UNCHANGED shareVars
          /\ \/ /\ write' = [write EXCEPT ![w] = [write[w] EXCEPT !.at = "row", !.body = Inline]]
                /\ UNCHANGED objects
             \/ LET key == <<write[w].slot, write[w].kind>>
                IN /\ objects' = objects \cup {key}
                   /\ write' = [write EXCEPT ![w] = [write[w] EXCEPT !.at = "row", !.body = StoredAt(key)]]
      BY <1>2 DEF storeBody
    <2>2. ASSUME NEW b \in Bodies, b # NoText, objects' \in SUBSET Keys, objects \subseteq objects',
                 b.ref \subseteq objects',
                 write' = [write EXCEPT ![w] = [write[w] EXCEPT !.at = "row", !.body = b]]
          PROVE  ArchiveInv'
      <3>. DEFINE y == [write[w] EXCEPT !.at = "row", !.body = b]
      <3>1. IsWrite(y, "row", write[w].slot, write[w].kind, b)
        BY <1>0, WriteStores, Zenon
      <3>. HIDE DEF y
      <3>2. write' = [write EXCEPT ![w] = y]
        BY <2>2 DEF y
      <3>3. y \in Writes /\ (y.slot = Synthesis => y.kind = "whole") /\ y.body = b
        BY <1>0, <3>1 DEF IsWrite
      <3>. QED  BY <2>1, <2>2, <3>2, <3>3, WriterMoves
    <2>3. CASE /\ write' = [write EXCEPT ![w] = [write[w] EXCEPT !.at = "row", !.body = Inline]]
               /\ UNCHANGED objects
      <3>1. /\ Inline \in Bodies /\ Inline # NoText /\ Inline.ref \subseteq objects'
            /\ objects' \in SUBSET Keys /\ objects \subseteq objects'
        BY <1>0, <2>3, BodyKinds
      <3>. QED  BY <2>2, <2>3, <3>1, Zenon
    <2>4. ASSUME NEW key \in Keys, objects' = objects \cup {key},
                 write' = [write EXCEPT ![w] = [write[w] EXCEPT !.at = "row", !.body = StoredAt(key)]]
          PROVE  ArchiveInv'
      <3>1. /\ StoredAt(key) \in Bodies /\ StoredAt(key) # NoText /\ StoredAt(key).ref \subseteq objects'
            /\ objects' \in SUBSET Keys /\ objects \subseteq objects'
        BY <1>0, <2>4, BodyKinds
      <3>. QED  BY <2>2, <2>4, <3>1, Zenon
    <2>5. <<write[w].slot, write[w].kind>> \in Keys
      BY <1>0 DEF Keys
    <2>. QED  BY <2>1, <2>3, <2>4, <2>5, Zenon
  <1>3. CASE WriteRow(w)
    <2>1. /\ UNCHANGED <<kept, objects, deletion, reading>> /\ UNCHANGED shareVars
          /\ write[w].at = "row" /\ write' = [write EXCEPT ![w] = NoWrite]
      BY <1>3 DEF WriteRow
    <2>2. CASE ~kept
      <3>1. row' = row
        BY <1>3, <2>2 DEF WriteRow
      <3>2. UNCHANGED rowVars
        BY <2>1, <3>1 DEF rowVars
      <3>. QED  BY <1>0, <2>1, <3>2, RecordStart, WriterMoves
    <2>3. CASE kept
      <3>. DEFINE z == [status |-> IF write[w].kind = "whole" THEN "ok" ELSE "failed",
                        body |-> write[w].body]
      <3>1. row' = [row EXCEPT ![write[w].slot] = z]
        BY <1>3, <2>3 DEF WriteRow
      <3>2. z \in Rows /\ z.body = write[w].body /\ (write[w].kind = "whole" => z.status = "ok")
        BY <1>0 DEF Rows
      <3>. HIDE DEF z
      <3>3. write[w].body # NoText /\ write[w].body.ref \subseteq objects
        BY <2>1, <2>3 DEF ArchiveInv, AnswerInv, StoredInv
      <3>4. /\ write' \in [Deliveries -> Writes]
            /\ \A v \in Deliveries : write'[v] = write[v] \/ write'[v] = NoWrite
        BY <1>0, <2>1, RecordStart
      <3>. QED  BY <1>0, <2>1, <2>3, <3>1, <3>2, <3>3, <3>4, RowMoves
    <2>. QED  BY <2>2, <2>3
  <1>4. CASE WriteFails(w)
    <2>1. /\ UNCHANGED <<objects, deletion, reading>> /\ UNCHANGED rowVars /\ UNCHANGED shareVars
          /\ write' = [write EXCEPT ![w] = NoWrite]
      BY <1>4 DEF WriteFails
    <2>. QED  BY <1>0, <2>1, RecordStart, WriterMoves
  <1>. QED  BY <1>1, <1>2, <1>3, <1>4

LEMMA SettleStep ==
  ASSUME ArchiveInv, NEW s \in Slots, SettleWithoutBody(s)
  PROVE  ArchiveInv'
  <1>. DEFINE z == [row[s] EXCEPT !.status = "failed"]
  <1>1. /\ kept /\ s # Synthesis /\ row' = [row EXCEPT ![s] = z] /\ write' = write
        /\ UNCHANGED <<kept, objects, deletion, reading>> /\ UNCHANGED shareVars
    BY ArchiveAssumption DEF SettleWithoutBody
  <1>2. z \in Rows /\ z.body = row[s].body
    BY DEF ArchiveInv, ArchiveTypes, Rows
  <1>. HIDE DEF z
  <1>3. z.body.ref \subseteq objects /\ write' \in [Deliveries -> Writes]
    BY <1>1, <1>2 DEF ArchiveInv, ArchiveTypes, StoredInv
  <1>. QED  BY <1>1, <1>2, <1>3, RowMoves

-----------------------------------------------------------------------------
(* The deletion, and a reader. *)

(* An object goes only when the run has gone.                               *)
LEMMA DeletionMoves ==
  ASSUME ArchiveInv, deletion' \in [at: {"idle", "rows", "objects"}, keys: SUBSET Keys],
         deletion'.at = "objects" => ~kept, objects' \in SUBSET Keys, kept => objects' = objects,
         UNCHANGED <<write, reading>>, UNCHANGED rowVars, UNCHANGED shareVars
  PROVE  ArchiveInv'
  <1>0. UNCHANGED <<kept, row, write, reading, link, visit, clock>>
    BY DEF rowVars, shareVars
  <1>1. ArchiveTypes'
    BY <1>0 DEF ArchiveInv, ArchiveTypes
  <1>2. StoredInv'
    BY <1>0 DEF ArchiveInv, StoredInv, KeptRunsAreReadable
  <1>. QED  BY <1>0, <1>1, <1>2, AnswerKept, JudgedKept DEF ArchiveInv

LEMMA CollectStep ==
  ASSUME ArchiveInv, Collect  PROVE ArchiveInv'
  <1>. DEFINE keys == UNION {row[s].body.ref : s \in Slots}
  <1>1. /\ deletion' = [at |-> "rows", keys |-> keys]
        /\ UNCHANGED <<objects, write, reading>> /\ UNCHANGED rowVars /\ UNCHANGED shareVars
    BY DEF Collect
  <1>2. keys \in SUBSET Keys
    BY BodyKinds DEF ArchiveInv, ArchiveTypes, Rows
  <1>. HIDE DEF keys
  <1>3. deletion' \in [at: {"idle", "rows", "objects"}, keys: SUBSET Keys] /\ deletion'.at = "rows"
    BY <1>1, <1>2
  <1>. QED  BY <1>1, <1>3, DeletionMoves DEF ArchiveInv, ArchiveTypes

LEMMA ObjectStep ==
  ASSUME ArchiveInv, NEW key \in Keys, DeleteObject(key)  PROVE ArchiveInv'
  <1>1. /\ deletion.at = "objects" /\ deletion' = [deletion EXCEPT !.keys = @ \ {key}]
        /\ objects' = objects \ {key}
        /\ UNCHANGED <<write, reading>> /\ UNCHANGED rowVars /\ UNCHANGED shareVars
    BY DEF DeleteObject
  <1>2. ~kept
    BY <1>1 DEF ArchiveInv, StoredInv
  <1>3. deletion' \in [at: {"idle", "rows", "objects"}, keys: SUBSET Keys]
    BY <1>1 DEF ArchiveInv, ArchiveTypes
  <1>. QED  BY <1>1, <1>2, <1>3, DeletionMoves DEF ArchiveInv, ArchiveTypes

LEMMA DeletionFailsStep ==
  ASSUME ArchiveInv, DeletionFails  PROVE ArchiveInv'
BY DeletionMoves DEF DeletionFails, NoDeletion, ArchiveInv, ArchiveTypes

(* With the rows go the links, so nothing that was judged is live again.    *)
LEMMA RowsStep ==
  ASSUME ArchiveInv, DeleteRows  PROVE ArchiveInv'
  <1>1. /\ kept' = FALSE /\ deletion' = [deletion EXCEPT !.at = "objects"]
        /\ row' = [s \in Slots |-> BlankRow]
        /\ UNCHANGED <<objects, write, reading, visit, clock>>
    BY DEF DeleteRows
  <1>2. ASSUME NEW l \in Links
        PROVE  /\ link'[l] \in Shares /\ link'[l].at # "live"
               /\ link[l].at \in {"live", "gone"} => link'[l].at = "gone"
    <2>1. PICK at \in {"none", "checked", "gone"} :
            /\ link'[l] = [link[l] EXCEPT !.at = at]
            /\ link[l].at \in {"live", "gone"} => at = "gone"
      <3>1. /\ link'[l] = [link[l] EXCEPT !.at = IF link[l].at = "live" THEN "gone" ELSE link[l].at]
            /\ link[l].at \in {"none", "checked", "live", "gone"}
        BY DEF DeleteRows, ArchiveInv, ArchiveTypes, Shares
      <3>. QED  BY <3>1
    <2>2. link[l] \in Shares
      BY DEF ArchiveInv, ArchiveTypes
    <2>. QED  BY <2>1, <2>2 DEF Shares
  <1>3. \A l \in Links : link'[l] \in Shares
    BY <1>2
  <1>4. \A l \in Links : link'[l].at # "live"
    BY <1>2
  <1>5. DOMAIN link' = Links /\ link' = [l \in Links |-> link'[l]]
    BY DEF DeleteRows
  <1>6. ArchiveTypes'
    <2>1. link' \in [Links -> Shares]
      BY <1>3, <1>5
    <2>2. row' \in [Slots -> Rows]
      BY <1>1, RecordStart
    <2>3. deletion' \in [at: {"idle", "rows", "objects"}, keys: SUBSET Keys]
      BY <1>1 DEF ArchiveInv, ArchiveTypes
    <2>. QED  BY <1>1, <2>1, <2>2, <2>3 DEF ArchiveInv, ArchiveTypes
  <1>7. StoredInv'
    BY <1>1 DEF StoredInv, KeptRunsAreReadable
  <1>8. AnswerInv'
    <2>1. ~hasAnswer'
      BY <1>1, RecordStart DEF hasAnswer, Slots
    <2>2. \A w \in Deliveries : /\ write'[w].slot = Synthesis => write'[w].kind = "whole"
                                /\ write'[w].at = "row" => write'[w].body # NoText
      BY <1>1 DEF ArchiveInv, AnswerInv
    <2>. QED  BY <1>1, <1>4, <2>1, <2>2, Zenon DEF AnswerInv
  <1>9. JudgedInv'
    <2>1. \A l \in Links : ~shareIsLive(l)'
      BY <1>4, Zenon DEF shareIsLive
    <2>2. \A l \in Links : link[l].at \in {"live", "gone"} => link'[l].at \in {"live", "gone"}
      BY <1>2
    <2>3. \A l \in Links : link[l].at \in {"live", "gone"} =>
            link'[l].at \in {"live", "gone"} /\ (shareIsLive(l)' => shareIsLive(l))
      BY <2>1, <2>2, Zenon
    <2>. QED  BY <1>1, <2>3, JudgedAfterLinks DEF ArchiveInv
  <1>. QED  BY <1>6, <1>7, <1>8, <1>9 DEF ArchiveInv

LEMMA ReaderStep ==
  ASSUME ArchiveInv, getRun \/ toRun  PROVE ArchiveInv'
  <1>. DEFINE Readings == [at: {"idle", "body", "done"}, body: Bodies, found: {"none", "text", "unavailable"}]
  <1>0. UNCHANGED <<kept, row, objects, write, deletion, link, visit, clock>>
    BY Zenon DEF getRun, toRun, rowVars, shareVars
  <1>1. /\ reading' \in Readings /\ (kept => reading'.body.ref \subseteq objects)
        /\ reading'.found = "unavailable" => ~kept
    <2>1. CASE getRun
      <3>1. PICK s \in Slots : reading' = [NoReading EXCEPT !.at = "body", !.body = row[s].body]
        BY <2>1, Zenon DEF getRun
      <3>2. PICK b \in Bodies : b = row[s].body
        BY DEF ArchiveInv, ArchiveTypes, Rows
      <3>3. reading' \in Readings /\ reading'.body = b /\ reading'.found = "none"
        BY <3>1, <3>2 DEF NoReading
      <3>. QED  BY <3>2, <3>3 DEF ArchiveInv, StoredInv
    <2>2. CASE toRun
      <3>1. PICK f \in {"none", "text", "unavailable"} : f = readBody(reading.body)
        BY DEF readBody
      <3>2. reading' = [NoReading EXCEPT !.at = "done", !.found = f]
        BY <2>2, <3>1 DEF toRun
      <3>3. reading' \in Readings /\ reading'.body = NoText /\ reading'.found = f
        BY <3>2, BodyKinds DEF NoReading
      <3>4. f = "unavailable" => ~kept
        BY <3>1 DEF readBody, ArchiveInv, StoredInv
      <3>. QED  BY <3>3, <3>4, BodyKinds
    <2>. QED  BY <2>1, <2>2
  <1>. HIDE DEF Readings
  <1>2. ArchiveTypes'
    BY <1>0, <1>1 DEF ArchiveInv, ArchiveTypes, Readings
  <1>3. StoredInv'
    BY <1>0, <1>1 DEF ArchiveInv, StoredInv, KeptRunsAreReadable
  <1>. QED  BY <1>0, <1>2, <1>3, AnswerKept, JudgedKept DEF ArchiveInv, shareVars

-----------------------------------------------------------------------------
(* The links, and their visitors. *)

(* A link moves: it is live only on a run that is kept and has an answer,   *)
(* and never again once it is not.                                          *)
LEMMA LinkMoves ==
  ASSUME ArchiveInv, NEW l \in Links, NEW y \in Shares, link' = [link EXCEPT ![l] = y],
         y.at = "live" => kept, y.at \in {"checked", "live"} /\ kept => hasAnswer,
         link[l].at \in {"live", "gone"} =>
           y.at = link[l].at /\ y.expires = link[l].expires /\ (link[l].revoked => y.revoked),
         UNCHANGED <<visit, clock>>, UNCHANGED archiveRest, UNCHANGED rowVars
  PROVE  ArchiveInv'
  <1>0. UNCHANGED <<kept, row, objects, write, deletion, reading, visit, clock>>
    BY DEF archiveRest, rowVars
  <1>1. ArchiveTypes'
    BY <1>0 DEF ArchiveInv, ArchiveTypes
  <1>2. \A k \in Links : link'[k] = IF k = l THEN y ELSE link[k]
    BY DEF ArchiveInv, ArchiveTypes
  <1>3. StoredInv'
    BY <1>0 DEF ArchiveInv, StoredInv, KeptRunsAreReadable
  <1>4. AnswerInv'
    BY <1>0, <1>2 DEF ArchiveInv, AnswerInv, hasAnswer
  <1>5. \A k \in Links : link[k].at \in {"live", "gone"} =>
          link'[k].at \in {"live", "gone"} /\ (shareIsLive(k)' => shareIsLive(k))
    <2>1. \A k \in Links : shareIsLive(k)' <=> link'[k].at = "live" /\ ~link'[k].revoked /\ clock < link'[k].expires
      BY <1>0 DEF shareIsLive
    <2>2. \A k \in Links : shareIsLive(k) <=> link[k].at = "live" /\ ~link[k].revoked /\ clock < link[k].expires
      BY DEF shareIsLive
    <2>. QED  BY <1>2, <2>1, <2>2
  <1>. QED  BY <1>0, <1>1, <1>3, <1>4, <1>5, JudgedAfterLinks DEF ArchiveInv

IsShare(y, at, expires, revoked) ==
  y \in Shares /\ y.at = at /\ y.expires = expires /\ y.revoked = revoked

LEMMA ShareFields ==
  /\ \A x \in Shares : IsShare([x EXCEPT !.at = "checked"], "checked", x.expires, x.revoked)
  /\ \A x \in Shares : IsShare([x EXCEPT !.revoked = TRUE], x.at, x.expires, TRUE)
  /\ \A e \in 0..Never : IsShare([NoLink EXCEPT !.at = "live", !.expires = e], "live", e, FALSE)
  /\ IsShare([NoLink EXCEPT !.at = "gone"], "gone", Never, FALSE)
  <1>1. \A x \in Shares : IsShare([x EXCEPT !.at = "checked"], "checked", x.expires, x.revoked)
    BY DEF Shares, IsShare
  <1>2. \A x \in Shares : IsShare([x EXCEPT !.revoked = TRUE], x.at, x.expires, TRUE)
    BY DEF Shares, IsShare
  <1>3. \A e \in 0..Never : IsShare([NoLink EXCEPT !.at = "live", !.expires = e], "live", e, FALSE)
    BY DEF NoLink, Shares, IsShare
  <1>4. IsShare([NoLink EXCEPT !.at = "gone"], "gone", Never, FALSE)
    <2>1. NoLink \in Shares /\ NoLink.expires = Never /\ NoLink.revoked = FALSE
      BY RecordStart DEF NoLink
    <2>. QED  BY <2>1 DEF Shares, IsShare
  <1>. QED  BY <1>1, <1>2, <1>3, <1>4, Zenon

LEMMA LinkStep ==
  ASSUME ArchiveInv, NEW l \in Links, CheckShareable(l) \/ createShare(l) \/ revokeShare(l)
  PROVE  ArchiveInv'
  <1>0. link[l] \in Shares /\ clock \in 0..LastTick
    BY DEF ArchiveInv, ArchiveTypes
  <1>1. CASE CheckShareable(l)
    <2>. DEFINE y == [link[l] EXCEPT !.at = "checked"]
    <2>1. /\ link[l].at = "none" /\ hasAnswer /\ link' = [link EXCEPT ![l] = y]
          /\ UNCHANGED <<visit, clock>> /\ UNCHANGED archiveRest /\ UNCHANGED rowVars
      BY <1>1 DEF CheckShareable
    <2>2. IsShare(y, "checked", link[l].expires, link[l].revoked)
      BY <1>0, ShareFields, Zenon
    <2>. HIDE DEF y
    <2>. QED  BY <2>1, <2>2, LinkMoves DEF IsShare
  <1>2. CASE createShare(l)
    <2>1. PICK e \in {clock + 1, Never} :
            link' = [link EXCEPT ![l] = IF kept THEN [NoLink EXCEPT !.at = "live", !.expires = e]
                                        ELSE [NoLink EXCEPT !.at = "gone"]]
      BY <1>2, Zenon DEF createShare
    <2>2. /\ link[l].at = "checked"
          /\ UNCHANGED <<visit, clock>> /\ UNCHANGED archiveRest /\ UNCHANGED rowVars
      BY <1>2, Zenon DEF createShare
    <2>3. e \in 0..Never
      BY <1>0, ArchiveAssumption
    <2>4. CASE kept
      <3>. DEFINE y == [NoLink EXCEPT !.at = "live", !.expires = e]
      <3>1. link' = [link EXCEPT ![l] = y]
        BY <2>1, <2>4
      <3>2. IsShare(y, "live", e, FALSE)
        BY <2>3, ShareFields, Zenon
      <3>3. hasAnswer
        BY <2>2, <2>4 DEF ArchiveInv, AnswerInv
      <3>. HIDE DEF y
      <3>. QED  BY <2>2, <2>4, <3>1, <3>2, <3>3, LinkMoves DEF IsShare
    <2>5. CASE ~kept
      <3>. DEFINE y == [NoLink EXCEPT !.at = "gone"]
      <3>1. link' = [link EXCEPT ![l] = y]
        BY <2>1, <2>5
      <3>2. IsShare(y, "gone", Never, FALSE)
        BY ShareFields, Zenon
      <3>. HIDE DEF y
      <3>. QED  BY <2>2, <2>5, <3>1, <3>2, LinkMoves DEF IsShare
    <2>. QED  BY <2>4, <2>5
  <1>3. CASE revokeShare(l)
    <2>. DEFINE y == [link[l] EXCEPT !.revoked = TRUE]
    <2>1. /\ link[l].at = "live" /\ link' = [link EXCEPT ![l] = y]
          /\ UNCHANGED <<visit, clock>> /\ UNCHANGED archiveRest /\ UNCHANGED rowVars
      BY <1>3 DEF revokeShare
    <2>2. IsShare(y, link[l].at, link[l].expires, TRUE)
      BY <1>0, ShareFields, Zenon
    <2>3. kept /\ hasAnswer
      BY <2>1 DEF ArchiveInv, AnswerInv
    <2>. HIDE DEF y
    <2>. QED  BY <2>1, <2>2, <2>3, LinkMoves DEF IsShare
  <1>. QED  BY <1>1, <1>2, <1>3

LEMMA TickStep ==
  ASSUME ArchiveInv, ArchiveTick  PROVE ArchiveInv'
  <1>0. /\ UNCHANGED <<kept, row, objects, write, deletion, reading, link, visit>>
        /\ clock < LastTick /\ clock' = clock + 1
    BY DEF ArchiveTick, archiveRest, rowVars
  <1>1. ArchiveTypes'
    BY <1>0, ArchiveAssumption DEF ArchiveInv, ArchiveTypes
  <1>2. StoredInv'
    BY <1>0 DEF ArchiveInv, StoredInv, KeptRunsAreReadable
  <1>3. \A k \in Links : shareIsLive(k)' => shareIsLive(k)
    BY <1>0, ArchiveAssumption DEF shareIsLive, ArchiveInv, ArchiveTypes, Shares
  <1>. QED  BY <1>0, <1>1, <1>2, <1>3, AnswerKept, JudgedAfterLinks DEF ArchiveInv

(* What a visit may be, whatever the others are.                            *)
Fits(y) ==
  /\ y \in Visits /\ (kept => y.body.ref \subseteq objects)
  /\ y.at # "idle" => y.link \in Links /\ link[y.link].at \in {"live", "gone"}
  /\ y.at = "look" /\ y.dead => ~shareIsLive(y.link)
  /\ y.at \in {"body", "served"} => ~y.dead
  /\ y.at = "body" => y.body # NoText
  /\ y.at = "refused" => y.dead \/ ~shareIsLive(y.link)

LEMMA VisitMoves ==
  ASSUME ArchiveInv, NEW v \in Visitors, NEW y, Fits(y), visit' = [visit EXCEPT ![v] = y],
         UNCHANGED <<link, clock>>, UNCHANGED archiveRest, UNCHANGED rowVars
  PROVE  ArchiveInv'
  <1>0. UNCHANGED <<kept, row, objects, write, deletion, reading, link, clock>>
    BY DEF archiveRest, rowVars
  <1>1. ArchiveTypes'
    BY <1>0 DEF ArchiveInv, ArchiveTypes, Fits
  <1>2. \A u \in Visitors : visit'[u] = IF u = v THEN y ELSE visit[u]
    BY DEF ArchiveInv, ArchiveTypes
  <1>3. StoredInv'
    BY <1>0, <1>2 DEF ArchiveInv, StoredInv, KeptRunsAreReadable, Fits
  <1>4. \A x : shareIsLive(x)' <=> shareIsLive(x)
    BY <1>0 DEF shareIsLive
  <1>5. \A u \in Visitors : Fits(visit[u])
    BY DEF ArchiveInv, ArchiveTypes, StoredInv, JudgedInv, VisitsAreJudgedFresh, Fits
  <1>6. \A u \in Visitors : Fits(visit'[u])
    BY <1>2, <1>5, Zenon
  <1>7. JudgedInv'
    BY <1>0, <1>4, <1>6 DEF JudgedInv, VisitsAreJudgedFresh, Fits
  <1>. QED  BY <1>0, <1>1, <1>3, <1>7, AnswerKept DEF ArchiveInv

IsVisit(y, at, l, dead, b) ==
  y \in Visits /\ y.at = at /\ y.link = l /\ y.dead = dead /\ y.body = b

LEMMA VisitFields ==
  /\ \A l \in Links, d \in BOOLEAN :
       IsVisit([NoVisit EXCEPT !.at = "look", !.link = l, !.dead = d], "look", l, d, NoText)
  /\ \A x \in Visits, b \in Bodies :
       IsVisit([x EXCEPT !.at = "body", !.body = b], "body", x.link, x.dead, b)
  /\ \A x \in Visits : IsVisit([x EXCEPT !.at = "served"], "served", x.link, x.dead, x.body)
  /\ \A x \in Visits : IsVisit([x EXCEPT !.at = "refused"], "refused", x.link, x.dead, x.body)
  <1>1. \A l \in Links, d \in BOOLEAN :
          IsVisit([NoVisit EXCEPT !.at = "look", !.link = l, !.dead = d], "look", l, d, NoText)
    BY BodyKinds DEF NoVisit, Visits, IsVisit
  <1>2. \A x \in Visits, b \in Bodies :
          IsVisit([x EXCEPT !.at = "body", !.body = b], "body", x.link, x.dead, b)
    BY DEF Visits, IsVisit
  <1>3. \A x \in Visits : IsVisit([x EXCEPT !.at = "served"], "served", x.link, x.dead, x.body)
    BY DEF Visits, IsVisit
  <1>4. \A x \in Visits : IsVisit([x EXCEPT !.at = "refused"], "refused", x.link, x.dead, x.body)
    BY DEF Visits, IsVisit
  <1>. QED  BY <1>1, <1>2, <1>3, <1>4, Zenon

LEMMA ArrivalStep ==
  ASSUME ArchiveInv, NEW v \in Visitors, NEW l \in Links, VisitArrives(v, l)
  PROVE  ArchiveInv'
  <1>. PICK d \in BOOLEAN : d <=> ~shareIsLive(l)
    OBVIOUS
  <1>. DEFINE y == [NoVisit EXCEPT !.at = "look", !.link = l, !.dead = d]
  <1>1. /\ link[l].at \in {"live", "gone"}
        /\ UNCHANGED <<link, clock>> /\ UNCHANGED archiveRest /\ UNCHANGED rowVars
    BY DEF VisitArrives
  <1>2. visit' = [visit EXCEPT ![v] = y]
    <2>1. d = ~shareIsLive(l)
      BY DEF shareIsLive
    <2>. QED  BY <2>1, Zenon DEF VisitArrives
  <1>3. IsVisit(y, "look", l, d, NoText)
    BY VisitFields, Zenon
  <1>. HIDE DEF y
  <1>4. Fits(y)
    BY <1>1, <1>3, BodyKinds DEF IsVisit, Fits
  <1>. QED  BY <1>1, <1>2, <1>4, VisitMoves

LEMMA VisitorStep ==
  ASSUME ArchiveInv, NEW v \in Visitors, resolveShare(v) \/ toSharedRun(v)
  PROVE  ArchiveInv'
  <1>. DEFINE l == visit[v].link
  <1>0. /\ UNCHANGED <<link, clock>> /\ UNCHANGED archiveRest /\ UNCHANGED rowVars
        /\ visit[v].at \in {"look", "body"} /\ visit[v] \in Visits
    BY DEF resolveShare, toSharedRun, ArchiveInv, ArchiveTypes
  <1>1. /\ l \in Links /\ link[l].at \in {"live", "gone"}
        /\ visit[v].at = "look" /\ visit[v].dead => ~shareIsLive(l)
        /\ visit[v].at = "body" => ~visit[v].dead /\ visit[v].body # NoText
        /\ kept => visit[v].body.ref \subseteq objects
        /\ visit[v].body \in Bodies /\ visit[v].dead \in BOOLEAN
    BY <1>0 DEF ArchiveInv, StoredInv, JudgedInv, Visits
  <1>2. link[l].at = "live" => kept /\ hasAnswer /\ row[Synthesis].body # NoText
    BY <1>1 DEF ArchiveInv, AnswerInv
  <1>3. /\ row[Synthesis].body \in Bodies
        /\ kept => row[Synthesis].body.ref \subseteq objects
    BY DEF Slots, ArchiveInv, ArchiveTypes, Rows, StoredInv
  <1>4. CASE visit' = [visit EXCEPT ![v] = Refused(v)] /\ ~shareIsLive(l)
    <2>1. IsVisit(Refused(v), "refused", l, visit[v].dead, visit[v].body)
      BY <1>0, VisitFields, Zenon DEF Refused
    <2>2. Fits(Refused(v))
      BY <1>1, <1>4, <2>1 DEF IsVisit, Fits
    <2>. QED  BY <1>0, <1>4, <2>2, VisitMoves
  <1>5. CASE resolveShare(v)
    <2>1. CASE \/ link[l].at = "gone" \/ link[l].revoked \/ clock >= link[l].expires
               \/ row[Synthesis].body = NoText
      <3>1. visit' = [visit EXCEPT ![v] = Refused(v)]
        BY <1>5, <2>1 DEF resolveShare
      <3>2. ~shareIsLive(l)
        BY <1>1, <1>2, <2>1 DEF shareIsLive, ArchiveInv, ArchiveTypes, Shares
      <3>. QED  BY <1>4, <3>1, <3>2
    <2>2. CASE ~(\/ link[l].at = "gone" \/ link[l].revoked \/ clock >= link[l].expires
                 \/ row[Synthesis].body = NoText)
      <3>. DEFINE y == [visit[v] EXCEPT !.at = "body", !.body = row[Synthesis].body]
      <3>1. visit' = [visit EXCEPT ![v] = y] /\ visit[v].at = "look"
        BY <1>5, <2>2 DEF resolveShare
      <3>2. IsVisit(y, "body", l, visit[v].dead, row[Synthesis].body)
        BY <1>0, <1>3, VisitFields, Zenon
      <3>3. shareIsLive(l)
        BY <1>1, <2>2 DEF shareIsLive, ArchiveInv, ArchiveTypes, Shares
      <3>. HIDE DEF y
      <3>4. Fits(y)
        BY <1>1, <1>3, <2>2, <3>1, <3>2, <3>3 DEF IsVisit, Fits
      <3>. QED  BY <1>0, <3>1, <3>4, VisitMoves
    <2>. QED  BY <2>1, <2>2
  <1>6. CASE toSharedRun(v)
    <2>1. CASE readBody(visit[v].body) = "text"
      <3>. DEFINE y == [visit[v] EXCEPT !.at = "served"]
      <3>1. visit' = [visit EXCEPT ![v] = y] /\ visit[v].at = "body"
        BY <1>6, <2>1 DEF toSharedRun
      <3>2. IsVisit(y, "served", l, visit[v].dead, visit[v].body)
        BY <1>0, VisitFields, Zenon
      <3>. HIDE DEF y
      <3>3. Fits(y)
        BY <1>1, <3>1, <3>2 DEF IsVisit, Fits
      <3>. QED  BY <1>0, <3>1, <3>3, VisitMoves
    <2>2. CASE readBody(visit[v].body) # "text"
      <3>1. visit' = [visit EXCEPT ![v] = Refused(v)] /\ visit[v].at = "body"
        BY <1>6, <2>2 DEF toSharedRun
      <3>2. ~kept
        BY <1>1, <2>2, <3>1 DEF readBody
      <3>3. ~shareIsLive(l)
        BY <1>2, <3>2 DEF shareIsLive
      <3>. QED  BY <1>4, <3>1, <3>3
    <2>. QED  BY <2>1, <2>2
  <1>. QED  BY <1>5, <1>6

-----------------------------------------------------------------------------
LEMMA ArchiveStep ==
  ASSUME ArchiveInv, [ArchiveNext]_archiveVars  PROVE ArchiveInv'
  <1>1. CASE UNCHANGED archiveVars
    BY <1>1 DEF archiveVars, ArchiveInv, ArchiveTypes, StoredInv, AnswerInv, JudgedInv, hasAnswer,
                shareIsLive, KeptRunsAreReadable, VisitsAreJudgedFresh
  <1>2. CASE ArchiveNext
    BY <1>2, WriterStep, SettleStep, CollectStep, RowsStep, DeletionFailsStep, ObjectStep, ReaderStep,
       LinkStep, ArrivalStep, VisitorStep, TickStep, Zenon DEF ArchiveNext
  <1>. QED  BY <1>1, <1>2

LEMMA ArchiveStart ==
  ASSUME ArchiveInit  PROVE ArchiveInv
  <1>1. ArchiveTypes
    BY RecordStart, ArchiveAssumption DEF ArchiveInit, ArchiveTypes, NoDeletion
  <1>2. StoredInv
    BY RecordStart, BodyKinds DEF ArchiveInit, StoredInv, NoDeletion, KeptRunsAreReadable
  <1>3. AnswerInv
    BY RecordStart DEF ArchiveInit, AnswerInv, hasAnswer, Slots
  <1>4. JudgedInv
    BY RecordStart DEF ArchiveInit, JudgedInv, VisitsAreJudgedFresh
  <1>. QED  BY <1>1, <1>2, <1>3, <1>4 DEF ArchiveInv

(* Whatever the writers, the deletion, the readers and the visitors do, the *)
(* keys held on a kept run are there and a link that died stays dead.       *)
THEOREM ArchiveInvariant == ArchiveSpec => []ArchiveInv
  <1>. QED  BY ArchiveStart, ArchiveStep, PTL DEF ArchiveSpec

(* A run that is kept is read in full, and a visit is served or refused by  *)
(* its link as it is during the visit.                                      *)
THEOREM ArchiveSafe == ArchiveSpec => []ArchiveHolds
  <1>1. ArchiveInv => ArchiveHolds
    BY DEF ArchiveInv, StoredInv, JudgedInv, ArchiveHolds
  <1>. QED  BY <1>1, ArchiveInvariant, PTL

-----------------------------------------------------------------------------
(* The receivers. *)

ReceiverTypes ==
  /\ ReceiversTypeOK /\ told \in [Runs -> 0..1]
  /\ receiver \in [secrets : SUBSET Endpoints, handled : SUBSET Nat]
  /\ \A e \in Endpoints : endpoint[e] # {} => e \notin deleted

(* A run's event is minted when its job is done, so it has one id.          *)
MintedInv ==
  /\ \A r \in Runs : synthesis[r] = "announce" => status[r] \in RunEnds
  /\ \A i \in 1..Len(minted) : synthesis[minted[i]] = "done"
  /\ \A i, j \in 1..Len(minted) : minted[i] = minted[j] => i = j

(* What was told was handled under that id.                                 *)
ToldInv == \A r \in Runs : told[r] # 0 => \E i \in receiver.handled : minted[i] = r

ReceiverInv == ReceiverTypes /\ MintedInv /\ ToldInv

LEMMA EndpointStep ==
  ASSUME ReceiverInv, NEW e \in Endpoints,
         createWebhookEndpoint(e) \/ deleteWebhookEndpoint(e) \/ Configure(e)
  PROVE  ReceiverInv'
  <1>0. UNCHANGED <<status, synthesis, crashes, minted, expected, posts, told>>
    BY DEF createWebhookEndpoint, deleteWebhookEndpoint, Configure, runSide, farSide
  <1>1. MintedInv'
    BY <1>0 DEF ReceiverInv, MintedInv
  <1>2. /\ receiver' \in [secrets : SUBSET Endpoints, handled : SUBSET Nat]
        /\ receiver'.secrets \subseteq Endpoints /\ receiver'.handled = receiver.handled
    BY DEF createWebhookEndpoint, deleteWebhookEndpoint, Configure, farSide, ReceiverInv, ReceiverTypes,
           ReceiversTypeOK
  <1>3. ToldInv'
    BY <1>0, <1>2 DEF ReceiverInv, ToldInv
  <1>4. /\ endpoint' \in [Endpoints -> SUBSET webhookEventType]
        /\ \A x \in Endpoints : endpoint'[x] # {} => x \notin deleted'
    <2>1. CASE createWebhookEndpoint(e)
      <3>1. PICK types \in SUBSET webhookEventType :
              endpoint' = [endpoint EXCEPT ![e] = IF types = {} THEN webhookEventType ELSE types]
        BY <2>1 DEF createWebhookEndpoint
      <3>2. e \notin deleted /\ deleted' = deleted
        BY <2>1 DEF createWebhookEndpoint
      <3>. QED  BY <3>1, <3>2 DEF ReceiverInv, ReceiverTypes, ReceiversTypeOK
    <2>2. CASE deleteWebhookEndpoint(e)
      BY <2>2 DEF deleteWebhookEndpoint, ReceiverInv, ReceiverTypes, ReceiversTypeOK
    <2>3. CASE Configure(e)
      BY <2>3 DEF Configure, ReceiverInv, ReceiverTypes, ReceiversTypeOK
    <2>. QED  BY <2>1, <2>2, <2>3
  <1>5. /\ DOMAIN dispatch' \subseteq (Endpoints \ deleted') \X (1..Len(minted))
        /\ \A d \in DOMAIN dispatch' : dispatch'[d] \in {"PENDING", "DELIVERED", "FAILED"}
    <2>1. CASE UNCHANGED <<deleted, dispatch>>
      BY <2>1 DEF ReceiverInv, ReceiverTypes, ReceiversTypeOK
    <2>2. CASE deleteWebhookEndpoint(e)
      BY <2>2 DEF deleteWebhookEndpoint, ReceiverInv, ReceiverTypes, ReceiversTypeOK
    <2>. QED  BY <2>1, <2>2 DEF createWebhookEndpoint, Configure
  <1>6. ReceiverTypes'
    BY <1>0, <1>2, <1>4, <1>5 DEF ReceiverInv, ReceiverTypes, ReceiversTypeOK
  <1>. QED  BY <1>1, <1>3, <1>6 DEF ReceiverInv

(* The job of a run moves; only announcing it mints anything.               *)
LEMMA RunSideStep ==
  ASSUME ReceiverInv, NEW r \in Runs, processSynthesisJob(r) \/ EndsElsewhere(r) \/ WorkerDies(r)
  PROVE  ReceiverInv'
  <1>0. UNCHANGED <<minted, dispatch, endpoint, deleted, posts, receiver, told>>
    BY DEF processSynthesisJob, EndsElsewhere, WorkerDies, endpointRest, farSide
  <1>1. /\ status' \in [Runs -> {"SYNTHESIZING"} \cup RunEnds]
        /\ \A q \in Runs : status[q] \in RunEnds => status'[q] \in RunEnds
    BY DEF processSynthesisJob, EndsElsewhere, WorkerDies, Ends, RunEnds, ReceiverInv, ReceiverTypes,
           ReceiversTypeOK
  <1>2. /\ synthesis' \in [Runs -> {"waiting", "announce", "done"}]
        /\ \A q \in Runs : /\ synthesis[q] = "done" => synthesis'[q] = "done"
                           /\ synthesis'[q] = "announce" => status'[q] \in RunEnds
    BY DEF processSynthesisJob, EndsElsewhere, WorkerDies, Ends, RunEnds, ReceiverInv, ReceiverTypes,
           ReceiversTypeOK, MintedInv
  <1>3. crashes' \in 0..MaxCrashes
    BY ReceiversAssumption DEF processSynthesisJob, EndsElsewhere, WorkerDies, ReceiverInv, ReceiverTypes,
       ReceiversTypeOK
  <1>4. ReceiverTypes'
    BY <1>0, <1>1, <1>2, <1>3 DEF ReceiverInv, ReceiverTypes, ReceiversTypeOK
  <1>5. MintedInv'
    <2>1. \A i \in 1..Len(minted) : minted[i] \in Runs
      BY DEF ReceiverInv, ReceiverTypes, ReceiversTypeOK
    <2>2. \A i \in 1..Len(minted) : synthesis[minted[i]] = "done"
      BY DEF ReceiverInv, MintedInv
    <2>3. \A i \in 1..Len(minted) : synthesis'[minted[i]] = "done"
      BY <1>2, <2>1, <2>2, Zenon
    <2>4. \A q \in Runs : synthesis'[q] = "announce" => status'[q] \in RunEnds
      BY <1>2
    <2>5. \A i, j \in 1..Len(minted) : minted[i] = minted[j] => i = j
      BY DEF ReceiverInv, MintedInv
    <2>. QED  BY <1>0, <2>3, <2>4, <2>5 DEF MintedInv
  <1>6. ToldInv'
    BY <1>0 DEF ReceiverInv, ToldInv
  <1>. QED  BY <1>4, <1>5, <1>6 DEF ReceiverInv

LEMMA AnnounceStep ==
  ASSUME ReceiverInv, NEW r \in Runs, announce(r)
  PROVE  ReceiverInv'
  <1>. PICK n \in Nat : n = Len(minted)
    BY DEF ReceiverInv, ReceiverTypes, ReceiversTypeOK
  <1>. DEFINE rows == UNION {{<<e, n + 1>> : e \in subscribed(type)} : type \in typeOf(status[r])}
  <1>0. /\ synthesis[r] = "announce" /\ synthesis' = [synthesis EXCEPT ![r] = "done"]
        /\ minted' = Append(minted, r)
        /\ UNCHANGED <<status, crashes, expected, endpoint, deleted, posts, receiver, told>>
    BY DEF announce, endpointRest, farSide
  <1>1. dispatch' = [d \in DOMAIN dispatch \cup rows |-> IF d \in rows THEN "PENDING" ELSE dispatch[d]]
    BY DEF announce
  <1>2. rows \subseteq (Endpoints \ deleted) \X (1..(n + 1))
    BY DEF subscribed, ReceiverInv, ReceiverTypes
  <1>. HIDE DEF rows
  <1>3. /\ minted' \in Seq(Runs) /\ Len(minted') = n + 1 /\ minted'[n + 1] = r
        /\ \A i \in 1..n : minted'[i] = minted[i]
    BY <1>0 DEF ReceiverInv, ReceiverTypes, ReceiversTypeOK
  <1>4. 1..Len(minted) \subseteq 1..Len(minted')
    BY <1>3
  <1>5. /\ DOMAIN dispatch' \subseteq (Endpoints \ deleted) \X (1..Len(minted'))
        /\ \A d \in DOMAIN dispatch' : dispatch'[d] \in {"PENDING", "DELIVERED", "FAILED"}
    BY <1>1, <1>2, <1>3, <1>4 DEF ReceiverInv, ReceiverTypes, ReceiversTypeOK
  <1>6. /\ posts \subseteq [of : Endpoints \X (1..Len(minted')), awaited : BOOLEAN, stale : BOOLEAN]
        /\ receiver.handled \subseteq 1..Len(minted')
    BY <1>4 DEF ReceiverInv, ReceiverTypes, ReceiversTypeOK
  <1>7. ReceiverTypes'
    BY <1>0, <1>3, <1>5, <1>6 DEF ReceiverInv, ReceiverTypes, ReceiversTypeOK
  <1>8. MintedInv'
    <2>1. \A i \in 1..n : minted[i] # r /\ minted[i] \in Runs /\ synthesis[minted[i]] = "done"
      BY <1>0 DEF ReceiverInv, ReceiverTypes, ReceiversTypeOK, MintedInv
    <2>2. \A i \in 1..(n + 1) : synthesis'[minted'[i]] = "done"
      BY <1>0, <1>3, <2>1 DEF ReceiverInv, ReceiverTypes, ReceiversTypeOK
    <2>3. \A i, j \in 1..(n + 1) : minted'[i] = minted'[j] => i = j
      BY <1>3, <2>1 DEF ReceiverInv, MintedInv
    <2>4. \A q \in Runs : synthesis'[q] = "announce" => status[q] \in RunEnds
      BY <1>0 DEF ReceiverInv, ReceiverTypes, ReceiversTypeOK, MintedInv
    <2>. QED  BY <1>0, <1>3, <2>2, <2>3, <2>4 DEF MintedInv
  <1>9. ToldInv'
    <2>1. receiver.handled \subseteq 1..n
      BY DEF ReceiverInv, ReceiverTypes, ReceiversTypeOK
    <2>. QED  BY <1>0, <1>3, <2>1 DEF ReceiverInv, ToldInv
  <1>. QED  BY <1>7, <1>8, <1>9 DEF ReceiverInv

(* A row, or a request under way, moves; nothing is told.                   *)
LEMMA RequestMoves ==
  ASSUME ReceiverInv,
         DOMAIN dispatch' = DOMAIN dispatch,
         \A d \in DOMAIN dispatch' : dispatch'[d] \in {"PENDING", "DELIVERED", "FAILED"},
         posts' \subseteq [of : Endpoints \X (1..Len(minted)), awaited : BOOLEAN, stale : BOOLEAN],
         UNCHANGED <<receiver, told>>, UNCHANGED endpointRest, UNCHANGED runSide
  PROVE  ReceiverInv'
  <1>0. UNCHANGED <<status, synthesis, crashes, minted, expected, endpoint, deleted, receiver, told>>
    BY DEF endpointRest, runSide
  <1>1. ReceiverTypes'
    BY <1>0 DEF ReceiverInv, ReceiverTypes, ReceiversTypeOK
  <1>2. MintedInv' /\ ToldInv'
    BY <1>0 DEF ReceiverInv, MintedInv, ToldInv
  <1>. QED  BY <1>1, <1>2 DEF ReceiverInv

LEMMA RowStep ==
  ASSUME ReceiverInv, NEW d \in DOMAIN dispatch, processWebhookJob(d) \/ replayWebhookDelivery(d)
  PROVE  ReceiverInv'
  <1>1. CASE processWebhookJob(d)
    <2>. DEFINE post == [of |-> d, awaited |-> TRUE, stale |-> FALSE]
    <2>1. /\ posts' = posts \cup {post} /\ UNCHANGED dispatch
          /\ UNCHANGED <<receiver, told>> /\ UNCHANGED endpointRest /\ UNCHANGED runSide
      BY <1>1 DEF processWebhookJob
    <2>2. post \in [of : Endpoints \X (1..Len(minted)), awaited : BOOLEAN, stale : BOOLEAN]
      BY DEF ReceiverInv, ReceiverTypes, ReceiversTypeOK
    <2>. HIDE DEF post
    <2>3. posts' \subseteq [of : Endpoints \X (1..Len(minted)), awaited : BOOLEAN, stale : BOOLEAN]
      BY <2>1, <2>2 DEF ReceiverInv, ReceiverTypes, ReceiversTypeOK
    <2>4. \A k \in DOMAIN dispatch' : dispatch'[k] \in {"PENDING", "DELIVERED", "FAILED"}
      BY <2>1 DEF ReceiverInv, ReceiverTypes, ReceiversTypeOK
    <2>. QED  BY <2>1, <2>3, <2>4, RequestMoves
  <1>2. CASE replayWebhookDelivery(d)
    <2>1. /\ dispatch' = [dispatch EXCEPT ![d] = "PENDING"] /\ UNCHANGED posts
          /\ UNCHANGED <<receiver, told>> /\ UNCHANGED endpointRest /\ UNCHANGED runSide
      BY <1>2 DEF replayWebhookDelivery, farSide
    <2>. QED  BY <2>1, RequestMoves DEF ReceiverInv, ReceiverTypes, ReceiversTypeOK
  <1>. QED  BY <1>1, <1>2

LEMMA RecordedRow ==
  ASSUME ReceiverInv, NEW p, NEW outcome \in {"PENDING", "DELIVERED", "FAILED"}, Recorded(p, outcome)
  PROVE  /\ DOMAIN dispatch' = DOMAIN dispatch
         /\ \A d \in DOMAIN dispatch' : dispatch'[d] \in {"PENDING", "DELIVERED", "FAILED"}
BY DEF Recorded, ReceiverInv, ReceiverTypes, ReceiversTypeOK

LEMMA PostStep ==
  ASSUME ReceiverInv, NEW p \in posts, AttemptTimesOut(p) \/ GrowsStale(p) \/ Refuses(p)
  PROVE  ReceiverInv'
  <1>. DEFINE Posts == [of : Endpoints \X (1..Len(minted)), awaited : BOOLEAN, stale : BOOLEAN]
  <1>0. /\ UNCHANGED <<receiver, told>> /\ UNCHANGED endpointRest /\ UNCHANGED runSide
        /\ posts \subseteq Posts /\ p \in Posts
    BY DEF AttemptTimesOut, GrowsStale, Refuses, ReceiverInv, ReceiverTypes, ReceiversTypeOK
  <1>1. [p EXCEPT !.awaited = FALSE] \in Posts /\ [p EXCEPT !.stale = TRUE] \in Posts
    BY <1>0
  <1>. HIDE DEF Posts
  <1>2. posts' \subseteq Posts
    BY <1>0, <1>1 DEF AttemptTimesOut, GrowsStale, Refuses
  <1>3. \/ UNCHANGED dispatch
        \/ \E outcome \in {"PENDING", "DELIVERED", "FAILED"} : Recorded(p, outcome)
    BY DEF AttemptTimesOut, GrowsStale, Refuses
  <1>4. /\ DOMAIN dispatch' = DOMAIN dispatch
        /\ \A d \in DOMAIN dispatch' : dispatch'[d] \in {"PENDING", "DELIVERED", "FAILED"}
    BY <1>3, RecordedRow DEF ReceiverInv, ReceiverTypes, ReceiversTypeOK
  <1>. QED  BY <1>0, <1>2, <1>4, RequestMoves DEF Posts

(* What is handled for the first time is the end of a run that was not told. *)
LEMMA AcceptStep ==
  ASSUME ReceiverInv, NEW p \in posts, Accepts(p)
  PROVE  ReceiverInv'
  <1>. DEFINE id == p.of[2]
              r == minted[id]
  <1>0. /\ receiver' = [receiver EXCEPT !.handled = @ \cup {id}]
        /\ told' = IF id \in receiver.handled THEN told ELSE [told EXCEPT ![r] = @ + 1]
        /\ posts' = posts \ {p} /\ UNCHANGED endpointRest /\ UNCHANGED runSide
        /\ \E outcome \in {"PENDING", "DELIVERED", "FAILED"} : Recorded(p, outcome)
    BY DEF Accepts
  <1>1. /\ id \in 1..Len(minted) /\ r \in Runs
        /\ receiver.handled \subseteq 1..Len(minted)
        /\ \A i \in 1..Len(minted) : i \in Nat
    BY DEF ReceiverInv, ReceiverTypes, ReceiversTypeOK
  <1>2. UNCHANGED <<status, synthesis, crashes, minted, expected, endpoint, deleted>>
    BY <1>0 DEF endpointRest, runSide
  <1>3. /\ DOMAIN dispatch' = DOMAIN dispatch
        /\ \A d \in DOMAIN dispatch' : dispatch'[d] \in {"PENDING", "DELIVERED", "FAILED"}
    BY <1>0, RecordedRow
  <1>4. id \notin receiver.handled => told[r] = 0
    BY <1>1 DEF ReceiverInv, ReceiverTypes, MintedInv, ToldInv
  <1>. HIDE DEF id, r
  <1>5. /\ receiver' \in [secrets : SUBSET Endpoints, handled : SUBSET Nat]
        /\ receiver'.handled = receiver.handled \cup {id}
    BY <1>0, <1>1 DEF ReceiverInv, ReceiverTypes
  <1>6. /\ told' \in [Runs -> 0..1]
        /\ \A q \in Runs : told'[q] = told[q] \/ (q = r /\ id \notin receiver.handled)
    BY <1>0, <1>1, <1>4 DEF ReceiverInv, ReceiverTypes
  <1>7. ReceiverTypes'
    BY <1>0, <1>1, <1>2, <1>3, <1>5, <1>6 DEF ReceiverInv, ReceiverTypes, ReceiversTypeOK
  <1>8. MintedInv'
    BY <1>2 DEF ReceiverInv, MintedInv
  <1>9. ToldInv'
    <2>1. r = minted[id]
      BY DEF r
    <2>. QED  BY <1>2, <1>5, <1>6, <2>1 DEF ReceiverInv, ToldInv
  <1>. QED  BY <1>7, <1>8, <1>9 DEF ReceiverInv

LEMMA ReceiverStep ==
  ASSUME ReceiverInv, [ReceiversNext]_receiversVars  PROVE ReceiverInv'
  <1>1. CASE UNCHANGED receiversVars
    BY <1>1 DEF receiversVars, ReceiverInv, ReceiverTypes, ReceiversTypeOK, MintedInv, ToldInv
  <1>2. CASE ReceiversNext
    BY <1>2, EndpointStep, RunSideStep, AnnounceStep, RowStep, PostStep, AcceptStep, Zenon
       DEF ReceiversNext
  <1>. QED  BY <1>1, <1>2

LEMMA ReceiverStart ==
  ASSUME ReceiversInit  PROVE ReceiverInv
  <1>1. ReceiverTypes
    BY ReceiversAssumption DEF ReceiversInit, ReceiverTypes, ReceiversTypeOK, RunEnds
  <1>2. MintedInv /\ ToldInv
    BY DEF ReceiversInit, MintedInv, ToldInv
  <1>. QED  BY <1>1, <1>2 DEF ReceiverInv

(* A run's event has one id, whoever died on the way, and what was told is  *)
(* remembered under it.                                                     *)
THEOREM ReceiverInvariant == ReceiversSpec => []ReceiverInv
  <1>. QED  BY ReceiverStart, ReceiverStep, PTL DEF ReceiversSpec

(* Rows and requests are of endpoints that exist and of events that were    *)
(* minted.                                                                  *)
THEOREM ReceiverTyped == ReceiversSpec => []ReceiversTypeOK
  <1>1. ReceiverInv => ReceiversTypeOK
    BY DEF ReceiverInv, ReceiverTypes
  <1>. QED  BY <1>1, ReceiverInvariant, PTL

(* However an end of a run is delivered, retried or replayed, a receiver    *)
(* that remembers ids handles it once.                                      *)
THEOREM EndHandledOnce == ReceiversSpec => []HandledOnce
  <1>1. ReceiverInv => HandledOnce
    BY DEF ReceiverInv, ReceiverTypes, HandledOnce
  <1>. QED  BY <1>1, ReceiverInvariant, PTL

-----------------------------------------------------------------------------
(* The session of the command line. *)

Places == {"idle", "file", "refresh", "browser", "save", "read", "write", "written"}

(* The server of an idle process is any value. *)
Procs == [at : Places, server : Servers \cup {IdleProcess.server}, held : Nat, got : Nat,
          read : [Servers -> Nat], clear : BOOLEAN]

SessionTypes ==
  /\ keychain \in [there : BOOLEAN, item : [Servers -> Nat]]
  /\ file \in [torn : BOOLEAN, profiles : [Servers -> Nat]]
  /\ proc \in [Processes -> Procs]
  /\ issued \in Nat /\ grants \subseteq 1..issued /\ rotates \in [Servers -> BOOLEAN]
  /\ \A s \in Servers : keychain.item[s] <= issued /\ file.profiles[s] <= issued
  /\ \A p \in Processes :
       /\ proc[p].held <= issued /\ proc[p].got <= issued
       /\ proc[p].at # "idle" => proc[p].server \in Servers
       /\ proc[p].at \in {"idle", "file", "browser"} => proc[p].held = None
       /\ proc[p].at \in {"idle", "file", "browser", "refresh"} => proc[p].got = None

(* A token is of one server. *)
Has(c, s) ==
  \/ keychain.item[s] = c \/ file.profiles[s] = c
  \/ \E p \in Processes : proc[p].server = s /\ (proc[p].held = c \/ proc[p].got = c)

OwnedInv == \A s, t \in Servers : \A c \in Nat : c # None /\ Has(c, s) /\ Has(c, t) => s = t

(* One process at a time rewrites the file, from what is in it.             *)
Writing(p) == proc[p].at \in {"write", "written"}

FileInv ==
  /\ \A p, q \in Processes : Writing(p) /\ Writing(q) => p = q
  /\ \A p \in Processes : Writing(p) => proc[p].read = file.profiles
  /\ file.torn <=> \E p \in Processes : proc[p].at = "written"

(* A token that is stored is good, or who traded it is about to replace it. *)
Replaces(c, s, at) == \E p \in Processes : proc[p].server = s /\ proc[p].held = c /\ proc[p].at \in at

KeptInv ==
  \A s \in Servers :
    /\ \/ keychain.item[s] = None \/ keychain.item[s] \in grants
       \/ Replaces(keychain.item[s], s, {"save"})
    /\ \/ file.profiles[s] = None \/ file.profiles[s] \in grants
       \/ Replaces(file.profiles[s], s, {"save", "read", "write", "written"})

(* A token that a process has yet to store is good; where tokens rotate     *)
(* nobody else can have traded it.                                          *)
Fresh(p) == proc[p].at = "save" \/ (proc[p].at \in {"read", "write", "written"} /\ ~proc[p].clear)

PrivateInv ==
  \A p \in Processes :
    Fresh(p) =>
      /\ proc[p].got \in grants
      /\ rotates[proc[p].server] =>
           /\ \A s \in Servers : keychain.item[s] # proc[p].got /\ file.profiles[s] # proc[p].got
           /\ \A q \in Processes : proc[q].held # proc[p].got /\ (q # p => proc[q].got # proc[p].got)

SessionInv == SessionTypes /\ OwnedInv /\ FileInv /\ KeptInv /\ PrivateInv

(* A process moves to a state, and the others stay where they are.          *)
Moves(p, at, s, held, got, clear) ==
  /\ proc' \in [Processes -> Procs]
  /\ \A q \in Processes : q # p => proc'[q] = proc[q]
  /\ proc'[p].at = at /\ proc'[p].server = s /\ proc'[p].held = held /\ proc'[p].got = got
  /\ proc'[p].clear <=> clear

LEMMA IdleFields ==
  /\ IdleProcess \in Procs /\ IdleProcess.at = "idle" /\ IdleProcess.held = None
  /\ IdleProcess.got = None /\ IdleProcess.clear = FALSE
  <1>. DEFINE any == CHOOSE s \in Servers : TRUE
  <1>1. IdleProcess = [at |-> "idle", server |-> any, held |-> None, got |-> None,
                       read |-> [s \in Servers |-> None], clear |-> FALSE]
    BY DEF IdleProcess
  <1>. HIDE DEF any
  <1>2. IdleProcess.server = any
    BY <1>1
  <1>. QED  BY <1>1, <1>2 DEF Procs, Places, None

(* A process of which some fields change.                                   *)
LEMMA PartMoves ==
  ASSUME SessionTypes, NEW p \in Processes, NEW y \in Procs, proc' = [proc EXCEPT ![p] = y]
  PROVE  Moves(p, y.at, y.server, y.held, y.got, y.clear) /\ proc'[p].read = y.read
BY DEF SessionTypes, Moves

LEMMA EndMoves ==
  ASSUME SessionTypes, NEW p \in Processes, ProcessEnds(p)
  PROVE  Moves(p, "idle", IdleProcess.server, None, None, FALSE)
BY IdleFields DEF SessionTypes, ProcessEnds, Moves

LEMMA LoadMoves ==
  ASSUME SessionTypes, NEW p \in Processes, NEW s \in Servers, NEW c \in Nat,
         proc' = [proc EXCEPT ![p] = [IdleProcess EXCEPT !.at = "refresh", !.server = s, !.held = c]]
  PROVE  Moves(p, "refresh", s, c, None, FALSE)
  <1>. DEFINE y == [IdleProcess EXCEPT !.at = "refresh", !.server = s, !.held = c]
  <1>1. /\ y \in Procs /\ y.at = "refresh" /\ y.server = s /\ y.held = c /\ y.got = None
        /\ ~y.clear
    BY IdleFields DEF Procs, Places
  <1>2. proc' = [proc EXCEPT ![p] = y]
    OBVIOUS
  <1>. HIDE DEF y
  <1>. QED  BY <1>1, <1>2, PartMoves DEF Moves

LEMMA ChoiceMoves ==
  ASSUME SessionTypes, NEW p \in Processes, NEW s \in Servers, NEW at \in Places,
         proc' = [proc EXCEPT ![p].at = at, ![p].server = s]
  PROVE  Moves(p, at, s, proc[p].held, proc[p].got, proc[p].clear)
  <1>. DEFINE y == [proc[p] EXCEPT !.at = at, !.server = s]
  <1>1. proc[p] \in Procs /\ proc \in [Processes -> Procs]
    BY DEF SessionTypes
  <1>2. /\ y \in Procs /\ y.at = at /\ y.server = s /\ y.held = proc[p].held /\ y.got = proc[p].got
        /\ y.clear = proc[p].clear
    BY <1>1 DEF Procs, Places
  <1>3. proc' = [proc EXCEPT ![p] = y]
    BY <1>1
  <1>. HIDE DEF y
  <1>. QED  BY <1>2, <1>3, PartMoves

LEMMA ForgetMoves ==
  ASSUME SessionTypes, NEW p \in Processes, NEW s \in Servers,
         proc' = [proc EXCEPT ![p].at = "read", ![p].server = s, ![p].clear = TRUE]
  PROVE  Moves(p, "read", s, proc[p].held, proc[p].got, TRUE)
  <1>. DEFINE y == [proc[p] EXCEPT !.at = "read", !.server = s, !.clear = TRUE]
  <1>1. proc[p] \in Procs /\ proc \in [Processes -> Procs]
    BY DEF SessionTypes
  <1>2. /\ y \in Procs /\ y.at = "read" /\ y.server = s /\ y.held = proc[p].held /\ y.got = proc[p].got
        /\ y.clear = TRUE
    BY <1>1 DEF Procs, Places
  <1>3. proc' = [proc EXCEPT ![p] = y]
    BY <1>1
  <1>. HIDE DEF y
  <1>. QED  BY <1>2, <1>3, PartMoves

LEMMA GotMoves ==
  ASSUME SessionTypes, NEW p \in Processes, NEW c \in Nat,
         proc' = [proc EXCEPT ![p].at = "save", ![p].got = c]
  PROVE  Moves(p, "save", proc[p].server, proc[p].held, c, proc[p].clear)
  <1>. DEFINE y == [proc[p] EXCEPT !.at = "save", !.got = c]
  <1>1. proc[p] \in Procs /\ proc \in [Processes -> Procs]
    BY DEF SessionTypes
  <1>2. /\ y \in Procs /\ y.at = "save" /\ y.server = proc[p].server /\ y.held = proc[p].held /\ y.got = c
        /\ y.clear = proc[p].clear
    BY <1>1 DEF Procs, Places
  <1>3. proc' = [proc EXCEPT ![p] = y]
    BY <1>1
  <1>. HIDE DEF y
  <1>. QED  BY <1>2, <1>3, PartMoves

LEMMA SavedMoves ==
  ASSUME SessionTypes, NEW p \in Processes, NEW clear \in BOOLEAN,
         proc' = [proc EXCEPT ![p].at = "read", ![p].clear = clear]
  PROVE  Moves(p, "read", proc[p].server, proc[p].held, proc[p].got, clear)
  <1>. DEFINE y == [proc[p] EXCEPT !.at = "read", !.clear = clear]
  <1>1. proc[p] \in Procs /\ proc \in [Processes -> Procs]
    BY DEF SessionTypes
  <1>2. /\ y \in Procs /\ y.at = "read" /\ y.server = proc[p].server /\ y.held = proc[p].held /\ y.got = proc[p].got
        /\ y.clear = clear
    BY <1>1 DEF Procs, Places
  <1>3. proc' = [proc EXCEPT ![p] = y]
    BY <1>1
  <1>. HIDE DEF y
  <1>. QED  BY <1>2, <1>3, PartMoves

LEMMA ReadMoves ==
  ASSUME SessionTypes, NEW p \in Processes, NEW f \in [Servers -> Nat],
         proc' = [proc EXCEPT ![p].at = "write", ![p].read = f]
  PROVE  /\ Moves(p, "write", proc[p].server, proc[p].held, proc[p].got, proc[p].clear)
         /\ proc'[p].read = f
  <1>. DEFINE y == [proc[p] EXCEPT !.at = "write", !.read = f]
  <1>1. proc[p] \in Procs /\ proc \in [Processes -> Procs]
    BY DEF SessionTypes
  <1>2. /\ y \in Procs /\ y.at = "write" /\ y.server = proc[p].server /\ y.held = proc[p].held /\ y.got = proc[p].got
        /\ y.clear = proc[p].clear /\ y.read = f
    BY <1>1 DEF Procs, Places
  <1>3. proc' = [proc EXCEPT ![p] = y]
    BY <1>1
  <1>. HIDE DEF y
  <1>. QED  BY <1>2, <1>3, PartMoves

LEMMA TruncateMoves ==
  ASSUME SessionTypes, NEW p \in Processes,
         Goes(p, "written")
  PROVE  /\ Moves(p, "written", proc[p].server, proc[p].held, proc[p].got, proc[p].clear)
         /\ proc'[p].read = proc[p].read
  <1>. DEFINE y == [proc[p] EXCEPT !.at = "written"]
  <1>1. proc[p] \in Procs /\ proc \in [Processes -> Procs]
    BY DEF SessionTypes
  <1>2. /\ y \in Procs /\ y.at = "written" /\ y.server = proc[p].server /\ y.held = proc[p].held /\ y.got = proc[p].got
        /\ y.clear = proc[p].clear /\ y.read = proc[p].read
    BY <1>1 DEF Procs, Places
  <1>3. proc' = [proc EXCEPT ![p] = y]
    BY <1>1 DEF Goes
  <1>. HIDE DEF y
  <1>. QED  BY <1>2, <1>3, PartMoves

-----------------------------------------------------------------------------
LEMMA TypesMove ==
  ASSUME SessionTypes, NEW p \in Processes, NEW at, NEW s, NEW held, NEW got, NEW clear,
         Moves(p, at, s, held, got, clear),
         keychain' \in [there : BOOLEAN, item : [Servers -> Nat]],
         file' \in [torn : BOOLEAN, profiles : [Servers -> Nat]],
         issued' \in Nat, issued <= issued', grants' \subseteq 1..issued', rotates' = rotates,
         \A t \in Servers : keychain'.item[t] <= issued' /\ file'.profiles[t] <= issued',
         held <= issued', got <= issued', at # "idle" => s \in Servers,
         at \in {"idle", "file", "browser"} => held = None,
         at \in {"idle", "file", "browser", "refresh"} => got = None
  PROVE  SessionTypes'
  <1>1. \A q \in Processes :
          /\ proc'[q].held <= issued' /\ proc'[q].got <= issued'
          /\ proc'[q].at # "idle" => proc'[q].server \in Servers
          /\ proc'[q].at \in {"idle", "file", "browser"} => proc'[q].held = None
          /\ proc'[q].at \in {"idle", "file", "browser", "refresh"} => proc'[q].got = None
    <2>. SUFFICES ASSUME NEW q \in Processes
                  PROVE  /\ proc'[q].held <= issued' /\ proc'[q].got <= issued'
                         /\ proc'[q].at # "idle" => proc'[q].server \in Servers
                         /\ proc'[q].at \in {"idle", "file", "browser"} => proc'[q].held = None
                         /\ proc'[q].at \in {"idle", "file", "browser", "refresh"} => proc'[q].got = None
      OBVIOUS
    <2>1. CASE q = p
      BY <2>1 DEF Moves
    <2>2. CASE q # p
      <3>1. proc'[q] = proc[q] /\ proc[q] \in Procs
        BY <2>2 DEF Moves, SessionTypes
      <3>2. proc[q].held <= issued' /\ proc[q].got <= issued'
        BY <3>1 DEF SessionTypes, Procs
      <3>. QED  BY <3>1, <3>2 DEF SessionTypes
    <2>. QED  BY <2>1, <2>2
  <1>. QED  BY <1>1 DEF SessionTypes, Moves

(* Tokens are of one server if those that come are of the one that had      *)
(* them, or were never issued before.                                       *)
LEMMA OwnedMove ==
  ASSUME SessionTypes, OwnedInv, NEW p \in Processes, NEW at, NEW s, NEW held, NEW got, NEW clear,
         Moves(p, at, s, held, got, clear),
         \A t \in Servers : keychain'.item[t] = None \/ Has(keychain'.item[t], t),
         \A t \in Servers : file'.profiles[t] = None \/ Has(file'.profiles[t], t),
         held = None \/ Has(held, s), got = None \/ Has(got, s) \/ got = issued + 1
  PROVE  OwnedInv'
  <1>1. \A t \in Servers, c \in Nat : Has(c, t) => c <= issued
    BY DEF Has, SessionTypes
  <1>2. ASSUME NEW t \in Servers, NEW c \in Nat, c # None, Has(c, t)'
        PROVE  Has(c, t) \/ (c = issued + 1 /\ t = s)
    <2>1. CASE keychain'.item[t] = c \/ file'.profiles[t] = c
      BY <1>2, <2>1
    <2>2. ASSUME NEW q \in Processes, proc'[q].server = t, proc'[q].held = c \/ proc'[q].got = c
          PROVE  Has(c, t) \/ (c = issued + 1 /\ t = s)
      <3>1. CASE q = p
        BY <1>2, <2>2, <3>1 DEF Moves
      <3>2. CASE q # p
        BY <2>2, <3>2 DEF Moves, Has
      <3>. QED  BY <3>1, <3>2
    <2>. QED  BY <1>2, <2>1, <2>2 DEF Has
  <1>3. ASSUME NEW t \in Servers, NEW u \in Servers, NEW c \in Nat, c # None, Has(c, t)', Has(c, u)'
        PROVE  t = u
    <2>1. Has(c, t) \/ (c = issued + 1 /\ t = s)
      BY <1>2, <1>3
    <2>2. Has(c, u) \/ (c = issued + 1 /\ u = s)
      BY <1>2, <1>3
    <2>3. c = issued + 1 => ~Has(c, t) /\ ~Has(c, u)
      BY <1>1 DEF SessionTypes
    <2>4. Has(c, t) /\ Has(c, u) => t = u
      BY <1>3 DEF OwnedInv
    <2>. QED  BY <2>1, <2>2, <2>3, <2>4
  <1>. QED  BY <1>3, Zenon DEF OwnedInv

-----------------------------------------------------------------------------
(* What is stored, and what is good, stays; a process moves.                *)

LEMMA QuietStep ==
  ASSUME SessionInv, UNCHANGED <<keychain, file, grants, issued, rotates>>,
         NEW p \in Processes, NEW at, NEW s, NEW held, NEW got, NEW clear,
         Moves(p, at, s, held, got, clear),
         at # "idle" => s \in Servers,
         at \in {"idle", "file", "browser"} => held = None,
         at \in {"idle", "file", "browser", "refresh"} => got = None,
         \/ held = None
         \/ s \in Servers /\ held \in {keychain.item[s], file.profiles[s]}
         \/ s = proc[p].server /\ held = proc[p].held,
         got = None \/ (s = proc[p].server /\ got = proc[p].got),
         proc[p].at # "written", at # "written",
         at = "write" => proc'[p].read = file.profiles /\ \A q \in Processes : ~Writing(q),
         proc[p].at = "save" => keychain.item[proc[p].server] = None,
         \/ proc[p].at \notin {"save", "read", "write", "written"}
         \/ file.profiles[proc[p].server] = None
         \/ at \in {"read", "write"} /\ s = proc[p].server /\ held = proc[p].held,
         at = "save" \/ (at \in {"read", "write", "written"} /\ ~clear) =>
           Fresh(p) /\ s = proc[p].server /\ held = proc[p].held /\ got = proc[p].got
  PROVE  SessionInv'
  <1>0. SessionTypes /\ OwnedInv /\ FileInv /\ KeptInv /\ PrivateInv
    BY DEF SessionInv
  <1>a. /\ \A q \in Processes : q # p => proc'[q] = proc[q]
        /\ proc'[p].at = at /\ proc'[p].server = s /\ proc'[p].held = held /\ proc'[p].got = got
        /\ proc'[p].clear <=> clear
    BY DEF Moves
  <1>1. SessionTypes'
    <2>1. held <= issued /\ got <= issued
      BY <1>0 DEF SessionTypes, None
    <2>. QED  BY <1>0, <2>1, TypesMove DEF SessionTypes
  <1>2. OwnedInv'
    <2>1. \A t \in Servers : Has(keychain.item[t], t) /\ Has(file.profiles[t], t)
      BY DEF Has
    <2>2. Has(proc[p].held, proc[p].server) /\ Has(proc[p].got, proc[p].server)
      BY DEF Has
    <2>3. (held = None \/ Has(held, s)) /\ (got = None \/ Has(got, s))
      BY <2>1, <2>2
    <2>. QED  BY <1>0, <2>1, <2>3, OwnedMove
  <1>3. FileInv'
    <2>1. \A q \in Processes : Writing(q)' <=> (q # p /\ Writing(q)) \/ (q = p /\ at = "write")
      BY <1>a DEF Writing
    <2>2. (\E q \in Processes : proc'[q].at = "written") <=> (\E q \in Processes : proc[q].at = "written")
      BY <1>a
    <2>3. \A q \in Processes : Writing(q)' => proc'[q].read = file.profiles
      BY <1>0, <1>a, <2>1 DEF FileInv
    <2>4. \A q, r \in Processes : Writing(q)' /\ Writing(r)' => q = r
      BY <1>0, <2>1 DEF FileInv
    <2>. QED  BY <1>0, <2>2, <2>3, <2>4 DEF FileInv
  <1>4. KeptInv'
    <2>1. ASSUME NEW t \in Servers
          PROVE  /\ \/ keychain.item[t] = None \/ keychain.item[t] \in grants
                    \/ Replaces(keychain.item[t], t, {"save"})'
                 /\ \/ file.profiles[t] = None \/ file.profiles[t] \in grants
                    \/ Replaces(file.profiles[t], t, {"save", "read", "write", "written"})'
      <3>1. ASSUME Replaces(keychain.item[t], t, {"save"}), keychain.item[t] # None
            PROVE  Replaces(keychain.item[t], t, {"save"})'
        BY <1>a, <3>1 DEF Replaces
      <3>2. ASSUME Replaces(file.profiles[t], t, {"save", "read", "write", "written"}),
                   file.profiles[t] # None
            PROVE  Replaces(file.profiles[t], t, {"save", "read", "write", "written"})'
        BY <1>a, <3>2 DEF Replaces
      <3>. QED  BY <1>0, <3>1, <3>2 DEF KeptInv
    <2>. QED  BY <2>1 DEF KeptInv
  <1>5. PrivateInv'
    <2>1. ASSUME NEW q \in Processes, Fresh(q)'
          PROVE  Fresh(q) /\ proc'[q].got = proc[q].got /\ proc'[q].server = proc[q].server
                 /\ proc'[q].held = proc[q].held
      <3>1. CASE q = p
        BY <1>a, <2>1, <3>1 DEF Fresh
      <3>2. CASE q # p
        BY <1>a, <2>1, <3>2 DEF Fresh
      <3>. QED  BY <3>1, <3>2
    <2>2. ASSUME NEW q \in Processes, Fresh(q)', rotates[proc[q].server]
          PROVE  /\ \A t \in Servers : keychain.item[t] # proc[q].got /\ file.profiles[t] # proc[q].got
                 /\ \A r \in Processes : proc'[r].held # proc[q].got /\ (r # q => proc'[r].got # proc[q].got)
      <3>1. /\ proc[q].got \in grants
            /\ \A t \in Servers : keychain.item[t] # proc[q].got /\ file.profiles[t] # proc[q].got
            /\ \A r \in Processes : proc[r].held # proc[q].got /\ (r # q => proc[r].got # proc[q].got)
        BY <1>0, <2>1, <2>2 DEF PrivateInv
      <3>2. proc[q].got # None
        BY <1>0, <3>1 DEF SessionTypes, None
      <3>3. held # proc[q].got /\ (p # q => got # proc[q].got)
        BY <3>1, <3>2
      <3>. QED  BY <1>a, <3>1, <3>3
    <2>3. \A q \in Processes : Fresh(q)' => proc'[q].got \in grants
      BY <1>0, <2>1 DEF PrivateInv
    <2>. QED  BY <2>1, <2>2, <2>3 DEF PrivateInv
  <1>. QED  BY <1>1, <1>2, <1>3, <1>4, <1>5 DEF SessionInv

LEMMA LoadStep ==
  ASSUME SessionInv, NEW p \in Processes, LoadFromFile(p) \/ \E s \in Servers : LoadFromKeychain(p, s)
  PROVE  SessionInv'
  <1>0. SessionTypes /\ UNCHANGED <<keychain, file, grants, issued, rotates>>
    BY DEF SessionInv, LoadFromFile, LoadFromKeychain, storageRest, grantRest
  <1>1. /\ proc[p].at \in {"idle", "file"} /\ proc[p].held = None /\ proc[p].got = None
        /\ proc[p].at = "file" => proc[p].server \in Servers
    BY <1>0 DEF LoadFromFile, LoadFromKeychain, SessionTypes
  <1>2. ASSUME NEW s \in Servers, NEW c \in Nat, Loaded(p, s, c),
               c = None \/ c \in {keychain.item[s], file.profiles[s]}
        PROVE  SessionInv'
    <2>1. CASE ProcessEnds(p)
      <3>1. Moves(p, "idle", IdleProcess.server, None, None, FALSE)
        BY <1>0, <2>1, EndMoves
      <3>. QED  BY <1>0, <1>1, <3>1, QuietStep
    <2>2. CASE c # None /\ proc' = [proc EXCEPT ![p] = [IdleProcess EXCEPT !.at = "refresh", !.server = s, !.held = c]]
      <3>1. Moves(p, "refresh", s, c, None, FALSE)
        BY <1>0, <2>2, LoadMoves, Zenon
      <3>. QED  BY <1>0, <1>1, <1>2, <2>2, <3>1, QuietStep
    <2>. QED  BY <1>2, <2>1, <2>2 DEF Loaded
  <1>3. CASE LoadFromFile(p)
    <2>1. PICK s \in Servers : s = proc[p].server /\ proc[p].at = "file"
      BY <1>1, <1>3 DEF LoadFromFile
    <2>2. PICK c \in Nat : c = readCredentialFile[s] /\ (c = None \/ c = file.profiles[s])
      BY <1>0 DEF readCredentialFile, SessionTypes, None
    <2>3. Loaded(p, s, c)
      BY <1>3, <2>1, <2>2 DEF LoadFromFile
    <2>. QED  BY <1>2, <2>2, <2>3
  <1>4. CASE \E s \in Servers : LoadFromKeychain(p, s)
    <2>1. PICK s \in Servers : LoadFromKeychain(p, s)
      BY <1>4
    <2>2. PICK c \in Nat : c = keychain.item[s]
      BY <1>0 DEF SessionTypes
    <2>3. CASE c # None
      BY <1>2, <2>1, <2>2, <2>3 DEF LoadFromKeychain
    <2>4. CASE c = None
      <3>1. proc' = [proc EXCEPT ![p].at = "file", ![p].server = s] /\ proc[p].at = "idle"
        BY <2>1, <2>2, <2>4 DEF LoadFromKeychain
      <3>2. Moves(p, "file", s, None, None, proc[p].clear)
        BY <1>0, <1>1, <3>1, ChoiceMoves DEF Places
      <3>. QED  BY <1>0, <1>1, <3>1, <3>2, QuietStep
    <2>. QED  BY <2>3, <2>4
  <1>. QED  BY <1>3, <1>4

LEMMA GiveUpStep ==
  ASSUME SessionInv, NEW p \in Processes, RefreshFails(p) \/ LoginFails(p)
  PROVE  SessionInv'
  <1>1. /\ SessionTypes /\ UNCHANGED <<keychain, file, grants, issued, rotates>>
        /\ proc[p].at \in {"refresh", "browser"} /\ ProcessEnds(p)
    BY DEF SessionInv, RefreshFails, LoginFails, storageRest, grantRest
  <1>2. Moves(p, "idle", IdleProcess.server, None, None, FALSE)
    BY <1>1, EndMoves
  <1>. QED  BY <1>1, <1>2, QuietStep

LEMMA BrowserStep ==
  ASSUME SessionInv, NEW p \in Processes, NEW s \in Servers, LoginBegins(p, s)
  PROVE  SessionInv'
  <1>1. /\ SessionTypes /\ UNCHANGED <<keychain, file, grants, issued, rotates>>
        /\ proc[p].at = "idle" /\ proc' = [proc EXCEPT ![p].at = "browser", ![p].server = s]
    BY DEF SessionInv, LoginBegins, storageRest, grantRest
  <1>2. proc[p].held = None /\ proc[p].got = None
    BY <1>1 DEF SessionTypes
  <1>3. Moves(p, "browser", s, None, None, proc[p].clear)
    BY <1>1, <1>2, ChoiceMoves DEF Places
  <1>. QED  BY <1>1, <1>2, <1>3, QuietStep

(* A credential that goes to the file is stored when the file is written.   *)
LEMMA SaveInFileStep ==
  ASSUME SessionInv, NEW p \in Processes, proc[p].at = "save", keychain.item[proc[p].server] = None,
         proc' = [proc EXCEPT ![p].at = "read", ![p].clear = FALSE],
         UNCHANGED <<keychain, file, grants, issued, rotates>>
  PROVE  SessionInv'
  <1>1. SessionTypes /\ proc[p].server \in Servers
    BY DEF SessionInv, SessionTypes
  <1>2. Moves(p, "read", proc[p].server, proc[p].held, proc[p].got, FALSE)
    BY <1>1, SavedMoves
  <1>. QED  BY <1>1, <1>2, QuietStep DEF Fresh

LEMMA ReadProfilesStep ==
  ASSUME SessionInv, NEW p \in Processes, ReadProfiles(p), mishaps' = {}
  PROVE  SessionInv'
  <1>1. /\ SessionTypes /\ UNCHANGED <<keychain, file, grants, issued, rotates>>
        /\ proc[p].at = "read" /\ proc[p].server \in Servers
    BY DEF SessionInv, SessionTypes, ReadProfiles, storageRest, grantRest
  <1>2. \A q \in Processes : ~Writing(q)
    BY DEF ReadProfiles, Writing
  <1>3. readCredentialFile = file.profiles
    BY <1>2 DEF SessionInv, FileInv, readCredentialFile, Writing
  <1>4. CASE proc[p].clear /\ readCredentialFile[proc[p].server] = None
    <2>1. ProcessEnds(p)
      BY <1>4 DEF ReadProfiles, ProcessEnds
    <2>2. Moves(p, "idle", IdleProcess.server, None, None, FALSE)
      BY <1>1, <2>1, EndMoves
    <2>. QED  BY <1>1, <1>3, <1>4, <2>2, QuietStep
  <1>5. CASE ~(proc[p].clear /\ readCredentialFile[proc[p].server] = None)
    <2>. PICK f \in [Servers -> Nat] : f = file.profiles
      BY <1>1 DEF SessionTypes
    <2>1. proc' = [proc EXCEPT ![p].at = "write", ![p].read = f]
      BY <1>3, <1>5 DEF ReadProfiles
    <2>2. /\ Moves(p, "write", proc[p].server, proc[p].held, proc[p].got, proc[p].clear)
          /\ proc'[p].read = f
      BY <1>1, <2>1, ReadMoves
    <2>. QED  BY <1>1, <1>2, <2>2, QuietStep DEF Fresh
  <1>. QED  BY <1>4, <1>5

-----------------------------------------------------------------------------
(* A token is traded, or a code: the new one is nobody else's.              *)
LEMMA GotStep ==
  ASSUME SessionInv, NEW p \in Processes, NEW c \in Nat, NEW lost \in SUBSET Nat,
         proc[p].at \in {"refresh", "browser"},
         proc' = [proc EXCEPT ![p].at = "save", ![p].got = c],
         UNCHANGED <<keychain, file, rotates>>,
         lost \subseteq {proc[p].held}, lost \subseteq grants, lost # {} => rotates[proc[p].server],
         grants' = (grants \ lost) \cup {c}, issued' \in Nat, issued <= issued',
         \/ c = issued + 1 /\ issued' = c
         \/ c = proc[p].held /\ c \in grants /\ ~rotates[proc[p].server]
  PROVE  SessionInv'
  <1>. DEFINE s == proc[p].server
              h == proc[p].held
  <1>0. SessionTypes /\ OwnedInv /\ FileInv /\ KeptInv /\ PrivateInv /\ s \in Servers
    BY DEF SessionInv, SessionTypes
  <1>1. Moves(p, "save", s, h, c, proc[p].clear)
    BY <1>0, GotMoves
  <1>2. /\ \A q \in Processes : q # p => proc'[q] = proc[q]
        /\ proc'[p].at = "save" /\ proc'[p].server = s /\ proc'[p].held = h /\ proc'[p].got = c
    BY <1>1 DEF Moves
  <1>3. c <= issued' /\ c # None /\ h <= issued'
    BY <1>0 DEF SessionTypes, Procs, None
  <1>4. SessionTypes'
    <2>1. grants' \subseteq 1..issued'
      BY <1>0, <1>3 DEF SessionTypes, None
    <2>2. \A t \in Servers : keychain.item[t] <= issued' /\ file.profiles[t] <= issued'
      BY <1>0 DEF SessionTypes
    <2>. QED  BY <1>0, <1>1, <1>3, <2>1, <2>2, TypesMove DEF SessionTypes
  <1>5. Has(h, s) /\ \A t \in Servers : Has(keychain.item[t], t) /\ Has(file.profiles[t], t)
    BY DEF Has
  <1>6. OwnedInv'
    <2>1. Has(c, s) \/ c = issued + 1
      BY <1>5
    <2>. QED  BY <1>0, <1>1, <1>5, <2>1, OwnedMove
  <1>7. FileInv'
    <2>1. \A q \in Processes : /\ Writing(q)' <=> Writing(q)
                               /\ proc'[q].at = "written" <=> proc[q].at = "written"
                               /\ Writing(q) => proc'[q].read = proc[q].read
      BY <1>2 DEF Writing
    <2>. QED  BY <1>0, <2>1 DEF FileInv
  <1>8. \A x \in Nat, t \in Servers : x # None /\ x \in lost /\ Has(x, t) => t = s /\ x = h
    BY <1>0, <1>5 DEF OwnedInv
  <1>9. ASSUME NEW t \in Servers, NEW x \in Nat, Has(x, t), x = None \/ x \in grants
        PROVE  /\ x = None \/ x \in grants' \/ Replaces(x, t, {"save"})'
               /\ x = None \/ x \in grants' \/ Replaces(x, t, {"save", "read", "write", "written"})'
    <2>1. CASE x # None /\ x \in lost
      BY <1>2, <1>8, <1>9, <2>1 DEF Replaces
    <2>. QED  BY <1>9, <2>1
  <1>10. \A t, x, places : "refresh" \notin places /\ "browser" \notin places /\ Replaces(x, t, places)
                           => Replaces(x, t, places)'
    BY <1>2 DEF Replaces
  <1>11. KeptInv'
    <2>1. ASSUME NEW t \in Servers
          PROVE  /\ \/ keychain.item[t] = None \/ keychain.item[t] \in grants'
                    \/ Replaces(keychain.item[t], t, {"save"})'
                 /\ \/ file.profiles[t] = None \/ file.profiles[t] \in grants'
                    \/ Replaces(file.profiles[t], t, {"save", "read", "write", "written"})'
      <3>1. keychain.item[t] \in Nat /\ file.profiles[t] \in Nat
        BY <1>0 DEF SessionTypes
      <3>2. \/ keychain.item[t] = None \/ keychain.item[t] \in grants
            \/ Replaces(keychain.item[t], t, {"save"})
        BY <1>0 DEF KeptInv
      <3>3. \/ file.profiles[t] = None \/ file.profiles[t] \in grants
            \/ Replaces(file.profiles[t], t, {"save", "read", "write", "written"})
        BY <1>0 DEF KeptInv
      <3>4. \/ keychain.item[t] = None \/ keychain.item[t] \in grants'
            \/ Replaces(keychain.item[t], t, {"save"})'
        BY <1>5, <1>9, <1>10, <3>1, <3>2
      <3>5. \/ file.profiles[t] = None \/ file.profiles[t] \in grants'
            \/ Replaces(file.profiles[t], t, {"save", "read", "write", "written"})'
        BY <1>5, <1>9, <1>10, <3>1, <3>3
      <3>. QED  BY <3>4, <3>5
    <2>. QED  BY <2>1 DEF KeptInv
  <1>12. PrivateInv'
    <2>1. ASSUME NEW q \in Processes, q # p, Fresh(q)'
          PROVE  /\ proc[q].got \in grants'
                 /\ rotates[proc[q].server] =>
                      /\ \A t \in Servers : keychain.item[t] # proc[q].got /\ file.profiles[t] # proc[q].got
                      /\ \A r \in Processes : proc'[r].held # proc[q].got /\ (r # q => proc'[r].got # proc[q].got)
      <3>. DEFINE g == proc[q].got
      <3>0. Fresh(q) /\ proc[q].server \in Servers
        BY <1>0, <1>2, <2>1 DEF Fresh, SessionTypes
      <3>1. /\ g \in grants
            /\ rotates[proc[q].server] =>
                 /\ \A t \in Servers : keychain.item[t] # g /\ file.profiles[t] # g
                 /\ \A r \in Processes : proc[r].held # g /\ (r # q => proc[r].got # g)
        BY <1>0, <3>0 DEF PrivateInv
      <3>2. g \in Nat /\ g # None /\ g <= issued /\ Has(g, proc[q].server)
        BY <1>0, <3>1 DEF SessionTypes, None, Has
      <3>3. g \notin lost
        BY <1>8, <3>0, <3>1, <3>2
      <3>4. g \in grants'
        BY <3>1, <3>3
      <3>5. rotates[proc[q].server] => c # g
        BY <1>0, <3>1, <3>2 DEF SessionTypes
      <3>6. ASSUME NEW r \in Processes, rotates[proc[q].server]
            PROVE  proc'[r].held # g /\ (r # q => proc'[r].got # g)
        <4>1. proc[r].held # g /\ (r # q => proc[r].got # g) /\ c # g
          BY <3>1, <3>5, <3>6
        <4>2. CASE r = p
          BY <1>2, <4>1, <4>2
        <4>3. CASE r # p
          BY <1>2, <4>1, <4>3
        <4>. QED  BY <4>2, <4>3
      <3>. HIDE DEF g
      <3>. QED  BY <3>1, <3>4, <3>6 DEF g
    <2>2. /\ c \in grants'
          /\ rotates[s] =>
               /\ \A t \in Servers : keychain.item[t] # c /\ file.profiles[t] # c
               /\ \A r \in Processes : proc'[r].held # c /\ (r # p => proc'[r].got # c)
      <3>1. CASE rotates[s]
        <4>1. c = issued + 1
          BY <3>1
        <4>2. \A t \in Servers : keychain.item[t] # c /\ file.profiles[t] # c
          BY <1>0, <4>1 DEF SessionTypes
        <4>3. \A r \in Processes : proc[r].held # c /\ proc[r].got # c
          BY <1>0, <4>1 DEF SessionTypes, Procs
        <4>. QED  BY <1>2, <4>2, <4>3
      <3>. QED  BY <3>1
    <2>3. \A q \in Processes : q # p => proc'[q] = proc[q]
      BY <1>2
    <2>4. ASSUME NEW q \in Processes, Fresh(q)'
          PROVE  /\ proc'[q].got \in grants'
                 /\ rotates[proc'[q].server] =>
                      /\ \A t \in Servers : keychain.item[t] # proc'[q].got /\ file.profiles[t] # proc'[q].got
                      /\ \A r \in Processes : proc'[r].held # proc'[q].got /\ (r # q => proc'[r].got # proc'[q].got)
      <3>1. CASE q = p
        BY <1>2, <2>2, <3>1
      <3>2. CASE q # p
        <4>1. proc'[q] = proc[q]
          BY <2>3, <3>2
        <4>2. /\ proc[q].got \in grants'
              /\ rotates[proc[q].server] =>
                   /\ \A t \in Servers : keychain.item[t] # proc[q].got /\ file.profiles[t] # proc[q].got
                   /\ \A r \in Processes : proc'[r].held # proc[q].got /\ (r # q => proc'[r].got # proc[q].got)
          BY <2>1, <2>4, <3>2, Zenon
        <4>. QED  BY <4>1, <4>2
      <3>. QED  BY <3>1, <3>2
    <2>. QED  BY <1>0, <2>4 DEF PrivateInv
  <1>. QED  BY <1>4, <1>6, <1>7, <1>11, <1>12 DEF SessionInv

LEMMA TradeStep ==
  ASSUME SessionInv, NEW p \in Processes, refreshTokens(p) \/ exchangeCode(p)
  PROVE  SessionInv'
  <1>0. /\ UNCHANGED <<keychain, file, rotates>> /\ issued \in Nat /\ proc[p].held \in Nat
        /\ rotates[proc[p].server] \in BOOLEAN /\ proc[p].server \in Servers
    BY DEF SessionInv, SessionTypes, Procs, refreshTokens, exchangeCode, storageRest
  <1>. PICK n \in Nat : n = issued + 1
    BY <1>0
  <1>. PICK h \in Nat : h = proc[p].held
    BY <1>0
  <1>1. CASE refreshTokens(p) /\ rotates[proc[p].server]
    <2>. PICK lost \in SUBSET Nat : lost = {h}
      OBVIOUS
    <2>1. /\ proc[p].at = "refresh" /\ h \in grants /\ issued' = n
          /\ grants' = (grants \ lost) \cup {n}
          /\ proc' = [proc EXCEPT ![p].at = "save", ![p].got = n]
      BY <1>1, Zenon DEF refreshTokens
    <2>2. /\ issued' \in Nat /\ issued <= issued' /\ lost \subseteq {proc[p].held} /\ lost \subseteq grants
          /\ proc[p].at \in {"refresh", "browser"} /\ n = issued + 1 /\ issued' = n
      BY <1>0, <2>1
    <2>. QED  BY <1>0, <1>1, <2>1, <2>2, GotStep
  <1>2. CASE refreshTokens(p) /\ ~rotates[proc[p].server]
    <2>. PICK lost \in SUBSET Nat : lost = {}
      OBVIOUS
    <2>1. /\ proc[p].at = "refresh" /\ h \in grants /\ grants' = grants /\ issued' = issued
          /\ proc' = [proc EXCEPT ![p].at = "save", ![p].got = h]
      BY <1>2, Zenon DEF refreshTokens, grantRest
    <2>2. /\ issued' \in Nat /\ issued <= issued' /\ proc[p].at \in {"refresh", "browser"}
          /\ lost \subseteq {proc[p].held} /\ lost \subseteq grants /\ lost = {}
          /\ grants' = (grants \ lost) \cup {h}
      BY <1>0, <2>1
    <2>. QED  BY <1>0, <1>2, <2>1, <2>2, GotStep
  <1>3. CASE exchangeCode(p)
    <2>. PICK lost \in SUBSET Nat : lost = {}
      OBVIOUS
    <2>1. /\ proc[p].at = "browser" /\ issued' = n /\ grants' = grants \cup {n}
          /\ proc' = [proc EXCEPT ![p].at = "save", ![p].got = n]
      BY <1>3, Zenon DEF exchangeCode
    <2>2. /\ issued' \in Nat /\ issued <= issued' /\ proc[p].at \in {"refresh", "browser"}
          /\ lost \subseteq {proc[p].held} /\ lost \subseteq grants /\ lost = {}
          /\ grants' = (grants \ lost) \cup {n} /\ n = issued + 1
      BY <1>0, <2>1
    <2>. QED  BY <1>0, <2>1, <2>2, GotStep
  <1>. QED  BY <1>1, <1>2, <1>3

-----------------------------------------------------------------------------
(* What is stored changes. *)

(* The keychain takes what a process has, or forgets what it had.           *)
LEMMA KeychainStep ==
  ASSUME SessionInv, NEW p \in Processes, NEW s \in Servers, NEW c \in Nat,
         keychain' = [keychain EXCEPT !.item[s] = c],
         UNCHANGED <<file, grants, issued, rotates>>,
         Moves(p, "read", s, proc[p].held, proc[p].got, TRUE),
         \/ proc[p].at = "idle" /\ c = None
         \/ proc[p].at = "save" /\ s = proc[p].server /\ c = proc[p].got
  PROVE  SessionInv'
  <1>0. SessionTypes /\ OwnedInv /\ FileInv /\ KeptInv /\ PrivateInv
    BY DEF SessionInv
  <1>1. /\ \A q \in Processes : q # p => proc'[q] = proc[q]
        /\ proc'[p].at = "read" /\ proc'[p].server = s /\ proc'[p].held = proc[p].held
        /\ proc'[p].got = proc[p].got /\ proc'[p].clear
    BY DEF Moves
  <1>2. /\ keychain' \in [there : BOOLEAN, item : [Servers -> Nat]]
        /\ \A t \in Servers : keychain'.item[t] = IF t = s THEN c ELSE keychain.item[t]
    BY <1>0 DEF SessionTypes
  <1>3. /\ proc[p].held \in Nat /\ proc[p].got \in Nat /\ proc[p].held <= issued /\ proc[p].got <= issued
        /\ proc[p].at = "idle" => proc[p].held = None /\ proc[p].got = None
        /\ c <= issued
    BY <1>0 DEF SessionTypes, Procs, None
  <1>4. SessionTypes'
    <2>1. \A t \in Servers : keychain'.item[t] <= issued /\ file.profiles[t] <= issued
      BY <1>0, <1>2, <1>3 DEF SessionTypes
    <2>2. /\ file' \in [torn : BOOLEAN, profiles : [Servers -> Nat]] /\ issued' \in Nat
          /\ issued <= issued' /\ grants' \subseteq 1..issued' /\ rotates' = rotates
          /\ \A t \in Servers : keychain'.item[t] <= issued' /\ file'.profiles[t] <= issued'
          /\ proc[p].held <= issued' /\ proc[p].got <= issued'
      BY <1>0, <1>3, <2>1 DEF SessionTypes
    <2>. QED  BY <1>0, <1>2, <2>2, TypesMove
  <1>5. OwnedInv'
    <2>1. \A t \in Servers : Has(keychain.item[t], t) /\ Has(file.profiles[t], t)
      BY DEF Has
    <2>2. Has(proc[p].held, proc[p].server) /\ Has(proc[p].got, proc[p].server)
      BY DEF Has
    <2>3. \A t \in Servers : keychain'.item[t] = None \/ Has(keychain'.item[t], t)
      BY <1>2, <2>1, <2>2
    <2>. QED  BY <1>0, <1>3, <2>1, <2>2, <2>3, OwnedMove
  <1>6. FileInv'
    <2>1. \A q \in Processes : /\ Writing(q)' <=> Writing(q)
                               /\ proc'[q].at = "written" <=> proc[q].at = "written"
                               /\ Writing(q) => proc'[q].read = proc[q].read
      BY <1>1 DEF Writing
    <2>. QED  BY <1>0, <2>1 DEF FileInv
  <1>7. c = None \/ c \in grants
    BY <1>0 DEF PrivateInv, Fresh
  <1>8. KeptInv'
    <2>1. ASSUME NEW t \in Servers
          PROVE  /\ \/ keychain'.item[t] = None \/ keychain'.item[t] \in grants
                    \/ Replaces(keychain.item[t], t, {"save"})'
                 /\ \/ file.profiles[t] = None \/ file.profiles[t] \in grants
                    \/ Replaces(file.profiles[t], t, {"save", "read", "write", "written"})'
      <3>1. ASSUME Replaces(keychain.item[t], t, {"save"}), t # s
            PROVE  Replaces(keychain.item[t], t, {"save"})'
        <4>1. PICK q \in Processes : /\ proc[q].server = t /\ proc[q].held = keychain.item[t]
                                     /\ proc[q].at = "save"
          BY <3>1 DEF Replaces
        <4>2. q # p
          BY <3>1, <4>1
        <4>3. keychain'.item[t] = keychain.item[t] /\ proc'[q] = proc[q]
          BY <1>1, <1>2, <3>1, <4>2
        <4>. QED  BY <4>1, <4>3 DEF Replaces
      <3>2. ASSUME Replaces(file.profiles[t], t, {"save", "read", "write", "written"})
            PROVE  Replaces(file.profiles[t], t, {"save", "read", "write", "written"})'
        BY <1>1, <3>2 DEF Replaces
      <3>3. \/ file.profiles[t] = None \/ file.profiles[t] \in grants
            \/ Replaces(file.profiles[t], t, {"save", "read", "write", "written"})'
        BY <1>0, <3>2 DEF KeptInv
      <3>4. CASE t = s
        BY <1>2, <1>7, <3>3, <3>4
      <3>5. CASE t # s
        <4>1. \/ keychain.item[t] = None \/ keychain.item[t] \in grants
              \/ Replaces(keychain.item[t], t, {"save"})
          BY <1>0 DEF KeptInv
        <4>2. keychain'.item[t] = keychain.item[t]
          BY <1>2, <3>5
        <4>. QED  BY <3>1, <3>3, <3>5, <4>1, <4>2 DEF Replaces
      <3>. QED  BY <3>4, <3>5
    <2>. QED  BY <1>0, <2>1 DEF KeptInv
  <1>9. PrivateInv'
    <2>1. ASSUME NEW q \in Processes, Fresh(q)'
          PROVE  q # p /\ proc'[q] = proc[q] /\ Fresh(q)
      BY <1>1, <2>1 DEF Fresh
    <2>2. ASSUME NEW q \in Processes, Fresh(q)'
          PROVE  /\ proc[q].got \in grants
                 /\ rotates[proc[q].server] =>
                      /\ \A t \in Servers : keychain'.item[t] # proc[q].got /\ file.profiles[t] # proc[q].got
                      /\ \A r \in Processes : proc'[r].held # proc[q].got /\ (r # q => proc'[r].got # proc[q].got)
      <3>1. /\ proc[q].got \in grants /\ proc[q].got # None
            /\ rotates[proc[q].server] =>
                 /\ \A t \in Servers : keychain.item[t] # proc[q].got /\ file.profiles[t] # proc[q].got
                 /\ \A r \in Processes : proc[r].held # proc[q].got /\ (r # q => proc[r].got # proc[q].got)
        BY <1>0, <2>1, <2>2 DEF PrivateInv, SessionTypes, None
      <3>2. rotates[proc[q].server] => c # proc[q].got
        BY <2>1, <2>2, <3>1
      <3>3. \A r \in Processes : proc'[r].held = proc[r].held /\ proc'[r].got = proc[r].got
        BY <1>1
      <3>. QED  BY <1>2, <3>1, <3>2, <3>3
    <2>. QED  BY <1>0, <2>1, <2>2 DEF PrivateInv
  <1>. QED  BY <1>4, <1>5, <1>6, <1>8, <1>9 DEF SessionInv

LEMMA SaveStep ==
  ASSUME SessionInv, NEW p \in Processes, saveCredential(p), mishaps' = {}
  PROVE  SessionInv'
  <1>0. /\ SessionTypes /\ UNCHANGED <<file, grants, issued, rotates>> /\ proc[p].at = "save"
        /\ proc[p].server \in Servers
    BY DEF SessionInv, SessionTypes, saveCredential, grantRest
  <1>. PICK s \in Servers, c \in Nat : s = proc[p].server /\ c = proc[p].got
    BY <1>0 DEF SessionTypes, Procs
  <1>1. CASE /\ keychain' = [keychain EXCEPT !.item[s] = c]
             /\ proc' = [proc EXCEPT ![p].at = "read", ![p].clear = TRUE]
    <2>1. Moves(p, "read", s, proc[p].held, proc[p].got, TRUE)
      BY <1>0, <1>1, SavedMoves
    <2>. QED  BY <1>0, <1>1, <2>1, KeychainStep
  <1>2. CASE /\ proc' = [proc EXCEPT ![p].at = "read", ![p].clear = FALSE] /\ UNCHANGED keychain
             /\ mishaps' = IF keychain.item[proc[p].server] = None THEN mishaps ELSE mishaps \cup {"shadowed"}
    <2>1. keychain.item[proc[p].server] = None
      BY <1>2
    <2>. QED  BY <1>0, <1>2, <2>1, SaveInFileStep
  <1>. QED  BY <1>1, <1>2 DEF saveCredential

LEMMA ForgetStep ==
  ASSUME SessionInv, NEW p \in Processes, NEW s \in Servers, forgetCredential(p, s)
  PROVE  SessionInv'
  <1>1. /\ SessionTypes /\ UNCHANGED <<file, grants, issued, rotates>> /\ proc[p].at = "idle"
        /\ keychain' = [keychain EXCEPT !.item[s] = None]
        /\ proc' = [proc EXCEPT ![p].at = "read", ![p].server = s, ![p].clear = TRUE]
    BY DEF SessionInv, forgetCredential, grantRest
  <1>2. Moves(p, "read", s, proc[p].held, proc[p].got, TRUE)
    BY <1>1, ForgetMoves, Zenon
  <1>. QED  BY <1>1, <1>2, KeychainStep DEF None

(* The file is truncated; who does it still holds all that was in it.       *)
LEMMA TruncateStep ==
  ASSUME SessionInv, NEW p \in Processes, proc[p].at = "write", Goes(p, "written"),
         file' = [file EXCEPT !.torn = TRUE], UNCHANGED <<keychain, grants, issued, rotates>>
  PROVE  SessionInv'
  <1>0. SessionTypes /\ OwnedInv /\ FileInv /\ KeptInv /\ PrivateInv
    BY DEF SessionInv
  <1>1. /\ Moves(p, "written", proc[p].server, proc[p].held, proc[p].got, proc[p].clear)
        /\ proc'[p].read = proc[p].read
    BY <1>0, TruncateMoves
  <1>2. \A q \in Processes :
          /\ proc'[q].server = proc[q].server /\ proc'[q].held = proc[q].held /\ proc'[q].got = proc[q].got
          /\ proc'[q].read = proc[q].read
          /\ proc'[q].at = IF q = p THEN "written" ELSE proc[q].at
          /\ proc'[q].clear <=> proc[q].clear
    BY <1>1 DEF Moves
  <1>3. /\ file' \in [torn : BOOLEAN, profiles : [Servers -> Nat]]
        /\ file'.profiles = file.profiles /\ file'.torn
    BY <1>0 DEF SessionTypes
  <1>4. SessionTypes'
    <2>1. /\ proc[p].server \in Servers /\ proc[p].held <= issued' /\ proc[p].got <= issued'
          /\ issued' \in Nat /\ issued <= issued' /\ grants' \subseteq 1..issued' /\ rotates' = rotates
          /\ keychain' \in [there : BOOLEAN, item : [Servers -> Nat]]
          /\ \A t \in Servers : keychain'.item[t] <= issued' /\ file'.profiles[t] <= issued'
      BY <1>0, <1>3 DEF SessionTypes
    <2>. QED  BY <1>0, <1>1, <1>3, <2>1, TypesMove
  <1>5. OwnedInv'
    <2>1. \A t \in Servers : Has(keychain.item[t], t) /\ Has(file.profiles[t], t)
      BY DEF Has
    <2>2. Has(proc[p].held, proc[p].server) /\ Has(proc[p].got, proc[p].server)
      BY DEF Has
    <2>. QED  BY <1>0, <1>1, <1>3, <2>1, <2>2, OwnedMove
  <1>6. FileInv'
    <2>1. \A q \in Processes : Writing(q)' <=> Writing(q)
      BY <1>2 DEF Writing
    <2>2. proc'[p].at = "written"
      BY <1>2
    <2>. QED  BY <1>0, <1>2, <1>3, <2>1, <2>2 DEF FileInv
  <1>7. KeptInv'
    <2>1. ASSUME NEW t \in Servers
          PROVE  /\ \/ keychain.item[t] = None \/ keychain.item[t] \in grants
                    \/ Replaces(keychain.item[t], t, {"save"})'
                 /\ \/ file.profiles[t] = None \/ file.profiles[t] \in grants
                    \/ Replaces(file.profiles[t], t, {"save", "read", "write", "written"})'
      <3>1. ASSUME Replaces(keychain.item[t], t, {"save"})
            PROVE  Replaces(keychain.item[t], t, {"save"})'
        BY <1>2, <3>1 DEF Replaces
      <3>2. ASSUME Replaces(file.profiles[t], t, {"save", "read", "write", "written"})
            PROVE  Replaces(file.profiles[t], t, {"save", "read", "write", "written"})'
        BY <1>2, <1>3, <3>2 DEF Replaces
      <3>. QED  BY <1>0, <3>1, <3>2 DEF KeptInv
    <2>. QED  BY <1>0, <1>3, <2>1 DEF KeptInv
  <1>8. PrivateInv'
    <2>1. \A q \in Processes : Fresh(q)' => Fresh(q)
      BY <1>2 DEF Fresh
    <2>. QED  BY <1>0, <1>2, <1>3, <2>1 DEF PrivateInv
  <1>. QED  BY <1>4, <1>5, <1>6, <1>7, <1>8 DEF SessionInv

(* The one who rewrites the file is done: its server has the new token, or  *)
(* none, and the others what they had.                                      *)
LEMMA ReplacedStep ==
  ASSUME SessionInv, NEW p \in Processes, Writing(p), ProcessEnds(p),
         file' = [torn |-> FALSE, profiles |-> NewProfiles(p)],
         UNCHANGED <<keychain, grants, issued, rotates>>
  PROVE  SessionInv'
  <1>0. /\ SessionTypes /\ OwnedInv /\ FileInv /\ KeptInv /\ PrivateInv
        /\ proc[p].server \in Servers /\ proc[p].at \in {"write", "written"}
    BY DEF SessionInv, SessionTypes, Writing
  <1>. PICK s \in Servers, c \in Nat : s = proc[p].server /\ c = IF proc[p].clear THEN None ELSE proc[p].got
    BY <1>0 DEF SessionTypes, Procs, None
  <1>1. Moves(p, "idle", IdleProcess.server, None, None, FALSE)
    BY <1>0, EndMoves
  <1>2. /\ \A q \in Processes : q # p => proc'[q] = proc[q]
        /\ proc'[p].at = "idle" /\ proc'[p].held = None /\ proc'[p].got = None
    BY <1>1 DEF Moves
  <1>3. /\ file' \in [torn : BOOLEAN, profiles : [Servers -> Nat]] /\ ~file'.torn
        /\ \A t \in Servers : file'.profiles[t] = IF t = s THEN c ELSE file.profiles[t]
    <2>1. NewProfiles(p) = [file.profiles EXCEPT ![s] = c]
      BY <1>0 DEF FileInv, NewProfiles, Writing
    <2>2. /\ NewProfiles(p) \in [Servers -> Nat]
          /\ \A t \in Servers : NewProfiles(p)[t] = IF t = s THEN c ELSE file.profiles[t]
      BY <1>0, <2>1 DEF SessionTypes
    <2>. QED  BY <2>2
  <1>4. SessionTypes'
    <2>1. /\ issued' \in Nat /\ issued <= issued' /\ grants' \subseteq 1..issued' /\ rotates' = rotates
          /\ keychain' \in [there : BOOLEAN, item : [Servers -> Nat]] /\ None <= issued'
          /\ \A t \in Servers : keychain'.item[t] <= issued' /\ file'.profiles[t] <= issued'
      BY <1>0, <1>3 DEF SessionTypes, None
    <2>. QED  BY <1>0, <1>1, <1>3, <2>1, TypesMove
  <1>5. OwnedInv'
    <2>1. \A t \in Servers : Has(keychain.item[t], t) /\ Has(file.profiles[t], t)
      BY DEF Has
    <2>2. Has(proc[p].got, s)
      BY DEF Has
    <2>3. \A t \in Servers : file'.profiles[t] = None \/ Has(file'.profiles[t], t)
      BY <1>3, <2>1, <2>2
    <2>. QED  BY <1>0, <1>1, <2>1, <2>3, OwnedMove
  <1>6. FileInv'
    <2>1. \A q \in Processes : ~Writing(q)'
      BY <1>0, <1>2 DEF FileInv, Writing
    <2>. QED  BY <1>3, <2>1 DEF FileInv, Writing
  <1>7. c = None \/ c \in grants
    BY <1>0 DEF PrivateInv, Fresh
  <1>8. KeptInv'
    <2>1. ASSUME NEW t \in Servers
          PROVE  /\ \/ keychain.item[t] = None \/ keychain.item[t] \in grants
                    \/ Replaces(keychain.item[t], t, {"save"})'
                 /\ \/ file'.profiles[t] = None \/ file'.profiles[t] \in grants
                    \/ Replaces(file.profiles[t], t, {"save", "read", "write", "written"})'
      <3>1. ASSUME Replaces(keychain.item[t], t, {"save"})
            PROVE  Replaces(keychain.item[t], t, {"save"})'
        BY <1>0, <1>2, <3>1 DEF Replaces
      <3>2. ASSUME Replaces(file.profiles[t], t, {"save", "read", "write", "written"}), t # s
            PROVE  Replaces(file.profiles[t], t, {"save", "read", "write", "written"})'
        <4>1. PICK q \in Processes : /\ proc[q].server = t /\ proc[q].held = file.profiles[t]
                                     /\ proc[q].at \in {"save", "read", "write", "written"}
          BY <3>2 DEF Replaces
        <4>2. q # p
          BY <3>2, <4>1
        <4>3. file'.profiles[t] = file.profiles[t] /\ proc'[q] = proc[q]
          BY <1>2, <1>3, <3>2, <4>2
        <4>. QED  BY <4>1, <4>3 DEF Replaces
      <3>3. \/ keychain.item[t] = None \/ keychain.item[t] \in grants
            \/ Replaces(keychain.item[t], t, {"save"})'
        BY <1>0, <3>1 DEF KeptInv
      <3>4. CASE t = s
        BY <1>3, <1>7, <3>3, <3>4
      <3>5. CASE t # s
        <4>1. \/ file.profiles[t] = None \/ file.profiles[t] \in grants
              \/ Replaces(file.profiles[t], t, {"save", "read", "write", "written"})
          BY <1>0 DEF KeptInv
        <4>2. file'.profiles[t] = file.profiles[t]
          BY <1>3, <3>5
        <4>. QED  BY <3>2, <3>3, <3>5, <4>1, <4>2
      <3>. QED  BY <3>4, <3>5
    <2>. QED  BY <1>0, <2>1 DEF KeptInv
  <1>9. PrivateInv'
    <2>1. ASSUME NEW q \in Processes, Fresh(q)'
          PROVE  q # p /\ proc'[q] = proc[q] /\ Fresh(q)
      BY <1>2, <2>1 DEF Fresh
    <2>2. ASSUME NEW q \in Processes, Fresh(q)'
          PROVE  /\ proc[q].got \in grants
                 /\ rotates[proc[q].server] =>
                      /\ \A t \in Servers : keychain.item[t] # proc[q].got /\ file'.profiles[t] # proc[q].got
                      /\ \A r \in Processes : proc'[r].held # proc[q].got /\ (r # q => proc'[r].got # proc[q].got)
      <3>1. /\ proc[q].got \in grants /\ proc[q].got # None
            /\ rotates[proc[q].server] =>
                 /\ \A t \in Servers : keychain.item[t] # proc[q].got /\ file.profiles[t] # proc[q].got
                 /\ \A r \in Processes : proc[r].held # proc[q].got /\ (r # q => proc[r].got # proc[q].got)
        BY <1>0, <2>1, <2>2 DEF PrivateInv, SessionTypes, None
      <3>2. rotates[proc[q].server] => c # proc[q].got
        BY <2>1, <2>2, <3>1
      <3>. QED  BY <1>2, <1>3, <3>1, <3>2
    <2>. QED  BY <1>0, <2>1, <2>2 DEF PrivateInv
  <1>. QED  BY <1>4, <1>5, <1>6, <1>8, <1>9 DEF SessionInv

LEMMA FileStep ==
  ASSUME SessionInv, NEW p \in Processes, ReplaceFile(p) \/ FileWritten(p)
  PROVE  SessionInv'
  <1>1. CASE FileWritten(p)
    <2>1. /\ Writing(p) /\ ProcessEnds(p) /\ file' = [torn |-> FALSE, profiles |-> NewProfiles(p)]
          /\ UNCHANGED <<keychain, grants, issued, rotates>>
      BY <1>1 DEF FileWritten, Writing, grantRest
    <2>. QED  BY <2>1, ReplacedStep
  <1>2. CASE ReplaceFile(p) /\ \A s \in Servers : NewProfiles(p)[s] = None
    <2>1. /\ Writing(p) /\ ProcessEnds(p) /\ file' = [torn |-> FALSE, profiles |-> NewProfiles(p)]
          /\ UNCHANGED <<keychain, grants, issued, rotates>>
      BY <1>2 DEF ReplaceFile, Writing, grantRest
    <2>. QED  BY <2>1, ReplacedStep
  <1>3. CASE ReplaceFile(p) /\ ~(\A s \in Servers : NewProfiles(p)[s] = None)
    <2>1. /\ proc[p].at = "write" /\ Goes(p, "written") /\ file' = [file EXCEPT !.torn = TRUE]
          /\ UNCHANGED <<keychain, grants, issued, rotates>>
      BY <1>3 DEF ReplaceFile, grantRest
    <2>. QED  BY <2>1, TruncateStep
  <1>. QED  BY <1>1, <1>2, <1>3

-----------------------------------------------------------------------------
(* Without a mishap. *)
SessionHolds == mishaps = {} => SessionInv

LEMMA SessionStep ==
  ASSUME SessionHolds, [CliNext]_cliVars  PROVE SessionHolds'
  <1>1. CASE UNCHANGED cliVars
    BY <1>1 DEF cliVars, SessionHolds, SessionInv, SessionTypes, OwnedInv, FileInv, KeptInv, PrivateInv,
                Has, Writing, Replaces, Fresh
  <1>2. CASE CliNext
    <2>. SUFFICES ASSUME mishaps' = {}  PROVE SessionInv'
      BY DEF SessionHolds
    <2>. PICK p \in Processes :
           \/ \E s \in Servers : LoadFromKeychain(p, s) \/ LoginBegins(p, s) \/ forgetCredential(p, s)
           \/ LoadFromFile(p) \/ refreshTokens(p) \/ RefreshFails(p) \/ exchangeCode(p) \/ LoginFails(p)
           \/ saveCredential(p) \/ ReadProfiles(p) \/ ReplaceFile(p) \/ FileWritten(p) \/ Interrupted(p)
      BY <1>2 DEF CliNext
    <2>1. mishaps = {} /\ ~Interrupted(p)
      <3>1. ~Interrupted(p)
        BY DEF Interrupted
      <3>2. saveCredential(p) => mishaps = {}
        BY DEF saveCredential
      <3>3. ReadProfiles(p) => mishaps = {}
        BY DEF ReadProfiles
      <3>4. (\E s \in Servers : LoadFromKeychain(p, s) \/ LoginBegins(p, s) \/ forgetCredential(p, s))
              => mishaps = {}
        BY Zenon DEF LoadFromKeychain, LoginBegins, forgetCredential
      <3>5. LoadFromFile(p) \/ refreshTokens(p) \/ RefreshFails(p) \/ exchangeCode(p) \/ LoginFails(p)
              => mishaps = {}
        BY Zenon DEF LoadFromFile, refreshTokens, RefreshFails, exchangeCode, LoginFails
      <3>6. ReplaceFile(p) \/ FileWritten(p) => mishaps = {}
        BY Zenon DEF ReplaceFile, FileWritten
      <3>. QED  BY <3>1, <3>2, <3>3, <3>4, <3>5, <3>6
    <2>2. SessionInv
      BY <2>1 DEF SessionHolds
    <2>. QED  BY <2>1, <2>2, LoadStep, BrowserStep, ForgetStep, TradeStep, GiveUpStep, SaveStep,
              ReadProfilesStep, FileStep, Zenon
  <1>. QED  BY <1>1, <1>2

LEMMA SessionStart ==
  ASSUME CliInit  PROVE SessionHolds
  <1>0. /\ keychain \in [there : BOOLEAN, item : {[s \in Servers |-> None]}]
        /\ file = [torn |-> FALSE, profiles |-> [s \in Servers |-> None]]
        /\ proc = [p \in Processes |-> IdleProcess] /\ grants = {} /\ issued = 0
        /\ rotates \in [Servers -> BOOLEAN]
    BY DEF CliInit
  <1>1. /\ \A s \in Servers : keychain.item[s] = None /\ file.profiles[s] = None
        /\ keychain \in [there : BOOLEAN, item : [Servers -> Nat]]
        /\ file \in [torn : BOOLEAN, profiles : [Servers -> Nat]] /\ ~file.torn
    BY <1>0 DEF None
  <1>2. \A p \in Processes : /\ proc[p] \in Procs /\ proc[p].at = "idle" /\ proc[p].held = None
                             /\ proc[p].got = None
    BY <1>0, IdleFields
  <1>3. SessionTypes
    BY <1>0, <1>1, <1>2 DEF SessionTypes, None
  <1>4. OwnedInv
    BY <1>1, <1>2 DEF OwnedInv, Has
  <1>5. FileInv /\ KeptInv /\ PrivateInv
    BY <1>1, <1>2 DEF FileInv, KeptInv, PrivateInv, Writing, Fresh
  <1>. QED  BY <1>3, <1>4, <1>5 DEF SessionHolds, SessionInv

(* As long as nothing befell it that is nobody's choice, a token that is    *)
(* stored is good or about to be replaced, and one that is to be stored is  *)
(* good and its process's own.                                              *)
THEOREM SessionInvariant == CliSpec => []SessionHolds
  <1>. QED  BY SessionStart, SessionStep, PTL DEF CliSpec

(* What is stored for a server can be refreshed, or is about to be replaced *)
(* by what it was refreshed to.                                             *)
THEOREM SessionSafe == CliSpec => []SessionSurvives
  <1>1. SessionHolds => SessionSurvives
    <2>. SUFFICES ASSUME SessionInv, NEW s \in Servers
                  PROVE  \/ Stored(s) = None \/ Stored(s) \in grants
                         \/ \E p \in Processes :
                              /\ proc[p].server = s /\ proc[p].held = Stored(s)
                              /\ proc[p].at \in {"save", "read", "write", "written"}
      BY DEF SessionHolds, SessionSurvives
    <2>1. CASE keychain.item[s] # None
      BY <2>1 DEF SessionInv, KeptInv, Stored, Replaces
    <2>2. CASE keychain.item[s] = None /\ file.torn
      BY <2>2 DEF Stored, readCredentialFile
    <2>3. CASE keychain.item[s] = None /\ ~file.torn
      BY <2>3 DEF SessionInv, KeptInv, Stored, Replaces, readCredentialFile
    <2>. QED  BY <2>1, <2>2, <2>3
  <1>. QED  BY <1>1, SessionInvariant, PTL

-----------------------------------------------------------------------------
(* The history. *)

At(r) == history[r].createdAt

Ordered(s) == \A i, j \in 1..Len(s) : i < j => At(s[i]) >= At(s[j])

(* An order of some runs has every one of them once, newest first.          *)
LEMMA NewestFirstOrders ==
  ASSUME NEW R, IsFiniteSet(R), NEW s \in NewestFirst(R)
  PROVE  /\ s \in Seq(R) /\ Ordered(s) /\ IsInjective(s)
         /\ \A r \in R : \E i \in 1..Len(s) : s[i] = r
  <1>. DEFINE n == Cardinality(R)
  <1>1. n \in Nat
    BY FS_CardinalityType
  <1>2. /\ s \in [1..n -> R] /\ \A i, j \in 1..n : i # j => s[i] # s[j]
        /\ \A i, j \in DOMAIN s : i < j => history[s[i]].createdAt >= history[s[j]].createdAt
    BY Zenon DEF NewestFirst, SetToSeqs
  <1>3. IsFiniteSet(1..n) /\ Cardinality(1..n) = n
    BY <1>1, FS_Interval
  <1>. HIDE DEF n
  <1>4. s \in Seq(R) /\ Len(s) = n /\ DOMAIN s = 1..n
    BY <1>1, <1>2
  <1>5. IsInjective(s)
    BY <1>2, <1>4 DEF IsInjective
  <1>6. s \in Injection(1..n, R)
    BY <1>2, <1>5 DEF Injection
  <1>7. s \in Surjection(1..n, R)
    BY <1>3, <1>6, FS_Injection DEF n
  <1>8. \A r \in R : \E i \in 1..Len(s) : s[i] = r
    BY <1>4, <1>7 DEF Surjection
  <1>9. Ordered(s)
    BY <1>2, <1>4 DEF Ordered, At
  <1>. QED  BY <1>4, <1>5, <1>8, <1>9

(* What is left of a sequence from a place on.                              *)
LEMMA FromOf ==
  ASSUME NEW S, NEW s \in Seq(S), NEW n \in Nat \ {0}
  PROVE  /\ From(s, n) \in Seq(S) /\ Len(From(s, n)) \in Nat
         /\ \A i \in 1..Len(From(s, n)) : n + i - 1 \in 1..Len(s) /\ From(s, n)[i] = s[n + i - 1]
         /\ \A k \in 1..Len(s) : k >= n => k - n + 1 \in 1..Len(From(s, n)) /\ From(s, n)[k - n + 1] = s[k]
  <1>. DEFINE m == Len(s)
  <1>1. m \in Nat /\ From(s, n) = SubSeq(s, n, m)
    BY LenProperties DEF From
  <1>2. \A i \in n..m : s[i] \in S
    <2>1. \A i \in n..m : i \in 1..m
      BY <1>1
    <2>. QED  BY <2>1, ElementOfSeq
  <1>. HIDE DEF m
  <1>3. /\ SubSeq(s, n, m) \in Seq(S)
        /\ Len(SubSeq(s, n, m)) = IF n <= m THEN m - n + 1 ELSE 0
        /\ \A i \in 1..(m - n + 1) : SubSeq(s, n, m)[i] = s[n + i - 1]
    BY <1>1, <1>2, SubSeqProperties
  <1>4. PICK rest : rest = From(s, n)
    OBVIOUS
  <1>5. /\ rest \in Seq(S) /\ Len(rest) = IF n <= m THEN m - n + 1 ELSE 0
        /\ \A i \in 1..(m - n + 1) : rest[i] = s[n + i - 1]
    BY <1>1, <1>3, <1>4
  <1>6. ASSUME NEW i \in 1..Len(rest)
        PROVE  n + i - 1 \in 1..m /\ rest[i] = s[n + i - 1]
    <2>1. n <= m /\ Len(rest) = m - n + 1
      BY <1>1, <1>5, <1>6
    <2>2. i \in 1..(m - n + 1)
      BY <1>6, <2>1
    <2>3. rest[i] = s[n + i - 1]
      BY <1>5, <2>2
    <2>4. n \in Nat /\ n >= 1 /\ i \in Nat /\ i >= 1 /\ i <= m - n + 1 /\ m \in Nat
      BY <1>1, <2>1, <2>2
    <2>5. n + i - 1 \in 1..m
      BY <2>4
    <2>. QED  BY <2>3, <2>5
  <1>7. ASSUME NEW k \in 1..m, k >= n
        PROVE  k - n + 1 \in 1..Len(rest) /\ rest[k - n + 1] = s[k]
    <2>1. k - n + 1 \in 1..(m - n + 1) /\ n + (k - n + 1) - 1 = k /\ n <= m
      BY <1>1, <1>7
    <2>. QED  BY <1>5, <2>1
  <1>8. Len(rest) \in Nat
    BY <1>5, LenProperties
  <1>. QED  BY <1>4, <1>5, <1>6, <1>7, <1>8 DEF m

(* It is an order of runs still.                                            *)
LEMMA OrderedFrom ==
  ASSUME NEW S, NEW s \in Seq(S), NEW n \in Nat \ {0}, Ordered(s), IsInjective(s)
  PROVE  Ordered(From(s, n)) /\ IsInjective(From(s, n))
  <1>1. PICK rest : rest = From(s, n)
    OBVIOUS
  <1>2. /\ rest \in Seq(S) /\ Len(rest) \in Nat /\ DOMAIN rest = 1..Len(rest)
        /\ \A i \in 1..Len(rest) : n + i - 1 \in 1..Len(s) /\ rest[i] = s[n + i - 1]
        /\ DOMAIN s = 1..Len(s)
    BY <1>1, FromOf, LenProperties
  <1>3. ASSUME NEW i \in 1..Len(rest), NEW j \in 1..Len(rest), i < j
        PROVE  At(rest[i]) >= At(rest[j])
    <2>1. n + i - 1 < n + j - 1
      BY <1>2, <1>3
    <2>. QED  BY <1>2, <2>1 DEF Ordered
  <1>4. ASSUME NEW i \in 1..Len(rest), NEW j \in 1..Len(rest), rest[i] = rest[j]
        PROVE  i = j
    <2>1. n + i - 1 = n + j - 1
      BY <1>2, <1>4 DEF IsInjective
    <2>. QED  BY <1>2, <2>1
  <1>. QED  BY <1>1, <1>2, <1>3, <1>4 DEF Ordered, IsInjective

(* A prefix of a sequence.                                                  *)
LEMMA PrefixOf ==
  ASSUME NEW S, NEW s \in Seq(S), NEW n \in Nat
  PROVE  /\ Prefix(s, n) \in Seq(S)
         /\ Len(Prefix(s, n)) = IF Len(s) < n THEN Len(s) ELSE n
         /\ \A i \in 1..Len(Prefix(s, n)) : i \in 1..Len(s) /\ Prefix(s, n)[i] = s[i]
  <1>. DEFINE m == IF Len(s) < n THEN Len(s) ELSE n
  <1>1. m \in Nat /\ m <= Len(s) /\ Len(s) \in Nat
    BY LenProperties
  <1>2. Prefix(s, n) = SubSeq(s, 1, m)
    BY DEF Prefix
  <1>. HIDE DEF m
  <1>3. \A i \in 1..m : i \in 1..Len(s) /\ s[i] \in S
    BY <1>1, ElementOfSeq
  <1>4. /\ SubSeq(s, 1, m) \in Seq(S)
        /\ Len(SubSeq(s, 1, m)) = m
        /\ \A i \in 1..m : SubSeq(s, 1, m)[i] = s[i]
    BY <1>1, <1>3, SubSeqProperties
  <1>. QED  BY <1>2, <1>3, <1>4 DEF m

(* A page is the first rows found, and its cursor the last of them, if      *)
(* there are more.                                                          *)
LEMMA PageIsCut ==
  ASSUME NEW S, NEW s \in Seq(S), NEW n \in Nat \ {0}
  PROVE  LET page == toCursorPage(Prefix(s, n + 1), n)
         IN /\ page.data \in Seq(S)
            /\ Len(page.data) = IF Len(s) < n THEN Len(s) ELSE n
            /\ \A i \in 1..Len(page.data) : page.data[i] = s[i]
            /\ page.next = IF Len(s) > n THEN s[n] ELSE 0
  <1>. DEFINE rows == Prefix(s, n + 1)
              page == toCursorPage(rows, n)
  <1>1. /\ rows \in Seq(S)
        /\ Len(rows) = IF Len(s) < n + 1 THEN Len(s) ELSE n + 1
        /\ \A i \in 1..Len(rows) : rows[i] = s[i]
    BY PrefixOf
  <1>2. page.data = Prefix(rows, n) /\ page.next = IF Len(rows) > n THEN rows[n] ELSE 0
    BY DEF toCursorPage
  <1>3. Len(s) \in Nat
    BY LenProperties
  <1>. HIDE DEF rows, page
  <1>4. /\ Prefix(rows, n) \in Seq(S)
        /\ Len(Prefix(rows, n)) = IF Len(rows) < n THEN Len(rows) ELSE n
        /\ \A i \in 1..Len(Prefix(rows, n)) : i \in 1..Len(rows) /\ Prefix(rows, n)[i] = rows[i]
    BY <1>1, PrefixOf
  <1>5. /\ page.data \in Seq(S)
        /\ Len(page.data) = IF Len(s) < n THEN Len(s) ELSE n
    BY <1>1, <1>2, <1>3, <1>4
  <1>6. \A i \in 1..Len(page.data) : page.data[i] = s[i]
    BY <1>1, <1>2, <1>4
  <1>7. page.next = IF Len(s) > n THEN s[n] ELSE 0
    BY <1>1, <1>2, <1>3
  <1>. QED  BY <1>5, <1>6, <1>7 DEF page, rows

(* What comes after a cursor: runs as old or older, newest first, and,      *)
(* while the run it names matches, every older one that does.               *)
LEMMA AfterGoesOn ==
  ASSUME DOMAIN history \in SUBSET (Nat \ {0}), IsFiniteSet(DOMAIN history),
         \A r \in DOMAIN history : At(r) \in Nat,
         NEW f, NEW c \in {0} \cup DOMAIN history, NEW s \in After(f, c)
  PROVE  /\ s \in Seq(DOMAIN history) /\ Ordered(s) /\ IsInjective(s)
         /\ c # 0 => \A i \in 1..Len(s) : At(s[i]) <= At(c) /\ s[i] # c
         /\ c = 0 \/ c \in Matching(f) =>
              \A r \in Matching(f) : c = 0 \/ At(r) < At(c) => \E i \in 1..Len(s) : s[i] = r
  <1>. DEFINE D == DOMAIN history
              M == Matching(f)
              R == {r \in M : history[r].createdAt <= history[c].createdAt}
  <1>0. M \subseteq D /\ R \subseteq M
    BY DEF Matching
  <1>1. IsFiniteSet(M) /\ IsFiniteSet(R)
    <2>. HIDE DEF M, R
    <2>. QED  BY <1>0, FS_Subset
  <1>2. CASE c = 0
    <2>1. s \in NewestFirst(M)
      BY <1>2 DEF After
    <2>. HIDE DEF M, R
    <2>2. s \in Seq(M) /\ Ordered(s) /\ IsInjective(s) /\ \A r \in M : \E i \in 1..Len(s) : s[i] = r
      BY <1>1, <2>1, NewestFirstOrders
    <2>3. s \in Seq(D)
      BY <1>0, <2>2, SeqMonotonic
    <2>. QED  BY <1>2, <2>2, <2>3 DEF M
  <1>3. CASE c # 0 /\ history[c].deleted
    <2>1. s = <<>>
      BY <1>3 DEF After
    <2>2. c \notin Matching(f)
      BY <1>3 DEF Matching, runFilterWhere
    <2>3. Len(<<>>) = 0 /\ <<>> \in Seq(D)
      BY EmptySeq
    <2>. QED  BY <1>3, <2>1, <2>2, <2>3 DEF Ordered, IsInjective
  <1>4. CASE c # 0 /\ ~history[c].deleted
    <2>1. After(f, c) = UNION {Behind(order, c) : order \in NewestFirst(R)}
      BY <1>4 DEF After
    <2>2. \A r \in R : r \in D /\ At(r) <= At(c)
      BY <1>0 DEF At
    <2>3. c \in D /\ At(c) \in Nat /\ (c \in M => c \in R) /\ \A r \in M : At(r) < At(c) => r \in R
      <3>1. c \in D /\ At(c) \in Nat
        BY <1>4
      <3>2. \A r \in M : At(r) \in Nat
        BY <1>0
      <3>. QED  BY <3>1, <3>2 DEF At
    <2>. HIDE DEF M, R
    <2>4. PICK order \in NewestFirst(R) : s \in Behind(order, c)
      BY <2>1
    <2>5. /\ order \in Seq(R) /\ Ordered(order) /\ IsInjective(order)
          /\ \A r \in R : \E i \in 1..Len(order) : order[i] = r
      BY <1>1, <2>4, NewestFirstOrders
    <2>6. DOMAIN order = 1..Len(order) /\ Len(order) \in Nat
      BY <2>5, LenProperties
    <2>7. PICK i \in IF c \in ToSet(order) THEN {j \in DOMAIN order : order[j] = c} ELSE {1, Len(order)} :
            s = From(order, i + 1)
      BY <2>4, Zenon DEF Behind
    <2>8. i \in Nat /\ (c \in ToSet(order) => i \in 1..Len(order) /\ order[i] = c)
      BY <2>6, <2>7
    <2>9. i + 1 \in Nat \ {0}
      BY <2>8
    <2>10. s \in Seq(R) /\ Ordered(s) /\ IsInjective(s)
      BY <2>5, <2>7, <2>9, FromOf, OrderedFrom
    <2>15. PICK p \in Nat \ {0} : p = i + 1
      BY <2>9
    <2>11. /\ \A j \in 1..Len(s) : p + j - 1 \in 1..Len(order) /\ s[j] = order[p + j - 1]
           /\ \A k \in 1..Len(order) : k >= p => k - p + 1 \in 1..Len(s) /\ s[k - p + 1] = order[k]
      <3>1. s = From(order, p) /\ p \in Nat \ {0} /\ order \in Seq(R)
        BY <2>5, <2>7, <2>15
      <3>. QED  BY <3>1, FromOf, Zenon
    <2>12. s \in Seq(D)
      BY <2>2, <2>10, SeqMonotonic
    <2>13. ASSUME NEW j \in 1..Len(s) PROVE At(s[j]) <= At(c) /\ s[j] # c
      <3>1. s[j] \in R
        BY <2>10, ElementOfSeq
      <3>2. PICK k \in 1..Len(order) : k = p + j - 1 /\ s[j] = order[k]
        BY <2>11
      <3>3. SUFFICES ASSUME s[j] = c PROVE FALSE
        BY <2>2, <3>1
      <3>4. c \in ToSet(order)
        BY <2>6, <3>2, <3>3 DEF ToSet
      <3>5. k = i
        BY <2>5, <2>6, <2>8, <3>2, <3>3, <3>4 DEF IsInjective
      <3>. QED  BY <2>8, <2>10, <2>15, <3>2, <3>5, LenProperties
    <2>14. ASSUME c \in M, NEW r \in M, At(r) < At(c) PROVE \E j \in 1..Len(s) : s[j] = r
      <3>1. PICK k \in 1..Len(order) : order[k] = r
        BY <2>3, <2>5, <2>14
      <3>2. PICK l \in 1..Len(order) : order[l] = c
        BY <2>3, <2>5, <2>14
      <3>3. c \in ToSet(order)
        BY <2>6, <3>2 DEF ToSet
      <3>4. ~(k < i) /\ k # i
        <4>1. At(r) \in Nat /\ At(c) \in Nat
          BY <1>0, <2>3
        <4>2. i \in 1..Len(order) /\ order[i] = c /\ k # i
          BY <2>8, <2>14, <3>1, <3>3, <4>1
        <4>3. k < i => At(order[k]) >= At(order[i])
          BY <2>5, <4>2 DEF Ordered
        <4>. QED  BY <2>14, <3>1, <4>1, <4>2, <4>3
      <3>5. k >= p
        <4>1. i \in Nat
          BY <2>8, Zenon
        <4>2. k \in Nat
          BY <2>6
        <4>. QED  BY <2>15, <3>4, <4>1, <4>2
      <3>. QED  BY <2>11, <3>1, <3>5
    <2>. QED  BY <1>4, <2>10, <2>12, <2>13, <2>14 DEF M
  <1>. QED  BY <1>2, <1>3, <1>4

Entries == [owner: Owners, createdAt: 0..LastInstant, status: Statuses, tags: SUBSET Tags, deleted: BOOLEAN]

Walks(D) == [at: {"idle", "page", "done"}, filter: Filters, limit: {0} \cup Limits,
             cursor: {0} \cup D, cursors: SUBSET D, got: Seq(D), constant: SUBSET D, moved: BOOLEAN]

Got(r) == \E i \in 1..Len(walk.got) : walk.got[i] = r

(* No page ended on a run that shares its millisecond.                      *)
Parted == \A r \in walk.cursors : Alone(r)

(* A walk that goes on has a page size, and nothing older than its cursor.  *)
(* What matched all along matches; and what of it is not older than the     *)
(* cursor the walk has, unless it had to resume from a run that moved.      *)
GoesOnInv ==
  walk.at = "page" =>
    /\ walk.limit \in Limits
    /\ walk.cursor = 0 => walk.got = <<>>
    /\ walk.cursor # 0 => walk.cursor \in walk.cursors
    /\ walk.constant \subseteq Matching(walk.filter)
    /\ Parted /\ walk.cursor # 0 =>
         /\ \A i \in 1..Len(walk.got) : At(walk.got[i]) >= At(walk.cursor)
         /\ ~walk.moved => \A r \in walk.constant : At(r) >= At(walk.cursor) => Got(r)

EndedInv == walk.at = "done" /\ Parted /\ ~walk.moved => \A r \in walk.constant : Got(r)

OnceInv == Parted => IsInjective(walk.got)

PagerInv == HistoryTypeOK /\ OnceInv /\ GoesOnInv /\ EndedInv

(* HistoryTypeOK, by parts.                                                 *)
LEMMA HistoryTypes ==
  HistoryTypeOK <=> /\ history \in Seq(Entries) /\ Len(history) <= MaxRuns
                    /\ walk \in Walks(DOMAIN history)
  BY DEF HistoryTypeOK, Entries, Walks

(* Whatever is asked becomes a filter.                                      *)
LEMMA FiltersOfRuns ==
  /\ NoWalk.filter \in Filters
  /\ \A asked \in Asked, self \in {{}} \cup {{o} : o \in Owners} : toRunFilters(asked, self) \in Filters
  <1>1. [status |-> {}, tags |-> {}, owner |-> {}, to |-> -1] \in Filters
    BY DEF Filters, Until
  <1>2. NoWalk.filter = CHOOSE f \in Filters : TRUE
    BY DEF NoWalk
  <1>3. ASSUME NEW asked \in Asked, NEW self \in {{}} \cup {{o} : o \in Owners}
        PROVE  toRunFilters(asked, self) \in Filters
    <2>1. self \in SUBSET Owners
      OBVIOUS
    <2>2. asked.status \in SUBSET Statuses /\ asked.tags \in SUBSET Tags /\ asked.to \in Until
      BY DEF Asked
    <2>. QED  BY <2>1, <2>2 DEF toRunFilters, Filters
  <1>. QED  BY <1>1, <1>2, <1>3

(* Before anything is created there is nothing to miss.                     *)
LEMMA HistoryStarts == HistoryInit => PagerInv
  <1>. SUFFICES ASSUME HistoryInit PROVE PagerInv
    OBVIOUS
  <1>1. history = <<>> /\ walk = NoWalk
    BY DEF HistoryInit
  <1>2. /\ NoWalk.at = "idle" /\ NoWalk.limit = 0 /\ NoWalk.cursor = 0 /\ NoWalk.got = <<>>
        /\ NoWalk.cursors = {} /\ NoWalk.constant = {} /\ NoWalk.moved = FALSE
    BY DEF NoWalk
  <1>3. NoWalk \in Walks(DOMAIN history)
    BY <1>2, FiltersOfRuns, EmptySeq DEF NoWalk, Walks
  <1>4. HistoryTypeOK
    BY <1>1, <1>3, HistoryTypes, HistoryAssumption, EmptySeq
  <1>5. OnceInv
    BY <1>1, <1>2 DEF OnceInv, IsInjective
  <1>. QED  BY <1>1, <1>2, <1>4, <1>5 DEF PagerInv, GoesOnInv, EndedInv

(* A change of runs there are narrows what matched all along to what still  *)
(* does.                                                                    *)
LEMMA ChangesKeep ==
  ASSUME PagerInv, Changes, history' \in Seq(Entries),
         Len(history') = Len(history), \A r \in DOMAIN history : history'[r].createdAt = history[r].createdAt
  PROVE  PagerInv'
  <1>. DEFINE f == walk.filter
              matched == {r \in walk.constant : runFilterWhere(f, history'[r])}
  <1>1. /\ history \in Seq(Entries) /\ Len(history) <= MaxRuns
        /\ walk \in Walks(DOMAIN history)
    BY HistoryTypes DEF PagerInv
  <1>2. DOMAIN history' = DOMAIN history
    BY <1>1, LenProperties
  <1>3. walk' = [walk EXCEPT !.constant = matched]
    BY DEF Changes
  <1>4. matched \subseteq walk.constant
    OBVIOUS
  <1>5. /\ walk' \in Walks(DOMAIN history)
        /\ walk'.at = walk.at /\ walk'.filter = f /\ walk'.limit = walk.limit
        /\ walk'.cursor = walk.cursor /\ walk'.cursors = walk.cursors
        /\ walk'.got = walk.got /\ walk'.constant = matched
        /\ walk'.moved = walk.moved
    <2>. HIDE DEF matched
    <2>. QED  BY <1>1, <1>3, <1>4 DEF Walks
  <1>6. HistoryTypeOK'
    BY <1>1, <1>2, <1>5 DEF HistoryTypeOK, Entries, Walks
  <1>7. matched \subseteq Matching(f)'
    <2>1. walk.constant \subseteq DOMAIN history
      BY <1>1 DEF Walks
    <2>. QED  BY <1>2, <2>1, <1>5 DEF Matching, runFilterWhere
  <1>8. /\ \A r : Got(r)' <=> Got(r)
        /\ Parted' <=> Parted
        /\ \A r \in DOMAIN history : At(r)' = At(r)
    <2>1. \A r \in walk.cursors : r \in DOMAIN history
      BY <1>1 DEF Walks
    <2>. QED  BY <1>2, <1>5, <2>1 DEF Got, Parted, Alone, At
  <1>9. OnceInv'
    BY <1>5, <1>8 DEF PagerInv, OnceInv, IsInjective
  <1>. HIDE DEF matched
  <1>10. GoesOnInv'
    <2>1. /\ \A i \in 1..Len(walk.got) : walk.got[i] \in DOMAIN history
          /\ walk.cursor # 0 => walk.cursor \in DOMAIN history
          /\ walk.constant \subseteq DOMAIN history
      <3>1. walk.got \in Seq(DOMAIN history)
        BY <1>1 DEF Walks
      <3>. QED  BY <1>1, <3>1, ElementOfSeq DEF Walks
    <2>2. walk'.cursor # 0 => (\A i \in 1..Len(walk'.got) : At(walk.got[i])' = At(walk.got[i]))
                              /\ At(walk.cursor)' = At(walk.cursor)
      BY <1>5, <1>8, <2>1 DEF At
    <2>3. \A r \in matched : At(r)' = At(r)
      BY <1>4, <1>8, <2>1
    <2>. QED  BY <1>4, <1>5, <1>7, <1>8, <2>2, <2>3 DEF PagerInv, GoesOnInv
  <1>11. EndedInv'
    BY <1>4, <1>5, <1>8 DEF PagerInv, EndedInv
  <1>. QED  BY <1>6, <1>9, <1>10, <1>11 DEF PagerInv

(* A run's entry may be replaced, and is one.                               *)
LEMMA EntryChanges ==
  ASSUME PagerInv, NEW r \in DOMAIN history, NEW e \in Entries, history' = [history EXCEPT ![r] = e]
  PROVE  /\ history' \in Seq(Entries) /\ Len(history') = Len(history)
         /\ \A q \in DOMAIN history : history'[q] = IF q = r THEN e ELSE history[q]
  <1>1. history \in Seq(Entries) /\ r \in 1..Len(history)
    BY HistoryTypes, LenProperties DEF PagerInv
  <1>. QED  BY <1>1, ExceptSeq

LEMMA EntryOfRun ==
  ASSUME PagerInv, NEW r \in DOMAIN history
  PROVE  history[r] \in Entries
  <1>1. history \in Seq(Entries) /\ r \in 1..Len(history)
    BY HistoryTypes, LenProperties DEF PagerInv
  <1>. QED  BY <1>1, ElementOfSeq

(* A run concludes, is tagged or deleted.                                   *)
LEMMA RunsChange ==
  ASSUME PagerInv, NEW r \in DOMAIN history, NEW tags \in SUBSET Tags,
         RunConcludes(r) \/ RunDeleted(r) \/ setRunTags(r, tags)
  PROVE  PagerInv'
  <1>. DEFINE e == history[r]
  <1>1. e \in Entries
    BY EntryOfRun
  <1>. HIDE DEF e
  <1>2. CASE RunConcludes(r)
    <2>. DEFINE new == [e EXCEPT !.status = "over"]
    <2>1. history' = [history EXCEPT ![r] = new] /\ Changes
      BY <1>2 DEF RunConcludes, e
    <2>2. new \in Entries /\ new.createdAt = e.createdAt
      BY <1>1 DEF Entries, Statuses
    <2>. HIDE DEF new
    <2>3. \A q \in DOMAIN history : history'[q].createdAt = history[q].createdAt
      BY <2>1, <2>2, EntryChanges DEF e
    <2>. QED  BY <2>1, <2>2, <2>3, EntryChanges, ChangesKeep
  <1>3. CASE RunDeleted(r)
    <2>. DEFINE new == [e EXCEPT !.deleted = TRUE, !.tags = {}, !.status = "over"]
    <2>1. history' = [history EXCEPT ![r] = new] /\ Changes
      BY <1>3 DEF RunDeleted, e
    <2>2. new \in Entries /\ new.createdAt = e.createdAt
      BY <1>1 DEF Entries, Statuses
    <2>. HIDE DEF new
    <2>3. \A q \in DOMAIN history : history'[q].createdAt = history[q].createdAt
      BY <2>1, <2>2, EntryChanges DEF e
    <2>. QED  BY <2>1, <2>2, <2>3, EntryChanges, ChangesKeep
  <1>4. CASE setRunTags(r, tags)
    <2>. DEFINE new == [e EXCEPT !.tags = tags]
    <2>1. history' = [history EXCEPT ![r] = new] /\ Changes
      BY <1>4 DEF setRunTags, e
    <2>2. new \in Entries /\ new.createdAt = e.createdAt
      BY <1>1 DEF Entries
    <2>. HIDE DEF new
    <2>3. \A q \in DOMAIN history : history'[q].createdAt = history[q].createdAt
      BY <2>1, <2>2, EntryChanges DEF e
    <2>. QED  BY <2>1, <2>2, <2>3, EntryChanges, ChangesKeep
  <1>. QED  BY <1>2, <1>3, <1>4

(* A new run is none the walk got, and concerns no other run.               *)
LEMMA RunsAreCreated ==
  ASSUME PagerInv, NEW owner \in Owners, NEW at \in 0..LastInstant, RunCreated(owner, at)
  PROVE  PagerInv'
  <1>. DEFINE e == [owner |-> owner, createdAt |-> at, status |-> "open", tags |-> {}, deleted |-> FALSE]
              D == DOMAIN history
  <1>1. /\ history \in Seq(Entries) /\ Len(history) < MaxRuns
        /\ walk \in Walks(D)
    BY HistoryTypes DEF PagerInv, RunCreated
  <1>2. history' = Append(history, e) /\ walk' = walk
    BY DEF RunCreated
  <1>3. e \in Entries
    BY DEF Entries, Statuses
  <1>. HIDE DEF e
  <1>4. /\ history' \in Seq(Entries) /\ Len(history') = Len(history) + 1
        /\ \A r \in 1..Len(history) : history'[r] = history[r]
    BY <1>1, <1>2, <1>3, AppendProperties
  <1>5. Len(history) \in Nat /\ D = 1..Len(history) /\ DOMAIN history' = 1..Len(history')
    BY <1>1, <1>4, LenProperties
  <1>6. D \subseteq DOMAIN history'
    BY <1>4, <1>5
  <1>7. walk \in Walks(DOMAIN history')
    <2>1. walk.got \in Seq(D)
      BY <1>1 DEF Walks
    <2>2. walk.got \in Seq(DOMAIN history')
      BY <1>6, <2>1, SeqMonotonic
    <2>. HIDE DEF D
    <2>. QED  BY <1>1, <1>6, <2>2 DEF Walks
  <1>8. HistoryTypeOK'
    <2>1. Len(history') <= MaxRuns
      BY <1>1, <1>4, <1>5, HistoryAssumption
    <2>. QED  BY <1>1, <1>2, <1>4, <1>7, <2>1 DEF HistoryTypeOK, Entries, Walks
  <1>9. walk.constant \subseteq Matching(walk.filter) => walk.constant \subseteq Matching(walk.filter)'
    BY <1>2, <1>4, <1>5, <1>6 DEF Matching, runFilterWhere
  <1>10. (Parted' => Parted) /\ \A r \in D : At(r)' = At(r)
    <2>1. walk.cursors \subseteq D
      BY <1>1 DEF Walks
    <2>. QED  BY <1>2, <1>4, <1>5, <1>6, <2>1 DEF Parted, Alone, At
  <1>11. GoesOnInv'
    <2>1. /\ \A i \in 1..Len(walk.got) : walk.got[i] \in D
          /\ walk.cursor # 0 => walk.cursor \in D
          /\ walk.constant \subseteq D
      <3>1. walk.got \in Seq(D)
        BY <1>1 DEF Walks
      <3>. QED  BY <1>1, <3>1, ElementOfSeq DEF Walks
    <2>2. walk.cursor # 0 => (\A i \in 1..Len(walk.got) : At(walk.got[i])' = At(walk.got[i]))
                             /\ At(walk.cursor)' = At(walk.cursor)
      BY <1>2, <1>10, <2>1 DEF At
    <2>3. \A r \in walk.constant : At(r)' = At(r)
      BY <1>10, <2>1
    <2>. HIDE DEF D
    <2>. QED  BY <1>2, <1>9, <1>10, <2>2, <2>3 DEF PagerInv, GoesOnInv, Got
  <1>12. EndedInv' /\ OnceInv'
    BY <1>2, <1>10 DEF PagerInv, EndedInv, OnceInv, Got, IsInjective
  <1>. QED  BY <1>8, <1>11, <1>12 DEF PagerInv

(* A walk starts at the newest run.                                         *)
LEMMA WalksStart ==
  ASSUME PagerInv, NEW asked \in Asked, NEW self \in {{}} \cup {{o} : o \in Owners},
         NEW limit \in Limits, WalkStarts(asked, self, limit)
  PROVE  PagerInv'
  <1>. DEFINE f == toRunFilters(asked, self)
              M == Matching(f)
  <1>1. history \in Seq(Entries) /\ Len(history) <= MaxRuns
    BY HistoryTypes DEF PagerInv
  <1>2. /\ history' = history
        /\ walk' = [NoWalk EXCEPT !.at = "page", !.filter = f, !.limit = limit, !.constant = M]
    BY DEF WalkStarts
  <1>3. f \in Filters
    BY FiltersOfRuns
  <1>4. M \subseteq DOMAIN history
    BY DEF Matching
  <1>. HIDE DEF M, f
  <1>5. /\ walk' = [at |-> "page", filter |-> f, limit |-> limit, cursor |-> 0, cursors |-> {}, got |-> <<>>,
                    constant |-> M, moved |-> FALSE]
    BY <1>2 DEF NoWalk
  <1>6. walk' \in Walks(DOMAIN history)
    BY <1>3, <1>4, <1>5, EmptySeq DEF Walks
  <1>7. HistoryTypeOK'
    BY <1>1, <1>2, <1>6 DEF HistoryTypeOK, Entries, Walks
  <1>8. Matching(walk.filter)' = M
    <2>1. walk'.filter = f /\ history' = history
      BY <1>2, <1>5
    <2>2. ASSUME NEW r PROVE r \in Matching(walk.filter)' <=> r \in M
      BY <2>1 DEF Matching, runFilterWhere, M
    <2>. QED  BY <2>2
  <1>9. Len(<<>>) = 0
    OBVIOUS
  <1>10. GoesOnInv'
    BY <1>5, <1>8, <1>9 DEF GoesOnInv
  <1>. QED  BY <1>5, <1>7, <1>10 DEF PagerInv, EndedInv, OnceInv, IsInjective

(* A page goes on where the last one ended.                                 *)
LEMMA PagesGoOn ==
  ASSUME PagerInv, NextPage
  PROVE  PagerInv'
  <1>. DEFINE D == DOMAIN history
              f == walk.filter
              c == walk.cursor
              n == walk.limit
              g == walk.got
  <1>1. /\ history \in Seq(Entries) /\ Len(history) <= MaxRuns
        /\ walk \in Walks(D)
    BY HistoryTypes DEF PagerInv
  <1>0. PICK s \in After(f, c) :
          LET page == toCursorPage(Prefix(s, n + 1), n)
          IN walk' = [walk EXCEPT !.at = IF page.next = 0 THEN "done" ELSE "page",
                                  !.cursor = page.next, !.cursors = @ \cup ({page.next} \ {0}),
                                  !.got = @ \o page.data,
                                  !.moved = @ \/ (c # 0 /\ c \notin Matching(f))]
    BY Zenon DEF NextPage, listRuns
  <1>. DEFINE page == toCursorPage(Prefix(s, n + 1), n)
              k == Len(page.data)
  <1>2. /\ walk.at = "page" /\ history' = history
        /\ walk' = [walk EXCEPT !.at = IF page.next = 0 THEN "done" ELSE "page",
                                !.cursor = page.next, !.cursors = @ \cup ({page.next} \ {0}),
                                !.got = @ \o page.data,
                                !.moved = @ \/ (c # 0 /\ c \notin Matching(f))]
    BY <1>0 DEF NextPage
  <1>3. /\ n \in Limits /\ n \in Nat \ {0}
        /\ c = 0 => g = <<>>
        /\ c # 0 => c \in walk.cursors
        /\ walk.constant \subseteq Matching(f)
        /\ Parted /\ c # 0 =>
             /\ \A i \in 1..Len(g) : At(g[i]) >= At(c)
             /\ ~walk.moved => \A r \in walk.constant : At(r) >= At(c) => Got(r)
    BY <1>2, HistoryAssumption DEF PagerInv, GoesOnInv
  <1>4. D \in SUBSET (Nat \ {0}) /\ IsFiniteSet(D)
    <2>1. Len(history) \in Nat /\ D = 1..Len(history)
      BY <1>1, LenProperties
    <2>. HIDE DEF D
    <2>2. IsFiniteSet(1..Len(history))
      BY <2>1, FS_Interval
    <2>. QED  BY <2>1, <2>2
  <1>25. \A d \in D : At(d) \in Nat
    <2>1. ASSUME NEW d \in D PROVE At(d) \in Nat
      <3>1. d \in 1..Len(history)
        BY <1>1, LenProperties
      <3>2. history[d] \in Entries
        BY <1>1, <3>1, ElementOfSeq
      <3>. QED  BY <3>2, HistoryAssumption DEF Entries, At
    <2>. QED  BY <2>1
  <1>5. /\ c \in {0} \cup D /\ f \in Filters /\ g \in Seq(D) /\ walk.moved \in BOOLEAN
        /\ walk.constant \in SUBSET D /\ walk.cursors \in SUBSET D
    BY <1>1 DEF Walks
  <1>6. /\ s \in Seq(D) /\ Ordered(s) /\ IsInjective(s)
        /\ c # 0 => \A i \in 1..Len(s) : At(s[i]) <= At(c) /\ s[i] # c
        /\ c = 0 \/ c \in Matching(f) =>
             \A r \in Matching(f) : c = 0 \/ At(r) < At(c) => \E i \in 1..Len(s) : s[i] = r
    <2>1. /\ DOMAIN history \in SUBSET (Nat \ {0}) /\ IsFiniteSet(DOMAIN history)
          /\ \A d \in DOMAIN history : At(d) \in Nat
      BY <1>4, <1>25
    <2>2. c \in {0} \cup DOMAIN history
      BY <1>5
    <2>. HIDE DEF c, f
    <2>. QED  BY <2>1, <2>2, AfterGoesOn
  <1>7. page = toCursorPage(Prefix(s, n + 1), n)
    OBVIOUS
  <1>. HIDE DEF D, f, c, n, page, g
  <1>8. /\ page.data \in Seq(D)
        /\ k = IF Len(s) < n THEN Len(s) ELSE n
        /\ \A i \in 1..k : page.data[i] = s[i]
        /\ page.next = IF Len(s) > n THEN s[n] ELSE 0
    <2>1. /\ n \in Nat \ {0}
          /\ s \in Seq(D)
      BY <1>3, <1>6
    <2>. QED  BY <1>7, <2>1, PageIsCut
  <1>. HIDE DEF k
  <1>9. k \in Nat /\ k <= Len(s) /\ Len(s) \in Nat /\ \A i \in 1..Len(s) : s[i] \in D /\ s[i] # 0 /\ At(s[i]) \in Nat
    <2>1. Len(s) \in Nat /\ \A i \in 1..Len(s) : s[i] \in D
      BY <1>6, LenProperties, ElementOfSeq
    <2>2. \A d \in D : At(d) \in Nat /\ d # 0
      BY <1>4, <1>25
    <2>3. k \in Nat /\ k <= Len(s)
      BY <1>3, <1>8, <2>1
    <2>. QED  BY <2>1, <2>2, <2>3
  <1>10. page.next \in {0} \cup D
    BY <1>3, <1>8, <1>9
  <1>11. /\ g \o page.data \in Seq(D) /\ Len(g \o page.data) = Len(g) + k
         /\ \A i \in 1..(Len(g) + k) :
              (g \o page.data)[i] = IF i <= Len(g) THEN g[i] ELSE page.data[i - Len(g)]
    BY <1>5, <1>8, ConcatProperties DEF k
  <1>. DEFINE all == g \o page.data
              moved == walk.moved \/ (c # 0 /\ c \notin Matching(f))
  <1>12. /\ walk' \in Walks(D)
         /\ walk'.at = (IF page.next = 0 THEN "done" ELSE "page") /\ walk'.filter = f /\ walk'.limit = n
         /\ walk'.cursor = page.next /\ walk'.cursors = walk.cursors \cup ({page.next} \ {0})
         /\ walk'.got = all /\ walk'.constant = walk.constant
         /\ walk'.moved = moved
    <2>1. walk' = [walk EXCEPT !.at = IF page.next = 0 THEN "done" ELSE "page",
                               !.cursor = page.next, !.cursors = walk.cursors \cup ({page.next} \ {0}),
                               !.got = all, !.moved = moved]
      BY <1>2 DEF g
    <2>2. moved \in BOOLEAN
      BY <1>5
    <2>. HIDE DEF all, moved
    <2>. QED  BY <1>1, <1>10, <1>11, <2>1, <2>2 DEF Walks, f, n, all
  <1>13. Len(g) \in Nat /\ \A i \in 1..Len(g) : g[i] \in D /\ At(g[i]) \in Nat
    <2>1. Len(g) \in Nat /\ \A i \in 1..Len(g) : g[i] \in D
      BY <1>5, LenProperties, ElementOfSeq
    <2>. QED  BY <1>25, <2>1
  <1>14. \A i \in 1..Len(g) : i \in 1..(Len(g) + k) /\ all[i] = g[i]
    BY <1>9, <1>11, <1>13
  <1>15. \A j \in 1..k : Len(g) + j \in 1..(Len(g) + k) /\ all[Len(g) + j] = s[j]
    <2>1. ASSUME NEW j \in 1..k PROVE Len(g) + j \in 1..(Len(g) + k) /\ all[Len(g) + j] = s[j]
      <3>1. Len(g) + j \in 1..(Len(g) + k) /\ ~(Len(g) + j <= Len(g)) /\ (Len(g) + j) - Len(g) = j
        BY <1>9, <1>13
      <3>2. all[Len(g) + j] = page.data[j]
        BY <1>11, <3>1
      <3>. QED  BY <1>8, <3>1, <3>2
    <2>. QED  BY <2>1
  <1>. HIDE DEF all
  <1>16. \A i \in 1..(Len(g) + k) : i \in 1..Len(g) \/ \E j \in 1..k : i = Len(g) + j
    <2>1. ASSUME NEW i \in 1..(Len(g) + k), i \notin 1..Len(g) PROVE i - Len(g) \in 1..k /\ i = Len(g) + (i - Len(g))
      BY <1>9, <1>13, <2>1
    <2>. QED  BY <2>1
  <1>17. Len(all) = Len(g) + k /\ DOMAIN all = 1..(Len(g) + k)
    BY <1>11, LenProperties DEF all
  <1>26. Parted' => Parted
    <2>1. (\A r \in walk.cursors : Alone(r))' => \A r \in walk.cursors : Alone(r)
      BY <1>2, <1>12 DEF Alone
    <2>. QED  BY <2>1 DEF Parted
  <1>18. ASSUME Parted, NEW i \in 1..Len(g), NEW j \in 1..k PROVE At(s[j]) < At(g[i])
    <2>1. c # 0
      BY <1>3
    <2>2. j \in 1..Len(s) /\ c \in D /\ Alone(c)
      BY <1>3, <1>5, <1>9, <1>18, <2>1 DEF Parted
    <2>3. At(s[j]) <= At(c) /\ s[j] # c /\ s[j] \in D
      BY <1>6, <1>9, <2>1, <2>2
    <2>4. At(s[j]) # At(c)
      BY <2>2, <2>3 DEF Alone, At, D
    <2>5. At(g[i]) >= At(c)
      BY <1>3, <1>18, <2>1
    <2>6. At(s[j]) \in Nat /\ At(g[i]) \in Nat /\ At(c) \in Nat
      BY <1>9, <1>13, <1>25, <2>2
    <2>. QED  BY <2>3, <2>4, <2>5, <2>6
  <1>19. OnceInv'
    <2>1. ASSUME Parted, NEW a \in DOMAIN all, NEW b \in DOMAIN all, all[a] = all[b] PROVE a = b
      <3>1. CASE a \in 1..Len(g) /\ b \in 1..Len(g)
        <4>1. IsInjective(g) /\ DOMAIN g = 1..Len(g)
          BY <1>5, <2>1, LenProperties DEF PagerInv, OnceInv, g
        <4>. QED  BY <1>14, <2>1, <3>1, <4>1 DEF IsInjective
      <3>2. ASSUME a \in 1..Len(g), NEW j \in 1..k, b = Len(g) + j PROVE FALSE
        <4>1. s[j] = g[a] /\ At(s[j]) < At(g[a]) /\ At(g[a]) \in Nat
          BY <1>13, <1>14, <1>15, <1>18, <2>1, <3>2
        <4>. QED  BY <4>1
      <3>3. ASSUME b \in 1..Len(g), NEW j \in 1..k, a = Len(g) + j PROVE FALSE
        <4>1. s[j] = g[b] /\ At(s[j]) < At(g[b]) /\ At(g[b]) \in Nat
          BY <1>13, <1>14, <1>15, <1>18, <2>1, <3>3
        <4>. QED  BY <4>1
      <3>4. ASSUME NEW i \in 1..k, NEW j \in 1..k, a = Len(g) + i, b = Len(g) + j PROVE a = b
        <4>1. s[i] = s[j] /\ i \in DOMAIN s /\ j \in DOMAIN s
          BY <1>6, <1>9, <1>15, <2>1, <3>4, LenProperties
        <4>2. i = j
          BY <1>6, <4>1 DEF IsInjective
        <4>. QED  BY <3>4, <4>2
      <3>. QED  BY <1>16, <1>17, <2>1, <3>1, <3>2, <3>3, <3>4
    <2>2. Parted => IsInjective(all)
      BY <2>1 DEF IsInjective
    <2>. QED  BY <1>12, <1>26, <2>2 DEF OnceInv, IsInjective
  <1>20. HistoryTypeOK'
    BY <1>1, <1>2, <1>12 DEF HistoryTypeOK, Entries, Walks, D
  <1>21. \A r : (Got(r) => Got(r)') /\ ((\E j \in 1..k : s[j] = r) => Got(r)')
    BY <1>12, <1>14, <1>15, <1>17 DEF Got, g
  <1>22. ASSUME Parted, ~moved, NEW r \in walk.constant
         PROVE  Got(r)' \/ \E i \in 1..Len(s) : i > k /\ s[i] = r
    <2>1. r \in Matching(f) /\ r \in D
      BY <1>3, <1>5
    <2>0. At(r) \in Nat /\ (c # 0 => At(c) \in Nat)
      BY <1>5, <1>25, <2>1
    <2>2. CASE c # 0 /\ At(r) >= At(c)
      BY <1>3, <1>21, <1>22, <2>2
    <2>3. CASE c = 0 \/ At(r) < At(c)
      <3>1. PICK i \in 1..Len(s) : s[i] = r
        BY <1>6, <1>22, <2>1, <2>3
      <3>2. i \in 1..k \/ i > k
        BY <1>9
      <3>. QED  BY <1>21, <3>1, <3>2
    <2>. QED  BY <2>0, <2>2, <2>3
  <1>23. CASE page.next = 0
    <2>1. k = Len(s)
      BY <1>3, <1>8, <1>9, <1>23
    <2>2. \A i \in 1..Len(s) : ~(i > k)
      BY <1>9, <2>1
    <2>3. GoesOnInv'
      BY <1>12, <1>23 DEF GoesOnInv
    <2>4. EndedInv'
      BY <1>12, <1>22, <1>26, <2>2 DEF EndedInv
    <2>. QED  BY <1>19, <1>20, <2>3, <2>4 DEF PagerInv
  <1>24. CASE page.next # 0
    <2>1. Len(s) > n /\ k = n /\ page.next = s[n] /\ n \in 1..Len(s) /\ n \in 1..k
      BY <1>3, <1>8, <1>9, <1>24
    <2>7. s[n] \in D /\ At(s[n]) \in Nat
      BY <1>9, <2>1
    <2>2. ASSUME Parted, NEW i \in 1..Len(all) PROVE At(all[i]) >= At(s[n])
      <3>1. ASSUME NEW l \in 1..Len(g) PROVE At(g[l]) >= At(s[n])
        <4>1. At(s[n]) < At(g[l]) /\ At(g[l]) \in Nat
          BY <1>13, <1>18, <2>1, <2>2
        <4>. QED  BY <2>7, <4>1
      <3>2. ASSUME NEW j \in 1..k PROVE At(s[j]) >= At(s[n])
        <4>1. j \in 1..Len(s) /\ j <= n /\ At(s[j]) \in Nat
          BY <1>3, <1>9, <2>1
        <4>2. j = n \/ At(s[j]) >= At(s[n])
          BY <1>3, <1>6, <2>1, <4>1 DEF Ordered
        <4>. QED  BY <4>1, <4>2
      <3>3. i \in 1..Len(g) \/ \E j \in 1..k : i = Len(g) + j
        BY <1>16, <1>17, <2>2
      <3>4. CASE i \in 1..Len(g)
        <4>1. all[i] = g[i]
          BY <1>14, <3>4
        <4>. QED  BY <3>1, <3>4, <4>1
      <3>5. ASSUME NEW j \in 1..k, i = Len(g) + j PROVE At(all[i]) >= At(s[n])
        <4>1. all[i] = s[j]
          BY <1>15, <3>5
        <4>. QED  BY <3>2, <4>1
      <3>. QED  BY <3>3, <3>4, <3>5
    <2>3. ASSUME Parted', ~moved, NEW r \in walk.constant, At(r) >= At(s[n]) PROVE Got(r)'
      <3>1. ASSUME NEW i \in 1..Len(s), i > k, s[i] = r PROVE FALSE
        <4>1. At(s[n]) >= At(r) /\ At(r) \in Nat
          BY <1>6, <1>9, <2>1, <3>1 DEF Ordered
        <4>2. s[n] \in walk'.cursors
          BY <1>9, <1>12, <2>1
        <4>3. Alone(s[n])
          BY <1>2, <2>3, <4>2 DEF Parted, Alone
        <4>4. At(s[n]) = At(r) /\ r \in D
          BY <1>5, <2>3, <2>7, <4>1
        <4>5. r = s[n]
          BY <4>3, <4>4 DEF Alone, At, D
        <4>6. i \in DOMAIN s /\ n \in DOMAIN s
          BY <1>6, <2>1, LenProperties
        <4>7. i = n
          BY <1>6, <3>1, <4>5, <4>6 DEF IsInjective
        <4>. QED  BY <2>1, <3>1, <4>7
      <3>. QED  BY <1>22, <1>26, <2>3, <3>1
    <2>4. walk.constant \subseteq Matching(walk.filter)'
      BY <1>2, <1>3, <1>12 DEF Matching, runFilterWhere, f
    <2>5. GoesOnInv'
      <3>. HIDE DEF moved
      <3>1. \A r : At(r)' = At(r)
        BY <1>2 DEF At
      <3>2. Parted' => \A i \in 1..Len(walk'.got) : At(walk.got[i])' >= At(walk.cursor)'
        BY <1>2, <1>12, <1>26, <2>1, <2>2 DEF At
      <3>3. Parted' /\ ~walk'.moved => \A r \in walk'.constant : At(r)' >= At(walk.cursor)' => Got(r)'
        BY <1>2, <1>12, <2>1, <2>3 DEF At
      <3>4. walk'.cursor \in walk'.cursors /\ walk'.limit \in Limits /\ walk'.cursor # 0
        BY <1>3, <1>12, <1>24
      <3>. QED  BY <2>4, <3>2, <3>3, <3>4, <1>12 DEF GoesOnInv
    <2>6. EndedInv'
      BY <1>12, <1>24 DEF EndedInv
    <2>. QED  BY <1>19, <1>20, <2>5, <2>6 DEF PagerInv
  <1>. QED  BY <1>23, <1>24

(* Every step keeps the invariant.                                          *)
LEMMA HistorySteps == PagerInv /\ [HistoryNext]_historyVars => PagerInv'
  <1>. SUFFICES ASSUME PagerInv, [HistoryNext]_historyVars PROVE PagerInv'
    OBVIOUS
  <1>1. CASE \E owner \in Owners, at \in 0..LastInstant : RunCreated(owner, at)
    BY <1>1, RunsAreCreated
  <1>2. CASE \E r \in DOMAIN history :
               RunConcludes(r) \/ RunDeleted(r) \/ \E tags \in SUBSET Tags : setRunTags(r, tags)
    <2>1. PICK r \in DOMAIN history :
            RunConcludes(r) \/ RunDeleted(r) \/ \E tags \in SUBSET Tags : setRunTags(r, tags)
      BY <1>2
    <2>2. \E tags \in SUBSET Tags : RunConcludes(r) \/ RunDeleted(r) \/ setRunTags(r, tags)
      BY <2>1
    <2>. QED  BY <2>2, RunsChange
  <1>4. CASE \E asked \in Asked, self \in {{}} \cup {{o} : o \in Owners}, limit \in Limits :
               WalkStarts(asked, self, limit)
    BY <1>4, WalksStart
  <1>5. CASE NextPage
    BY <1>5, PagesGoOn
  <1>6. CASE UNCHANGED historyVars
    BY <1>6 DEF historyVars, PagerInv, HistoryTypeOK, GoesOnInv, EndedInv, OnceInv, Parted, Alone, At, Got, IsInjective, Matching
  <1>. QED  BY <1>1, <1>2, <1>4, <1>5, <1>6 DEF HistoryNext

(* The runs and the walk, whatever happens to the runs meanwhile.           *)
THEOREM PagerInvariant == HistorySpec => []PagerInv
  BY HistoryStarts, HistorySteps, PTL DEF HistorySpec

(* Types (HistoryTypeOK).                                                   *)
THEOREM HistoryTyped == HistorySpec => []HistoryTypeOK
  <1>1. PagerInv => HistoryTypeOK
    BY DEF PagerInv
  <1>. QED  BY <1>1, PagerInvariant, PTL

(* For any runs, filters, page sizes and changes, whoever follows the       *)
(* cursors gets no run twice, and every one that matched all along, unless  *)
(* a page ended on a run that shares its millisecond, or, for the latter,   *)
(* on one that went or stopped matching meanwhile (PagerSeesAll).           *)
THEOREM WalkSeesAll == HistorySpec => []PagerSeesAll
  <1>1. PagerInv => PagerSeesAll
    <2>. SUFFICES ASSUME PagerInv PROVE PagerSeesAll
      OBVIOUS
    <2>1. walk.got \in Seq(DOMAIN history)
      BY HistoryTypes DEF PagerInv, Walks
    <2>2. \A r : Got(r) => r \in ToSet(walk.got)
      BY <2>1, LenProperties DEF Got, ToSet
    <2>. QED  BY <2>2 DEF PagerInv, EndedInv, OnceInv, Parted, PagerSeesAll
  <1>. QED  BY <1>1, PagerInvariant, PTL
=============================================================================
