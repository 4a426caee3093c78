------------------------------ MODULE RunArchive ------------------------------
(***************************************************************************)
(* The answers of one run, where they are kept and who may read them. A    *)
(* body of some size goes to an object store and its row keeps the key;    *)
(* the rows are written by worker jobs that may be delivered more than     *)
(* once, read with their bodies by GET /runs/:id, and deleted with them by *)
(* DELETE. A share link publishes the synthesis to whoever has its token.  *)
(*                                                                         *)
(* Texts are abstracted to where they are: nowhere, in the row, or under   *)
(* the key of an object. The status of the run is in RunLifecycle.         *)
(***************************************************************************)
EXTENDS Integers, FiniteSets

CONSTANTS
  Candidates, Synthesis,   \* what has a body; Synthesis is one value
  Deliveries,              \* deliveries of the jobs that write one
  Links, Visitors,
  Never,                   \* the expiry of a link that has none
  LastTick                 \* bound on the clock

Slots == Candidates \cup {Synthesis}

ASSUME ArchiveAssumption == Synthesis \notin Candidates /\ LastTick \in Nat /\ Never \in Nat /\ Never > LastTick

VARIABLES
  kept,       \* the run's row exists
  row,        \* the candidates' and the synthesis' rows
  objects,    \* the keys in the object store
  write,      \* what each delivery is about to write
  deletion,   \* DELETE /runs/:id, and the keys it collected
  reading,    \* GET /runs/:id: one body of the rows it read, and its text
  link,       \* RunShare, and POST /runs/:id/shares on its way there
  visit,      \* GET /shared/:token
  clock

archiveVars == <<kept, row, objects, write, deletion, reading, link, visit, clock>>
rowVars == <<kept, row>>
shareVars == <<link, visit, clock>>

-----------------------------------------------------------------------------
(* blobKey: a partial answer has a key of its own. *)
Keys == Slots \X {"whole", "partial"}

Bodies == [inline: BOOLEAN, ref: {{}} \cup {{key} : key \in Keys}]

NoText == [inline |-> FALSE, ref |-> {}]
Inline == [inline |-> TRUE, ref |-> {}]
StoredAt(key) == [inline |-> FALSE, ref |-> {key}]

BlankRow == [status |-> "pending", body |-> NoText]
NoWrite == [at |-> "idle", slot |-> Synthesis, kind |-> "whole", body |-> NoText]
NoDeletion == [at |-> "idle", keys |-> {}]
NoReading == [at |-> "idle", body |-> NoText, found |-> "none"]

(* readBody: the text, nothing, or a notice that it cannot be read.         *)
readBody(body) ==
  IF body = NoText THEN "none"
  ELSE IF body.ref \subseteq objects THEN "text" ELSE "unavailable"

-----------------------------------------------------------------------------
(* settleCandidate, settleCandidatePartial, saveSynthesis. *)

(* What is settled is not written again; saveSynthesis looks for the run    *)
(* before it stores anything, the others do not.                            *)
WriteBegins(w) ==
  /\ write[w].at = "idle"
  /\ \E s \in Slots, kind \in {"whole", "partial"} :
       /\ row[s].status = "pending"
       /\ s = Synthesis => kept /\ kind = "whole"
       /\ write' = [write EXCEPT ![w] = [NoWrite EXCEPT !.at = "store", !.slot = s, !.kind = kind]]
  /\ UNCHANGED <<objects, deletion, reading>> /\ UNCHANGED rowVars /\ UNCHANGED shareVars

(* Variant: the row points at the object before it is there.                *)
storeBodyLast(w) ==
  /\ write[w].at = "store"
  /\ row' = IF ~kept THEN row
            ELSE [row EXCEPT ![write[w].slot] = [status |-> "ok", body |-> StoredAt(<<write[w].slot, "whole">>)]]
  /\ write' = [write EXCEPT ![w].at = "row", ![w].body = StoredAt(<<write[w].slot, "whole">>)]
  /\ UNCHANGED <<kept, objects, deletion, reading>> /\ UNCHANGED shareVars

storeBody(w) ==
  /\ write[w].at = "store"
  /\ \/ /\ write' = [write EXCEPT ![w].at = "row", ![w].body = Inline]
        /\ UNCHANGED objects
     \/ LET key == <<write[w].slot, write[w].kind>>
        IN /\ objects' = objects \cup {key}
           /\ write' = [write EXCEPT ![w].at = "row", ![w].body = StoredAt(key)]
  /\ UNCHANGED <<deletion, reading>> /\ UNCHANGED rowVars /\ UNCHANGED shareVars

(* The row is updated, or is gone and the job fails: what was stored stays. *)
WriteRow(w) ==
  /\ write[w].at = "row"
  /\ row' = IF ~kept THEN row
            ELSE [row EXCEPT ![write[w].slot] =
                    [status |-> IF write[w].kind = "whole" THEN "ok" ELSE "failed",
                     body |-> write[w].body]]
  /\ write' = [write EXCEPT ![w] = NoWrite]
  /\ UNCHANGED <<kept, objects, deletion, reading>> /\ UNCHANGED shareVars

(* A result without a text leaves the text of an earlier attempt in place.  *)
SettleWithoutBody(s) ==
  /\ kept /\ s \in Candidates /\ row[s].status = "pending"
  /\ row' = [row EXCEPT ![s].status = "failed"]
  /\ UNCHANGED <<kept, objects, write, deletion, reading>> /\ UNCHANGED shareVars

(* The worker dies, or the store or the database fails.                     *)
WriteFails(w) ==
  /\ write[w].at # "idle"
  /\ write' = [write EXCEPT ![w] = NoWrite]
  /\ UNCHANGED <<objects, deletion, reading>> /\ UNCHANGED rowVars /\ UNCHANGED shareVars

-----------------------------------------------------------------------------
(* deleteRun: the keys are collected, the rows deleted, then the objects.   *)

Collect ==
  /\ deletion.at = "idle" /\ kept
  /\ deletion' = [at |-> "rows", keys |-> UNION {row[s].body.ref : s \in Slots}]
  /\ UNCHANGED <<objects, write, reading>> /\ UNCHANGED rowVars /\ UNCHANGED shareVars

(* The candidates, the synthesis and the links go with the run.             *)
DeleteRows ==
  /\ deletion.at = "rows"
  /\ kept' = FALSE
  /\ row' = [s \in Slots |-> BlankRow]
  /\ link' = [l \in Links |-> [link[l] EXCEPT !.at = IF @ = "live" THEN "gone" ELSE @]]
  /\ deletion' = [deletion EXCEPT !.at = "objects"]
  /\ UNCHANGED <<objects, write, reading, visit, clock>>

DeleteObject(key) ==
  /\ deletion.at = "objects" /\ key \in deletion.keys
  /\ objects' = objects \ {key}
  /\ deletion' = [deletion EXCEPT !.keys = @ \ {key}]
  /\ UNCHANGED <<write, reading>> /\ UNCHANGED rowVars /\ UNCHANGED shareVars

(* The process dies, or a statement fails: nobody deletes the rest.         *)
DeletionFails ==
  /\ deletion.at # "idle"
  /\ deletion' = NoDeletion
  /\ UNCHANGED <<objects, write, reading>> /\ UNCHANGED rowVars /\ UNCHANGED shareVars

-----------------------------------------------------------------------------
(* getRun: the rows in one query, then each of their bodies.                *)

getRun ==
  /\ reading.at = "idle" /\ kept
  /\ \E s \in Slots : reading' = [NoReading EXCEPT !.at = "body", !.body = row[s].body]
  /\ UNCHANGED <<objects, write, deletion>> /\ UNCHANGED rowVars /\ UNCHANGED shareVars

toRun ==
  /\ reading.at = "body"
  /\ reading' = [NoReading EXCEPT !.at = "done", !.found = readBody(reading.body)]
  /\ UNCHANGED <<objects, write, deletion>> /\ UNCHANGED rowVars /\ UNCHANGED shareVars

-----------------------------------------------------------------------------
(* Share links. *)

NoLink == [at |-> "none", expires |-> Never, revoked |-> FALSE]
NoVisit == [at |-> "idle", link |-> CHOOSE l \in Links : TRUE, dead |-> FALSE, body |-> NoText]

archiveRest == <<objects, write, deletion, reading>>

hasAnswer == row[Synthesis].status = "ok"

(* POST /runs/:id/shares: the run must be there, with an answer ...         *)
CheckShareable(l) ==
  /\ link[l].at = "none" /\ kept /\ hasAnswer
  /\ link' = [link EXCEPT ![l].at = "checked"]
  /\ UNCHANGED <<visit, clock>> /\ UNCHANGED archiveRest /\ UNCHANGED rowVars

(* ... and is looked for again before the link is inserted.                 *)
createShare(l) ==
  /\ link[l].at = "checked"
  /\ \E expires \in {clock + 1, Never} :
       link' = [link EXCEPT ![l] = IF kept THEN [NoLink EXCEPT !.at = "live", !.expires = expires]
                                   ELSE [NoLink EXCEPT !.at = "gone"]]
  /\ UNCHANGED <<visit, clock>> /\ UNCHANGED archiveRest /\ UNCHANGED rowVars

revokeShare(l) ==
  /\ link[l].at = "live" /\ ~link[l].revoked
  /\ link' = [link EXCEPT ![l].revoked = TRUE]
  /\ UNCHANGED <<visit, clock>> /\ UNCHANGED archiveRest /\ UNCHANGED rowVars

shareIsLive(l) ==
  /\ link[l].at = "live" /\ ~link[l].revoked /\ clock < link[l].expires

VisitArrives(v, l) ==
  /\ visit[v].at = "idle" /\ link[l].at \in {"live", "gone"}
  /\ visit' = [visit EXCEPT ![v] =
       [NoVisit EXCEPT !.at = "look", !.link = l, !.dead = ~shareIsLive(l)]]
  /\ UNCHANGED <<link, clock>> /\ UNCHANGED archiveRest /\ UNCHANGED rowVars

Refused(v) == [visit[v] EXCEPT !.at = "refused"]

(* One query reads the link, its run and the synthesis. Every reason not to *)
(* serve is the same 404; a run without an answer is one.                   *)
resolveShare(v) ==
  LET l == visit[v].link
  IN /\ visit[v].at = "look"
     /\ visit' = [visit EXCEPT ![v] =
          IF link[l].at = "gone" \/ link[l].revoked \/ clock >= link[l].expires
             \/ row[Synthesis].body = NoText
          THEN Refused(v)
          ELSE [visit[v] EXCEPT !.at = "body", !.body = row[Synthesis].body]]
     /\ UNCHANGED <<link, clock>> /\ UNCHANGED archiveRest /\ UNCHANGED rowVars

(* Here a body that cannot be read is no answer.                            *)
toSharedRun(v) ==
  /\ visit[v].at = "body"
  /\ visit' = [visit EXCEPT ![v] =
       IF readBody(visit[v].body) = "text" THEN [visit[v] EXCEPT !.at = "served"] ELSE Refused(v)]
  /\ UNCHANGED <<link, clock>> /\ UNCHANGED archiveRest /\ UNCHANGED rowVars

ArchiveTick ==
  /\ clock < LastTick /\ clock' = clock + 1
  /\ UNCHANGED <<link, visit>> /\ UNCHANGED archiveRest /\ UNCHANGED rowVars

-----------------------------------------------------------------------------
ArchiveInit ==
  /\ kept = TRUE /\ row = [s \in Slots |-> BlankRow] /\ objects = {}
  /\ write = [w \in Deliveries |-> NoWrite]
  /\ deletion = NoDeletion /\ reading = NoReading
  /\ link = [l \in Links |-> NoLink] /\ visit = [v \in Visitors |-> NoVisit]
  /\ clock = 0

ArchiveNext ==
  \/ \E w \in Deliveries : WriteBegins(w) \/ storeBody(w) \/ WriteRow(w) \/ WriteFails(w)
  \/ \E s \in Slots : SettleWithoutBody(s)
  \/ Collect \/ DeleteRows \/ DeletionFails \/ \E key \in Keys : DeleteObject(key)
  \/ getRun \/ toRun
  \/ \E l \in Links : CheckShareable(l) \/ createShare(l) \/ revokeShare(l)
  \/ \E v \in Visitors :
       \/ \E l \in Links : VisitArrives(v, l)
       \/ resolveShare(v) \/ toSharedRun(v)
  \/ ArchiveTick

ArchiveSpec == ArchiveInit /\ [][ArchiveNext]_archiveVars

ArchiveTypeOK ==
  /\ kept \in BOOLEAN /\ objects \subseteq Keys
  /\ row \in [Slots -> [status: {"pending", "ok", "failed"}, body: Bodies]]
  /\ write \in [Deliveries -> [at: {"idle", "store", "row"}, slot: Slots, kind: {"whole", "partial"},
                               body: Bodies]]
  /\ deletion \in [at: {"idle", "rows", "objects"}, keys: SUBSET Keys]
  /\ reading \in [at: {"idle", "body", "done"}, body: Bodies, found: {"none", "text", "unavailable"}]
  /\ link \in [Links -> [at: {"none", "checked", "live", "gone"}, expires: 0..Never, revoked: BOOLEAN]]
  /\ visit \in [Visitors -> [at: {"idle", "look", "body", "served", "refused"}, link: Links,
                             dead: BOOLEAN, body: Bodies]]
  /\ clock \in 0..LastTick

(* Whatever is retried, delivered twice, fails half way or is deleted       *)
(* meanwhile: a reader is told that an answer cannot be read only when the  *)
(* run was deleted while it was reading (repository.ts, readBody: losing a  *)
(* body must not be what makes a run unreadable).                           *)
KeptRunsAreReadable ==
  reading.found = "unavailable" => ~kept

(* A visit that began when its link was revoked, expired or deleted is not  *)
(* served, and one whose link is still good at its end is: no link is made  *)
(* for a run that has nothing to show (db/src/shares.ts, revokeShare:       *)
(* "Effective on the next request").                                        *)
VisitsAreJudgedFresh ==
  \A v \in Visitors :
    /\ visit[v].at = "served" => ~visit[v].dead
    /\ visit[v].at = "refused" => visit[v].dead \/ ~shareIsLive(visit[v].link)

(* A deletion, a body store and a link that work at once                    *)
(* (db/src/repository.ts, db/src/shares.ts): a run that is kept is read in  *)
(* full, and a link is judged by its row as it is during the visit.         *)
ArchiveHolds == KeptRunsAreReadable /\ VisitsAreJudgedFresh
=============================================================================
