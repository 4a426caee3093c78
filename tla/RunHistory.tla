------------------------------ MODULE RunHistory ------------------------------
(***************************************************************************)
(* The run history of a workspace, read a page at a time while runs are     *)
(* created, finish, are tagged and deleted. A page is cut off from the      *)
(* matching runs, newest first; its cursor is the last run on it, and the   *)
(* next page is what follows that run (Prisma: the cursor row, then skip 1).*)
(*                                                                          *)
(* What orders the runs is the millisecond of their creation and nothing    *)
(* else: of two runs of one, either may come first, and not the same one in *)
(* every query. An instant stands for a millisecond, and a day ends between *)
(* two of them. A run is seen when its transaction commits, so one may turn *)
(* up behind those that are later. Nothing is followed beyond the last page.*)
(***************************************************************************)
EXTENDS Integers, FiniteSetsExt, SequencesExt

CONSTANTS
  Owners, Tags,
  MaxRuns,     \* bound on the runs ever created, and on those a walk gets
  LastInstant, \* bound on the milliseconds
  Limits       \* page sizes

ASSUME HistoryAssumption == MaxRuns \in Nat /\ LastInstant \in Nat /\ Limits \subseteq Nat \ {0}

VARIABLES
  history,  \* the runs ever created, and what became of them
  walk      \* one client going through the pages

historyVars == <<history, walk>>

Statuses == {"open", "over"}

(* No last day constrains nothing, and neither does the last there is.      *)
Until == {-1} \cup (0..(LastInstant - 1))

(* Neither does an empty set.                                               *)
Filters == [status: SUBSET Statuses, tags: SUBSET Tags, owner: SUBSET Owners, to: Until]

NoWalk == [at |-> "idle", filter |-> CHOOSE f \in Filters : TRUE, limit |-> 0, cursor |-> 0,
           cursors |-> {}, got |-> <<>>, constant |-> {}, moved |-> FALSE]

-----------------------------------------------------------------------------
(* toRunFilters: "mine" is the caller, and means nothing for a key without  *)
(* a person; the last day counts to its end.                                *)
toRunFilters(asked, self) ==
  [status |-> asked.status, tags |-> asked.tags, to |-> asked.to,
   owner |-> IF asked.mine THEN self ELSE {}]

runFilterWhere(f, run) ==
  /\ ~run.deleted
  /\ f.status = {} \/ run.status \in f.status
  /\ f.tags = {} \/ run.tags \cap f.tags # {}
  /\ f.owner = {} \/ run.owner \in f.owner
  /\ f.to = -1 \/ run.createdAt < f.to + 1

Matching(f) == {r \in DOMAIN history : runFilterWhere(f, history[r])}

(* The runs in an order the database may give them.                         *)
NewestFirst(runs) ==
  {s \in SetToSeqs(runs) :
     \A i, j \in DOMAIN s : i < j => history[s[i]].createdAt >= history[s[j]].createdAt}

From(s, n) == SubSeq(s, n, Len(s))
Prefix(s, n) == SubSeq(s, 1, IF Len(s) < n THEN Len(s) ELSE n)

(* What follows the cursor; where it matches no more, the database may skip *)
(* a run in its place or find nothing.                                      *)
Behind(order, cursor) ==
  {From(order, i + 1) : i \in IF cursor \in ToSet(order) THEN {i \in DOMAIN order : order[i] = cursor}
                             ELSE {1, Len(order)}}

After(f, cursor) ==
  IF cursor = 0 THEN NewestFirst(Matching(f))
  ELSE IF history[cursor].deleted THEN {<<>>}
  ELSE UNION {Behind(order, cursor) :
         order \in NewestFirst({r \in Matching(f) : history[r].createdAt <= history[cursor].createdAt})}

(* Variant: a full page is taken for the last.                              *)
toCursorPageExact(rows, limit) ==
  [data |-> Prefix(rows, limit), next |-> IF Len(rows) > limit + 1 THEN rows[limit] ELSE 0]

(* One row more than asked is fetched, to know whether there is a next page.*)
toCursorPage(rows, limit) ==
  [data |-> Prefix(rows, limit), next |-> IF Len(rows) > limit THEN rows[limit] ELSE 0]

listRuns(f, limit, cursor) ==
  {toCursorPage(Prefix(rows, limit + 1), limit) : rows \in After(f, cursor)}

-----------------------------------------------------------------------------
(* A change of the history, under a walk that may be going on.              *)
Changes ==
  /\ walk.at # "done"
  /\ walk' = [walk EXCEPT !.constant = {r \in @ : runFilterWhere(walk.filter, history'[r])}]

RunCreated(owner, at) ==
  /\ walk.at # "done" /\ Len(history) < MaxRuns
  /\ history' = Append(history, [owner |-> owner, createdAt |-> at, status |-> "open", tags |-> {},
                                 deleted |-> FALSE])
  /\ UNCHANGED walk

RunConcludes(r) ==
  /\ ~history[r].deleted /\ history[r].status = "open"
  /\ history' = [history EXCEPT ![r].status = "over"]
  /\ Changes

(* The tags are replaced, not merged.                                       *)
setRunTags(r, tags) ==
  /\ ~history[r].deleted /\ history[r].tags # tags
  /\ history' = [history EXCEPT ![r].tags = tags]
  /\ Changes

RunDeleted(r) ==
  /\ ~history[r].deleted
  /\ history' = [history EXCEPT ![r] = [@ EXCEPT !.deleted = TRUE, !.tags = {}, !.status = "over"]]
  /\ Changes

WalkStarts(asked, self, limit) ==
  LET f == toRunFilters(asked, self)
  IN /\ walk.at = "idle"
     /\ walk' = [NoWalk EXCEPT !.at = "page", !.filter = f, !.limit = limit,
                               !.constant = Matching(f)]
     /\ UNCHANGED history

(* A walk that got as many as there may be goes round in circles.           *)
NextPage ==
  /\ walk.at = "page" /\ Len(walk.got) < MaxRuns
  /\ \E page \in listRuns(walk.filter, walk.limit, walk.cursor) :
       walk' = [walk EXCEPT
         !.at = IF page.next = 0 THEN "done" ELSE "page",
         !.cursor = page.next, !.cursors = @ \cup ({page.next} \ {0}), !.got = @ \o page.data,
         !.moved = @ \/ (walk.cursor # 0 /\ walk.cursor \notin Matching(walk.filter))]
  /\ UNCHANGED history

(* To ask for every status is to ask for none.                              *)
Asked == [status: SUBSET Statuses \ {Statuses}, tags: SUBSET Tags, mine: BOOLEAN, to: Until]

HistoryInit == history = <<>> /\ walk = NoWalk

HistoryNext ==
  \/ \E owner \in Owners, at \in 0..LastInstant : RunCreated(owner, at)
  \/ \E r \in DOMAIN history :
       RunConcludes(r) \/ RunDeleted(r) \/ \E tags \in SUBSET Tags : setRunTags(r, tags)
  \/ \E asked \in Asked, self \in {{}} \cup {{o} : o \in Owners}, limit \in Limits :
       WalkStarts(asked, self, limit)
  \/ NextPage

HistorySpec == HistoryInit /\ [][HistoryNext]_historyVars

(* Types, and that a walk rests on a run that was created.                  *)
HistoryTypeOK ==
  /\ history \in Seq([owner: Owners, createdAt: 0..LastInstant, status: Statuses, tags: SUBSET Tags,
                      deleted: BOOLEAN])
  /\ Len(history) <= MaxRuns
  /\ walk \in [at: {"idle", "page", "done"}, filter: Filters, limit: {0} \cup Limits,
               cursor: {0} \cup DOMAIN history, cursors: SUBSET DOMAIN history, got: Seq(DOMAIN history),
               constant: SUBSET DOMAIN history, moved: BOOLEAN]

Alone(r) == \A q \in DOMAIN history : history[q].createdAt = history[r].createdAt => q = r

(* However the history changes under a client that follows the cursors, it  *)
(* gets no run twice, and every run that matched throughout (shared/v1.ts:  *)
(* "Offsets ... skip and repeat rows as the underlying set shifts", which   *)
(* cursors rule out) - unless a page ended on a run that shares its         *)
(* millisecond with another, or, for the latter, on one that was deleted or *)
(* stopped matching before the next page was read.                          *)
PagerSeesAll ==
  (\A r \in walk.cursors : Alone(r)) =>
    /\ IsInjective(walk.got)
    /\ walk.at = "done" /\ ~walk.moved => walk.constant \subseteq ToSet(walk.got)
=============================================================================
