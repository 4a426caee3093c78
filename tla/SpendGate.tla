------------------------------ MODULE SpendGate ------------------------------
(***************************************************************************)
(* What the API does before a run may cost money: the global daily cap with *)
(* its kill switch, which every replica reads through a cache of its own,   *)
(* and the plan's ceiling on runs in flight, judged before a run's row      *)
(* exists.                                                                  *)
(*                                                                         *)
(* One tenant; a slot is a caller who asks for one run at a time.  Of the   *)
(* spend of a day only whether it has reached the cap matters.  Time is in  *)
(* ages: how long ago, up to a refresh window, something was read, begun or *)
(* changed; a reading one window old is as good as none.  What the worker   *)
(* checks before each model call is in CallGate.                            *)
(***************************************************************************)
EXTENDS Integers, FiniteSets

CONSTANTS
  Slots,          \* callers
  Replicas,       \* API processes
  Operator,       \* the administrator, at a replica's console or the command line
  Refresh,        \* GLOBAL_BUDGET_REFRESH_MS, in ticks
  ConcurrentRuns  \* the plan's ceiling on runs in flight

ASSUME GateAssumption ==
  /\ IsFiniteSet(Slots) /\ Operator \notin Slots
  /\ Refresh \in Nat \ {0} /\ ConcurrentRuns \in Nat \ {0}

Readers == Slots \cup {Operator}

VARIABLES
  spend,     \* UsageRecord: whether what was spent today has reached the cap
  switch,    \* the KillSwitch row
  cache,     \* budgetCache of each replica
  req,       \* the request of each slot, and the operator's
  changed,   \* how long ago the switch last changed (history, never read)
  capped,    \* how long ago today's spend reached the cap (history, never read)
  peak       \* most requests ever between judgement and row (history, never read)

vars == <<spend, switch, cache, req, changed, capped, peak>>

history == <<changed, capped, peak>>

-----------------------------------------------------------------------------
(* Reading the budget: globalBudgetStatus. *)

NoReading == [age |-> Refresh, cap |-> "under", switch |-> "released"]

NoRequest == [at |-> "idle", replica |-> "none", age |-> 0, day |-> "today", got |-> {},
              cap |-> "under", switch |-> "released", late |-> {}]

fresh(r) == cache[r].age < Refresh

(* What guardGlobalBudget makes of a reading of request q: refuse, go and   *)
(* engage the switch, or admit to the quota check.                          *)
Judged(q, cap, state) ==
  CASE state # "released" -> NoRequest
    [] state = "released" /\ cap = "reached" -> [q EXCEPT !.at = "find", !.got = {}, !.cap = cap]
    [] state = "released" /\ cap = "under" -> [NoRequest EXCEPT !.at = "quota", !.late = q.late]

(* Since when, for a request that begins now, the install has been stopped. *)
Late ==
  (IF switch = "engaged" /\ changed = Refresh THEN {"stop"} ELSE {}) \cup
  (IF spend = "reached" /\ capped = Refresh THEN {"cap"} ELSE {})

Arrival(r) == [NoRequest EXCEPT !.at = "read", !.replica = r, !.late = Late]

(* A POST of a run arrives at a replica, whose reading may still do.        *)
Ask(q, r) ==
  /\ req[q].at = "idle"
  /\ req' = [req EXCEPT ![q] =
       IF fresh(r) THEN Judged(Arrival(r), cache[r].cap, cache[r].switch) ELSE Arrival(r)]
  /\ UNCHANGED <<spend, switch, cache>> /\ UNCHANGED history

(* Variant: the reading is dated when it arrives.                           *)
SetCacheLate(p, cap, state) ==
  cache' = [cache EXCEPT ![req[p].replica] =
    IF req[p].day = "today" THEN [age |-> 0, cap |-> cap, switch |-> state] ELSE NoReading]

(* The reading is dated when its request began, not when it arrived.        *)
SetCache(p, cap, state) ==
  cache' = [cache EXCEPT ![req[p].replica] =
    IF req[p].day = "today" /\ req[p].age < Refresh
      THEN [age |-> req[p].age, cap |-> cap, switch |-> state] ELSE NoReading]

(* One of the two parallel queries of a reading answers; with the second    *)
(* the reading is complete.                                                 *)
Receive(p, query, cap, state) ==
  /\ req[p].at = "read" /\ query \notin req[p].got
  /\ \/ /\ req[p].got = {}
        /\ req' = [req EXCEPT ![p] =
             [req[p] EXCEPT !.got = {query}, !.cap = cap, !.switch = state]]
        /\ UNCHANGED cache
     \/ /\ req[p].got # {}
        /\ SetCache(p, cap, state)
        /\ req' = [req EXCEPT ![p] = Judged(req[p], cap, state)]
  /\ UNCHANGED <<spend, switch>> /\ UNCHANGED history

(* A request begun before midnight still measures from yesterday's start.   *)
SpendSince(day) ==
  IF day = "today" \/ spend = "reached" THEN {spend} ELSE {"under", "reached"}

ReadSpend(p) == \E cap \in SpendSince(req[p].day) : Receive(p, "spend", cap, req[p].switch)

ReadSwitch(p) == Receive(p, "switch", req[p].cap, switch)

(* A query throws: the request is answered with an error.                   *)
ReadFails(p) ==
  /\ req[p].at \in {"read", "quota", "insert"}
  /\ req' = [req EXCEPT ![p] = NoRequest]
  /\ UNCHANGED <<spend, switch, cache>> /\ UNCHANGED history

-----------------------------------------------------------------------------
(* Engaging and releasing the switch. *)

(* The request is over; a replica keeps what it found.                      *)
Refuse(p, state) ==
  /\ IF p = Operator THEN UNCHANGED cache ELSE SetCache(p, req[p].cap, state)
  /\ req' = [req EXCEPT ![p] = NoRequest]

(* engageKillSwitch looks first: a switch that is engaged is left alone.    *)
FindSwitch(p) ==
  /\ req[p].at = "find"
  /\ \/ switch = "engaged" /\ Refuse(p, "engaged")
     \/ switch = "released" /\ req' = [req EXCEPT ![p].at = "engage"] /\ UNCHANGED cache
  /\ UNCHANGED <<spend, switch>> /\ UNCHANGED history

EngageSwitch(p) ==
  /\ req[p].at = "engage"
  /\ switch' = "engaged" /\ changed' = IF switch = "engaged" THEN changed ELSE 0
  /\ Refuse(p, "engaged")
  /\ UNCHANGED <<spend, capped, peak>>

(* Variant: a switch that cannot be persisted stops nobody.                 *)
EngageFailsOpen(p) ==
  /\ req[p].at \in {"find", "engage"}
  /\ req' = [req EXCEPT ![p].at = IF p = Operator THEN "idle" ELSE "quota"]
  /\ UNCHANGED <<spend, switch, cache>> /\ UNCHANGED history

(* The switch cannot be persisted: this replica refuses all the same.       *)
EngageFails(p) ==
  /\ req[p].at \in {"find", "engage"}
  /\ Refuse(p, "assumed")
  /\ UNCHANGED <<spend, switch>> /\ UNCHANGED history

(* The command line's halt.                                                 *)
Halt ==
  /\ req[Operator].at = "idle"
  /\ req' = [req EXCEPT ![Operator].at = "find"]
  /\ UNCHANGED <<spend, switch, cache>> /\ UNCHANGED history

(* releaseKillSwitch, from the command line or at some replica's console.   *)
Release ==
  /\ req[Operator].at = "idle"
  /\ switch' = "released" /\ changed' = IF switch = "released" THEN changed ELSE 0
  /\ \E next \in {NoRequest} \cup {[NoRequest EXCEPT !.at = "reset", !.replica = r] : r \in Replicas} :
       req' = [p \in Readers |->
         IF p = Operator THEN next ELSE [req[p] EXCEPT !.late = req[p].late \ {"stop"}]]
  /\ UNCHANGED <<spend, cache, capped, peak>>

(* The console drops its replica's reading; the one it then takes to report *)
(* is a request's.                                                          *)
ResetCache ==
  /\ req[Operator].at = "reset"
  /\ cache' = [cache EXCEPT ![req[Operator].replica] = NoReading]
  /\ req' = [req EXCEPT ![Operator] = NoRequest]
  /\ UNCHANGED <<spend, switch>> /\ UNCHANGED history

-----------------------------------------------------------------------------
(* The plan: tenantQuotaSnapshot and evaluateQuota, then the row. *)

Running == {q \in Slots : req[q].at = "running"}
Passing == {q \in Slots : req[q].at = "insert"}

quotaVars == <<spend, switch, cache, changed, capped>>

(* Variant: one run more.                                                   *)
evaluateQuotaLoose == Cardinality(Running) <= ConcurrentRuns

evaluateQuota == Cardinality(Running) < ConcurrentRuns

JudgeQuota(q) ==
  /\ req[q].at = "quota" /\ evaluateQuota
  /\ req' = [req EXCEPT ![q].at = "insert"]
  /\ peak' = IF Cardinality(Passing) + 1 > peak THEN Cardinality(Passing) + 1 ELSE peak
  /\ UNCHANGED quotaVars

(* This ceiling or another is reached, or the subscription cannot fund new  *)
(* work.                                                                    *)
RefuseQuota(q) ==
  /\ req[q].at = "quota"
  /\ req' = [req EXCEPT ![q] = NoRequest]
  /\ UNCHANGED peak /\ UNCHANGED quotaVars

InsertRun(q) ==
  /\ req[q].at = "insert"
  /\ req' = [req EXCEPT ![q].at = "running"]
  /\ UNCHANGED peak /\ UNCHANGED quotaVars

(* The run reaches its terminal status.                                     *)
EndRun(q) ==
  /\ req[q].at = "running"
  /\ req' = [req EXCEPT ![q] = NoRequest]
  /\ UNCHANGED peak /\ UNCHANGED quotaVars

(* A call of a run is metered, and brings the day's spend to the cap.       *)
Meter(q) ==
  /\ req[q].at = "running" /\ spend = "under"
  /\ spend' = "reached" /\ capped' = 0
  /\ UNCHANGED <<switch, cache, req, changed, peak>>

-----------------------------------------------------------------------------
(* Time. *)

older(age) == IF age < Refresh THEN age + 1 ELSE Refresh

Tick ==
  /\ cache' = [r \in Replicas |->
       IF older(cache[r].age) < Refresh THEN [cache[r] EXCEPT !.age = older(cache[r].age)]
       ELSE NoReading]
  /\ req' = [p \in Readers |->
       IF req[p].at \in {"read", "find", "engage"}
         THEN [req[p] EXCEPT !.age = older(req[p].age)] ELSE req[p]]
  /\ changed' = older(changed) /\ capped' = older(capped)
  /\ UNCHANGED <<spend, switch, peak>>

(* Midnight, UTC: a reading of yesterday is not fresh. No request takes a   *)
(* whole day.                                                               *)
NewDay ==
  /\ \A p \in Readers : req[p].day = "today"
  /\ spend' = "under"
  /\ cache' = [r \in Replicas |-> NoReading]
  /\ req' = [p \in Readers |->
       IF req[p].at \in {"read", "find", "engage"}
         THEN [req[p] EXCEPT !.day = "yesterday", !.late = req[p].late \ {"cap"}] ELSE req[p]]
  /\ capped' = 0
  /\ UNCHANGED <<switch, changed, peak>>

Init ==
  /\ spend = "under" /\ switch = "released"
  /\ cache = [r \in Replicas |-> NoReading]
  /\ req = [p \in Readers |-> NoRequest]
  /\ changed = Refresh /\ capped = 0 /\ peak = 0

AssertRunAllowed(q) ==
  \/ \E r \in Replicas : Ask(q, r)
  \/ ReadSpend(q) \/ ReadSwitch(q) \/ ReadFails(q)
  \/ JudgeQuota(q) \/ RefuseQuota(q) \/ InsertRun(q) \/ Meter(q) \/ EndRun(q)

EngageKillSwitch(p) == FindSwitch(p) \/ EngageSwitch(p) \/ EngageFails(p)

Next ==
  \/ \E q \in Slots : AssertRunAllowed(q)
  \/ \E p \in Readers : EngageKillSwitch(p)
  \/ Halt \/ Release \/ ResetCache
  \/ Tick \/ NewDay

Spec == Init /\ [][Next]_vars

-----------------------------------------------------------------------------
Admitted == {"quota", "insert", "running"}
Ages == 0..Refresh
Caps == {"under", "reached"}

(* Types; a cached reading is less than a window old, and no request goes   *)
(* to engage the switch but one that found the cap reached.                 *)
TypeOK ==
  /\ spend \in Caps /\ switch \in {"released", "engaged"}
  /\ cache \in [Replicas -> [age: Ages, cap: Caps, switch: {"released", "engaged", "assumed"}]]
  /\ \A r \in Replicas : cache[r].age = Refresh => cache[r] = NoReading
  /\ req \in [Readers -> [at: {"idle", "read", "reset", "find", "engage"} \cup Admitted,
                          replica: Replicas \cup {"none"}, age: Ages,
                          day: {"today", "yesterday"}, got: SUBSET {"spend", "switch"},
                          cap: Caps, switch: {"released", "engaged"},
                          late: SUBSET {"stop", "cap"}]]
  /\ \A q \in Slots : req[q].at \in {"find", "engage"} => req[q].cap = "reached"
  /\ changed \in Ages /\ capped \in Ages /\ peak \in Nat

(* No request that arrives a refresh window or more after the switch was    *)
(* engaged is let in, at whichever replica and whatever that had cached,    *)
(* was just reading or had dropped (server/src/quota.ts, globalBudgetStatus:*)
(* what the cache costs is one refresh window).                             *)
StopReachesApi == \A q \in Slots : req[q].at \in Admitted => "stop" \notin req[q].late

(* Nor is one a refresh window after the day's spend reached the cap, even  *)
(* if the switch could not be persisted or an operator has released it.     *)
CapReachesApi == \A q \in Slots : req[q].at \in Admitted => "cap" \notin req[q].late

(* A window after the switch was released no replica refuses a run because  *)
(* of it, whoever was still reading or engaging it at the time.             *)
ReleaseReachesApi ==
  switch = "released" /\ changed = Refresh =>
    \A r \in Replicas : fresh(r) => cache[r].switch # "engaged"

(* The ceiling on runs in flight is checked, then acted on: requests judged *)
(* at the same time overshoot it together, by as many as there were beyond  *)
(* one, and by no more however long it goes on.                             *)
OvershootIsBounded ==
  Cardinality(Running) + Cardinality(Passing) <=
    ConcurrentRuns - 1 + (IF peak = 0 THEN 1 ELSE peak)
=============================================================================
