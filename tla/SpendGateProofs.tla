-------------------------- MODULE SpendGateProofs --------------------------
(***************************************************************************)
(* The safety properties of SpendGate, for any number of callers, replicas *)
(* and ticks of the refresh window, and any ceiling on runs in flight; and *)
(* of Billing, for any workspaces, subscriptions, events and days; and of  *)
(* the ceiling stamped on a run (Plans), for any usage.                    *)
(*                                                                         *)
(* The argument for the gate is about ages. A reading that disagrees with  *)
(* the switch, or with the spend, is at least as old as the last change of *)
(* it; so a fresh one cannot disagree with a change that is a window old,  *)
(* and a request that came so late after a stop is refused wherever it     *)
(* reads it. The ceiling on runs in flight is a matter of counting. Every  *)
(* window of grace is traced to a failure its workspace was told of.       *)
(***************************************************************************)
EXTENDS MCSpendGate, FiniteSetTheorems, TLAPS

USE GateAssumption

Requests == [at: {"idle", "read", "reset", "find", "engage"} \cup Admitted,
             replica: Replicas \cup {"none"}, age: Ages, day: {"today", "yesterday"},
             got: SUBSET {"spend", "switch"}, cap: Caps, switch: {"released", "engaged"},
             late: SUBSET {"stop", "cap"}]

Readings == [age: Ages, cap: Caps, switch: {"released", "engaged", "assumed"}]

(* A reading that disagrees with what is now the case is at least as old as *)
(* that.                                                                    *)
Dated(age, state, cap) ==
  /\ state \in {"released", "engaged"} /\ state # switch => changed <= age
  /\ cap = "under" /\ spend = "reached" => capped <= age

(* So are the readings cached.                                              *)
CacheDated == \A r \in Replicas : fresh(r) => Dated(cache[r].age, cache[r].switch, cache[r].cap)

(* So is a reading in progress, as far as it got; and a request that came a *)
(* window after a stop is still reading, and reads that it is stopped, or   *)
(* is at the switch, having found the cap reached.                          *)
RequestDated(x) ==
  x.at = "read" =>
    /\ "switch" \in x.got /\ x.switch # switch => changed <= x.age
    /\ "spend" \in x.got /\ x.day = "today" /\ x.cap = "under" /\ spend = "reached" =>
         capped <= x.age

RequestLate(x) ==
  /\ "stop" \in x.late =>
       switch = "engaged" /\ x.at = "read" /\ ("switch" \in x.got => x.switch = "engaged")
  /\ "cap" \in x.late =>
       /\ spend = "reached" /\ x.day = "today" /\ x.at \in {"read", "find", "engage"}
       /\ x.at = "read" /\ "spend" \in x.got => x.cap = "reached"

RequestInv(x) == RequestDated(x) /\ RequestLate(x)

GateInv == TypeOK /\ CacheDated /\ \A q \in Slots : RequestInv(req[q])

-----------------------------------------------------------------------------
(* What guardGlobalBudget makes of a reading, as cases.                     *)
LEMMA JudgedCases ==
  ASSUME NEW q \in Requests, NEW cap \in Caps, NEW state \in {"released", "engaged", "assumed"}
  PROVE  /\ Judged(q, cap, state) \in Requests
         /\ state # "released" => Judged(q, cap, state) = NoRequest
         /\ state = "released" /\ cap = "reached" =>
              /\ Judged(q, cap, state).at = "find" /\ Judged(q, cap, state).late = q.late
              /\ Judged(q, cap, state).cap = "reached" /\ Judged(q, cap, state).day = q.day
         /\ state = "released" /\ cap = "under" =>
              Judged(q, cap, state).at = "quota" /\ Judged(q, cap, state).late = q.late
         /\ Judged(q, cap, state).at \in {"idle", "quota", "find"}
         /\ Judged(q, cap, state).at = "find" => Judged(q, cap, state).cap = "reached"
  <1>1. NoRequest \in Requests
    BY DEF NoRequest, Requests, Ages, Caps, Admitted
  <1>2. CASE state # "released"
    BY <1>1, <1>2 DEF Judged, NoRequest
  <1>3. CASE state = "released" /\ cap = "reached"
    BY <1>3 DEF Judged, Requests, Admitted
  <1>4. CASE state = "released" /\ cap = "under"
    BY <1>1, <1>4 DEF Judged, Requests, Admitted, NoRequest
  <1>. QED  BY <1>2, <1>3, <1>4 DEF Caps

(* A request that arrives is a request.                                    *)
LEMMA ArrivalTypes ==
  ASSUME TypeOK, NEW r \in Replicas
  PROVE  /\ Arrival(r) \in Requests /\ Arrival(r).at = "read" /\ Arrival(r).late = Late
         /\ Arrival(r).got = {} /\ Arrival(r).day = "today" /\ Arrival(r).age = 0
  <1>1. Late \in SUBSET {"stop", "cap"}
    BY DEF Late
  <1>2. 0 \in Ages
    BY DEF Ages
  <1>. QED  BY <1>1, <1>2 DEF Arrival, NoRequest, Requests, Caps, Admitted

(* Ages grow by one tick at most.                                          *)
LEMMA Older == \A age \in Ages : older(age) \in Ages /\ age <= older(age) /\ older(age) <= age + 1
BY DEF Ages, older

(* TypeOK, and the parts of it that the actions disturb.                    *)
LEMMA Types ==
  TypeOK <=>
    /\ spend \in Caps /\ switch \in {"released", "engaged"}
    /\ cache \in [Replicas -> Readings]
    /\ \A r \in Replicas : cache[r].age = Refresh => cache[r] = NoReading
    /\ req \in [Readers -> Requests]
    /\ \A q \in Slots : req[q].at \in {"find", "engage"} => req[q].cap = "reached"
    /\ changed \in Ages /\ capped \in Ages /\ peak \in Nat
BY DEF TypeOK, Readings, Requests

(* What may become of a replica's reading.                                  *)
LEMMA SetCacheTypes ==
  ASSUME TypeOK, NEW p \in Readers, NEW cap \in Caps, NEW state \in {"released", "engaged", "assumed"},
         SetCache(p, cap, state)
  PROVE  /\ cache' \in [Replicas -> Readings]
         /\ \A r \in Replicas : cache'[r].age = Refresh => cache'[r] = NoReading
  <1>. DEFINE x == IF req[p].day = "today" /\ req[p].age < Refresh
                     THEN [age |-> req[p].age, cap |-> cap, switch |-> state] ELSE NoReading
  <1>1. req[p] \in Requests
    BY Types
  <1>2. x \in Readings /\ (x.age = Refresh => x = NoReading)
    BY <1>1 DEF Readings, NoReading, Requests, Ages, Caps
  <1>3. cache' = [cache EXCEPT ![req[p].replica] = x]
    BY DEF SetCache
  <1>. HIDE DEF x
  <1>. QED  BY <1>2, <1>3, Types

(* A step that writes one request, and nothing else that has a type.        *)
LEMMA OneRequest ==
  ASSUME TypeOK, NEW p \in Readers, NEW x \in Requests, req' = [req EXCEPT ![p] = x],
         p \in Slots /\ x.at \in {"find", "engage"} => x.cap = "reached"
  PROVE  /\ req' \in [Readers -> Requests]
         /\ \A q \in Slots : req'[q].at \in {"find", "engage"} => req'[q].cap = "reached"
BY Types DEF Readers

(* A step of a request writes that request only, or meters.                *)
LEMMA RequestStep ==
  ASSUME TypeOK, NEW q \in Slots, AssertRunAllowed(q)
  PROVE  \/ Meter(q) /\ UNCHANGED req
         \/ \E x \in Requests : /\ req' = [req EXCEPT ![q] = x]
                                /\ x.at \in {"find", "engage"} => x.cap = "reached"
  <1>. /\ q \in Readers /\ req[q] \in Requests /\ cache \in [Replicas -> Readings]
       /\ spend \in Caps /\ switch \in {"released", "engaged"}
       /\ req[q].at \in {"find", "engage"} => req[q].cap = "reached"
    BY Types DEF Readers
  <1>0. NoRequest \in Requests /\ NoRequest.at = "idle"
    BY DEF NoRequest, Requests, Ages, Caps, Admitted
  <1>1. ASSUME NEW r \in Replicas, Ask(q, r)
        PROVE  \E x \in Requests : /\ req' = [req EXCEPT ![q] = x]
                                   /\ x.at \in {"find", "engage"} => x.cap = "reached"
    <2>1. cache[r].cap \in Caps /\ cache[r].switch \in {"released", "engaged", "assumed"}
      BY DEF Readings
    <2>2. CASE fresh(r)
      <3>1. req' = [req EXCEPT ![q] = Judged(Arrival(r), cache[r].cap, cache[r].switch)]
        BY <1>1, <2>2 DEF Ask
      <3>. DEFINE x == Judged(Arrival(r), cache[r].cap, cache[r].switch)
      <3>2. x \in Requests /\ (x.at \in {"find", "engage"} => x.cap = "reached")
        BY <2>1, ArrivalTypes, JudgedCases
      <3>. HIDE DEF x
      <3>. QED  BY <3>1, <3>2 DEF x
    <2>3. CASE ~fresh(r)
      BY <1>1, <2>3, ArrivalTypes DEF Ask
    <2>. QED  BY <2>2, <2>3
  <1>2. ASSUME NEW cap \in Caps, NEW state \in {"released", "engaged"}, NEW query \in {"spend", "switch"},
               Receive(q, query, cap, state)
        PROVE  \E x \in Requests : /\ req' = [req EXCEPT ![q] = x]
                                   /\ x.at \in {"find", "engage"} => x.cap = "reached"
    <2>1. CASE req[q].got = {}
      <3>. DEFINE x == [req[q] EXCEPT !.got = {query}, !.cap = cap, !.switch = state]
      <3>1. x \in Requests /\ x.at = "read" /\ req' = [req EXCEPT ![q] = x]
        BY <1>2, <2>1 DEF Receive, Requests
      <3>. QED  BY <3>1
    <2>2. CASE req[q].got # {}
      <3>1. req' = [req EXCEPT ![q] = Judged(req[q], cap, state)]
        BY <1>2, <2>2 DEF Receive
      <3>. DEFINE x == Judged(req[q], cap, state)
      <3>2. x \in Requests /\ (x.at \in {"find", "engage"} => x.cap = "reached")
        BY JudgedCases
      <3>. QED  BY <3>1, <3>2
    <2>. QED  BY <2>1, <2>2
  <1>3. CASE ReadSpend(q) \/ ReadSwitch(q)
    BY <1>2, <1>3 DEF ReadSpend, ReadSwitch, SpendSince, Requests, Caps
  <1>4. CASE ReadFails(q) \/ RefuseQuota(q) \/ EndRun(q)
    BY <1>0, <1>4 DEF ReadFails, RefuseQuota, EndRun
  <1>5. CASE JudgeQuota(q)
    <2>1. [req[q] EXCEPT !.at = "insert"] \in Requests
      BY DEF Requests, Admitted
    <2>. QED  BY <2>1, <1>5 DEF JudgeQuota, Requests
  <1>6. CASE InsertRun(q)
    <2>1. [req[q] EXCEPT !.at = "running"] \in Requests
      BY DEF Requests, Admitted
    <2>. QED  BY <2>1, <1>6 DEF InsertRun, Requests
  <1>7. CASE Meter(q)
    BY <1>7 DEF Meter
  <1>. QED  BY <1>1, <1>3, <1>4, <1>5, <1>6, <1>7 DEF AssertRunAllowed

(* So does a step at the switch; what stays there had found the cap        *)
(* reached.                                                                *)
LEMMA SwitchStep ==
  ASSUME TypeOK, NEW p \in Readers, EngageKillSwitch(p)
  PROVE  \E x \in Requests : /\ req' = [req EXCEPT ![p] = x]
                             /\ p \in Slots /\ x.at \in {"find", "engage"} => x.cap = "reached"
  <1>. req[p] \in Requests /\ (p \in Slots /\ req[p].at \in {"find", "engage"} => req[p].cap = "reached")
    BY Types
  <1>0. NoRequest \in Requests /\ NoRequest.at = "idle"
    BY DEF NoRequest, Requests, Ages, Caps, Admitted
  <1>1. CASE \E state : Refuse(p, state)
    BY <1>0, <1>1 DEF Refuse
  <1>2. CASE req[p].at = "find" /\ req' = [req EXCEPT ![p].at = "engage"]
    <2>1. [req[p] EXCEPT !.at = "engage"] \in Requests
      BY DEF Requests
    <2>. QED  BY <2>1, <1>2 DEF Requests
  <1>. QED  BY <1>1, <1>2 DEF EngageKillSwitch, FindSwitch, EngageSwitch, EngageFails

(* Every other step writes the requests of several, or the operator's.      *)
LEMMA OtherRequests ==
  ASSUME TypeOK, Halt \/ Release \/ ResetCache \/ Tick \/ NewDay
  PROVE  /\ req' \in [Readers -> Requests]
         /\ \A q \in Slots : req'[q].at \in {"find", "engage"} => req'[q].cap = "reached"
  <1>. /\ Slots \subseteq Readers /\ Operator \in Readers /\ Operator \notin Slots
       /\ req \in [Readers -> Requests]
       /\ \A q \in Slots : req[q].at \in {"find", "engage"} => req[q].cap = "reached"
    BY Types DEF Readers
  <1>0. NoRequest \in Requests /\ NoRequest.at = "idle"
    BY DEF NoRequest, Requests, Ages, Caps, Admitted
  <1>1. CASE Halt
    <2>1. [req[Operator] EXCEPT !.at = "find"] \in Requests
      BY DEF Requests
    <2>. QED  BY <2>1, <1>1, OneRequest DEF Halt
  <1>2. CASE Release
    <2>. DEFINE reset(r) == [NoRequest EXCEPT !.at = "reset", !.replica = r]
                left(p) == [req[p] EXCEPT !.late = req[p].late \ {"stop"}]
    <2>1. \A r \in Replicas : reset(r) \in Requests
      BY <1>0 DEF Requests, NoRequest
    <2>2. \A p \in Readers : left(p) \in Requests /\ left(p).at = req[p].at /\ left(p).cap = req[p].cap
      BY DEF Requests
    <2>3. \E next \in {NoRequest} \cup {reset(r) : r \in Replicas} :
            req' = [p \in Readers |-> IF p = Operator THEN next ELSE left(p)]
      BY <1>2, Zenon DEF Release
    <2>. HIDE DEF reset, left
    <2>4. \E next \in Requests : req' = [p \in Readers |-> IF p = Operator THEN next ELSE left(p)]
      BY <1>0, <2>1, <2>3, Zenon
    <2>. QED  BY <2>2, <2>4
  <1>3. CASE ResetCache
    BY <1>0, <1>3, OneRequest DEF ResetCache
  <1>4. CASE Tick
    <2>1. \A p \in Readers : /\ [req[p] EXCEPT !.age = older(req[p].age)] \in Requests
                             /\ [req[p] EXCEPT !.age = older(req[p].age)].at = req[p].at
                             /\ [req[p] EXCEPT !.age = older(req[p].age)].cap = req[p].cap
      BY Older DEF Requests
    <2>. QED  BY <2>1, <1>4 DEF Tick
  <1>5. CASE NewDay
    <2>. DEFINE next(p) == [req[p] EXCEPT !.day = "yesterday", !.late = req[p].late \ {"cap"}]
    <2>1. ASSUME NEW p \in Readers
          PROVE  next(p) \in Requests /\ next(p).at = req[p].at /\ next(p).cap = req[p].cap
      <3>1. req[p] \in Requests /\ req[p].late \ {"cap"} \in SUBSET {"stop", "cap"}
        BY DEF Requests
      <3>. QED  BY <3>1 DEF Requests
    <2>2. req' = [p \in Readers |->
            IF req[p].at \in {"read", "find", "engage"} THEN next(p) ELSE req[p]]
      BY <1>5, Zenon DEF NewDay
    <2>. HIDE DEF next
    <2>. QED  BY <2>1, <2>2
  <1>. QED  BY <1>1, <1>2, <1>3, <1>4, <1>5

(* Readings cached keep their type, and one that is a window old is none.  *)
LEMMA CacheTypes ==
  ASSUME TypeOK, [Next]_vars
  PROVE  /\ cache' \in [Replicas -> Readings]
         /\ \A r \in Replicas : cache'[r].age = Refresh => cache'[r] = NoReading
  <1>. /\ cache \in [Replicas -> Readings] /\ req \in [Readers -> Requests]
       /\ \A r \in Replicas : cache[r].age = Refresh => cache[r] = NoReading
       /\ Slots \subseteq Readers /\ switch \in {"released", "engaged"}
    BY Types DEF Readers
  <1>0. NoReading \in Readings
    BY DEF NoReading, Readings, Ages, Caps
  <1>1. CASE UNCHANGED cache
    BY <1>1
  <1>2. CASE \E p \in Readers, cap \in Caps, state \in {"released", "engaged", "assumed"} :
               SetCache(p, cap, state)
    BY <1>2, SetCacheTypes
  <1>3. CASE ResetCache
    BY <1>0, <1>3 DEF ResetCache
  <1>4. CASE Tick
    <2>1. ASSUME NEW r \in Replicas, older(cache[r].age) < Refresh
          PROVE  /\ [cache[r] EXCEPT !.age = older(cache[r].age)] \in Readings
                 /\ [cache[r] EXCEPT !.age = older(cache[r].age)].age < Refresh
      BY <2>1, Older DEF Readings
    <2>2. Refresh \in Nat
      OBVIOUS
    <2>. QED  BY <1>0, <1>4, <2>1, <2>2 DEF Tick
  <1>5. CASE NewDay
    <2>1. cache' = [r \in Replicas |-> NoReading]
      BY <1>5, Zenon DEF NewDay
    <2>. HIDE DEF NoReading
    <2>. QED  BY <1>0, <2>1
  <1>6. ASSUME NEW q \in Slots, ReadSpend(q) \/ ReadSwitch(q)
        PROVE  UNCHANGED cache \/ \E cap \in Caps, state \in {"released", "engaged", "assumed"} :
                                    SetCache(q, cap, state)
    <2>1. req[q].cap \in Caps /\ req[q].switch \in {"released", "engaged"} /\ spend \in Caps
      BY Types DEF Requests
    <2>2. ASSUME NEW query, NEW cap, NEW state, Receive(q, query, cap, state)
          PROVE  UNCHANGED cache \/ SetCache(q, cap, state)
      BY <2>2, Zenon DEF Receive
    <2>3. \A when : SpendSince(when) \subseteq Caps
      BY <2>1 DEF SpendSince, Caps
    <2>. QED  BY <1>6, <2>1, <2>2, <2>3 DEF ReadSpend, ReadSwitch
  <1>7. ASSUME NEW p \in Readers, EngageKillSwitch(p)
        PROVE  UNCHANGED cache \/ \E cap \in Caps, state \in {"released", "engaged", "assumed"} :
                                    SetCache(p, cap, state)
    <2>1. req[p].cap \in Caps
      BY DEF Requests
    <2>. QED  BY <1>7, <2>1 DEF EngageKillSwitch, FindSwitch, EngageSwitch, EngageFails, Refuse
  <1>8. ASSUME NEW q \in Slots, AssertRunAllowed(q)
        PROVE  UNCHANGED cache \/ ReadSpend(q) \/ ReadSwitch(q)
    BY <1>8 DEF AssertRunAllowed, Ask, ReadFails, JudgeQuota, RefuseQuota, InsertRun, EndRun, Meter,
       quotaVars
  <1>9. Halt \/ Release \/ UNCHANGED vars => UNCHANGED cache
    <2>1. Halt => UNCHANGED cache
      BY Zenon DEF Halt
    <2>2. Release => UNCHANGED cache
      BY Zenon DEF Release
    <2>. QED  BY <2>1, <2>2 DEF vars
  <1>. QED
    <2>1. (\E q \in Slots : AssertRunAllowed(q)) => UNCHANGED cache \/
            \E p \in Readers, cap \in Caps, state \in {"released", "engaged", "assumed"} :
              SetCache(p, cap, state)
      BY <1>6, <1>8
    <2>. QED  BY <1>1, <1>2, <1>3, <1>4, <1>5, <1>7, <1>9, <2>1 DEF Next

(* So do spend, switch and the history.                                    *)
LEMMA ScalarTypes ==
  ASSUME TypeOK, [Next]_vars
  PROVE  /\ spend' \in Caps /\ switch' \in {"released", "engaged"}
         /\ changed' \in Ages /\ capped' \in Ages /\ peak' \in Nat
  <1>. /\ spend \in Caps /\ switch \in {"released", "engaged"}
       /\ changed \in Ages /\ capped \in Ages /\ peak \in Nat /\ 0 \in Ages
    BY Types DEF Ages
  <1>1. ASSUME NEW q \in Slots, AssertRunAllowed(q)
        PROVE  /\ UNCHANGED <<switch, changed>>
               /\ \/ UNCHANGED <<spend, capped, peak>>
                  \/ Meter(q)
                  \/ JudgeQuota(q)
    <2>1. (\E r \in Replicas : Ask(q, r)) => UNCHANGED <<switch, changed, spend, capped, peak>>
      BY Zenon DEF Ask, history
    <2>2. ReadSpend(q) \/ ReadSwitch(q) => UNCHANGED <<switch, changed, spend, capped, peak>>
      BY Zenon DEF ReadSpend, ReadSwitch, Receive, history
    <2>3. ReadFails(q) => UNCHANGED <<switch, changed, spend, capped, peak>>
      BY Zenon DEF ReadFails, history
    <2>4. RefuseQuota(q) \/ InsertRun(q) \/ EndRun(q) => UNCHANGED <<switch, changed, spend, capped, peak>>
      BY Zenon DEF RefuseQuota, InsertRun, EndRun, quotaVars
    <2>5. JudgeQuota(q) \/ Meter(q) => UNCHANGED <<switch, changed>>
      BY Zenon DEF JudgeQuota, Meter, quotaVars
    <2>. QED  BY <1>1, <2>1, <2>2, <2>3, <2>4, <2>5 DEF AssertRunAllowed
  <1>2. ASSUME NEW q \in Slots, JudgeQuota(q)
        PROVE  UNCHANGED <<spend, capped>> /\ peak' \in Nat
    <2>1. IsFiniteSet(Passing)
      BY FS_Subset DEF Passing
    <2>2. Cardinality(Passing) \in Nat
      BY <2>1, FS_CardinalityType
    <2>. QED  BY <1>2, <2>2 DEF JudgeQuota, quotaVars
  <1>3. ASSUME NEW q \in Slots, AssertRunAllowed(q)
        PROVE  /\ spend' \in Caps /\ UNCHANGED switch
               /\ UNCHANGED changed /\ capped' \in Ages /\ peak' \in Nat
    BY <1>1, <1>2, <1>3 DEF Meter, Caps
  <1>4. ASSUME NEW p \in Readers, EngageKillSwitch(p)
        PROVE  UNCHANGED <<spend, capped, peak>> /\ switch' \in {"released", "engaged"} /\ changed' \in Ages
    BY <1>4 DEF EngageKillSwitch, FindSwitch, EngageSwitch, EngageFails, history
  <1>5. CASE Halt \/ Release \/ ResetCache
    <2>1. Halt \/ ResetCache => UNCHANGED <<spend, switch, changed, capped, peak>>
      BY Zenon DEF Halt, ResetCache, history
    <2>2. Release => /\ UNCHANGED <<spend, capped, peak>> /\ switch' = "released"
                     /\ changed' = IF switch = "released" THEN changed ELSE 0
      BY Zenon DEF Release
    <2>. QED  BY <1>5, <2>1, <2>2
  <1>6. CASE Tick \/ NewDay
    <2>1. Tick => /\ changed' = older(changed) /\ capped' = older(capped)
                  /\ UNCHANGED <<spend, switch, peak>>
      BY Zenon DEF Tick
    <2>2. NewDay => /\ spend' = "under" /\ capped' = 0 /\ UNCHANGED <<switch, changed, peak>>
      BY Zenon DEF NewDay
    <2>. QED  BY <1>6, <2>1, <2>2, Older DEF Caps
  <1>7. CASE UNCHANGED vars
    BY <1>7 DEF vars
  <1>. QED  BY <1>3, <1>4, <1>5, <1>6, <1>7 DEF Next

(* So do the requests.                                                     *)
LEMMA RequestTypes ==
  ASSUME TypeOK, [Next]_vars
  PROVE  /\ req' \in [Readers -> Requests]
         /\ \A q \in Slots : req'[q].at \in {"find", "engage"} => req'[q].cap = "reached"
  <1>. /\ Slots \subseteq Readers /\ req \in [Readers -> Requests]
       /\ \A q \in Slots : req[q].at \in {"find", "engage"} => req[q].cap = "reached"
    BY Types DEF Readers
  <1>1. CASE UNCHANGED req
    BY <1>1
  <1>2. CASE \E p \in Readers, x \in Requests :
               /\ req' = [req EXCEPT ![p] = x]
               /\ p \in Slots /\ x.at \in {"find", "engage"} => x.cap = "reached"
    BY <1>2, OneRequest
  <1>3. (\E q \in Slots : AssertRunAllowed(q)) => UNCHANGED req \/
          \E p \in Readers, x \in Requests :
            /\ req' = [req EXCEPT ![p] = x]
            /\ p \in Slots /\ x.at \in {"find", "engage"} => x.cap = "reached"
    BY RequestStep
  <1>4. (\E p \in Readers : EngageKillSwitch(p)) =>
          \E p \in Readers, x \in Requests :
            /\ req' = [req EXCEPT ![p] = x]
            /\ p \in Slots /\ x.at \in {"find", "engage"} => x.cap = "reached"
    BY SwitchStep
  <1>. QED  BY <1>1, <1>2, <1>3, <1>4, OtherRequests DEF Next, vars

(* Together: every step keeps the types.                                   *)
LEMMA TypeStep == TypeOK /\ [Next]_vars => TypeOK'
BY CacheTypes, ScalarTypes, RequestTypes DEF TypeOK, Readings, Requests

-----------------------------------------------------------------------------
(* A request that is answered, or that may go on, has nothing to its name.  *)
LEMMA Harmless ==
  ASSUME NEW x \in Requests, x.at # "read", x.late = {}
  PROVE  RequestInv(x)
BY DEF RequestInv, RequestDated, RequestLate

(* No request is not late.                                                 *)
LEMMA NoRequestTypes == NoRequest \in Requests /\ NoRequest.at = "idle" /\ NoRequest.late = {}
BY DEF NoRequest, Requests, Ages, Caps, Admitted

(* A step that writes one request, and nothing the invariant reads besides. *)
LEMMA RequestFrame ==
  ASSUME GateInv, NEW p \in Readers, NEW x \in Requests, req' = [req EXCEPT ![p] = x],
         UNCHANGED <<spend, switch, changed, capped>>, p \in Slots => RequestInv(x)
  PROVE  \A q \in Slots : RequestInv(req[q])'
  <1>. TAKE q \in Slots
  <1>1. req'[q] = IF q = p THEN x ELSE req[q]
    BY Types DEF GateInv, Readers
  <1>2. RequestInv(req'[q])
    BY <1>1 DEF GateInv
  <1>. QED  BY <1>2 DEF RequestInv, RequestDated, RequestLate

(* What a replica keeps of a reading is dated if the reading is.            *)
LEMMA SetCacheDated ==
  ASSUME GateInv, NEW p \in Readers, NEW cap \in Caps, NEW state \in {"released", "engaged", "assumed"},
         SetCache(p, cap, state), UNCHANGED <<spend, switch, changed, capped>>,
         req[p].day = "today" => Dated(req[p].age, state, cap)
  PROVE  CacheDated'
  <1>. DEFINE x == IF req[p].day = "today" /\ req[p].age < Refresh
                     THEN [age |-> req[p].age, cap |-> cap, switch |-> state] ELSE NoReading
  <1>1. x.age < Refresh => Dated(x.age, x.switch, x.cap)
    BY DEF NoReading
  <1>2. cache' = [cache EXCEPT ![req[p].replica] = x]
    BY DEF SetCache
  <1>3. cache \in [Replicas -> Readings]
    BY Types DEF GateInv
  <1>. HIDE DEF x
  <1>4. ASSUME NEW r \in Replicas, cache'[r].age < Refresh
        PROVE  Dated(cache'[r].age, cache'[r].switch, cache'[r].cap)
    <2>1. CASE r = req[p].replica
      BY <1>1, <1>2, <1>3, <1>4, <2>1
    <2>2. CASE r # req[p].replica
      BY <1>2, <1>3, <1>4, <2>2 DEF GateInv, CacheDated, fresh
    <2>. QED  BY <2>1, <2>2
  <1>. QED  BY <1>4 DEF CacheDated, fresh, Dated

(* A request that arrives begins a reading, or is judged by a fresh one,   *)
(* which cannot miss what is a window old.                                 *)
LEMMA AskStep ==
  ASSUME GateInv, NEW q \in Slots, NEW r \in Replicas, Ask(q, r)
  PROVE  CacheDated' /\ \A p \in Slots : RequestInv(req[p])'
  <1>. TypeOK /\ CacheDated /\ q \in Readers /\ cache[r] \in Readings /\ changed \in Ages /\ capped \in Ages
    BY Types DEF GateInv, Readers
  <1>1. UNCHANGED <<spend, switch, cache, changed, capped>>
    BY Zenon DEF Ask, history
  <1>2. CacheDated'
    BY <1>1 DEF CacheDated, fresh, Dated
  <1>3. Late \subseteq {"stop", "cap"}
    BY DEF Late
  <1>4. /\ "stop" \in Late => switch = "engaged" /\ changed = Refresh
        /\ "cap" \in Late => spend = "reached" /\ capped = Refresh
    BY DEF Late
  <1>5. CASE fresh(r)
    <2>. DEFINE x == Judged(Arrival(r), cache[r].cap, cache[r].switch)
    <2>1. req' = [req EXCEPT ![q] = x]
      BY <1>5 DEF Ask
    <2>2. cache[r].cap \in Caps /\ cache[r].switch \in {"released", "engaged", "assumed"}
      BY DEF Readings
    <2>3. x \in Requests
      BY <2>2, ArrivalTypes, JudgedCases
    <2>4. cache[r].switch = "released" => "stop" \notin Late
      BY <1>4, <1>5 DEF CacheDated, Dated, fresh, Readings, Ages
    <2>5. cache[r].cap = "under" => "cap" \notin Late
      BY <1>4, <1>5 DEF CacheDated, Dated, fresh, Readings, Ages
    <2>6. CASE cache[r].switch # "released"
      <3>1. x = NoRequest
        BY <2>2, <2>6, ArrivalTypes, JudgedCases
      <3>. QED  BY <1>1, <1>2, <2>1, <3>1, Harmless, NoRequestTypes, RequestFrame
    <2>7. CASE cache[r].switch = "released" /\ cache[r].cap = "under"
      <3>1. x.at = "quota" /\ x.late = {}
        <4>1. Late = {}
          BY <1>3, <2>4, <2>5, <2>7
        <4>2. x.at = "quota" /\ x.late = Late
          BY <2>2, <2>7, ArrivalTypes, JudgedCases
        <4>. QED  BY <4>1, <4>2
      <3>. HIDE DEF x
      <3>. QED  BY <1>1, <1>2, <2>1, <2>3, <3>1, Harmless, RequestFrame
    <2>8. CASE cache[r].switch = "released" /\ cache[r].cap = "reached"
      <3>1. x.at = "find" /\ x.late = Late /\ x.day = "today"
        BY <2>2, <2>8, ArrivalTypes, JudgedCases
      <3>. HIDE DEF x
      <3>2. RequestInv(x)
        BY <1>4, <2>4, <2>8, <3>1 DEF RequestInv, RequestDated, RequestLate
      <3>. QED  BY <1>1, <1>2, <2>1, <2>3, <3>2, RequestFrame
    <2>. QED  BY <2>2, <2>6, <2>7, <2>8 DEF Caps
  <1>6. CASE ~fresh(r)
    <2>1. req' = [req EXCEPT ![q] = Arrival(r)]
      BY <1>6 DEF Ask
    <2>2. RequestInv(Arrival(r))
      BY <1>4, ArrivalTypes DEF RequestInv, RequestDated, RequestLate
    <2>. QED  BY <1>1, <1>2, <2>1, <2>2, ArrivalTypes, RequestFrame
  <1>. QED  BY <1>5, <1>6

(* The first answer of a reading, and the second. A late request is told    *)
(* that it is stopped whichever comes last.                                 *)
LEMMA ReceiveStep ==
  ASSUME GateInv, NEW q \in Slots, ReadSpend(q) \/ ReadSwitch(q)
  PROVE  CacheDated' /\ \A p \in Slots : RequestInv(req[p])'
  <1>. /\ TypeOK /\ CacheDated /\ RequestInv(req[q]) /\ q \in Readers /\ req[q] \in Requests
       /\ spend \in Caps /\ switch \in {"released", "engaged"}
    BY Types DEF GateInv, Readers
  <1>1. PICK query \in {"spend", "switch"}, cap \in Caps, state \in {"released", "engaged"} :
          /\ Receive(q, query, cap, state)
          /\ query = "spend" => cap \in SpendSince(req[q].day) /\ state = req[q].switch
          /\ query = "switch" => cap = req[q].cap /\ state = switch
    <2>1. SpendSince(req[q].day) \subseteq Caps
      BY DEF SpendSince, Caps
    <2>2. req[q].cap \in Caps /\ req[q].switch \in {"released", "engaged"}
      BY DEF Requests
    <2>. QED  BY <2>1, <2>2 DEF ReadSpend, ReadSwitch
  <1>2. UNCHANGED <<spend, switch, changed, capped>> /\ req[q].at = "read" /\ query \notin req[q].got
    BY <1>1, Zenon DEF Receive, history
  <1>3. query = "spend" /\ req[q].day = "today" => cap = spend
    <2>1. query = "spend" /\ req[q].day = "today" => cap \in {spend}
      BY <1>1 DEF SpendSince
    <2>. QED  BY <2>1
  <1>4. query = "spend" /\ spend = "reached" => cap = "reached"
    BY <1>1 DEF SpendSince
  <1>5. CASE req[q].got = {}
    <2>. DEFINE x == [req[q] EXCEPT !.got = {query}, !.cap = cap, !.switch = state]
    <2>1. req' = [req EXCEPT ![q] = x] /\ UNCHANGED cache
      BY <1>1, <1>5, Zenon DEF Receive
    <2>2. /\ x \in Requests /\ x.at = "read" /\ x.got = {query} /\ x.cap = cap /\ x.switch = state
          /\ x.late = req[q].late /\ x.day = req[q].day /\ x.age = req[q].age
      BY <1>2 DEF Requests
    <2>. HIDE DEF x
    <2>3. RequestDated(x)
      BY <1>1, <1>3, <2>2 DEF RequestDated
    <2>4. RequestLate(x)
      BY <1>1, <1>2, <1>4, <2>2 DEF RequestLate, RequestInv
    <2>5. CacheDated'
      BY <1>2, <2>1 DEF CacheDated, fresh, Dated
    <2>. QED  BY <1>2, <2>1, <2>2, <2>3, <2>4, <2>5, RequestFrame DEF RequestInv
  <1>6. CASE req[q].got # {}
    <2>. DEFINE x == Judged(req[q], cap, state)
    <2>1. req' = [req EXCEPT ![q] = x] /\ SetCache(q, cap, state)
      BY <1>1, <1>6, Zenon DEF Receive
    <2>2. (query = "spend" => "switch" \in req[q].got) /\ (query = "switch" => "spend" \in req[q].got)
      BY <1>2, <1>6 DEF Requests
    <2>3. state # switch => changed <= req[q].age
      BY <1>1, <1>2, <2>2 DEF RequestInv, RequestDated
    <2>4. req[q].day = "today" /\ cap = "under" /\ spend = "reached" => capped <= req[q].age
      BY <1>1, <1>2, <1>4, <2>2 DEF RequestInv, RequestDated
    <2>5. CacheDated'
      BY <1>2, <2>1, <2>3, <2>4, SetCacheDated DEF Dated
    <2>6. "stop" \in req[q].late => state = "engaged"
      BY <1>1, <1>2, <2>2 DEF RequestInv, RequestLate
    <2>7. "cap" \in req[q].late => cap = "reached"
      BY <1>1, <1>2, <1>4, <2>2 DEF RequestInv, RequestLate
    <2>8. x \in Requests
      BY JudgedCases
    <2>9. RequestInv(x)
      <3>1. CASE state # "released"
        BY <3>1, JudgedCases, Harmless, NoRequestTypes
      <3>2. CASE state = "released" /\ cap = "under"
        <4>1. req[q].late = {}
          BY <2>6, <2>7, <3>2 DEF Requests
        <4>2. x.at = "quota" /\ x.late = req[q].late
          BY <3>2, JudgedCases
        <4>. QED  BY <2>8, <4>1, <4>2, Harmless
      <3>3. CASE state = "released" /\ cap = "reached"
        <4>1. x.at = "find" /\ x.late = req[q].late /\ x.day = req[q].day
          BY <3>3, JudgedCases
        <4>. HIDE DEF x
        <4>. QED  BY <2>6, <3>3, <4>1 DEF RequestInv, RequestDated, RequestLate
      <3>. QED  BY <3>1, <3>2, <3>3 DEF Caps
    <2>. HIDE DEF x
    <2>. QED  BY <1>2, <2>1, <2>5, <2>8, <2>9, RequestFrame
  <1>. QED  BY <1>5, <1>6

(* Once admitted or refused, a request is of no more concern.               *)
LEMMA QuotaStep ==
  ASSUME GateInv, NEW q \in Slots,
         ReadFails(q) \/ JudgeQuota(q) \/ RefuseQuota(q) \/ InsertRun(q) \/ EndRun(q)
  PROVE  CacheDated' /\ \A p \in Slots : RequestInv(req[p])'
  <1>. TypeOK /\ CacheDated /\ RequestInv(req[q]) /\ q \in Readers /\ req[q] \in Requests
    BY Types DEF GateInv, Readers
  <1>1. UNCHANGED <<spend, switch, cache, changed, capped>>
    BY Zenon DEF ReadFails, JudgeQuota, RefuseQuota, InsertRun, EndRun, history, quotaVars
  <1>2. CacheDated'
    BY <1>1 DEF CacheDated, fresh, Dated
  <1>3. CASE ReadFails(q) \/ RefuseQuota(q) \/ EndRun(q)
    <2>1. req' = [req EXCEPT ![q] = NoRequest]
      BY <1>3, Zenon DEF ReadFails, RefuseQuota, EndRun
    <2>. QED  BY <1>1, <1>2, <2>1, Harmless, NoRequestTypes, RequestFrame
  <1>4. CASE JudgeQuota(q) \/ InsertRun(q)
    <2>1. PICK at \in {"insert", "running"} :
            req' = [req EXCEPT ![q].at = at] /\ req[q].at \in {"quota", "insert"}
      BY <1>4, Zenon DEF JudgeQuota, InsertRun
    <2>. DEFINE x == [req[q] EXCEPT !.at = at]
    <2>2. x \in Requests /\ x.at = at /\ x.late = req[q].late
      BY DEF Requests, Admitted
    <2>3. req[q].late = {}
      BY <2>1 DEF RequestInv, RequestLate, Requests
    <2>4. req' = [req EXCEPT ![q] = x]
      BY <2>1
    <2>. HIDE DEF x
    <2>. QED  BY <1>1, <1>2, <2>2, <2>3, <2>4, Harmless, RequestFrame
  <1>. QED  BY <1>3, <1>4

(* At the switch: what a replica keeps then says that the cap is reached    *)
(* and that the switch is what it is, or what this replica assumes.         *)
LEMMA EngageStep ==
  ASSUME GateInv, NEW p \in Readers, EngageKillSwitch(p)
  PROVE  CacheDated' /\ \A q \in Slots : RequestInv(req[q])'
  <1>. /\ TypeOK /\ CacheDated /\ req \in [Readers -> Requests] /\ req[p] \in Requests
       /\ switch \in {"released", "engaged"} /\ changed \in Ages /\ 0 \in Ages
       /\ cache \in [Replicas -> Readings] /\ Slots \subseteq Readers
    BY Types DEF GateInv, Readers, Ages
  <1>1. p \in Slots => RequestInv(req[p])
    BY DEF GateInv
  <1>2. ASSUME NEW state \in {"engaged", "assumed"}, Refuse(p, state), req[p].at \in {"find", "engage"},
               UNCHANGED <<spend, switch, changed, capped>>, state # "assumed" => state = switch
        PROVE  CacheDated' /\ \A q \in Slots : RequestInv(req[q])'
    <2>1. req' = [req EXCEPT ![p] = NoRequest]
      BY <1>2 DEF Refuse
    <2>2. CASE p = Operator
      <3>1. UNCHANGED cache
        BY <1>2, <2>2 DEF Refuse
      <3>2. CacheDated'
        BY <1>2, <3>1 DEF CacheDated, fresh, Dated
      <3>. QED  BY <1>2, <2>1, <3>2, Harmless, NoRequestTypes, RequestFrame
    <2>3. CASE p # Operator
      <3>1. p \in Slots /\ SetCache(p, req[p].cap, state)
        BY <1>2, <2>3 DEF Refuse, Readers
      <3>2. req[p].cap = "reached"
        BY <1>2, <3>1, Types
      <3>3. Dated(req[p].age, state, req[p].cap) /\ req[p].cap \in Caps
        BY <1>2, <3>2 DEF Dated, Caps
      <3>4. CacheDated'
        BY <1>2, <3>1, <3>3, SetCacheDated
      <3>. QED  BY <1>2, <2>1, <3>4, Harmless, NoRequestTypes, RequestFrame
    <2>. QED  BY <2>2, <2>3
  <1>3. CASE FindSwitch(p)
    <2>1. req[p].at = "find" /\ UNCHANGED <<spend, switch, changed, capped>>
      BY <1>3, Zenon DEF FindSwitch, history
    <2>2. CASE switch = "engaged" /\ Refuse(p, "engaged")
      BY <1>2, <2>1, <2>2
    <2>3. CASE req' = [req EXCEPT ![p].at = "engage"] /\ UNCHANGED cache
      <3>. DEFINE x == [req[p] EXCEPT !.at = "engage"]
      <3>1. x \in Requests /\ x.at = "engage" /\ x.late = req[p].late /\ x.day = req[p].day
        BY DEF Requests
      <3>2. req' = [req EXCEPT ![p] = x]
        BY <2>3
      <3>. HIDE DEF x
      <3>3. p \in Slots => RequestInv(x)
        BY <1>1, <2>1, <3>1 DEF RequestInv, RequestDated, RequestLate
      <3>4. CacheDated'
        BY <2>1, <2>3 DEF CacheDated, fresh, Dated
      <3>. QED  BY <2>1, <3>1, <3>2, <3>3, <3>4, RequestFrame
    <2>. QED  BY <1>3, <2>2, <2>3 DEF FindSwitch
  <1>4. CASE EngageFails(p)
    <2>1. req[p].at \in {"find", "engage"} /\ UNCHANGED <<spend, switch, changed, capped>> /\ Refuse(p, "assumed")
      BY <1>4, Zenon DEF EngageFails, history
    <2>. QED  BY <1>2, <2>1
  <1>5. CASE EngageSwitch(p)
    <2>1. /\ req[p].at = "engage" /\ switch' = "engaged" /\ UNCHANGED <<spend, capped>>
          /\ changed' = IF switch = "engaged" THEN changed ELSE 0
          /\ Refuse(p, "engaged")
      BY <1>5, Zenon DEF EngageSwitch
    <2>2. CASE switch = "engaged"
      BY <1>2, <2>1, <2>2
    <2>3. CASE switch = "released"
      <3>1. changed' = 0
        BY <2>1, <2>3
      <3>2. req' = [req EXCEPT ![p] = NoRequest]
        BY <2>1 DEF Refuse
      <3>3. ASSUME NEW q \in Slots
            PROVE  RequestInv(req[q])'
        <4>1. RequestInv(req[q]) /\ req[q].age >= 0 /\ (req'[q] = req[q] \/ req'[q] = NoRequest)
          BY <3>2 DEF GateInv, Requests, Ages
        <4>2. req'[q] = req[q] => RequestInv(req[q])'
          BY <2>1, <2>3, <3>1, <4>1 DEF RequestInv, RequestDated, RequestLate
        <4>3. req'[q] = NoRequest => RequestInv(req[q])'
          BY DEF RequestInv, RequestDated, RequestLate, NoRequest
        <4>. QED  BY <4>1, <4>2, <4>3
      <3>4. ASSUME NEW r \in Replicas, cache'[r].age < Refresh
            PROVE  Dated(cache[r].age, cache[r].switch, cache[r].cap)'
        <4>. DEFINE x == IF req[p].day = "today" /\ req[p].age < Refresh
                     THEN [age |-> req[p].age, cap |-> req[p].cap, switch |-> "engaged"] ELSE NoReading
        <4>1. cache'[r] = cache[r] \/ (p \in Slots /\ cache'[r] = x)
          BY <2>1 DEF Refuse, SetCache, Readers
        <4>2. CASE cache'[r] = cache[r]
          <5>1. cache[r].age >= 0 /\ (cache[r].cap = "under" /\ spend = "reached" => capped <= cache[r].age)
            BY <3>4, <4>2 DEF CacheDated, fresh, Dated, Readings, Ages
          <5>. QED  BY <2>1, <3>1, <4>2, <5>1 DEF Dated
        <4>3. CASE p \in Slots /\ cache'[r] = x
          <5>1. req[p].cap = "reached"
            BY <2>1, <4>3, Types
          <5>. QED  BY <2>1, <3>1, <3>4, <4>3, <5>1 DEF Dated, NoReading
        <4>. QED  BY <4>1, <4>2, <4>3
      <3>. QED  BY <3>3, <3>4 DEF CacheDated, fresh
    <2>. QED  BY <2>2, <2>3
  <1>. QED  BY <1>3, <1>4, <1>5 DEF EngageKillSwitch

(* The operator, a metered call, and time.                                  *)
LEMMA OperatorStep ==
  ASSUME GateInv, Halt \/ ResetCache \/ Release
  PROVE  CacheDated' /\ \A q \in Slots : RequestInv(req[q])'
  <1>. /\ TypeOK /\ CacheDated /\ req \in [Readers -> Requests] /\ Operator \in Readers
       /\ switch \in {"released", "engaged"} /\ changed \in Ages /\ Operator \notin Slots
       /\ cache \in [Replicas -> Readings] /\ Slots \subseteq Readers /\ req[Operator] \in Requests
    BY Types DEF GateInv, Readers
  <1>1. CASE Halt
    <2>1. /\ UNCHANGED <<spend, switch, cache, changed, capped>>
          /\ req' = [req EXCEPT ![Operator] = [req[Operator] EXCEPT !.at = "find"]]
      BY <1>1 DEF Halt, history
    <2>2. [req[Operator] EXCEPT !.at = "find"] \in Requests
      BY DEF Requests
    <2>3. CacheDated'
      BY <2>1 DEF CacheDated, fresh, Dated
    <2>. QED  BY <2>1, <2>2, <2>3, RequestFrame
  <1>2. CASE ResetCache
    <2>1. /\ UNCHANGED <<spend, switch, changed, capped>> /\ req' = [req EXCEPT ![Operator] = NoRequest]
          /\ cache' = [cache EXCEPT ![req[Operator].replica] = NoReading]
      BY <1>2, Zenon DEF ResetCache, history
    <2>2. NoReading.age = Refresh
      BY DEF NoReading
    <2>3. CacheDated'
      BY <2>1, <2>2 DEF CacheDated, fresh, Dated
    <2>. QED  BY <2>1, <2>3, NoRequestTypes, RequestFrame
  <1>3. CASE Release
    <2>1. /\ UNCHANGED <<spend, cache, capped>> /\ switch' = "released"
          /\ changed' = IF switch = "released" THEN changed ELSE 0
      BY <1>3, Zenon DEF Release
    <2>2. \A q \in Slots : req'[q] = [req[q] EXCEPT !.late = req[q].late \ {"stop"}]
      BY <1>3, Zenon DEF Release
    <2>3. ASSUME NEW q \in Slots
          PROVE  RequestInv(req[q])'
      <3>1. RequestInv(req[q]) /\ req[q] \in Requests /\ req[q].age >= 0
        BY DEF GateInv, Requests, Ages
      <3>2. /\ req'[q].at = req[q].at /\ req'[q].got = req[q].got /\ req'[q].switch = req[q].switch
            /\ req'[q].age = req[q].age /\ req'[q].day = req[q].day /\ req'[q].cap = req[q].cap
            /\ req'[q].late = req[q].late \ {"stop"}
        <4>. DEFINE left == req[q].late \ {"stop"}
        <4>1. req'[q] = [req[q] EXCEPT !.late = left]
          BY <2>2
        <4>. HIDE DEF left
        <4>2. /\ req'[q].at = req[q].at /\ req'[q].got = req[q].got /\ req'[q].switch = req[q].switch
              /\ req'[q].age = req[q].age /\ req'[q].day = req[q].day /\ req'[q].cap = req[q].cap
              /\ req'[q].late = left
          BY <3>1, <4>1 DEF Requests
        <4>. QED  BY <4>2 DEF left
      <3>3. RequestDated(req[q])'
        BY <2>1, <3>1, <3>2 DEF RequestInv, RequestDated
      <3>4. RequestLate(req[q])'
        BY <2>1, <3>1, <3>2 DEF RequestInv, RequestLate
      <3>. QED  BY <3>3, <3>4 DEF RequestInv
    <2>4. \A r \in Replicas : cache[r].age >= 0
      BY DEF Readings, Ages
    <2>5. CacheDated'
      BY <2>1, <2>4 DEF CacheDated, fresh, Dated
    <2>. QED  BY <2>3, <2>5
  <1>. QED  BY <1>1, <1>2, <1>3

(* Spend that has just reached the cap makes readings disagree with it, and*)
(* its age is nothing.                                                     *)
LEMMA MeterStep ==
  ASSUME GateInv, NEW q \in Slots, Meter(q)
  PROVE  CacheDated' /\ \A p \in Slots : RequestInv(req[p])'
  <1>. /\ TypeOK /\ CacheDated /\ req \in [Readers -> Requests] /\ Slots \subseteq Readers
       /\ cache \in [Replicas -> Readings]
    BY Types DEF GateInv, Readers
  <1>1. /\ UNCHANGED <<req, cache, switch, changed>> /\ spend = "under" /\ capped' = 0
    BY Zenon DEF Meter
  <1>2. ASSUME NEW p \in Slots
        PROVE  RequestInv(req[p])'
    <2>1. RequestInv(req[p]) /\ req[p].age >= 0
      BY DEF GateInv, Requests, Ages
    <2>. QED  BY <1>1, <2>1 DEF RequestInv, RequestDated, RequestLate
  <1>3. \A r \in Replicas : cache[r].age >= 0
    BY DEF Readings, Ages
  <1>. QED  BY <1>1, <1>2, <1>3 DEF CacheDated, fresh, Dated

(* A tick ages the readings with the changes; midnight drops them.         *)
LEMMA TimeStep ==
  ASSUME GateInv, Tick \/ NewDay
  PROVE  CacheDated' /\ \A q \in Slots : RequestInv(req[q])'
  <1>. /\ TypeOK /\ CacheDated /\ req \in [Readers -> Requests] /\ Slots \subseteq Readers
       /\ cache \in [Replicas -> Readings] /\ changed \in Ages /\ capped \in Ages
    BY Types DEF GateInv, Readers
  <1>0. NoReading.age = Refresh
    BY DEF NoReading
  <1>1. CASE Tick
    <2>1. /\ changed' = older(changed) /\ capped' = older(capped) /\ UNCHANGED <<spend, switch>>
      BY <1>1, Zenon DEF Tick
    <2>2. ASSUME NEW q \in Slots
          PROVE  RequestInv(req[q])'
      <3>1. RequestInv(req[q]) /\ req[q] \in Requests
        BY DEF GateInv
      <3>2. req'[q] = [req[q] EXCEPT !.age = older(req[q].age)] \/ (req[q].at # "read" /\ req'[q] = req[q])
        BY <1>1 DEF Tick
      <3>3. /\ req'[q].at = req[q].at /\ req'[q].got = req[q].got /\ req'[q].switch = req[q].switch
            /\ req'[q].day = req[q].day /\ req'[q].cap = req[q].cap /\ req'[q].late = req[q].late
            /\ req[q].at = "read" => req'[q].age = older(req[q].age)
        BY <3>1, <3>2 DEF Requests
      <3>4. \A a, b \in Ages : a <= b => older(a) <= older(b)
        BY DEF older, Ages
      <3>5. req[q].age \in Ages
        BY <3>1 DEF Requests
      <3>6. RequestDated(req[q])'
        BY <2>1, <3>1, <3>3, <3>4, <3>5 DEF RequestInv, RequestDated
      <3>7. RequestLate(req[q])'
        BY <2>1, <3>1, <3>3 DEF RequestInv, RequestLate
      <3>. QED  BY <3>6, <3>7 DEF RequestInv
    <2>3. ASSUME NEW r \in Replicas, cache'[r].age < Refresh
          PROVE  Dated(cache[r].age, cache[r].switch, cache[r].cap)'
      <3>1. cache[r] \in Readings
        OBVIOUS
      <3>2. /\ older(cache[r].age) < Refresh /\ cache'[r] = [cache[r] EXCEPT !.age = older(cache[r].age)]
        BY <1>0, <1>1, <2>3 DEF Tick
      <3>3. cache'[r].age = older(cache[r].age) /\ cache'[r].switch = cache[r].switch /\ cache'[r].cap = cache[r].cap
        BY <3>1, <3>2 DEF Readings
      <3>4. cache[r].age < Refresh /\ older(cache[r].age) = cache[r].age + 1
        BY <3>1, <3>2 DEF older, Readings, Ages
      <3>5. Dated(cache[r].age, cache[r].switch, cache[r].cap)
        BY <3>4 DEF CacheDated, fresh
      <3>6. changed' <= changed + 1 /\ capped' <= capped + 1 /\ changed' \in Ages /\ capped' \in Ages
        BY <2>1, Older
      <3>7. cache[r].age \in Ages
        BY <3>1 DEF Readings
      <3>. QED  BY <2>1, <3>3, <3>4, <3>5, <3>6, <3>7 DEF Dated, Ages
    <2>. QED  BY <2>2, <2>3 DEF CacheDated, fresh
  <1>2. CASE NewDay
    <2>1. /\ spend' = "under" /\ UNCHANGED <<switch, changed>> /\ cache' = [r \in Replicas |-> NoReading]
      BY <1>2, Zenon DEF NewDay
    <2>2. CacheDated'
      BY <1>0, <2>1 DEF CacheDated, fresh
    <2>3. ASSUME NEW q \in Slots
          PROVE  RequestInv(req[q])'
      <3>1. RequestInv(req[q]) /\ req[q] \in Requests
        BY DEF GateInv
      <3>2. IF req[q].at \in {"read", "find", "engage"}
              THEN req'[q] = [req[q] EXCEPT !.day = "yesterday", !.late = req[q].late \ {"cap"}]
              ELSE req'[q] = req[q]
        BY <1>2, Zenon DEF NewDay
      <3>3. /\ req'[q].at = req[q].at /\ req'[q].got = req[q].got /\ req'[q].switch = req[q].switch
            /\ req'[q].age = req[q].age /\ req'[q].late \subseteq req[q].late
            /\ req[q].at \in {"read", "find", "engage"} => "cap" \notin req'[q].late
        <4>. DEFINE left == req[q].late \ {"cap"}
        <4>1. CASE req[q].at \in {"read", "find", "engage"}
          <5>1. req'[q] = [req[q] EXCEPT !.day = "yesterday", !.late = left]
            BY <3>2, <4>1
          <5>. HIDE DEF left
          <5>2. /\ req'[q].at = req[q].at /\ req'[q].got = req[q].got /\ req'[q].switch = req[q].switch
                /\ req'[q].age = req[q].age /\ req'[q].late = left
            BY <3>1, <5>1 DEF Requests
          <5>3. left \subseteq req[q].late /\ "cap" \notin left
            BY DEF left
          <5>. QED  BY <5>2, <5>3
        <4>2. CASE req[q].at \notin {"read", "find", "engage"}
          BY <3>2, <4>2
        <4>. QED  BY <4>1, <4>2
      <3>4. RequestDated(req[q])'
        BY <2>1, <3>1, <3>3 DEF RequestInv, RequestDated
      <3>5. RequestLate(req[q])'
        BY <2>1, <3>1, <3>3 DEF RequestInv, RequestLate
      <3>. QED  BY <3>4, <3>5 DEF RequestInv
    <2>. QED  BY <2>2, <2>3
  <1>. QED  BY <1>1, <1>2

(* The readings are dated and the late requests seen to, in every reachable*)
(* state.                                                                  *)
LEMMA GateInvariant == Spec => []GateInv
<1>1. Init => GateInv
  <2>. SUFFICES ASSUME Init PROVE GateInv
    OBVIOUS
  <2>1. /\ spend = "under" /\ switch = "released" /\ changed = Refresh /\ capped = 0 /\ peak = 0
        /\ cache = [r \in Replicas |-> NoReading] /\ req = [p \in Readers |-> NoRequest]
    BY DEF Init
  <2>2. NoReading \in Readings /\ NoReading.age = Refresh
    BY DEF NoReading, Readings, Ages, Caps
  <2>. HIDE DEF NoReading, NoRequest
  <2>3. TypeOK
    BY <2>1, <2>2, NoRequestTypes, Types DEF Caps, Ages, Readers
  <2>4. CacheDated
    BY <2>1, <2>2 DEF CacheDated, fresh
  <2>5. \A q \in Slots : RequestInv(req[q])
    BY <2>1, NoRequestTypes, Harmless DEF Readers
  <2>. QED  BY <2>3, <2>4, <2>5 DEF GateInv
<1>2. GateInv /\ [Next]_vars => GateInv'
  <2>. SUFFICES ASSUME GateInv, [Next]_vars PROVE GateInv'
    OBVIOUS
  <2>1. TypeOK'
    BY TypeStep DEF GateInv
  <2>2. CacheDated' /\ \A q \in Slots : RequestInv(req[q])'
    <3>1. ASSUME NEW q \in Slots, AssertRunAllowed(q)
          PROVE  CacheDated' /\ \A p \in Slots : RequestInv(req[p])'
      BY <3>1, AskStep, ReceiveStep, QuotaStep, MeterStep DEF AssertRunAllowed
    <3>2. CASE UNCHANGED vars
      BY <3>2 DEF vars, GateInv, CacheDated, fresh, Dated, RequestInv, RequestDated, RequestLate
    <3>. QED  BY <3>1, <3>2, EngageStep, OperatorStep, TimeStep DEF Next
  <2>. QED  BY <2>1, <2>2 DEF GateInv
<1>. QED  BY <1>1, <1>2, PTL DEF Spec

(* Types, for any number of callers, replicas and ticks of the window; a    *)
(* cached reading is never a window old.                                    *)
THEOREM GateTyping == Spec => []TypeOK
<1>1. GateInv => TypeOK
  BY DEF GateInv
<1>. QED  BY <1>1, GateInvariant, PTL

(* However many replicas cache, read and drop the switch, no request that   *)
(* arrives a window after it was engaged is admitted anywhere.              *)
THEOREM StopIsSeen == Spec => []StopReachesApi
<1>1. GateInv => StopReachesApi
  BY DEF GateInv, RequestInv, RequestLate, StopReachesApi, Admitted
<1>. QED  BY <1>1, GateInvariant, PTL

(* Nor one that arrives a window after the cap was reached, although the    *)
(* switch may be released again or impossible to write.                     *)
THEOREM CapIsSeen == Spec => []CapReachesApi
<1>1. GateInv => CapReachesApi
  BY DEF GateInv, RequestInv, RequestLate, CapReachesApi, Admitted
<1>. QED  BY <1>1, GateInvariant, PTL

(* A window after a release no replica remembers the switch as engaged.     *)
THEOREM ReleaseIsSeen == Spec => []ReleaseReachesApi
<1>1. GateInv => ReleaseReachesApi
  <2>. SUFFICES ASSUME GateInv, switch = "released", changed = Refresh, NEW r \in Replicas, fresh(r),
                       cache[r].switch = "engaged"
                PROVE  FALSE
    BY DEF ReleaseReachesApi
  <2>1. changed <= cache[r].age
    BY DEF GateInv, CacheDated, Dated
  <2>2. cache[r].age \in Ages
    BY Types DEF GateInv, Readings
  <2>. QED  BY <2>1, <2>2 DEF fresh, Ages
<1>. QED  BY <1>1, GateInvariant, PTL

-----------------------------------------------------------------------------
(* Counting. A request that is judged brings Passing to at most peak and    *)
(* was judged with room for one run; every other step moves or removes.     *)
CountInv == OvershootIsBounded /\ Cardinality(Passing) <= peak

(* The callers are finitely many.                                          *)
LEMMA Sizes ==
  /\ IsFiniteSet(Running) /\ Cardinality(Running) \in Nat
  /\ IsFiniteSet(Passing) /\ Cardinality(Passing) \in Nat
<1>1. IsFiniteSet(Running) /\ IsFiniteSet(Passing)
  BY FS_Subset DEF Running, Passing
<1>. QED  BY <1>1, FS_CardinalityType

(* Whoever leaves makes room.                                              *)
LEMMA Shrinks ==
  ASSUME CountInv, TypeOK, Running' \subseteq Running, Passing' \subseteq Passing, UNCHANGED peak
  PROVE  CountInv'
<1>1. Cardinality(Running') <= Cardinality(Running) /\ Cardinality(Running') \in Nat
  BY Sizes, FS_Subset, FS_CardinalityType
<1>2. Cardinality(Passing') <= Cardinality(Passing) /\ Cardinality(Passing') \in Nat
  BY Sizes, FS_Subset, FS_CardinalityType
<1>3. peak \in Nat
  BY Types
<1>. QED  BY <1>1, <1>2, <1>3, Sizes DEF CountInv, OvershootIsBounded

(* Every step keeps the count: only the judgement with room for one run    *)
(* more adds to it.                                                        *)
LEMMA CountStep == TypeOK /\ CountInv /\ [Next]_vars => CountInv'
<1>. SUFFICES ASSUME TypeOK, CountInv, [Next]_vars PROVE CountInv'
  OBVIOUS
<1>. peak \in Nat /\ req \in [Readers -> Requests] /\ Slots \subseteq Readers /\ Operator \in Readers
     /\ Operator \notin Slots
  BY Types DEF Readers
<1>1. ASSUME NEW q \in Slots, JudgeQuota(q) PROVE CountInv'
  <2>1. /\ req[q].at = "quota" /\ Cardinality(Running) < ConcurrentRuns
        /\ req' = [req EXCEPT ![q] = [req[q] EXCEPT !.at = "insert"]]
        /\ peak' = IF Cardinality(Passing) + 1 > peak THEN Cardinality(Passing) + 1 ELSE peak
    BY <1>1 DEF JudgeQuota, evaluateQuota
  <2>2. \A p \in Slots : req'[p].at = IF p = q THEN "insert" ELSE req[p].at
    BY <2>1 DEF Requests
  <2>3. Running' = Running /\ Passing' = Passing \cup {q} /\ q \notin Passing
    BY <2>1, <2>2 DEF Running, Passing
  <2>4. Cardinality(Passing') = Cardinality(Passing) + 1
    BY <2>3, Sizes, FS_AddElement
  <2>. QED  BY <2>1, <2>3, <2>4, Sizes DEF CountInv, OvershootIsBounded
<1>2. ASSUME NEW q \in Slots, InsertRun(q) PROVE CountInv'
  <2>1. /\ req[q].at = "insert" /\ UNCHANGED peak
        /\ req' = [req EXCEPT ![q] = [req[q] EXCEPT !.at = "running"]]
    BY <1>2 DEF InsertRun
  <2>2. \A p \in Slots : req'[p].at = IF p = q THEN "running" ELSE req[p].at
    BY <2>1 DEF Requests
  <2>3. Running' = Running \cup {q} /\ q \notin Running /\ Passing' = Passing \ {q} /\ q \in Passing
    BY <2>1, <2>2 DEF Running, Passing
  <2>4. /\ Cardinality(Running') = Cardinality(Running) + 1
        /\ Cardinality(Passing') = Cardinality(Passing) - 1
    BY <2>3, Sizes, FS_AddElement, FS_RemoveElement
  <2>. QED  BY <2>1, <2>4, Sizes DEF CountInv, OvershootIsBounded
<1>3. ASSUME UNCHANGED peak,
             \A p \in Slots : req'[p].at \in {"running", "insert"} => req'[p].at = req[p].at
      PROVE  CountInv'
  BY <1>3, Shrinks DEF Running, Passing
<1>4. ASSUME NEW p \in Readers, NEW x \in Requests, req' = [req EXCEPT ![p] = x], UNCHANGED peak,
             x.at \notin {"running", "insert"}
      PROVE  CountInv'
  BY <1>3, <1>4
<1>5. ASSUME NEW q \in Slots, AssertRunAllowed(q), ~JudgeQuota(q), ~InsertRun(q) PROVE CountInv'
  <2>1. CASE Meter(q)
    <3>1. UNCHANGED <<req, peak>>
      BY <2>1, Zenon DEF Meter
    <3>. QED  BY <1>3, <3>1
  <2>2. CASE ReadFails(q) \/ RefuseQuota(q) \/ EndRun(q)
    <3>1. req' = [req EXCEPT ![q] = NoRequest] /\ UNCHANGED peak
      BY <2>2, Zenon DEF ReadFails, RefuseQuota, EndRun, history
    <3>. QED  BY <1>4, <3>1, NoRequestTypes
  <2>3. ASSUME NEW r \in Replicas, Ask(q, r)
        PROVE  CountInv'
    <3>1. UNCHANGED peak
      BY <2>3, Zenon DEF Ask, history
    <3>2. cache[r].cap \in Caps /\ cache[r].switch \in {"released", "engaged", "assumed"}
      BY Types DEF Readings
    <3>3. CASE fresh(r)
      <4>. DEFINE x == Judged(Arrival(r), cache[r].cap, cache[r].switch)
      <4>1. req' = [req EXCEPT ![q] = x]
        BY <2>3, <3>3 DEF Ask
      <4>2. x \in Requests /\ x.at \in {"idle", "quota", "find"}
        BY <3>2, ArrivalTypes, JudgedCases
      <4>. HIDE DEF x
      <4>. QED  BY <1>4, <3>1, <4>1, <4>2
    <3>4. CASE ~fresh(r)
      <4>1. req' = [req EXCEPT ![q] = Arrival(r)]
        BY <2>3, <3>4 DEF Ask
      <4>. QED  BY <1>4, <3>1, <4>1, ArrivalTypes
    <3>. QED  BY <3>3, <3>4
  <2>4. CASE ReadSpend(q) \/ ReadSwitch(q)
    <3>1. PICK query, cap, state : Receive(q, query, cap, state) /\ cap \in Caps
             /\ state \in {"released", "engaged"}
      <4>1. \A when : SpendSince(when) \subseteq Caps
        BY Types DEF SpendSince, Caps
      <4>2. req[q].cap \in Caps /\ req[q].switch \in {"released", "engaged"} /\ switch \in {"released", "engaged"}
        BY Types DEF Requests
      <4>. QED  BY <2>4, <4>1, <4>2 DEF ReadSpend, ReadSwitch
    <3>2. UNCHANGED peak /\ req[q].at = "read"
      BY <3>1, Zenon DEF Receive, history
    <3>3. CASE req[q].got = {}
      <4>1. req' = [req EXCEPT ![q] = [req[q] EXCEPT !.got = {query}, !.cap = cap, !.switch = state]]
        BY <3>1, <3>3, Zenon DEF Receive
      <4>2. \A p \in Slots : req'[p].at = req[p].at
        BY <4>1 DEF Requests
      <4>. QED  BY <1>3, <3>2, <4>2
    <3>4. CASE req[q].got # {}
      <4>. DEFINE x == Judged(req[q], cap, state)
      <4>1. req' = [req EXCEPT ![q] = x]
        BY <3>1, <3>4, Zenon DEF Receive
      <4>2. x \in Requests /\ x.at \in {"idle", "quota", "find"}
        BY <3>1, JudgedCases
      <4>. HIDE DEF x
      <4>. QED  BY <1>4, <3>2, <4>1, <4>2
    <3>. QED  BY <3>3, <3>4
  <2>. QED  BY <1>5, <2>1, <2>2, <2>3, <2>4 DEF AssertRunAllowed
<1>6. ASSUME NEW p \in Readers, EngageKillSwitch(p) PROVE CountInv'
  <2>1. UNCHANGED peak
    BY <1>6, Zenon DEF EngageKillSwitch, FindSwitch, EngageSwitch, EngageFails, history
  <2>2. CASE \E state : Refuse(p, state)
    <3>1. req' = [req EXCEPT ![p] = NoRequest]
      BY <2>2, Zenon DEF Refuse
    <3>. QED  BY <1>4, <2>1, <3>1, NoRequestTypes
  <2>3. CASE req' = [req EXCEPT ![p] = [req[p] EXCEPT !.at = "engage"]]
    <3>1. [req[p] EXCEPT !.at = "engage"] \in Requests /\ [req[p] EXCEPT !.at = "engage"].at = "engage"
      BY DEF Requests
    <3>. QED  BY <1>4, <2>1, <2>3, <3>1
  <2>. QED  BY <1>6, <2>2, <2>3 DEF EngageKillSwitch, FindSwitch, EngageSwitch, EngageFails
<1>7. CASE Halt \/ Release \/ ResetCache
  <2>1. UNCHANGED peak
    BY <1>7, Zenon DEF Halt, Release, ResetCache, history
  <2>2. ASSUME NEW p \in Slots
        PROVE  req'[p].at = req[p].at
    <3>1. CASE Halt \/ ResetCache
      <4>1. \E x : req' = [req EXCEPT ![Operator] = x]
        BY <3>1, Zenon DEF Halt, ResetCache
      <4>. QED  BY <4>1
    <3>2. CASE Release
      <4>1. req'[p] = [req[p] EXCEPT !.late = req[p].late \ {"stop"}]
        BY <3>2, Zenon DEF Release
      <4>. QED  BY <4>1 DEF Requests
    <3>. QED  BY <1>7, <3>1, <3>2
  <2>. QED  BY <1>3, <2>1, <2>2
<1>8. CASE Tick \/ NewDay
  <2>1. UNCHANGED peak
    BY <1>8, Zenon DEF Tick, NewDay
  <2>2. ASSUME NEW p \in Slots
        PROVE  req'[p].at = req[p].at
    <3>1. Tick => req'[p] = [req[p] EXCEPT !.age = older(req[p].age)] \/ req'[p] = req[p]
      BY DEF Tick
    <3>2. NewDay => \/ req'[p] = [req[p] EXCEPT !.day = "yesterday", !.late = req[p].late \ {"cap"}]
                    \/ req'[p] = req[p]
      BY Zenon DEF NewDay
    <3>. QED  BY <1>8, <3>1, <3>2 DEF Requests
  <2>. QED  BY <1>3, <2>1, <2>2
<1>9. CASE UNCHANGED vars
  BY <1>3, <1>9 DEF vars
<1>. QED  BY <1>1, <1>2, <1>5, <1>6, <1>7, <1>8, <1>9 DEF Next

(* However long it goes on and however many callers there are, the runs in  *)
(* flight exceed the plan's ceiling by fewer than were ever judged together.*)
THEOREM OvershootHolds == Spec => []OvershootIsBounded
<1>1. Init => CountInv
  <2>. SUFFICES ASSUME Init PROVE CountInv
    OBVIOUS
  <2>1. Running = {} /\ Passing = {}
    BY DEF Init, Running, Passing, NoRequest, Readers
  <2>. QED  BY <2>1, FS_EmptySet DEF Init, CountInv, OvershootIsBounded
<1>2. CountInv => OvershootIsBounded
  BY DEF CountInv
<1>. QED  BY <1>1, <1>2, CountStep, GateTyping, PTL DEF Spec


-----------------------------------------------------------------------------
(* Who pays, and until when. *)

Rows == [plan: PlanIds, status: {"ACTIVE", "PAST_DUE", "CANCELED"}, grace: Nat,
         customer: Payers \cup {Nobodys}, sub: Subs \cup {Nobodys}]

Tellings == [kind: {"payment", "subscription"},
             status: {"active", "past_due", "upcoming", "ended", "failed", "paid"}, date: 0..MaxDay,
             payer: Payers, sub: Subs \cup {Nobodys}, plan: {"pro", "unknown"},
             at: {"idle", "ids", "existing", "write", "done"}, tenant: Workspaces \cup {Nowhere},
             attributed: SUBSET (Workspaces \cup {Nowhere}), idsAreOurs: BOOLEAN,
             grace: Nat, begun: 0..MaxDay]

(* An event that reports a failure.                                         *)
Fails(e) == e.status \in {"failed", "past_due"}

(* What an event says, and what its handler has established: a workspace    *)
(* before it reads a row, a window before it writes one.                    *)
TellingOK(e) ==
  /\ e.kind = "payment" <=> e.status \in {"failed", "paid"}
  /\ e.begun <= day
  /\ e.at \in {"ids", "existing", "write"} =>
       /\ e.tenant \in Workspaces /\ e.tenant \in e.attributed
       /\ Undated(e) => e.begun # NoDate
  /\ e.at = "ids" => e.kind = "subscription"
  /\ e.at = "existing" => e.status # "paid"
  /\ e.at = "idle" => e.grace = NoDate
  /\ e.at = "write" => (e.grace # NoDate <=> Fails(e))

(* A window ends no later than a window after a failure of the workspace.   *)
GraceFrom(w, until) == \E i \in failuresOf(w) : until <= failedOn(report[i]) + Grace

ClerkSubs == [Subs -> [payer: Payers, plan: {"pro"}, status: {"active", "past_due"}, since: 0..MaxDay]]

PayInv ==
  /\ clerkSub \in ClerkSubs /\ joined \subseteq Workspaces
  /\ day \in 1..MaxDay /\ billingFaults \in 0..MaxBillingFaults
  /\ subscription \in [Workspaces -> Rows] /\ report \in Seq(Tellings)
  /\ \A i \in Reporting : TellingOK(report[i])

WindowInv ==
  /\ \A w \in Workspaces :
       /\ subscription[w].status = "PAST_DUE" <=> subscription[w].grace # NoDate
       /\ subscription[w].grace # NoDate => GraceFrom(w, subscription[w].grace)
  /\ \A i \in Reporting :
       report[i].at = "write" /\ report[i].grace # NoDate => GraceFrom(report[i].tenant, report[i].grace)

DunningInv == PayInv /\ WindowInv

(* A failure stays one of the workspace it was attributed to, on a day no   *)
(* earlier.                                                                 *)
FailuresStay ==
  \A i \in Reporting :
    /\ i \in Reporting' /\ report'[i].status = report[i].status
    /\ report[i].attributed \subseteq report'[i].attributed
    /\ Fails(report[i]) => failedOn(report[i]) <= failedOn(report'[i])

(* So a window that came from one still does.                               *)
LEMMA GraceStays ==
  ASSUME PayInv, report' \in Seq(Tellings), FailuresStay, NEW w \in Workspaces, NEW g \in Nat, GraceFrom(w, g)
  PROVE  GraceFrom(w, g)'
  <1>1. PICK i \in failuresOf(w) : g <= failedOn(report[i]) + Grace
    BY DEF GraceFrom
  <1>2. i \in Reporting /\ w \in report[i].attributed /\ Fails(report[i])
    BY DEF failuresOf, Fails
  <1>3. i \in Reporting' /\ w \in report'[i].attributed /\ Fails(report'[i]) /\ failedOn(report[i]) <= failedOn(report'[i])
    BY <1>2 DEF FailuresStay, Fails
  <1>4. failedOn(report[i]) \in Int /\ failedOn(report'[i]) \in Int
    <2>1. report[i] \in Tellings /\ report'[i] \in Tellings
      BY <1>2, <1>3 DEF PayInv, Reporting
    <2>. QED  BY <2>1, BillingAssumption DEF failedOn, dateOr, Tellings
  <1>5. i \in failuresOf(w)' /\ g <= failedOn(report'[i]) + Grace
    BY <1>1, <1>3, <1>4, BillingAssumption DEF failuresOf, Fails
  <1>. QED  BY <1>5 DEF GraceFrom, failedOn, dateOr

(* A step of one handler, or none: its event goes on from old to new.       *)
LEMMA TellingMoves ==
  ASSUME PayInv, NEW i \in Reporting, NEW new \in Tellings,
         report' = [report EXCEPT ![i] = new], day' = day, TellingOK(new),
         new.status = report[i].status, report[i].attributed \subseteq new.attributed,
         Fails(report[i]) => failedOn(report[i]) <= failedOn(new)
  PROVE  /\ report' \in Seq(Tellings) /\ Reporting' = Reporting
         /\ \A n \in Reporting : report'[n] = IF n = i THEN new ELSE report[n]
         /\ (\A n \in Reporting : TellingOK(report[n]))' /\ FailuresStay
  <1>1. report' \in Seq(Tellings) /\ Len(report') = Len(report)
    BY DEF PayInv, Reporting
  <1>2. \A n \in Reporting : report'[n] = IF n = i THEN new ELSE report[n]
    BY DEF PayInv, Reporting
  <1>3. Reporting' = Reporting
    BY <1>1 DEF Reporting
  <1>4. (\A n \in Reporting : TellingOK(report[n]))'
    BY <1>2, <1>3 DEF PayInv, TellingOK
  <1>5. FailuresStay
    <2>1. \A n \in Reporting : failedOn(report[n]) \in Int
      <3>1. \A n \in Reporting : report[n] \in Tellings
        BY DEF PayInv, Reporting
      <3>. QED  BY <3>1, BillingAssumption DEF failedOn, dateOr, Tellings
    <2>. QED  BY <1>2, <1>3, <2>1 DEF FailuresStay
  <1>. QED  BY <1>1, <1>2, <1>3, <1>4, <1>5

(* A handler that does not write.                                           *)
LEMMA HandlerReads ==
  ASSUME DunningInv, NEW i \in Reporting, NEW new \in Tellings,
         report' = [report EXCEPT ![i] = new], TellingOK(new),
         UNCHANGED <<clerkSub, joined, subscription, day>>, billingFaults' \in 0..MaxBillingFaults,
         new.status = report[i].status, report[i].attributed \subseteq new.attributed,
         Fails(report[i]) => failedOn(report[i]) <= failedOn(new),
         new.at = "write" /\ new.grace # NoDate => GraceFrom(new.tenant, new.grace)
  PROVE  DunningInv'
  <1>1. /\ report' \in Seq(Tellings) /\ Reporting' = Reporting
        /\ \A n \in Reporting : report'[n] = IF n = i THEN new ELSE report[n]
        /\ (\A n \in Reporting : TellingOK(report[n]))' /\ FailuresStay
    BY TellingMoves DEF DunningInv
  <1>2. PayInv'
    BY <1>1 DEF DunningInv, PayInv
  <1>3. ASSUME NEW w \in Workspaces, NEW g \in Nat, GraceFrom(w, g) PROVE GraceFrom(w, g)'
    BY <1>1, <1>3, GraceStays DEF DunningInv
  <1>4. ASSUME NEW w \in Workspaces
        PROVE  (/\ subscription[w].status = "PAST_DUE" <=> subscription[w].grace # NoDate
                /\ subscription[w].grace # NoDate => GraceFrom(w, subscription[w].grace))'
    <2>1. subscription[w].grace \in Nat
      BY DEF DunningInv, PayInv, Rows
    <2>2. subscription[w].grace # NoDate => GraceFrom(w, subscription[w].grace)'
      BY <1>3, <2>1 DEF DunningInv, WindowInv
    <2>. QED  BY <2>2 DEF DunningInv, WindowInv
  <1>5. ASSUME NEW n \in Reporting
        PROVE  (report[n].at = "write" /\ report[n].grace # NoDate => GraceFrom(report[n].tenant, report[n].grace))'
    <2>. SUFFICES ASSUME report'[n].at = "write", report'[n].grace # NoDate
                  PROVE  GraceFrom(report[n].tenant, report[n].grace)'
      OBVIOUS
    <2>1. report'[n] \in Tellings /\ TellingOK(report[n])'
      BY <1>1 DEF Reporting
    <2>2. PICK w \in Workspaces : w = report'[n].tenant
      BY <2>1 DEF TellingOK
    <2>3. PICK g \in Nat : g = report'[n].grace
      BY <2>1 DEF Tellings
    <2>4. GraceFrom(w, g)
      <3>1. CASE n = i
        BY <1>1, <2>2, <2>3, <3>1
      <3>2. CASE n # i
        BY <1>1, <2>2, <2>3, <3>2 DEF DunningInv, WindowInv
      <3>. QED  BY <3>1, <3>2
    <2>5. GraceFrom(w, g)'
      BY <1>3, <2>4
    <2>. QED  BY <2>2, <2>3, <2>5 DEF GraceFrom, failuresOf
  <1>6. WindowInv'
    <2>1. (\A n \in Reporting : report[n].at = "write" /\ report[n].grace # NoDate
             => GraceFrom(report[n].tenant, report[n].grace))'
      BY <1>1, <1>5
    <2>. QED  BY <1>4, <2>1 DEF WindowInv
  <1>. QED  BY <1>2, <1>6 DEF DunningInv

(* A handler takes up an event, looks up whose its ids are, reads the row,  *)
(* or fails.                                                                *)
LEMMA ReadSteps ==
  ASSUME DunningInv, NEW i \in Reporting,
         Attribute(i) \/ ReadIdsOwner(i) \/ ReadExisting(i) \/ HandlerRepeats(i)
  PROVE  DunningInv'
  <1>. DEFINE e == report[i]
  <1>1. /\ e \in Tellings /\ TellingOK(e) /\ day \in 1..MaxDay /\ PayInv /\ day # NoDate
        /\ \A w \in Workspaces : w # Nowhere
    BY BillingAssumption DEF DunningInv, PayInv, Reporting, NoDate, Nowhere
  <1>2. CASE Attribute(i)
    <2>1. PICK w \in resolveTenantId(e) :
            Step(i, [e EXCEPT !.tenant = w, !.attributed = @ \cup {w}, !.begun = IF Undated(e) THEN day ELSE NoDate,
                              !.at = FirstPlace(e, w)])
      BY <1>2, Zenon DEF Attribute
    <2>. DEFINE place == FirstPlace(e, w)
                begun == IF Undated(e) THEN day ELSE NoDate
                new == [e EXCEPT !.tenant = w, !.attributed = @ \cup {w}, !.begun = begun, !.at = place]
    <2>2. w \in Workspaces \cup {Nowhere}
      BY <1>1 DEF resolveTenantId, PayInv, findTenantIdForBillingCustomer
    <2>3. /\ place \in {"done", "ids", "write", "existing"}
          /\ place \in {"ids", "write", "existing"} => w # Nowhere
          /\ place = "ids" => e.kind = "subscription"
          /\ place = "write" => e.status = "paid"
          /\ place = "existing" => e.status # "paid"
      BY <1>1 DEF TellingOK, FirstPlace
    <2>4. begun \in 0..MaxDay /\ begun <= day /\ (Undated(e) => begun = day /\ e.begun <= begun)
      BY <1>1, BillingAssumption DEF NoDate, TellingOK, Tellings
    <2>5. new \in Tellings /\ /\ new.tenant = w /\ new.attributed = e.attributed \cup {w} /\ new.begun = begun
          /\ new.at = place /\ new.kind = e.kind /\ new.status = e.status /\ new.date = e.date /\ new.grace = e.grace
      <3>. HIDE DEF place, begun
      <3>. QED  BY <1>1, <2>2, <2>3, <2>4 DEF Tellings
    <2>6. e.at = "idle" /\ UNCHANGED <<clerkSub, joined, subscription, day, billingFaults>>
      BY <1>2, Zenon DEF Attribute, Handling
    <2>7. e.grace = NoDate
      BY <1>1, <2>6 DEF TellingOK
    <2>8. Undated(new) <=> Undated(e)
      BY <2>5 DEF Undated
    <2>9. TellingOK(new)
      <3>. HIDE DEF new, place, begun
      <3>. QED  BY <1>1, <2>2, <2>3, <2>4, <2>5, <2>7, <2>8 DEF TellingOK, Fails
    <2>10. Fails(e) => failedOn(e) <= failedOn(new)
      <3>. HIDE DEF new, begun
      <3>. QED  BY <1>1, <2>4, <2>5 DEF Fails, failedOn, dateOr, Undated, Tellings
    <2>11. report' = [report EXCEPT ![i] = new] /\ billingFaults' \in 0..MaxBillingFaults
      BY <1>1, <2>1, <2>6 DEF PayInv, Step
    <2>. HIDE DEF new
    <2>. QED  BY <2>5, <2>6, <2>7, <2>9, <2>10, <2>11, HandlerReads
  <1>3. CASE ReadIdsOwner(i)
    <2>1. PICK ours \in BOOLEAN : Step(i, [e EXCEPT !.idsAreOurs = ours, !.at = "existing"])
      BY <1>3, Zenon DEF ReadIdsOwner
    <2>. DEFINE new == [e EXCEPT !.idsAreOurs = ours, !.at = "existing"]
    <2>2. /\ new \in Tellings /\ new.tenant = e.tenant /\ new.attributed = e.attributed /\ new.begun = e.begun
          /\ new.at = "existing" /\ new.kind = e.kind /\ new.status = e.status /\ new.date = e.date
      BY <1>1 DEF Tellings
    <2>3. e.at = "ids" /\ UNCHANGED <<clerkSub, joined, subscription, day, billingFaults>>
      BY <1>3, Zenon DEF ReadIdsOwner, Handling
    <2>4. TellingOK(new) /\ failedOn(e) <= failedOn(new)
      <3>. HIDE DEF new
      <3>. QED  BY <1>1, <2>2, <2>3 DEF TellingOK, Undated, Tellings, failedOn, dateOr
    <2>5. report' = [report EXCEPT ![i] = new] /\ billingFaults' \in 0..MaxBillingFaults
      BY <1>1, <2>1, <2>3 DEF PayInv, Step
    <2>. HIDE DEF new
    <2>. QED  BY <2>2, <2>3, <2>4, <2>5, HandlerReads
  <1>4. CASE HandlerRepeats(i)
    <2>. DEFINE new == [e EXCEPT !.at = "idle", !.idsAreOurs = TRUE, !.grace = NoDate]
    <2>1. /\ new \in Tellings /\ new.tenant = e.tenant /\ new.attributed = e.attributed /\ new.begun = e.begun
          /\ new.at = "idle" /\ new.kind = e.kind /\ new.status = e.status /\ new.date = e.date /\ new.grace = NoDate
      BY <1>1 DEF Tellings, NoDate
    <2>2. TellingOK(new) /\ failedOn(e) <= failedOn(new)
      <3>. HIDE DEF new
      <3>. QED  BY <1>1, <2>1 DEF TellingOK, Undated, Tellings, failedOn, dateOr
    <2>3. /\ report' = [report EXCEPT ![i] = new] /\ billingFaults' \in 0..MaxBillingFaults
          /\ UNCHANGED <<clerkSub, joined, subscription, day>>
      BY <1>1, <1>4, BillingAssumption DEF HandlerRepeats, Step, PayInv
    <2>. HIDE DEF new
    <2>. QED  BY <2>1, <2>2, <2>3, HandlerReads
  <1>5. CASE ReadExisting(i)
    <2>. DEFINE row == subscription[e.tenant]
                until == graceOf(e, row)
                new == [e EXCEPT !.grace = until, !.at = "write"]
    <2>1. e.at = "existing" /\ UNCHANGED <<clerkSub, joined, subscription, day, billingFaults>>
      BY <1>5 DEF ReadExisting, Handling
    <2>2. e.tenant \in Workspaces /\ row \in Rows /\ e.tenant \in e.attributed /\ e.status # "paid"
      BY <1>1, <2>1 DEF TellingOK, PayInv
    <2>3. Fails(e) <=> e.kind = "payment" \/ mapSubscriptionStatus(e.status) = "PAST_DUE"
      BY <1>1, <2>2 DEF TellingOK, Tellings, Fails, mapSubscriptionStatus
    <2>4. Fails(e) => failedOn(e) \in Nat \ {0}
      BY <1>1, <2>1 DEF TellingOK, Tellings, Fails, Undated, failedOn, dateOr, NoDate
    <2>5. until = IF ~Fails(e) THEN NoDate
                  ELSE IF row.status = "PAST_DUE" /\ row.grace # NoDate THEN row.grace ELSE failedOn(e) + Grace
      <3>. HIDE DEF row
      <3>. QED  BY <2>3 DEF graceOf, graceDeadline, failedOn
    <2>6. until \in Nat /\ (until # NoDate <=> Fails(e))
      <3>. HIDE DEF until, row
      <3>. QED  BY <2>2, <2>4, <2>5, BillingAssumption DEF Rows, NoDate
    <2>7. until # NoDate => GraceFrom(e.tenant, until)
      <3>1. CASE row.status = "PAST_DUE" /\ row.grace # NoDate
        <4>1. GraceFrom(e.tenant, row.grace)
          BY <2>2, <3>1 DEF DunningInv, WindowInv
        <4>. QED  BY <2>5, <3>1, <4>1, <2>6
      <3>2. CASE ~(row.status = "PAST_DUE" /\ row.grace # NoDate) /\ Fails(e)
        <4>1. i \in failuresOf(e.tenant) /\ until = failedOn(report[i]) + Grace
          BY <2>2, <2>5, <3>2 DEF failuresOf, Fails
        <4>2. until <= failedOn(report[i]) + Grace
          <5>. HIDE DEF until
          <5>. QED  BY <2>6, <4>1
        <4>. QED  BY <4>1, <4>2 DEF GraceFrom
      <3>. QED  BY <2>6, <3>1, <3>2
    <2>8. /\ new \in Tellings /\ new.tenant = e.tenant /\ new.attributed = e.attributed /\ new.begun = e.begun
          /\ new.at = "write" /\ new.kind = e.kind /\ new.status = e.status /\ new.date = e.date /\ new.grace = until
      <3>. HIDE DEF until
      <3>. QED  BY <1>1, <2>6 DEF Tellings
    <2>9. TellingOK(new) /\ failedOn(e) <= failedOn(new)
      <3>. HIDE DEF new, until
      <3>. QED  BY <1>1, <2>1, <2>6, <2>8 DEF TellingOK, Undated, Tellings, failedOn, dateOr, Fails
    <2>10. report' = [report EXCEPT ![i] = new] /\ billingFaults' \in 0..MaxBillingFaults
      BY <1>1, <1>5, <2>1 DEF PayInv, ReadExisting, Step
    <2>11. GraceFrom(new.tenant, new.grace) \/ new.grace = NoDate
      <3>. HIDE DEF new, until
      <3>. QED  BY <2>7, <2>8
    <2>. HIDE DEF new
    <2>. QED  BY <2>1, <2>8, <2>9, <2>10, <2>11, HandlerReads
  <1>. QED  BY <1>2, <1>3, <1>4, <1>5

(* What an upsert leaves in a row: the window it had, the event's, or none. *)
LEMMA RowWritten ==
  ASSUME NEW e \in Tellings, TellingOK(e), NEW old \in Rows, e.grace # NoDate <=> Fails(e)
  PROVE  LET row == applyBillingEvent(e, old) IN
         /\ row \in Rows
         /\ \/ row.status = old.status /\ row.grace = old.grace
            \/ row.grace = e.grace /\ (row.status = "PAST_DUE" <=> e.grace # NoDate)
            \/ row.grace = NoDate /\ row.status # "PAST_DUE"
  <1>1. CASE e.kind = "payment"
    <2>1. e.status \in {"failed", "paid"}
      BY <1>1 DEF TellingOK
    <2>. QED  BY <1>1, <2>1 DEF applyBillingEvent, applyPaymentAttemptEvent, Rows, Tellings, NoDate, Fails
  <1>2. CASE e.kind = "subscription"
    <2>. DEFINE status == mapSubscriptionStatus(e.status)
                plan == planFromItems(e, old.plan)
    <2>1. /\ status \in {"ACTIVE", "PAST_DUE", "CANCELED", "unchanged"}
          /\ status = "PAST_DUE" <=> Fails(e)
      BY <1>2 DEF Tellings, TellingOK, mapSubscriptionStatus, Fails
    <2>2. plan \in PlanIds
      BY DEF planFromItems, Rows
    <2>3. applyBillingEvent(e, old) =
            [old EXCEPT !.plan = plan,
                        !.status = IF status = "unchanged" THEN old.status ELSE status,
                        !.grace = IF status = "unchanged" THEN old.grace ELSE e.grace,
                        !.customer = IF e.idsAreOurs THEN e.payer ELSE old.customer,
                        !.sub = IF e.idsAreOurs THEN e.sub ELSE old.sub]
      BY <1>2 DEF applyBillingEvent, applySubscriptionEvent
    <2>. HIDE DEF status, plan
    <2>. QED  BY <2>1, <2>2, <2>3 DEF Rows, Tellings
  <1>. QED  BY <1>1, <1>2 DEF Tellings

(* A handler writes the row and is done, or finds an id taken and starts    *)
(* over.                                                                    *)
LEMMA WriteStep ==
  ASSUME DunningInv, NEW i \in Reporting, upsertSubscription(i)
  PROVE  DunningInv'
  <1>. DEFINE e == report[i]
              old == subscription[e.tenant]
              row == applyBillingEvent(e, old)
              taken == \E w \in Workspaces \ {e.tenant} :
                         \/ row.customer # Nobodys /\ subscription[w].customer = row.customer
                         \/ row.sub # Nobodys /\ subscription[w].sub = row.sub
  <1>1. /\ e \in Tellings /\ TellingOK(e) /\ PayInv
    BY DEF DunningInv, PayInv, Reporting
  <1>2. /\ e.at = "write" /\ UNCHANGED <<clerkSub, joined, day, billingFaults>>
        /\ \/ /\ subscription' = [subscription EXCEPT ![e.tenant] = row]
              /\ Step(i, [e EXCEPT !.at = "done", !.idsAreOurs = TRUE, !.grace = NoDate])
           \/ /\ Step(i, [e EXCEPT !.at = "idle", !.idsAreOurs = TRUE, !.grace = NoDate])
              /\ UNCHANGED subscription
    <2>1. e.at = "write" /\ Handling /\
          \/ /\ ~taken /\ subscription' = [subscription EXCEPT ![e.tenant] = row]
             /\ Step(i, [e EXCEPT !.at = "done", !.idsAreOurs = TRUE, !.grace = NoDate])
          \/ /\ taken /\ Step(i, [e EXCEPT !.at = "idle", !.idsAreOurs = TRUE, !.grace = NoDate])
             /\ UNCHANGED subscription
      BY Zenon DEF upsertSubscription
    <2>. HIDE DEF taken, row, e
    <2>. QED  BY <2>1 DEF Handling
  <1>3. e.tenant \in Workspaces /\ old \in Rows /\ (e.grace # NoDate <=> Fails(e))
    BY <1>1, <1>2 DEF TellingOK, PayInv
  <1>4. ASSUME NEW place \in {"done", "idle"}, NEW new, new = [e EXCEPT !.at = place, !.idsAreOurs = TRUE, !.grace = NoDate]
        PROVE  /\ new \in Tellings /\ new.at = place /\ new.status = e.status /\ new.attributed = e.attributed
               /\ TellingOK(new) /\ (Fails(e) => failedOn(e) <= failedOn(new))
    <2>1. /\ new \in Tellings /\ new.tenant = e.tenant /\ new.attributed = e.attributed /\ new.begun = e.begun
          /\ new.at = place /\ new.kind = e.kind /\ new.status = e.status /\ new.date = e.date /\ new.grace = NoDate
      BY <1>1, <1>4 DEF Tellings, NoDate
    <2>. HIDE DEF e
    <2>. QED  BY <1>1, <2>1 DEF TellingOK, Tellings, failedOn, dateOr
  <1>5. CASE /\ Step(i, [e EXCEPT !.at = "idle", !.idsAreOurs = TRUE, !.grace = NoDate])
             /\ UNCHANGED subscription
    <2>. DEFINE new == [e EXCEPT !.at = "idle", !.idsAreOurs = TRUE, !.grace = NoDate]
    <2>1. report' = [report EXCEPT ![i] = new] /\ billingFaults' \in 0..MaxBillingFaults
      BY <1>1, <1>2, <1>5 DEF Step, PayInv
    <2>2. /\ new \in Tellings /\ new.at = "idle" /\ new.status = e.status /\ new.attributed = e.attributed
          /\ TellingOK(new) /\ (Fails(e) => failedOn(e) <= failedOn(new))
      BY <1>4
    <2>. HIDE DEF new
    <2>. QED  BY <1>2, <1>5, <2>1, <2>2, HandlerReads
  <1>6. CASE /\ subscription' = [subscription EXCEPT ![e.tenant] = row]
             /\ Step(i, [e EXCEPT !.at = "done", !.idsAreOurs = TRUE, !.grace = NoDate])
    <2>. DEFINE new == [e EXCEPT !.at = "done", !.idsAreOurs = TRUE, !.grace = NoDate]
    <2>1. report' = [report EXCEPT ![i] = new]
      BY <1>6 DEF Step
    <2>2. /\ new \in Tellings /\ new.at = "done" /\ new.status = e.status /\ new.attributed = e.attributed
          /\ TellingOK(new) /\ (Fails(e) => failedOn(e) <= failedOn(new))
      BY <1>4
    <2>3. /\ report' \in Seq(Tellings) /\ Reporting' = Reporting
          /\ \A n \in Reporting : report'[n] = IF n = i THEN new ELSE report[n]
          /\ (\A n \in Reporting : TellingOK(report[n]))' /\ FailuresStay
      <3>. HIDE DEF new
      <3>. QED  BY <1>1, <1>2, <2>1, <2>2, TellingMoves
    <2>4. /\ row \in Rows
          /\ \/ row.status = old.status /\ row.grace = old.grace
             \/ row.grace = e.grace /\ (row.status = "PAST_DUE" <=> e.grace # NoDate)
             \/ row.grace = NoDate /\ row.status # "PAST_DUE"
      BY <1>1, <1>3, RowWritten
    <2>5. subscription' \in [Workspaces -> Rows] /\ subscription'[e.tenant] = row
          /\ \A w \in Workspaces \ {e.tenant} : subscription'[w] = subscription[w]
      <3>. HIDE DEF row
      <3>. QED  BY <1>1, <1>3, <1>6, <2>4 DEF PayInv
    <2>6. PayInv'
      <3>. HIDE DEF row, new
      <3>. QED  BY <1>1, <1>2, <2>3, <2>5 DEF PayInv
    <2>7. ASSUME NEW w \in Workspaces, NEW g \in Nat, GraceFrom(w, g) PROVE GraceFrom(w, g)'
      <3>. HIDE DEF row, new
      <3>. QED  BY <1>1, <2>3, <2>7, GraceStays
    <2>8. ASSUME NEW w \in Workspaces
          PROVE  (/\ subscription[w].status = "PAST_DUE" <=> subscription[w].grace # NoDate
                  /\ subscription[w].grace # NoDate => GraceFrom(w, subscription[w].grace))'
      <3>1. CASE w # e.tenant
        <4>1. subscription'[w] = subscription[w] /\ subscription[w].grace \in Nat
          BY <1>1, <2>5, <3>1 DEF PayInv, Rows
        <4>2. subscription[w].grace # NoDate => GraceFrom(w, subscription[w].grace)'
          BY <2>7, <4>1 DEF DunningInv, WindowInv
        <4>. QED  BY <4>1, <4>2 DEF DunningInv, WindowInv, GraceFrom, failuresOf
      <3>2. CASE w = e.tenant
        <4>1. /\ old.status = "PAST_DUE" <=> old.grace # NoDate
              /\ old.grace # NoDate => GraceFrom(w, old.grace)
              /\ e.grace # NoDate => GraceFrom(w, e.grace)
          BY <1>2, <1>3, <3>2 DEF DunningInv, WindowInv
        <4>2. old.grace \in Nat /\ e.grace \in Nat /\ row.grace \in Nat
          BY <1>1, <1>3, <2>4 DEF Rows, Tellings
        <4>3. /\ row.status = "PAST_DUE" <=> row.grace # NoDate
              /\ row.grace # NoDate => GraceFrom(w, row.grace)
          <5>. HIDE DEF row, old, e
          <5>. QED  BY <2>4, <4>1
        <4>4. PICK g \in Nat : g = row.grace
          BY <4>2
        <4>. HIDE DEF row
        <4>5. g # NoDate => GraceFrom(w, g)'
          BY <2>7, <4>3, <4>4
        <4>6. subscription'[w].status = row.status /\ subscription'[w].grace = g
          BY <2>5, <3>2, <4>4
        <4>. QED  BY <4>3, <4>4, <4>5, <4>6 DEF GraceFrom, failuresOf
      <3>. QED  BY <3>1, <3>2
    <2>9. ASSUME NEW n \in Reporting
          PROVE  (report[n].at = "write" /\ report[n].grace # NoDate => GraceFrom(report[n].tenant, report[n].grace))'
      <3>. SUFFICES ASSUME report'[n].at = "write", report'[n].grace # NoDate
                    PROVE  GraceFrom(report[n].tenant, report[n].grace)'
        OBVIOUS
      <3>1. report'[n] = report[n] /\ report[n] \in Tellings /\ TellingOK(report[n])
        <4>. HIDE DEF new
        <4>. QED  BY <1>1, <2>2, <2>3 DEF PayInv, Reporting
      <3>2. PICK w \in Workspaces : w = report[n].tenant
        BY <3>1 DEF TellingOK
      <3>3. PICK g \in Nat : g = report[n].grace
        BY <3>1 DEF Tellings
      <3>4. GraceFrom(w, g)'
        BY <2>7, <3>1, <3>2, <3>3 DEF DunningInv, WindowInv
      <3>. QED  BY <3>1, <3>2, <3>3, <3>4 DEF GraceFrom, failuresOf
    <2>10. WindowInv'
      <3>1. (\A n \in Reporting : report[n].at = "write" /\ report[n].grace # NoDate
               => GraceFrom(report[n].tenant, report[n].grace))'
        BY <2>3, <2>9
      <3>. QED  BY <2>8, <3>1 DEF WindowInv
    <2>. QED  BY <2>6, <2>10 DEF DunningInv
  <1>. QED  BY <1>2, <1>5, <1>6

(* Clerk reports something, or moves a subscription to another payer.       *)
LEMMA ClerkSteps ==
  ASSUME DunningInv, NEW s \in Subs,
         ClerkChargeFails(s) \/ ClerkChargePays(s) \/ ClerkTellsSubscription(s) \/ ClerkMovesSubscription(s)
  PROVE  DunningInv'
  <1>1. PayInv /\ WindowInv /\ clerkSub[s] \in [payer: Payers, plan: {"pro"}, status: {"active", "past_due"}, since: 0..MaxDay]
    BY DEF DunningInv, PayInv, ClerkSubs
  <1>2. UNCHANGED <<joined, subscription, day, billingFaults>>
    BY DEF ClerkChargeFails, ClerkChargePays, ClerkTellsSubscription, ClerkMovesSubscription, Reports
  <1>3. clerkSub' \in ClerkSubs
    <2>1. day \in 0..MaxDay
      BY <1>1 DEF PayInv
    <2>2. CASE ClerkChargeFails(s)
      BY <1>1, <2>1, <2>2 DEF PayInv, ClerkChargeFails, ClerkSubs
    <2>3. CASE ClerkChargePays(s)
      BY <1>1, <2>3 DEF PayInv, ClerkChargePays, ClerkSubs
    <2>4. CASE ClerkTellsSubscription(s)
      BY <1>1, <2>4 DEF PayInv, ClerkTellsSubscription
    <2>5. CASE ClerkMovesSubscription(s)
      BY <1>1, <2>5 DEF PayInv, ClerkMovesSubscription, ClerkSubs
    <2>. QED  BY <2>2, <2>3, <2>4, <2>5
  <1>4. \/ UNCHANGED report
        \/ \E r \in Tellings : r.at = "idle" /\ TellingOK(r)' /\ report' = Append(report, r)
    <2>1. CASE ClerkMovesSubscription(s)
      BY <2>1 DEF ClerkMovesSubscription
    <2>2. ASSUME NEW kind \in {"payment", "subscription"}, NEW date \in 0..MaxDay,
                 NEW status \in {"active", "past_due", "upcoming", "ended", "failed", "paid"},
                 kind = "payment" <=> status \in {"failed", "paid"}, Report(kind, s, status, date)
          PROVE  \E r \in Tellings : r.at = "idle" /\ TellingOK(r)' /\ report' = Append(report, r)
      <3>. DEFINE r == [kind |-> kind, status |-> status, date |-> date,
                        payer |-> clerkSub[s].payer,
                        sub |-> IF kind = "subscription" THEN s ELSE Nobodys,
                        plan |-> IF kind = "subscription" THEN clerkSub[s].plan ELSE "unknown",
                        at |-> "idle", tenant |-> Nowhere, attributed |-> {}, idsAreOurs |-> TRUE,
                        grace |-> NoDate, begun |-> NoDate]
      <3>1. r \in Tellings
        BY <1>1, BillingAssumption DEF Tellings, NoDate
      <3>2. report' = Append(report, r)
        BY <2>2, Zenon DEF Report
      <3>3. PICK new : new = r
        OBVIOUS
      <3>4. TellingOK(new)' /\ new.at = "idle"
        BY <1>1, <1>2, <2>2, <3>3 DEF TellingOK, NoDate, PayInv
      <3>. HIDE DEF r
      <3>. QED  BY <3>1, <3>2, <3>3, <3>4
    <2>3. day \in 0..MaxDay /\ NoDate \in 0..MaxDay
      BY <1>1, BillingAssumption DEF PayInv, NoDate
    <2>4. CASE ClerkChargeFails(s)
      BY <2>2, <2>3, <2>4 DEF ClerkChargeFails
    <2>5. CASE ClerkChargePays(s)
      BY <2>2, <2>3, <2>5 DEF ClerkChargePays
    <2>6. CASE ClerkTellsSubscription(s)
      <3>1. PICK status \in {clerkSub[s].status, "upcoming", "ended"} :
              Report("subscription", s, status, IF status = "past_due" THEN clerkSub[s].since ELSE NoDate)
        BY <2>6, Zenon DEF ClerkTellsSubscription
      <3>2. PICK date \in 0..MaxDay : Report("subscription", s, status, date)
        BY <1>1, <2>3, <3>1
      <3>. QED  BY <1>1, <2>2, <3>2
    <2>. QED  BY <2>1, <2>4, <2>5, <2>6
  <1>5. CASE UNCHANGED report
    BY <1>1, <1>2, <1>3, <1>5 DEF DunningInv, PayInv, WindowInv, Reporting, TellingOK, Undated, Fails, GraceFrom, failuresOf, failedOn, dateOr
  <1>6. CASE \E r \in Tellings : r.at = "idle" /\ TellingOK(r)' /\ report' = Append(report, r)
    <2>1. PICK r \in Tellings : r.at = "idle" /\ TellingOK(r)' /\ report' = Append(report, r)
      BY <1>6
    <2>2. /\ report' \in Seq(Tellings) /\ Reporting' = Reporting \cup {Len(report) + 1}
          /\ report'[Len(report) + 1] = r /\ \A n \in Reporting : report'[n] = report[n] /\ report[n] \in Tellings
      BY <1>1, <2>1 DEF PayInv, Reporting
    <2>3. FailuresStay
      <3>1. \A n \in Reporting : failedOn(report[n]) \in Int /\ report'[n] = report[n]
        BY <2>2, BillingAssumption DEF failedOn, dateOr, Tellings
      <3>. QED  BY <2>2, <3>1 DEF FailuresStay
    <2>4. (\A n \in Reporting : TellingOK(report[n]))'
      <3>1. \A n \in Reporting : TellingOK(report[n])'
        BY <1>1, <1>2, <2>2 DEF PayInv, TellingOK
      <3>2. ASSUME NEW n, n = Len(report) + 1 PROVE TellingOK(report[n])'
        BY <2>1, <2>2, <3>2 DEF TellingOK
      <3>. QED  BY <2>2, <3>1, <3>2
    <2>5. PayInv'
      BY <1>1, <1>2, <1>3, <2>2, <2>4 DEF PayInv
    <2>6. ASSUME NEW w \in Workspaces, NEW g \in Nat, GraceFrom(w, g) PROVE GraceFrom(w, g)'
      BY <1>1, <2>2, <2>3, <2>6, GraceStays
    <2>7. ASSUME NEW w \in Workspaces
          PROVE  (/\ subscription[w].status = "PAST_DUE" <=> subscription[w].grace # NoDate
                  /\ subscription[w].grace # NoDate => GraceFrom(w, subscription[w].grace))'
      <3>1. subscription'[w] = subscription[w] /\ subscription[w].grace \in Nat
        BY <1>1, <1>2 DEF PayInv, Rows
      <3>2. subscription[w].grace # NoDate => GraceFrom(w, subscription[w].grace)'
        BY <1>1, <2>6, <3>1 DEF WindowInv
      <3>. QED  BY <1>1, <3>1, <3>2 DEF WindowInv, GraceFrom, failuresOf
    <2>8. ASSUME NEW n \in Reporting'
          PROVE  (report[n].at = "write" /\ report[n].grace # NoDate => GraceFrom(report[n].tenant, report[n].grace))'
      <3>. SUFFICES ASSUME report'[n].at = "write", report'[n].grace # NoDate
                    PROVE  GraceFrom(report[n].tenant, report[n].grace)'
        OBVIOUS
      <3>1. n \in Reporting /\ report'[n] = report[n] /\ report[n] \in Tellings /\ TellingOK(report[n])
        BY <1>1, <2>1, <2>2 DEF PayInv
      <3>2. PICK w \in Workspaces : w = report[n].tenant
        BY <3>1 DEF TellingOK
      <3>3. PICK g \in Nat : g = report[n].grace
        BY <3>1 DEF Tellings
      <3>4. GraceFrom(w, g)'
        BY <1>1, <2>6, <3>1, <3>2, <3>3 DEF WindowInv
      <3>. QED  BY <3>1, <3>2, <3>3, <3>4 DEF GraceFrom, failuresOf
    <2>9. WindowInv'
      BY <2>7, <2>8 DEF WindowInv
    <2>. QED  BY <2>5, <2>9 DEF DunningInv
  <1>. QED  BY <1>4, <1>5, <1>6

(* Every step but those of the handlers and of Clerk leaves windows alone.  *)
LEMMA OtherSteps ==
  ASSUME DunningInv, NextDay \/ (\E w \in Workspaces : ensureUnmeteredPlan(w)) \/ UNCHANGED billingVars
  PROVE  DunningInv'
  <1>1. PayInv /\ WindowInv
    BY DEF DunningInv
  <1>2. CASE NextDay
    <2>1. UNCHANGED <<clerkSub, joined, subscription, report, billingFaults>> /\ day' \in 1..MaxDay /\ day <= day'
      BY <1>1, <1>2, BillingAssumption DEF NextDay, PayInv
    <2>2. PayInv'
      <3>1. \A i \in Reporting : report[i].begun \in Int
        <4>1. \A i \in Reporting : report[i] \in Tellings
          BY <1>1 DEF PayInv, Reporting
        <4>. QED  BY <4>1 DEF Tellings
      <3>2. (\A i \in Reporting : TellingOK(report[i]))'
        BY <1>1, <2>1, <3>1 DEF PayInv, Reporting, TellingOK, Undated, Fails
      <3>. QED  BY <1>1, <2>1, <3>2 DEF PayInv
    <2>. QED  BY <1>1, <2>1, <2>2 DEF DunningInv, WindowInv, Reporting, GraceFrom, failuresOf, failedOn, dateOr
  <1>3. ASSUME NEW w \in Workspaces, ensureUnmeteredPlan(w) PROVE DunningInv'
    <2>. DEFINE row == [subscription[w] EXCEPT !.plan = "enterprise"]
    <2>1. /\ subscription' = [subscription EXCEPT ![w].plan = "enterprise"]
          /\ UNCHANGED <<clerkSub, joined, report, day, billingFaults>>
      BY <1>3 DEF ensureUnmeteredPlan, Handling
    <2>2. row \in Rows /\ row.status = subscription[w].status /\ row.grace = subscription[w].grace
      <3>1. subscription[w] \in Rows /\ "enterprise" \in PlanIds
        BY <1>1 DEF PayInv, PlanIds, PLAN_IDS
      <3>. QED  BY <3>1 DEF Rows
    <2>3. subscription' = [subscription EXCEPT ![w] = row]
      BY <2>1
    <2>4. /\ subscription' \in [Workspaces -> Rows]
          /\ \A v \in Workspaces : /\ subscription'[v].status = subscription[v].status
                                   /\ subscription'[v].grace = subscription[v].grace
      <3>. HIDE DEF row
      <3>. QED  BY <1>1, <2>2, <2>3 DEF PayInv
    <2>5. PayInv'
      BY <1>1, <2>1, <2>4 DEF PayInv, Reporting, TellingOK, Undated, Fails
    <2>. QED  BY <1>1, <2>1, <2>4, <2>5 DEF DunningInv, WindowInv, Reporting, GraceFrom, failuresOf, failedOn, dateOr
  <1>4. CASE UNCHANGED billingVars
    BY <1>1, <1>4 DEF billingVars, DunningInv, PayInv, WindowInv, Reporting, TellingOK, Undated, Fails, GraceFrom, failuresOf, failedOn, dateOr
  <1>. QED  BY <1>2, <1>3, <1>4

(* The rows, the events and their windows, in every state that a workspace  *)
(* can be billed into.                                                      *)
THEOREM BillingInvariant == BillingSpec => []DunningInv
  <1>1. BillingInit => DunningInv
    <2>. SUFFICES ASSUME BillingInit PROVE DunningInv
      OBVIOUS
    <2>1. freeSubscription \in Rows /\ freeSubscription.status = "ACTIVE" /\ freeSubscription.grace = NoDate
      BY DEF freeSubscription, Rows, NoDate, PlanIds, PLAN_IDS, DEFAULT_PLAN_ID
    <2>2. report \in Seq(Tellings) /\ Reporting = {}
      BY DEF BillingInit, Reporting
    <2>3. \A w \in Workspaces : subscription[w] = freeSubscription
      BY DEF BillingInit
    <2>4. subscription \in [Workspaces -> Rows]
      BY <2>1 DEF BillingInit
    <2>5. clerkSub \in ClerkSubs
      BY BillingAssumption DEF BillingInit, ClerkSubs, NoDate
    <2>6. PayInv
      BY <2>2, <2>4, <2>5, BillingAssumption DEF BillingInit, PayInv
    <2>. QED  BY <2>1, <2>2, <2>3, <2>6 DEF DunningInv, WindowInv
  <1>2. DunningInv /\ [BillingNext]_billingVars => DunningInv'
    <2>. SUFFICES ASSUME DunningInv, [BillingNext]_billingVars PROVE DunningInv'
      OBVIOUS
    <2>. QED  BY ReadSteps, WriteStep, ClerkSteps, OtherSteps DEF BillingNext
  <1>. QED  BY <1>1, <1>2, PTL DEF BillingSpec

(* What the rows and the events are, and that a row has a window exactly    *)
(* when it is past due (BillingTypeOK).                                     *)
THEOREM BillingTyped == BillingSpec => []BillingTypeOK
  <1>1. DunningInv => BillingTypeOK
    <2>. SUFFICES ASSUME DunningInv PROVE BillingTypeOK
      OBVIOUS
    <2>1. \A i \in Reporting : report[i].at \in {"idle", "ids", "existing", "write", "done"}
      <3>1. \A i \in Reporting : report[i] \in Tellings
        BY DEF DunningInv, PayInv, Reporting
      <3>. QED  BY <3>1 DEF Tellings
    <2>. QED  BY <2>1 DEF DunningInv, PayInv, WindowInv, Rows, BillingTypeOK
  <1>. QED  BY <1>1, BillingInvariant, PTL

(* Grace ends: a workspace that is past due and whose failures are all      *)
(* older than the window starts no run (DunningEnds).                       *)
THEOREM DunningHolds == BillingSpec => []DunningEnds
  <1>1. DunningInv => DunningEnds
    <2>. SUFFICES ASSUME DunningInv, NEW w \in Workspaces, subscription[w].status = "PAST_DUE",
                         \A i \in failuresOf(w) : failedOn(report[i]) + Grace <= day,
                         NEW snapshot \in {[l \in {QUOTA_LIMITS[i] : i \in 1..4} |-> 0]}
                  PROVE  assertRunAllowed(w, snapshot) = "payment_required"
      BY DEF DunningEnds
    <2>1. subscription[w].grace # NoDate /\ subscription[w].grace \in Nat
      BY DEF DunningInv, WindowInv, PayInv, Rows
    <2>2. PICK i \in failuresOf(w) : subscription[w].grace <= failedOn(report[i]) + Grace
      BY <2>1 DEF DunningInv, WindowInv, GraceFrom
    <2>3. report[i] \in Tellings
      BY DEF DunningInv, PayInv, Reporting, failuresOf
    <2>4. failedOn(report[i]) \in Int /\ day \in Int
      BY <2>3 DEF DunningInv, PayInv, Tellings, failedOn, dateOr
    <2>5. ~withinGrace(subscription[w])
      BY <2>1, <2>2, <2>4, BillingAssumption DEF withinGrace
    <2>. QED  BY <2>5 DEF assertRunAllowed, loadBilling, resolveAccess
  <1>. QED  BY <1>1, BillingInvariant, PTL


-----------------------------------------------------------------------------
(* The ceiling stamped on a run. *)

LimitNames == {"monthly_runs", "monthly_tokens", "monthly_cost", "concurrent_runs"}

(* Usage as the database counts it.                                         *)
Snapshots == [monthly_runs: Nat, monthly_tokens: Nat, monthly_cost: Nat, concurrent_runs: Nat]

LEMMA Ceilings ==
  ASSUME NEW plan \in PlanIds, NEW limit \in LimitNames
  PROVE  PLANS[plan].limits[limit] \in Nat \ {0} \/ PLANS[plan].limits[limit] = Unlimited
  <1>1. plan \in {"free", "pro", "team", "enterprise"}
    BY DEF PlanIds, PLAN_IDS
  <1>2. CASE plan = "free"
    BY <1>2 DEF PLANS, LimitNames, Unlimited
  <1>3. CASE plan = "pro"
    BY <1>3 DEF PLANS, LimitNames, Unlimited
  <1>4. CASE plan = "team"
    BY <1>4 DEF PLANS, LimitNames, Unlimited
  <1>5. CASE plan = "enterprise"
    BY <1>5 DEF PLANS, LimitNames, Unlimited
  <1>. QED  BY <1>1, <1>2, <1>3, <1>4, <1>5

LEMMA FirstOfFour ==
  ASSUME NEW I, I \subseteq 1..4, I # {}
  PROVE  Min(I) \in I /\ \A i \in I : Min(I) <= i
  <1>1. \E x \in I : \A y \in I : x <= y
    <2>1. CASE 1 \in I
      BY <2>1
    <2>2. CASE 1 \notin I /\ 2 \in I
      BY <2>2
    <2>3. CASE 1 \notin I /\ 2 \notin I /\ 3 \in I
      BY <2>3
    <2>4. CASE 1 \notin I /\ 2 \notin I /\ 3 \notin I
      <3>1. \A y \in I : y = 4
        BY <2>4
      <3>2. PICK x : x \in I
        OBVIOUS
      <3>. QED  BY <3>1, <3>2
    <2>. QED  BY <2>1, <2>2, <2>3, <2>4
  <1>. QED  BY <1>1 DEF Min

(* A decision, for any usage.                                               *)
LEMMA DecisionFits ==
  ASSUME NEW plan \in PlanIds, NEW configured \in Nat, NEW snapshot \in Snapshots,
         NEW q, q.plan = plan, q.configured = configured, q.snapshot = snapshot
  PROVE  StampFits(q)
  <1>. DEFINE statuses == quotaStatuses(plan, snapshot)
              I == {i \in 1..4 : reached(statuses[i])}
  <1>1. /\ QUOTA_LIMITS[1] = "monthly_runs" /\ QUOTA_LIMITS[2] = "monthly_tokens"
        /\ QUOTA_LIMITS[3] = "monthly_cost" /\ QUOTA_LIMITS[4] = "concurrent_runs"
        /\ \A i \in 1..4 : QUOTA_LIMITS[i] \in LimitNames
    BY DEF QUOTA_LIMITS, LimitNames
  <1>2. DOMAIN statuses = 1..4 /\ Len(statuses) = 4
    BY DEF quotaStatuses
  <1>3. ASSUME NEW i \in 1..4
        PROVE  /\ statuses[i].limit = QUOTA_LIMITS[i] /\ statuses[i].used = snapshot[QUOTA_LIMITS[i]]
               /\ statuses[i].ceiling = PLANS[plan].limits[QUOTA_LIMITS[i]]
    BY DEF quotaStatuses
  <1>4. quotaDecision(plan, snapshot) =
          IF I = {} THEN [allowed |-> TRUE]
          ELSE [allowed |-> FALSE, violation |-> statuses[Min(I)], upgradeTo |-> nextPlanUp(plan)]
    <2>1. I # {} => Min(I) \in 1..4
      <3>1. I \subseteq 1..4
        OBVIOUS
      <3>. HIDE DEF I
      <3>. QED  BY <3>1, FirstOfFour
    <2>2. SelectInSeq(statuses, reached) = IF I # {} THEN Min(I) ELSE 0
      BY <1>2 DEF SelectInSeq
    <2>. HIDE DEF I
    <2>3. PICK first : first = SelectInSeq(statuses, reached)
      OBVIOUS
    <2>4. quotaDecision(plan, snapshot) =
            IF first = 0 THEN [allowed |-> TRUE]
            ELSE [allowed |-> FALSE, violation |-> statuses[first], upgradeTo |-> nextPlanUp(plan)]
      BY <2>3 DEF quotaDecision
    <2>. HIDE DEF statuses, I
    <2>5. CASE I = {}
      <3>1. first = 0
        BY <2>2, <2>3, <2>5
      <3>. QED  BY <2>4, <2>5, <3>1, Zenon
    <2>6. CASE I # {}
      <3>1. first = Min(I) /\ first # 0
        BY <2>1, <2>2, <2>3, <2>6
      <3>. QED  BY <2>4, <2>6, <3>1, Zenon
    <2>. QED  BY <2>5, <2>6
  <1>5. \A i \in 1..4 : QUOTA_LIMITS[i] \in LimitNames /\ snapshot[QUOTA_LIMITS[i]] \in Nat
    BY <1>1 DEF Snapshots, LimitNames
  <1>6. \A i \in 1..4 : reached(statuses[i]) <=>
          /\ PLANS[plan].limits[QUOTA_LIMITS[i]] # Unlimited
          /\ snapshot[QUOTA_LIMITS[i]] >= PLANS[plan].limits[QUOTA_LIMITS[i]]
    <2>. HIDE DEF statuses
    <2>. QED  BY <1>3 DEF reached
  <1>. HIDE DEF statuses
  <1>7. CASE I = {}
    <2>1. quotaDecision(plan, snapshot).allowed
      BY <1>4, <1>7
    <2>2. ASSUME NEW limit \in {"monthly_tokens", "monthly_cost"}
          PROVE  LET left == remainingOf(plan, snapshot, limit)
                     stamp == narrowCeiling(configured, left)
                 IN IF left = Unlimited THEN stamp = configured ELSE stamp \in 1..left
      <3>1. PICK i \in 1..4 : QUOTA_LIMITS[i] = limit
        BY <1>1
      <3>2. PICK ceiling : ceiling = PLANS[plan].limits[limit]
        OBVIOUS
      <3>3. ceiling = Unlimited \/ ceiling \in Nat \ {0}
        BY <3>2, Ceilings DEF LimitNames
      <3>4. PICK used \in Nat : used = snapshot[limit]
        BY <1>5, <3>1
      <3>5. ceiling = Unlimited \/ used < ceiling
        <4>1. ~reached(statuses[i])
          BY <1>7
        <4>. QED  BY <1>6, <3>1, <3>2, <3>3, <3>4, <4>1
      <3>6. PICK left : left = IF ceiling = Unlimited THEN Unlimited ELSE ceiling - used
        OBVIOUS
      <3>7. remainingOf(plan, snapshot, limit) = left
        BY <3>2, <3>4, <3>6 DEF remainingOf
      <3>8. left = Unlimited \/ left \in Nat \ {0}
        BY <3>3, <3>5, <3>6
      <3>9. IF left = Unlimited THEN narrowCeiling(configured, left) = configured
            ELSE narrowCeiling(configured, left) \in 1..left
        BY <3>8 DEF narrowCeiling, Unlimited
      <3>. QED  BY <3>7, <3>9
    <2>. QED  BY <2>1, <2>2 DEF StampFits
  <1>8. CASE I # {}
    <2>1. I \subseteq 1..4
      OBVIOUS
    <2>. DEFINE first == Min(I)
    <2>2. first \in I /\ \A i \in I : first <= i
      <3>. HIDE DEF I
      <3>. QED  BY <1>8, <2>1, FirstOfFour
    <2>3. first \in 1..4 /\ reached(statuses[first])
      BY <2>2
    <2>. HIDE DEF first
    <2>4. /\ ~quotaDecision(plan, snapshot).allowed
          /\ quotaDecision(plan, snapshot).violation = statuses[first]
      BY <1>4, <1>8 DEF first
    <2>5. \A i \in 1..4 : reached(statuses[i]) =>
            \E j \in 1..i : QUOTA_LIMITS[j] = statuses[first].limit
      <3>1. ASSUME NEW i \in 1..4, reached(statuses[i]) PROVE first \in 1..i
        BY <2>2, <2>3, <3>1
      <3>. QED  BY <1>3, <2>3, <3>1
    <2>. QED  BY <2>3, <2>4, <2>5 DEF StampFits, statuses
  <1>. QED  BY <1>7, <1>8

(* The usage a run is asked with is usage.                                  *)
LEMMA AsksAreUsage ==
  ASSUME NEW q \in Asks
  PROVE  q.plan \in PlanIds /\ q.configured \in Nat /\ q.snapshot \in Snapshots
  <1>1. ASSUME NEW limit \in {"monthly_tokens", "monthly_cost"} PROVE Around(limit) \subseteq Nat
    <2>1. \A p \in PlanIds : PLANS[p].limits[limit] \in Nat \ {0} \/ PLANS[p].limits[limit] = Unlimited
      BY Ceilings DEF LimitNames
    <2>. DEFINE C == {PLANS[p].limits[limit] : p \in PlanIds} \ {Unlimited}
    <2>2. \A c \in C : c \in Nat \ {0}
      BY <2>1
    <2>3. Around(limit) = {0, 1} \cup UNION {{c - 1, c, c + 1} : c \in C}
      BY DEF Around
    <2>. HIDE DEF C
    <2>4. ASSUME NEW x \in UNION {{c - 1, c, c + 1} : c \in C} PROVE x \in Nat
      <3>1. PICK c \in C : x \in {c - 1, c, c + 1}
        OBVIOUS
      <3>2. c \in Nat \ {0}
        BY <2>2
      <3>. QED  BY <3>1, <3>2
    <2>. QED  BY <2>3, <2>4
  <1>. QED  BY <1>1 DEF Asks, Snapshots

(* For every usage a run never gets a ceiling above what its month has left,*)
(* nor one of zero, and a refusal names the first limit reached.            *)
THEOREM StampAlwaysFits ==
  \A plan \in PlanIds, configured \in Nat, snapshot \in Snapshots :
    StampFits([plan |-> plan, configured |-> configured, snapshot |-> snapshot])
  BY DecisionFits

(* So it is for what the runs of the check are asked with (StampFitsMonth). *)
THEOREM StampHolds == MoneySpec => []StampFitsMonth
  <1>. DEFINE Inv == ask \in Asks
  <1>1. MoneyInit => Inv
    <2>1. {0, 1} \subseteq Around("monthly_tokens") /\ {0, 1} \subseteq Around("monthly_cost")
      BY DEF Around
    <2>2. [plan |-> "free", configured |-> 0,
           snapshot |-> [monthly_runs |-> 0, monthly_tokens |-> 0, monthly_cost |-> 0, concurrent_runs |-> 0]] \in Asks
      BY <2>1 DEF Asks, PlanIds, PLAN_IDS
    <2>3. NoAsk \in Asks
      BY <2>2, Zenon DEF NoAsk
    <2>. QED  BY <2>3 DEF MoneyInit
  <1>2. Inv /\ [MoneyNext]_moneyVars => Inv'
    BY DEF MoneyNext, moneyVars
  <1>3. Inv => StampFitsMonth
    <2>. SUFFICES ASSUME ask \in Asks PROVE StampFits(ask)
      BY DEF StampFitsMonth
    <2>1. PICK q \in Asks : q = ask
      OBVIOUS
    <2>. QED  BY <2>1, AsksAreUsage, DecisionFits
  <1>. QED  BY <1>1, <1>2, <1>3, PTL DEF MoneySpec
============================================================================
