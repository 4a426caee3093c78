--------------------------- MODULE CallGateProofs ---------------------------
(****************************************************************************)
(* The safety properties of CallGate, for any jobs, runs and processes,     *)
(* and any window, ceiling, number of permits and threshold.                *)
(*                                                                          *)
(* The stop is a matter of ages, as in SpendGate. The overshoot and the     *)
(* permits are matters of counting, and meet in the semaphore: whoever is   *)
(* woken was waiting, so it was counted among the run's calls already, and  *)
(* the permit it gets is the one just given back.                           *)
(*                                                                          *)
(* The rate limit counts too: what a budget let through within its window   *)
(* can be found among the hits that are still in its log.                   *)
(****************************************************************************)
EXTENDS CallGate, RateLimit, FiniteSetTheorems, WellFoundedInduction, TLAPS

USE CallGateAssumption

Records == [at: Places, worker: Workers \cup {"none"}, age: 0..Refresh,
            late: {"no", "yes"}, outcome: {"none", "ok", "unwell", "permanent", "lost"}]

Readings == [age: 0..Refresh, switch: {"released", "engaged"}]

(* A cached reading that disagrees with the switch is at least as old as    *)
(* its last change; a job delivered late is still reading the switch.       *)
StopInv ==
  /\ \A w \in Workers : halt[w].age < Refresh /\ halt[w].switch # switch => changed <= halt[w].age
  /\ \A j \in Tasks : task[j].late = "yes" => task[j].at = "switch" /\ switch = "engaged"

(* What is metered was answered.                                            *)
AnsweredInv == \A j \in Tasks : task[j].at = "meter" => task[j].outcome = "ok"

CallInv == CallTypeOK /\ AnsweredInv /\ StopInv /\ OvershootIsBounded /\ PermitsAreConserved

-----------------------------------------------------------------------------
(* CallTypeOK, with its parts named.                                        *)
LEMMA Types ==
  CallTypeOK <=>
    /\ switch \in {"released", "engaged"} /\ changed \in 0..Refresh
    /\ halt \in [Workers -> Readings] /\ task \in [Tasks -> Records]
    /\ \A j \in Tasks :
         /\ task[j].worker = "none" <=> task[j].at \in {"queued", "done"}
         /\ task[j].at = "return" => j \in Evaluators
         /\ Settled(j) => task[j].at \in {"record", "trip", "meter", "leave"}
    /\ spent \in [Runs -> Nat] /\ peak \in [Runs -> Nat]
    /\ permits \in [Workers -> 0..Permits] /\ waiting \in [Workers -> Seq(Tasks)]
    /\ breaker \in [failures: 0..Threshold, open: 0..Cooldown]
BY DEF CallTypeOK, Records, Readings

(* The records the code writes whole.                                       *)
LEMMA WrittenTypes ==
  /\ Queued \in Records /\ Queued.at = "queued" /\ Queued.worker = "none" /\ Queued.late = "no"
  /\ Finished \in Records /\ Finished.at = "done" /\ Finished.worker = "none" /\ Finished.late = "no"
  /\ Queued.outcome = "none" /\ Finished.outcome = "none"
  /\ NoReading \in Readings /\ NoReading.age = Refresh
BY DEF Queued, Finished, NoReading, Records, Readings, Places

-----------------------------------------------------------------------------
(* What a job's own step makes of its record, one disjunct a step; Release  *)
(* apart, which may wake another job.                                       *)
Moves(j, from, to) == task[j].at = from /\ task'[j].at = to

KeepsOutcome(j) == task'[j].outcome = task[j].outcome

Still == UNCHANGED <<spent, permits, waiting, peak>>

Step(j) ==
  \/ /\ Still /\ task[j].at = "queued" /\ task'[j].at \in {"switch", "check", "done"}
     /\ task'[j].outcome = "none"
  \/ /\ Still /\ task[j].at = "switch" /\ task'[j].at \in {"check", "done"}
     /\ KeepsOutcome(j) \/ task'[j].outcome = "none"
  \/ /\ UNCHANGED <<spent, permits, waiting>> /\ task[j].at = "check" /\ task'[j].at \in {"breaker", "ready"}
     /\ KeepsOutcome(j) /\ spent[RunOf[j]] < Ceiling
     /\ LET now == Cardinality(Paying(RunOf[j])) + 1
        IN  peak' = [peak EXCEPT ![RunOf[j]] = IF now > peak[RunOf[j]] THEN now ELSE peak[RunOf[j]]]
  \/ /\ Still /\ task[j].at \in {"check", "breaker"} /\ task'[j].at = "done" /\ task'[j].outcome = "none"
  \/ Still /\ Moves(j, "breaker", "ready") /\ KeepsOutcome(j)
  \/ /\ UNCHANGED <<spent, waiting, peak>> /\ Moves(j, "ready", "call") /\ KeepsOutcome(j)
     /\ permits[task[j].worker] > 0
     /\ permits' = [permits EXCEPT ![task[j].worker] = permits[task[j].worker] - 1]
  \/ /\ UNCHANGED <<spent, permits, peak>> /\ Moves(j, "ready", "waiting") /\ KeepsOutcome(j)
     /\ permits[task[j].worker] = 0
     /\ waiting' = [waiting EXCEPT ![task[j].worker] = Append(waiting[task[j].worker], j)]
  \/ /\ Still /\ j \in Candidates
     /\ Moves(j, "call", "leave") \/ (Moves(j, "call", "record") /\ task'[j].outcome \in {"ok", "unwell"})
  \/ Still /\ j \in Evaluators /\ Moves(j, "call", "return")
  \/ /\ Still /\ j \in Evaluators /\ task[j].at = "leave" /\ task'[j].at \in {"queued", "done"}
     /\ task'[j].outcome = "none"
  \/ Still /\ Moves(j, "record", "meter") /\ KeepsOutcome(j) /\ task[j].outcome = "ok"
  \/ /\ Still /\ task[j].at \in {"record", "trip"} /\ task'[j].at \in {"trip", "leave"} /\ KeepsOutcome(j)
  \/ /\ Still /\ task[j].at \in {"record", "meter"} /\ task[j].outcome = "ok"
     /\ task'[j].at = "record" /\ task'[j].outcome = "lost"
  \/ /\ UNCHANGED <<permits, waiting, peak>> /\ Moves(j, "meter", "leave") /\ KeepsOutcome(j)
     /\ spent' = spent \/ spent' = [spent EXCEPT ![RunOf[j]] = spent[RunOf[j]] + 1]

OwnSteps(j) ==
  CheckStop(j) \/ breakerState(j) \/ Acquire(j) \/ CallEnds(j) \/ Meter(j) \/ Leave(j)
    \/ recordProviderOutcome(j)

(* Changing a record field by field.                                        *)
LEMMA GotoTypes ==
  ASSUME CallTypeOK, NEW j \in Tasks, NEW at \in Places, Goto(j, at)
  PROVE  /\ task' \in [Tasks -> Records] /\ \A i \in Tasks : i # j => task'[i] = task[i]
         /\ task'[j].at = at /\ task'[j].worker = task[j].worker /\ task'[j].late = task[j].late
         /\ KeepsOutcome(j)
  <1>. task \in [Tasks -> Records]
    BY Types
  <1>. DEFINE x == [task[j] EXCEPT !.at = at]
  <1>1. x \in Records /\ x.at = at /\ x.worker = task[j].worker /\ x.late = task[j].late /\ x.outcome = task[j].outcome
    BY DEF Records
  <1>2. task' = [task EXCEPT ![j] = x]
    BY DEF Goto
  <1>. HIDE DEF x
  <1>. QED  BY <1>1, <1>2 DEF KeepsOutcome

(* What checkStop makes of a reading.                                       *)
LEMMA JudgedCases ==
  ASSUME NEW x \in Records, NEW state \in {"released", "engaged"}
  PROVE  /\ Judged(x, state) \in Records
         /\ state = "engaged" => Judged(x, state) = Finished
         /\ state = "released" =>
              /\ Judged(x, state).at = "check" /\ Judged(x, state).worker = x.worker
              /\ Judged(x, state).late = x.late /\ Judged(x, state).outcome = x.outcome
  <1>. DEFINE y == [x EXCEPT !.at = "check", !.age = 0]
  <1>1. /\ y \in Records /\ y.at = "check" /\ y.worker = x.worker
        /\ y.late = x.late /\ y.outcome = x.outcome
    <2>1. 0 \in 0..Refresh /\ "check" \in Places
      BY DEF Places
    <2>. QED  BY <2>1 DEF Records
  <1>2. Judged(x, state) = IF state = "engaged" THEN Finished ELSE y
    BY DEF Judged
  <1>. HIDE DEF y
  <1>. QED  BY <1>1, <1>2, WrittenTypes

(* The record with which a process takes a job.                             *)
LEMMA DeliverTypes ==
  ASSUME CallTypeOK, NEW j \in Tasks, NEW w \in Workers, Deliver(j, w)
  PROVE  \E x \in Records :
           /\ task' = [task EXCEPT ![j] = x] /\ task[j].at = "queued" /\ x.outcome = "none"
           /\ \/ x = Finished
              \/ /\ x.worker = w
                 /\ x.late = IF switch = "engaged" /\ changed = Refresh THEN "yes" ELSE "no"
                 /\ \/ halt[w].age < Refresh /\ halt[w].switch = "released" /\ x.at = "check"
                    \/ x.at = "switch"
  <1>. /\ halt[w] \in Readings /\ task \in [Tasks -> Records]
    BY Types
  <1>. DEFINE late == IF switch = "engaged" /\ changed = Refresh THEN "yes" ELSE "no"
              started == [Queued EXCEPT !.worker = w, !.late = late]
              x == IF halt[w].age < Refresh THEN Judged(started, halt[w].switch)
                   ELSE [started EXCEPT !.at = "switch"]
  <1>0. late \in {"no", "yes"}
    OBVIOUS
  <1>1. started \in Records /\ started.worker = w /\ started.late = late /\ started.outcome = "none"
    <2>1. \A l \in {"no", "yes"}, q \in Records :
            /\ [q EXCEPT !.worker = w, !.late = l] \in Records
            /\ [q EXCEPT !.worker = w, !.late = l].worker = w
            /\ [q EXCEPT !.worker = w, !.late = l].late = l
            /\ [q EXCEPT !.worker = w, !.late = l].outcome = q.outcome
      BY DEF Records
    <2>2. started = [Queued EXCEPT !.worker = w, !.late = late]
      OBVIOUS
    <2>. HIDE DEF late, started
    <2>. QED  BY <1>0, <2>1, <2>2, WrittenTypes, Zenon
  <1>2. task' = [task EXCEPT ![j] = x] /\ task[j].at = "queued"
    BY DEF Deliver
  <1>. HIDE DEF started, late
  <1>3. [started EXCEPT !.at = "switch"] \in Records
    BY <1>1 DEF Records, Places
  <1>4. /\ x \in Records /\ x.outcome = "none"
        /\ \/ x = Finished
           \/ /\ x.worker = w /\ x.late = late
              /\ \/ halt[w].age < Refresh /\ halt[w].switch = "released" /\ x.at = "check"
                 \/ x.at = "switch"
    <2>1. CASE halt[w].age < Refresh
      BY <1>1, <2>1, JudgedCases, WrittenTypes DEF Readings
    <2>2. CASE ~(halt[w].age < Refresh)
      BY <1>1, <1>3, <2>2 DEF Records
    <2>. QED  BY <2>1, <2>2
  <1>. HIDE DEF x
  <1>. QED  BY <1>2, <1>4 DEF late

-----------------------------------------------------------------------------
(* What is left of a job's own step when only the job has moved: its record *)
(* keeps the process unless it is new or over, and is late only while it    *)
(* reads an engaged switch; the cache changes only by that reading.         *)
Located(j) ==
  /\ task'[j].worker = "none" <=> task'[j].at \in {"queued", "done"}
  /\ task[j].at # "queued" /\ task'[j].at \notin {"queued", "done"} => task'[j].worker = task[j].worker
  /\ task'[j].late = "yes" => task'[j].at = "switch" /\ switch = "engaged"

OwnMove(j) ==
  /\ task' \in [Tasks -> Records] /\ \A i \in Tasks : i # j => task'[i] = task[i]
  /\ Step(j) /\ Located(j)
  /\ UNCHANGED <<switch, changed>>
  /\ halt' = halt \/ (task[j].at = "switch" /\ Cache(j, switch))
  /\ breaker' \in [failures: 0..Threshold, open: 0..Cooldown]

(* A record put in the place of a job's. *)
LEMMA PutTypes ==
  ASSUME CallTypeOK, NEW j \in Tasks, NEW x \in Records, task' = [task EXCEPT ![j] = x]
  PROVE  task' \in [Tasks -> Records] /\ task'[j] = x /\ \A i \in Tasks : i # j => task'[i] = task[i]
BY Types

(* A job that is under way and stays so keeps its process, and is not late. *)
LEMMA GotoLocates ==
  ASSUME CallTypeOK, StopInv, NEW j \in Tasks, task[j].at \notin {"queued", "switch", "done"},
         task'[j].at \notin {"queued", "done"}, task'[j].worker = task[j].worker,
         task'[j].late = task[j].late
  PROVE  Located(j)
  <1>1. task[j].worker = "none" <=> task[j].at \in {"queued", "done"}
    BY Types
  <1>. QED  BY <1>1 DEF Located, StopInv

(* Every step a job makes on its own is one of Step. *)
LEMMA OwnStepMoves ==
  ASSUME CallTypeOK, StopInv, NEW j \in Tasks, OwnSteps(j)
  PROVE  OwnMove(j)
  <1>. /\ task \in [Tasks -> Records] /\ halt \in [Workers -> Readings]
       /\ task[j] \in Records /\ switch \in {"released", "engaged"} /\ changed \in 0..Refresh
       /\ breaker \in [failures: 0..Threshold, open: 0..Cooldown]
    BY Types
  <1>1. ASSUME NEW w \in Workers, Deliver(j, w)  PROVE OwnMove(j)
    <2>1. PICK x \in Records :
            /\ task' = [task EXCEPT ![j] = x] /\ task[j].at = "queued" /\ x.outcome = "none"
            /\ \/ x = Finished
               \/ /\ x.worker = w
                  /\ x.late = IF switch = "engaged" /\ changed = Refresh THEN "yes" ELSE "no"
                  /\ \/ halt[w].age < Refresh /\ halt[w].switch = "released" /\ x.at = "check"
                     \/ x.at = "switch"
      BY <1>1, DeliverTypes
    <2>2. task' \in [Tasks -> Records] /\ task'[j] = x /\ \A i \in Tasks : i # j => task'[i] = task[i]
      BY <2>1, PutTypes
    <2>3. Still /\ UNCHANGED gateVars /\ UNCHANGED breaker
      BY <1>1 DEF Deliver, Still, slotVars
    <2>4. Step(j)
      BY <2>1, <2>2, <2>3, WrittenTypes DEF Step
    <2>5. x.late = "yes" => x.at = "switch" /\ switch = "engaged"
      <3>1. halt[w].age \in 0..Refresh
        BY DEF Readings
      <3>2. halt[w].age < Refresh /\ halt[w].switch # switch => changed <= halt[w].age
        BY DEF StopInv
      <3>. QED  BY <2>1, <3>1, <3>2, WrittenTypes
    <2>6. Located(j)
      BY <2>1, <2>2, <2>5, WrittenTypes DEF Located
    <2>. QED  BY <2>2, <2>3, <2>4, <2>6 DEF OwnMove, gateVars
  <1>2. CASE installHalted(j)
    <2>1. task[j].at = "switch" /\ task' = [task EXCEPT ![j] = Judged(task[j], switch)]
      BY <1>2 DEF installHalted
    <2>2. task' \in [Tasks -> Records] /\ task'[j] = Judged(task[j], switch)
          /\ \A i \in Tasks : i # j => task'[i] = task[i]
      BY <2>1, PutTypes, JudgedCases
    <2>3. Still /\ UNCHANGED <<switch, changed, breaker>> /\ Cache(j, switch)
      BY <1>2 DEF installHalted, Still, slotVars
    <2>4. Step(j)
      BY <2>1, <2>2, <2>3, JudgedCases, WrittenTypes DEF Step, KeepsOutcome
    <2>5. Located(j)
      <3>1. task[j].worker # "none" /\ (task[j].late = "yes" => switch = "engaged")
        BY <2>1, Types DEF StopInv
      <3>2. CASE switch = "engaged"
        BY <2>2, <3>2, JudgedCases, WrittenTypes DEF Located
      <3>3. CASE switch = "released"
        BY <2>1, <2>2, <3>1, <3>3, JudgedCases DEF Located, Records
      <3>. QED  BY <3>2, <3>3
    <2>. QED  BY <2>1, <2>2, <2>3, <2>4, <2>5 DEF OwnMove
  <1>3. CASE ReadFails(j)
    <2>. DEFINE y == Judged(task[j], "released")
                x == [y EXCEPT !.late = "no"]
    <2>1. task[j].at = "switch" /\ task' = [task EXCEPT ![j] = x]
      BY <1>3 DEF ReadFails
    <2>2. y \in Records /\ y.at = "check" /\ y.worker = task[j].worker /\ y.outcome = task[j].outcome
      BY JudgedCases
    <2>3. \A z \in Records : LET u == [z EXCEPT !.late = "no"]
                              IN  /\ u \in Records /\ u.at = z.at /\ u.worker = z.worker
                                  /\ u.outcome = z.outcome /\ u.late = "no"
      BY DEF Records
    <2>. HIDE DEF y
    <2>4. x \in Records /\ x.at = "check" /\ x.worker = task[j].worker /\ x.outcome = task[j].outcome
          /\ x.late = "no"
      BY <2>2, <2>3, Zenon
    <2>. HIDE DEF x
    <2>5. task' \in [Tasks -> Records] /\ task'[j] = x /\ \A i \in Tasks : i # j => task'[i] = task[i]
      BY <2>1, <2>4, PutTypes
    <2>6. Still /\ UNCHANGED gateVars /\ UNCHANGED breaker
      BY <1>3 DEF ReadFails, Still, slotVars
    <2>7. Step(j)
      BY <2>1, <2>4, <2>5, <2>6 DEF Step, KeepsOutcome
    <2>8. Located(j)
      BY <2>1, <2>4, <2>5, Types DEF Located
    <2>. QED  BY <2>5, <2>6, <2>7, <2>8 DEF OwnMove, gateVars
  <1>4. ASSUME NEW x \in {Queued, Finished}, task' = [task EXCEPT ![j] = x],
               \/ task[j].at \in {"check", "breaker"} /\ x = Finished
               \/ task[j].at = "leave" /\ j \in Evaluators,
               Still, UNCHANGED gateVars, UNCHANGED breaker
        PROVE  OwnMove(j)
    <2>1. task' \in [Tasks -> Records] /\ task'[j] = x /\ \A i \in Tasks : i # j => task'[i] = task[i]
      BY <1>4, WrittenTypes, PutTypes
    <2>2. Step(j)
      BY <1>4, <2>1, WrittenTypes DEF Step
    <2>3. Located(j)
      BY <2>1, WrittenTypes DEF Located
    <2>. QED  BY <1>4, <2>1, <2>2, <2>3 DEF OwnMove, gateVars
  <1>5. ASSUME NEW at \in Places, Goto(j, at), task[j].at \notin {"queued", "switch", "done"},
               at \notin {"queued", "done"}, UNCHANGED gateVars, Step(j),
               breaker' \in [failures: 0..Threshold, open: 0..Cooldown]
        PROVE  OwnMove(j)
    <2>1. /\ task' \in [Tasks -> Records] /\ \A i \in Tasks : i # j => task'[i] = task[i]
          /\ task'[j].at = at /\ task'[j].worker = task[j].worker /\ task'[j].late = task[j].late
      BY <1>5, GotoTypes
    <2>2. Located(j)
      BY <1>5, <2>1, GotoLocates
    <2>. QED  BY <1>5, <2>1, <2>2 DEF OwnMove, gateVars
  <1>6. CASE CheckBudget(j)
    <2>. DEFINE at == IF j \in Candidates THEN "breaker" ELSE "ready"
    <2>1. /\ task[j].at = "check" /\ Goto(j, at) /\ spent[RunOf[j]] < Ceiling
          /\ UNCHANGED <<spent, permits, waiting, breaker>> /\ UNCHANGED gateVars
          /\ LET now == Cardinality(Paying(RunOf[j])) + 1
             IN  peak' = [peak EXCEPT ![RunOf[j]] = IF now > peak[RunOf[j]] THEN now ELSE peak[RunOf[j]]]
      BY <1>6 DEF CheckBudget, UnderCeiling, slotVars
    <2>2. at \in {"breaker", "ready"} /\ at \in Places
      BY DEF Places
    <2>. HIDE DEF at
    <2>3. task'[j].at = at /\ KeepsOutcome(j)
      BY <2>1, <2>2, GotoTypes
    <2>4. Step(j)
      BY <2>1, <2>2, <2>3 DEF Step
    <2>. QED  BY <1>5, <2>1, <2>2, <2>4
  <1>7. CASE Stop(j)
    BY <1>4, <1>7 DEF Stop, Still, slotVars
  <1>8. CASE breakerState(j)
    <2>1. CASE breaker.open > 0
      BY <1>4, <1>8, <2>1 DEF breakerState, Still, slotVars
    <2>2. CASE ~(breaker.open > 0)
      <3>1. task[j].at = "breaker" /\ Goto(j, "ready") /\ Still /\ UNCHANGED gateVars /\ UNCHANGED breaker
        BY <1>8, <2>2 DEF breakerState, Goto, Still, slotVars
      <3>2. task'[j].at = "ready" /\ KeepsOutcome(j) /\ "ready" \in Places
        BY <3>1, GotoTypes DEF Places
      <3>3. Step(j)
        BY <3>1, <3>2 DEF Step, Moves
      <3>. QED  BY <1>5, <3>1, <3>2, <3>3
    <2>. QED  BY <2>1, <2>2
  <1>9. CASE Acquire(j)
    <2>1. /\ task[j].at = "ready" /\ UNCHANGED <<spent, breaker, peak>> /\ UNCHANGED gateVars
          /\ \/ /\ permits[task[j].worker] > 0 /\ UNCHANGED waiting /\ Goto(j, "call")
                /\ permits' = [permits EXCEPT ![task[j].worker] = permits[task[j].worker] - 1]
             \/ /\ permits[task[j].worker] = 0 /\ UNCHANGED permits /\ Goto(j, "waiting")
                /\ waiting' = [waiting EXCEPT ![task[j].worker] = Append(waiting[task[j].worker], j)]
      BY <1>9 DEF Acquire
    <2>2. "call" \in Places /\ "waiting" \in Places
      BY DEF Places
    <2>3. CASE Goto(j, "call") /\ permits[task[j].worker] > 0 /\ UNCHANGED waiting
               /\ permits' = [permits EXCEPT ![task[j].worker] = permits[task[j].worker] - 1]
      <3>1. Moves(j, "ready", "call") /\ KeepsOutcome(j)
        BY <2>1, <2>2, <2>3, GotoTypes DEF Moves
      <3>2. Step(j)
        BY <2>1, <2>3, <3>1 DEF Step
      <3>. QED  BY <1>5, <2>1, <2>2, <2>3, <3>2
    <2>4. CASE Goto(j, "waiting") /\ permits[task[j].worker] = 0 /\ UNCHANGED permits
               /\ waiting' = [waiting EXCEPT ![task[j].worker] = Append(waiting[task[j].worker], j)]
      <3>1. Moves(j, "ready", "waiting") /\ KeepsOutcome(j)
        BY <2>1, <2>2, <2>4, GotoTypes DEF Moves
      <3>2. Step(j)
        BY <2>1, <2>4, <3>1 DEF Step
      <3>. QED  BY <1>5, <2>1, <2>2, <2>4, <3>2
    <2>. QED  BY <2>1, <2>3, <2>4
  <1>10. ASSUME NEW at \in {"record", "leave", "return"}, NEW outcome \in {"ok", "unwell", "permanent", "lost"},
                task' = [task EXCEPT ![j].outcome = outcome, ![j].at = at],
                task[j].at \in {"call", "record", "meter"}, UNCHANGED <<gateVars, breaker>>,
                (task'[j].at = at /\ task'[j].outcome = outcome) => Step(j)
         PROVE  OwnMove(j)
    <2>. DEFINE x == [task[j] EXCEPT !.outcome = outcome, !.at = at]
    <2>1. x \in Records /\ x.at = at /\ x.outcome = outcome /\ x.worker = task[j].worker /\ x.late = task[j].late
      BY DEF Records, Places
    <2>2. task' = [task EXCEPT ![j] = x]
      BY <1>10
    <2>. HIDE DEF x
    <2>3. task' \in [Tasks -> Records] /\ task'[j] = x /\ \A i \in Tasks : i # j => task'[i] = task[i]
      BY <2>1, <2>2, PutTypes
    <2>4. Located(j)
      BY <1>10, <2>1, <2>3, GotoLocates
    <2>5. Step(j)
      BY <1>10, <2>1, <2>3
    <2>. QED  BY <1>10, <2>3, <2>4, <2>5 DEF OwnMove, gateVars
  <1>11. CASE CallEnds(j)
    <2>1. PICK outcome \in {"ok", "unwell", "permanent"} :
            task' = [task EXCEPT ![j].outcome = outcome,
                                 ![j].at = IF j \in Evaluators THEN "return" ELSE Onward(outcome)]
      BY <1>11 DEF CallEnds
    <2>2. task[j].at = "call" /\ Still /\ UNCHANGED <<gateVars, breaker>>
      BY <1>11 DEF CallEnds, Still, slotVars
    <2>. DEFINE at == IF j \in Evaluators THEN "return" ELSE Onward(outcome)
    <2>3. \/ j \in Evaluators /\ at = "return"
          \/ j \in Candidates /\ at = "leave"
          \/ j \in Candidates /\ at = "record" /\ outcome \in {"ok", "unwell"}
      BY DEF Onward, Tasks
    <2>4. task' = [task EXCEPT ![j].outcome = outcome, ![j].at = at]
      BY <2>1
    <2>. HIDE DEF at
    <2>5. (task'[j].at = at /\ task'[j].outcome = outcome) => Step(j)
      BY <2>2, <2>3 DEF Step, Moves
    <2>. QED  BY <1>10, <2>2, <2>3, <2>4, <2>5
  <1>12. CASE Meter(j)
    <2>1. /\ task[j].at = "meter" /\ Goto(j, "leave") /\ UNCHANGED <<permits, waiting, peak, breaker>>
          /\ UNCHANGED gateVars
          /\ spent' = spent \/ spent' = [spent EXCEPT ![RunOf[j]] = spent[RunOf[j]] + 1]
      BY <1>12 DEF Meter, slotVars
    <2>2. task'[j].at = "leave" /\ KeepsOutcome(j) /\ "leave" \in Places
      BY <2>1, GotoTypes DEF Places
    <2>3. Step(j)
      BY <2>1, <2>2 DEF Step, Moves
    <2>. QED  BY <1>5, <2>1, <2>2, <2>3
  <1>14. CASE Leave(j)
    <2>1. PICK next \in {Queued, Finished} : task' = [task EXCEPT ![j] = next]
      BY <1>14 DEF Leave, Left
    <2>. QED  BY <1>4, <1>14, <2>1 DEF Leave, Still, slotVars
  <1>13. CASE recordProviderOutcome(j)
    <2>1. /\ "meter" \in Places /\ "trip" \in Places /\ "leave" \in Places
          /\ \A b \in [failures: 0..Threshold, open: 0..Cooldown] :
               /\ \A n \in 0..Threshold : [b EXCEPT !.failures = n] \in [failures: 0..Threshold, open: 0..Cooldown]
               /\ [b EXCEPT !.open = Cooldown] \in [failures: 0..Threshold, open: 0..Cooldown]
          /\ [failures |-> 0, open |-> 0] \in [failures: 0..Threshold, open: 0..Cooldown]
      BY DEF Places
    <2>2. CASE recordSuccess(j)
      <3>1. /\ task[j].at = "record" /\ task[j].outcome = "ok" /\ Goto(j, "meter") /\ Still /\ UNCHANGED gateVars
            /\ breaker' = [failures |-> 0, open |-> 0]
        BY <2>2 DEF recordSuccess, Still, slotVars
      <3>2. task'[j].at = "meter" /\ KeepsOutcome(j)
        BY <2>1, <3>1, GotoTypes
      <3>3. Step(j)
        BY <3>1, <3>2 DEF Step, Moves
      <3>. QED  BY <1>5, <2>1, <3>1, <3>3
    <2>3. CASE recordFailure(j)
      <3>. DEFINE n == IF breaker.failures < Threshold THEN breaker.failures + 1 ELSE Threshold
                  at == IF n = Threshold THEN "trip" ELSE "leave"
      <3>1. /\ task[j].at = "record" /\ Still /\ UNCHANGED gateVars
            /\ breaker' = [breaker EXCEPT !.failures = n] /\ Goto(j, at)
        BY <2>3 DEF recordFailure, Still, slotVars
      <3>2. n \in 0..Threshold /\ at \in {"trip", "leave"}
        OBVIOUS
      <3>. HIDE DEF n, at
      <3>3. breaker' \in [failures: 0..Threshold, open: 0..Cooldown] /\ at \in Places
        BY <2>1, <3>1, <3>2
      <3>4. task'[j].at = at /\ KeepsOutcome(j)
        BY <3>1, <3>3, GotoTypes
      <3>5. Step(j)
        BY <3>1, <3>2, <3>4 DEF Step
      <3>. QED  BY <1>5, <3>1, <3>2, <3>3, <3>5
    <2>4. CASE Trip(j)
      <3>1. /\ task[j].at = "trip" /\ Still /\ UNCHANGED gateVars /\ Goto(j, "leave")
            /\ breaker' = [breaker EXCEPT !.open = Cooldown]
        BY <2>4 DEF Trip, Still, slotVars
      <3>2. task'[j].at = "leave" /\ KeepsOutcome(j)
        BY <2>1, <3>1, GotoTypes
      <3>3. Step(j)
        BY <3>1, <3>2 DEF Step
      <3>. QED  BY <1>5, <2>1, <3>1, <3>3
    <2>5. CASE RecordFails(j)
      <3>1. Still /\ UNCHANGED <<gateVars, breaker>>
        BY <2>5 DEF RecordFails, Still, slotVars
      <3>2. CASE /\ task[j].outcome = "ok" /\ task[j].at \in {"record", "meter"}
                 /\ task' = [task EXCEPT ![j].outcome = "lost", ![j].at = "record"]
        <4>1. (task'[j].at = "record" /\ task'[j].outcome = "lost") => Step(j)
          BY <3>1, <3>2 DEF Step
        <4>. QED  BY <1>10, <3>1, <3>2, <4>1
      <3>3. CASE task[j].at \in {"record", "trip"} /\ Goto(j, "leave")
        <4>1. task'[j].at = "leave" /\ KeepsOutcome(j)
          BY <2>1, <3>3, GotoTypes
        <4>2. Step(j)
          BY <3>1, <3>3, <4>1 DEF Step
        <4>. QED  BY <1>5, <2>1, <3>1, <3>3, <4>2
      <3>. QED  BY <2>5, <3>2, <3>3 DEF RecordFails
    <2>. QED  BY <1>13, <2>2, <2>3, <2>4, <2>5 DEF recordProviderOutcome
  <1>. QED  BY <1>1, <1>2, <1>3, <1>6, <1>7, <1>8, <1>9, <1>11, <1>12, <1>13, <1>14 DEF OwnSteps, CheckStop

-----------------------------------------------------------------------------
(* The line of those who wait: whoever joins it stands in it once, and the  *)
(* first leaves it.                                                         *)
LEMMA Joins ==
  ASSUME NEW s \in Seq(Tasks), NEW j \in Tasks, j \notin ToSet(s), IsInjective(s)
  PROVE  /\ Append(s, j) \in Seq(Tasks) /\ Append(s, j) # <<>>
         /\ \A i : i \in ToSet(Append(s, j)) <=> (i \in ToSet(s) \/ i = j)
         /\ IsInjective(Append(s, j))
  <1>. DEFINE t == Append(s, j)
  <1>1. /\ t \in Seq(Tasks) /\ Len(t) = Len(s) + 1 /\ t[Len(s) + 1] = j
        /\ \A k \in 1..Len(s) : t[k] = s[k]
    OBVIOUS
  <1>2. DOMAIN t = 1..(Len(s) + 1) /\ DOMAIN s = 1..Len(s) /\ Len(s) \in Nat
    BY <1>1
  <1>3. \A k \in DOMAIN t : k = Len(s) + 1 \/ k \in DOMAIN s
    BY <1>2
  <1>4. \A k \in DOMAIN s : k \in DOMAIN t /\ t[k] = s[k] /\ s[k] # j
    BY <1>1, <1>2 DEF ToSet
  <1>5. t[Len(s) + 1] = j /\ Len(s) + 1 \in DOMAIN t /\ t # <<>>
    BY <1>1, <1>2
  <1>. HIDE DEF t
  <1>6. \A i : i \in ToSet(t) <=> (i \in ToSet(s) \/ i = j)
    BY <1>3, <1>4, <1>5 DEF ToSet
  <1>7. IsInjective(t)
    BY <1>3, <1>4, <1>5 DEF IsInjective
  <1>. QED  BY <1>1, <1>5, <1>6, <1>7 DEF t

LEMMA Leaves ==
  ASSUME NEW s \in Seq(Tasks), s # <<>>, IsInjective(s)
  PROVE  /\ Tail(s) \in Seq(Tasks) /\ Head(s) \in Tasks /\ Head(s) \in ToSet(s)
         /\ \A i : i \in ToSet(Tail(s)) <=> (i \in ToSet(s) /\ i # Head(s))
         /\ IsInjective(Tail(s))
  <1>. DEFINE t == Tail(s)
  <1>1. /\ t \in Seq(Tasks) /\ Len(s) \in Nat /\ Len(s) >= 1 /\ DOMAIN s = 1..Len(s)
        /\ DOMAIN t = 1..(Len(s) - 1) /\ \A k \in DOMAIN t : t[k] = s[k + 1]
        /\ Head(s) = s[1] /\ s[1] \in Tasks
    OBVIOUS
  <1>2. \A k \in DOMAIN t : k + 1 \in DOMAIN s /\ k + 1 # 1
    BY <1>1
  <1>3. \A k \in DOMAIN s : k # 1 => k - 1 \in DOMAIN t /\ t[k - 1] = s[k]
    BY <1>1
  <1>4. 1 \in DOMAIN s /\ \A k, l \in DOMAIN s : s[k] = s[l] => k = l
    BY <1>1 DEF IsInjective
  <1>5. \A k, l \in DOMAIN t : t[k] = t[l] => k = l
    <2>1. ASSUME NEW k \in DOMAIN t, NEW l \in DOMAIN t, t[k] = t[l]  PROVE k = l
      <3>1. k + 1 = l + 1
        BY <1>1, <1>2, <1>4, <2>1
      <3>. QED  BY <1>1, <3>1
    <2>. QED  BY <2>1
  <1>. HIDE DEF t
  <1>6. \A i : i \in ToSet(t) <=> (i \in ToSet(s) /\ i # Head(s))
    <2>1. ASSUME NEW i \in ToSet(t)  PROVE i \in ToSet(s) /\ i # Head(s)
      <3>1. PICK k \in DOMAIN t : i = t[k]
        BY DEF ToSet
      <3>2. i = s[k + 1]
        BY <1>1, <3>1
      <3>. QED  BY <1>1, <1>2, <1>4, <3>2 DEF ToSet
    <2>2. ASSUME NEW i \in ToSet(s), i # Head(s)  PROVE i \in ToSet(t)
      <3>1. PICK k \in DOMAIN s : i = s[k]
        BY DEF ToSet
      <3>2. i = t[k - 1] /\ k - 1 \in DOMAIN t
        BY <1>1, <1>3, <2>2, <3>1
      <3>. QED  BY <3>2 DEF ToSet
    <2>. QED  BY <2>1, <2>2
  <1>7. Head(s) \in ToSet(s)
    BY <1>1, <1>4 DEF ToSet
  <1>. QED  BY <1>1, <1>5, <1>6, <1>7 DEF t, IsInjective

-----------------------------------------------------------------------------
(* Whether a job's call is between check and usage record, and whether it   *)
(* has a permit of its process.                                             *)
Pays(j) ==
  \/ task[j].at \in {"breaker", "ready", "waiting", "call"}
  \/ task[j].at \in {"return", "record", "meter"} /\ task[j].outcome = "ok"

Holds(j) ==
  task[j].at \in IF j \in Candidates THEN {"call", "record", "trip", "meter", "leave"}
                ELSE {"call", "return"}

LEMMA Sets ==
  /\ \A r : IsFiniteSet(Paying(r)) /\ Cardinality(Paying(r)) \in Nat
  /\ \A r, j : j \in Paying(r) <=> (j \in Tasks /\ RunOf[j] = r /\ Pays(j))
  /\ \A w : IsFiniteSet(Holding(w)) /\ Cardinality(Holding(w)) \in Nat
  /\ \A w, j : j \in Holding(w) <=> (j \in Tasks /\ task[j].worker = w /\ Holds(j))
  <1>1. \A r, j : j \in Paying(r) <=> (j \in Tasks /\ RunOf[j] = r /\ Pays(j))
    BY DEF Paying, Pays
  <1>2. \A w, j : j \in Holding(w) <=> (j \in Tasks /\ task[j].worker = w /\ Holds(j))
    BY DEF Holding, Holds
  <1>3. \A S \in SUBSET Tasks : IsFiniteSet(S) /\ Cardinality(S) \in Nat
    BY FS_Subset, FS_CardinalityType
  <1>4. \A r : Paying(r) \in SUBSET Tasks
    BY <1>1
  <1>5. \A w : Holding(w) \in SUBSET Tasks
    BY <1>2
  <1>. QED  BY <1>1, <1>2, <1>3, <1>4, <1>5

(* What a job's step means for the two sets it is in. *)
LEMMA OwnShift ==
  ASSUME CallInv, NEW j \in Tasks, OwnMove(j)
  PROVE  /\ \A i \in Tasks : i # j => (Pays(i)' <=> Pays(i)) /\ (Holds(i)' <=> Holds(i))
         /\ \/ (Pays(j)' => Pays(j)) /\ UNCHANGED <<spent, peak>>
            \/ /\ ~Pays(j) /\ UNCHANGED spent /\ spent[RunOf[j]] < Ceiling
               /\ LET now == Cardinality(Paying(RunOf[j])) + 1
                  IN  peak' = [peak EXCEPT ![RunOf[j]] = IF now > peak[RunOf[j]] THEN now ELSE peak[RunOf[j]]]
            \/ /\ Pays(j) /\ ~Pays(j)' /\ UNCHANGED peak
               /\ spent' = spent \/ spent' = [spent EXCEPT ![RunOf[j]] = spent[RunOf[j]] + 1]
  <1>1. \A i \in Tasks : i # j => (Pays(i)' <=> Pays(i)) /\ (Holds(i)' <=> Holds(i))
    BY DEF OwnMove, Pays, Holds
  <1>2. CASE Pays(j)' => Pays(j)
    <2>1. CASE task[j].at = "meter" /\ task'[j].at = "leave"
      <3>1. Pays(j) /\ ~Pays(j)' /\ UNCHANGED peak
        BY <2>1 DEF OwnMove, Step, Moves, Pays, CallInv, AnsweredInv, Still
      <3>2. spent' = spent \/ spent' = [spent EXCEPT ![RunOf[j]] = spent[RunOf[j]] + 1]
        BY <2>1 DEF OwnMove, Step, Moves, Still
      <3>. QED  BY <1>1, <3>1, <3>2
    <2>2. CASE task[j].at = "check" /\ task'[j].at # "done"
      BY <1>2, <2>2 DEF OwnMove, Step, Moves, Pays
    <2>3. CASE ~(task[j].at = "meter" /\ task'[j].at = "leave") /\ ~(task[j].at = "check" /\ task'[j].at # "done")
      BY <1>1, <1>2, <2>3 DEF OwnMove, Step, Moves, Still
    <2>. QED  BY <2>1, <2>2, <2>3
  <1>3. CASE Pays(j)' /\ ~Pays(j)
    <2>1. task[j].at = "check" /\ task'[j].at \in {"breaker", "ready"}
      BY <1>3 DEF OwnMove, Step, Moves, Pays, KeepsOutcome
    <2>2. /\ UNCHANGED spent /\ spent[RunOf[j]] < Ceiling
          /\ LET now == Cardinality(Paying(RunOf[j])) + 1
             IN  peak' = [peak EXCEPT ![RunOf[j]] = IF now > peak[RunOf[j]] THEN now ELSE peak[RunOf[j]]]
      BY <2>1 DEF OwnMove, Step, Moves
    <2>. QED  BY <1>1, <1>3, <2>2
  <1>. QED  BY <1>2, <1>3

(* Calls that are no longer under way cannot overshoot. *)
LEMMA FewerPay ==
  ASSUME CallTypeOK, OvershootIsBounded, UNCHANGED <<spent, peak>>,
         \A j \in Tasks : Pays(j)' => Pays(j)
  PROVE  OvershootIsBounded'
  <1>1. ASSUME NEW r \in Runs
        PROVE  Cardinality(Paying(r)') \in Nat /\ Cardinality(Paying(r)) \in Nat
               /\ Cardinality(Paying(r)') <= Cardinality(Paying(r))
    <2>1. Paying(r)' \in SUBSET Paying(r)
      <3>1. ASSUME NEW j, j \in Paying(r)'  PROVE j \in Paying(r)
        <4>1. j \in Tasks /\ RunOf[j] = r /\ Pays(j)'
          BY <3>1 DEF Paying, Pays
        <4>. QED  BY <4>1, Sets
      <3>. QED  BY <3>1
    <2>. QED  BY <2>1, Sets, FS_Subset, FS_CardinalityType
  <1>. QED  BY <1>1, Types DEF OvershootIsBounded

LEMMA OwnOvershoot ==
  ASSUME CallInv, NEW j \in Tasks, OwnMove(j)
  PROVE  OvershootIsBounded'
  <1>. CallTypeOK /\ OvershootIsBounded /\ RunOf[j] \in Runs /\ spent \in [Runs -> Nat] /\ peak \in [Runs -> Nat]
    BY Types DEF CallInv
  <1>0. \A i \in Tasks : i # j => (Pays(i)' <=> Pays(i))
    BY OwnShift
  <1>a. \A r, i : i \in Paying(r)' <=> (i \in Tasks /\ RunOf[i] = r /\ Pays(i)')
    BY DEF Paying, Pays
  <1>b. ASSUME NEW r \in Runs, r # RunOf[j]  PROVE Paying(r)' = Paying(r)
    BY <1>0, <1>a, <1>b, Sets
  <1>1. CASE (Pays(j)' => Pays(j)) /\ UNCHANGED <<spent, peak>>
    BY <1>0, <1>1, FewerPay
  <1>2. CASE /\ ~Pays(j) /\ UNCHANGED spent /\ spent[RunOf[j]] < Ceiling
             /\ LET now == Cardinality(Paying(RunOf[j])) + 1
                IN  peak' = [peak EXCEPT ![RunOf[j]] = IF now > peak[RunOf[j]] THEN now ELSE peak[RunOf[j]]]
    <2>1. ASSUME NEW r \in Runs, r # RunOf[j], peak'[r] > 0
          PROVE  spent'[r] + Cardinality(Paying(r)') <= Ceiling - 1 + peak'[r]
      BY <1>2, <1>b, <2>1 DEF OvershootIsBounded
    <2>2. spent'[RunOf[j]] + Cardinality(Paying(RunOf[j])') <= Ceiling - 1 + peak'[RunOf[j]]
      <3>. DEFINE r == RunOf[j]
                  S == Paying(r)
      <3>1. Paying(r)' \in SUBSET (S \cup {j})
        BY <1>0, <1>a, Sets
      <3>2. IsFiniteSet(S) /\ j \notin S /\ Cardinality(S) \in Nat
        BY <1>2, Sets
      <3>3. IsFiniteSet(S \cup {j}) /\ Cardinality(S \cup {j}) = Cardinality(S) + 1
        BY <3>2, FS_AddElement
      <3>4. Cardinality(Paying(r)') <= Cardinality(S) + 1 /\ Cardinality(Paying(r)') \in Nat
        BY <3>1, <3>3, FS_Subset, FS_CardinalityType
      <3>5. peak'[r] >= Cardinality(S) + 1 /\ peak'[r] \in Nat
        BY <1>2, <3>2
      <3>6. spent'[r] = spent[r] /\ spent[r] < Ceiling /\ spent[r] \in Nat
        BY <1>2
      <3>. QED  BY <3>2, <3>4, <3>5, <3>6
    <2>. QED  BY <2>1, <2>2 DEF OvershootIsBounded
  <1>3. CASE /\ Pays(j) /\ ~Pays(j)' /\ UNCHANGED peak
             /\ spent' = spent \/ spent' = [spent EXCEPT ![RunOf[j]] = spent[RunOf[j]] + 1]
    <2>1. ASSUME NEW r \in Runs, r # RunOf[j], peak'[r] > 0
          PROVE  spent'[r] + Cardinality(Paying(r)') <= Ceiling - 1 + peak'[r]
      BY <1>3, <1>b, <2>1 DEF OvershootIsBounded
    <2>2. ASSUME peak'[RunOf[j]] > 0
          PROVE  spent'[RunOf[j]] + Cardinality(Paying(RunOf[j])') <= Ceiling - 1 + peak'[RunOf[j]]
      <3>. DEFINE r == RunOf[j]
                  S == Paying(r)
      <3>1. Paying(r)' \in SUBSET (S \ {j})
        BY <1>0, <1>3, <1>a, Sets
      <3>2. IsFiniteSet(S) /\ j \in S /\ Cardinality(S) \in Nat
        BY <1>3, Sets
      <3>3. IsFiniteSet(S \ {j}) /\ Cardinality(S \ {j}) = Cardinality(S) - 1
        BY <3>2, FS_RemoveElement
      <3>4. Cardinality(Paying(r)') <= Cardinality(S) - 1 /\ Cardinality(Paying(r)') \in Nat
        BY <3>1, <3>3, FS_Subset, FS_CardinalityType
      <3>5. spent'[r] <= spent[r] + 1 /\ spent[r] \in Nat /\ spent'[r] \in Nat
        BY <1>3
      <3>6. spent[r] + Cardinality(S) <= Ceiling - 1 + peak[r] /\ peak'[r] = peak[r] /\ peak[r] \in Nat
        BY <1>3, <2>2 DEF OvershootIsBounded
      <3>. QED  BY <3>2, <3>4, <3>5, <3>6
    <2>. QED  BY <2>1, <2>2 DEF OvershootIsBounded
  <1>. QED  BY <1>1, <1>2, <1>3, OwnShift

-----------------------------------------------------------------------------
(* Types. *)
LEMMA OwnTypes ==
  ASSUME CallInv, NEW j \in Tasks, OwnMove(j)
  PROVE  CallTypeOK' /\ AnsweredInv'
  <1>. CallTypeOK /\ AnsweredInv
    BY DEF CallInv
  <1>. /\ task \in [Tasks -> Records] /\ task[j] \in Records /\ task' \in [Tasks -> Records]
       /\ switch \in {"released", "engaged"} /\ changed \in 0..Refresh /\ halt \in [Workers -> Readings]
       /\ RunOf[j] \in Runs /\ spent \in [Runs -> Nat] /\ peak \in [Runs -> Nat]
       /\ permits \in [Workers -> 0..Permits] /\ waiting \in [Workers -> Seq(Tasks)]
       /\ \A i \in Tasks :
            /\ task[i].worker = "none" <=> task[i].at \in {"queued", "done"}
            /\ task[i].at = "return" => i \in Evaluators
            /\ Settled(i) => task[i].at \in {"record", "trip", "meter", "leave"}
    BY Types DEF OwnMove
  <1>1. halt' \in [Workers -> Readings]
    <2>1. CASE task[j].at = "switch" /\ Cache(j, switch)
      <3>. DEFINE x == IF task[j].age < Refresh THEN [age |-> task[j].age, switch |-> switch] ELSE NoReading
      <3>1. x \in Readings
        BY WrittenTypes DEF Readings, Records
      <3>2. halt' = [halt EXCEPT ![task[j].worker] = x]
        BY <2>1 DEF Cache
      <3>. HIDE DEF x
      <3>. QED  BY <3>1, <3>2
    <2>. QED  BY <2>1 DEF OwnMove
  <1>2. /\ task'[j].worker = "none" <=> task'[j].at \in {"queued", "done"}
        /\ \A i \in Tasks : i # j => task'[i] = task[i]
    BY DEF OwnMove, Located
  <1>3. /\ Settled(j)' => task'[j].at \in {"record", "trip", "meter", "leave"}
        /\ task'[j].at = "return" => j \in Evaluators
    BY CallGateAssumption DEF OwnMove, Step, Moves, KeepsOutcome, Settled
  <1>4. \A i \in Tasks :
          /\ task'[i].worker = "none" <=> task'[i].at \in {"queued", "done"}
          /\ task'[i].at = "return" => i \in Evaluators
          /\ Settled(i)' => task'[i].at \in {"record", "trip", "meter", "leave"}
    BY <1>2, <1>3 DEF Settled
  <1>5. spent' \in [Runs -> Nat]
    BY DEF OwnMove, Step, Still
  <1>6. peak' \in [Runs -> Nat]
    <2>1. CASE task[j].at = "check" /\ task'[j].at # "done"
      <3>. DEFINE S == Paying(RunOf[j])
      <3>1. peak' = [peak EXCEPT ![RunOf[j]] = IF Cardinality(S) + 1 > peak[RunOf[j]] THEN Cardinality(S) + 1 ELSE peak[RunOf[j]]]
        BY <2>1 DEF OwnMove, Step, Moves
      <3>2. Cardinality(S) \in Nat
        BY Sets
      <3>. HIDE DEF S
      <3>. QED  BY <3>1, <3>2
    <2>2. CASE ~(task[j].at = "check" /\ task'[j].at # "done")
      BY <2>2 DEF OwnMove, Step, Moves, Still
    <2>. QED  BY <2>1, <2>2
  <1>7. permits' \in [Workers -> 0..Permits] /\ waiting' \in [Workers -> Seq(Tasks)]
    <2>1. CASE task[j].at = "ready"
      <3>1. task[j].worker \in Workers
        BY <2>1 DEF Records
      <3>2. permits[task[j].worker] \in 0..Permits /\ Append(waiting[task[j].worker], j) \in Seq(Tasks)
        BY <3>1
      <3>3. \/ /\ UNCHANGED waiting /\ permits[task[j].worker] > 0
               /\ permits' = [permits EXCEPT ![task[j].worker] = permits[task[j].worker] - 1]
            \/ /\ UNCHANGED permits
               /\ waiting' = [waiting EXCEPT ![task[j].worker] = Append(waiting[task[j].worker], j)]
        BY <2>1 DEF OwnMove, Step, Moves
      <3>4. CASE /\ UNCHANGED waiting /\ permits[task[j].worker] > 0
                 /\ permits' = [permits EXCEPT ![task[j].worker] = permits[task[j].worker] - 1]
        <4>1. permits[task[j].worker] - 1 \in 0..Permits
          BY <3>2, <3>4
        <4>. QED  BY <3>4, <4>1
      <3>5. CASE /\ UNCHANGED permits
                 /\ waiting' = [waiting EXCEPT ![task[j].worker] = Append(waiting[task[j].worker], j)]
        BY <3>2, <3>5
      <3>. QED  BY <3>3, <3>4, <3>5
    <2>2. CASE task[j].at # "ready"
      BY <2>2 DEF OwnMove, Step, Moves, Still
    <2>. QED  BY <2>1, <2>2
  <1>8. AnsweredInv'
    <2>1. task'[j].at = "meter" => task'[j].outcome = "ok"
      BY DEF OwnMove, Step, Moves, KeepsOutcome, AnsweredInv
    <2>. QED  BY <1>2, <2>1 DEF AnsweredInv
  <1>9. switch' \in {"released", "engaged"} /\ changed' \in 0..Refresh
        /\ breaker' \in [failures: 0..Threshold, open: 0..Cooldown]
    BY DEF OwnMove
  <1>. QED  BY <1>1, <1>4, <1>5, <1>6, <1>7, <1>8, <1>9 DEF CallTypeOK, Records, Readings

(* The stop, after a job's own step: a reading that is cached is dated when *)
(* it began, and is of the switch as it is.                                 *)
LEMMA OwnStop ==
  ASSUME CallInv, NEW j \in Tasks, OwnMove(j)
  PROVE  StopInv'
  <1>. /\ CallTypeOK /\ StopInv /\ task[j] \in Records /\ halt \in [Workers -> Readings]
       /\ changed \in 0..Refresh
    BY Types DEF CallInv
  <1>1. ASSUME NEW w \in Workers, halt'[w].age < Refresh, halt'[w].switch # switch'
        PROVE  changed' <= halt'[w].age
    <2>1. switch' = switch /\ changed' = changed
      BY DEF OwnMove
    <2>2. CASE halt' = halt
      BY <1>1, <2>1, <2>2 DEF StopInv
    <2>3. CASE Cache(j, switch)
      <3>1. CASE w = task[j].worker
        <4>1. halt'[w] = IF task[j].age < Refresh THEN [age |-> task[j].age, switch |-> switch] ELSE NoReading
          BY <2>3, <3>1 DEF Cache
        <4>2. halt'[w].age >= Refresh \/ halt'[w].switch = switch
          BY <4>1, WrittenTypes
        <4>3. halt'[w].age \in 0..Refresh
          BY <4>1, WrittenTypes DEF Records
        <4>. QED  BY <1>1, <2>1, <4>2, <4>3
      <3>2. CASE w # task[j].worker
        <4>1. halt'[w] = halt[w]
          BY <2>3, <3>2 DEF Cache
        <4>. QED  BY <1>1, <2>1, <4>1 DEF StopInv
      <3>. QED  BY <3>1, <3>2
    <2>. QED  BY <2>2, <2>3 DEF OwnMove
  <1>2. ASSUME NEW i \in Tasks, task'[i].late = "yes"
        PROVE  task'[i].at = "switch" /\ switch' = "engaged"
    <2>1. CASE i = j
      BY <1>2, <2>1 DEF OwnMove, Located
    <2>2. CASE i # j
      BY <1>2, <2>2 DEF OwnMove, StopInv
    <2>. QED  BY <2>1, <2>2
  <1>. QED  BY <1>1, <1>2 DEF StopInv

-----------------------------------------------------------------------------
(* PermitsAreConserved, for one process, with its parts named. *)
Conserved(w) ==
  /\ permits[w] + Cardinality(Holding(w)) = Permits
  /\ waiting[w] # <<>> => permits[w] = 0
  /\ \A j \in Tasks : (task[j].at = "waiting" /\ task[j].worker = w) <=> j \in ToSet(waiting[w])
  /\ IsInjective(waiting[w])

LEMMA Permitted == PermitsAreConserved <=> \A w \in Workers : Conserved(w)
BY DEF PermitsAreConserved, Conserved

(* A process none of whose jobs took, gave back or waits for a permit. *)
LEMMA Elsewhere ==
  ASSUME NEW w \in Workers, Conserved(w), permits'[w] = permits[w], waiting'[w] = waiting[w],
         \A j \in Tasks : (task'[j].worker = w /\ Holds(j)') <=> (task[j].worker = w /\ Holds(j)),
         \A j \in Tasks : (task'[j].at = "waiting" /\ task'[j].worker = w)
                           <=> (task[j].at = "waiting" /\ task[j].worker = w)
  PROVE  Conserved(w)'
  <1>1. \A j : j \in Holding(w)' <=> (j \in Tasks /\ task'[j].worker = w /\ Holds(j)')
    BY DEF Holding, Holds
  <1>2. \A j : j \in Holding(w) <=> (j \in Tasks /\ task[j].worker = w /\ Holds(j))
    BY Sets
  <1>3. Holding(w)' = Holding(w)
    <2>1. \A j : j \in Holding(w)' <=> j \in Holding(w)
      BY <1>1, <1>2
    <2>. QED  BY <2>1, Zenon
  <1>. QED  BY <1>3 DEF Conserved

LEMMA OwnPermits ==
  ASSUME CallInv, NEW j \in Tasks, OwnMove(j)
  PROVE  PermitsAreConserved'
  <1>. /\ CallTypeOK /\ task[j] \in Records /\ permits \in [Workers -> 0..Permits]
       /\ waiting \in [Workers -> Seq(Tasks)]
       /\ task[j].worker = "none" <=> task[j].at \in {"queued", "done"}
    BY Types DEF CallInv
  <1>0. \A w \in Workers : Conserved(w)
    BY Permitted DEF CallInv
  <1>1. \A i \in Tasks : i # j => task'[i] = task[i]
    BY DEF OwnMove
  <1>2. \A i \in Tasks : i # j => (Holds(i)' <=> Holds(i))
    BY OwnShift
  <1>3. CASE Moves(j, "ready", "call") \/ Moves(j, "ready", "waiting")
    <2>0. PICK v \in Workers : v = task[j].worker
      BY <1>3 DEF Moves, Records
    <2>1. v \in Workers /\ task[j].worker = v /\ task'[j].worker = v /\ ~Holds(j)
      BY <1>3, <2>0 DEF Moves, OwnMove, Located, Holds
    <2>2. ASSUME NEW w \in Workers, w # v  PROVE Conserved(w)'
      <3>1. permits'[w] = permits[w] /\ waiting'[w] = waiting[w]
        BY <1>3, <2>1, <2>2 DEF OwnMove, Step, Moves
      <3>. QED  BY <1>0, <1>1, <1>2, <2>1, <2>2, <3>1, Elsewhere
    <2>3. CASE Moves(j, "ready", "call")
      <3>0. /\ UNCHANGED waiting /\ permits[task[j].worker] > 0
            /\ permits' = [permits EXCEPT ![task[j].worker] = permits[task[j].worker] - 1]
        BY <2>3 DEF OwnMove, Step, Moves, Still
      <3>1. /\ UNCHANGED waiting /\ permits[v] > 0 /\ permits' = [permits EXCEPT ![v] = permits[v] - 1]
            /\ task[j].at = "ready" /\ task'[j].at = "call"
        BY <2>1, <2>3, <3>0 DEF Moves
      <3>2. \A i : i \in Holding(v)' <=> (i \in Tasks /\ task'[i].worker = v /\ Holds(i)')
        BY DEF Holding, Holds
      <3>3. Holds(j)'
        BY <3>1 DEF Holds
      <3>a. j \notin Holding(v) /\ \A i : i \in Holding(v)' <=> (i \in Holding(v) \/ i = j)
        <4>1. ASSUME NEW i, i # j  PROVE i \in Holding(v)' <=> i \in Holding(v)
          <5>1. i \in Tasks => task'[i] = task[i] /\ (Holds(i)' <=> Holds(i))
            BY <1>1, <1>2, <4>1
          <5>2. i \in Holding(v) <=> (i \in Tasks /\ task[i].worker = v /\ Holds(i))
            BY Sets, Zenon
          <5>3. i \in Holding(v)' <=> (i \in Tasks /\ task'[i].worker = v /\ Holds(i)')
            BY <3>2, Zenon
          <5>. QED  BY <5>1, <5>2, <5>3
        <4>2. j \in Holding(v)' /\ j \notin Holding(v)
          BY <2>1, <3>2, <3>3, Sets
        <4>. QED  BY <4>1, <4>2
      <3>4. Holding(v)' = Holding(v) \cup {j} /\ j \notin Holding(v)
        BY <3>a, Zenon
      <3>5. Cardinality(Holding(v)') = Cardinality(Holding(v)) + 1 /\ Cardinality(Holding(v)) \in Nat
        BY <3>4, Sets, FS_AddElement
      <3>6. permits'[v] = permits[v] - 1 /\ permits[v] \in Nat /\ waiting'[v] = waiting[v]
        BY <2>1, <3>1
      <3>7. permits'[v] + Cardinality(Holding(v)') = Permits
        BY <1>0, <2>1, <3>5, <3>6 DEF Conserved
      <3>8. waiting'[v] = <<>>
        BY <1>0, <2>1, <3>1, <3>6 DEF Conserved
      <3>b. \A i \in Tasks : (task[i].at = "waiting" /\ task[i].worker = v) <=> i \in ToSet(waiting[v])
        BY <1>0, <2>1, Zenon DEF Conserved
      <3>9. \A i \in Tasks : (task'[i].at = "waiting" /\ task'[i].worker = v) <=> i \in ToSet(waiting'[v])
        <4>1. ASSUME NEW i \in Tasks, i # j
              PROVE  (task'[i].at = "waiting" /\ task'[i].worker = v) <=> i \in ToSet(waiting'[v])
          BY <1>1, <3>6, <3>b, <4>1
        <4>2. task'[j].at # "waiting" /\ j \notin ToSet(waiting'[v])
          BY <3>1, <3>6, <3>b
        <4>. QED  BY <4>1, <4>2
      <3>10. IsInjective(waiting'[v])
        BY <1>0, <2>1, <3>6 DEF Conserved
      <3>11. Conserved(v)'
        BY <3>7, <3>8, <3>9, <3>10 DEF Conserved
      <3>. QED  BY <2>2, <3>11 DEF Conserved, PermitsAreConserved
    <2>4. CASE Moves(j, "ready", "waiting")
      <3>0. /\ UNCHANGED permits /\ permits[task[j].worker] = 0
            /\ waiting' = [waiting EXCEPT ![task[j].worker] = Append(waiting[task[j].worker], j)]
        BY <2>4 DEF OwnMove, Step, Moves, Still
      <3>1. /\ UNCHANGED permits /\ permits[v] = 0 /\ waiting' = [waiting EXCEPT ![v] = Append(waiting[v], j)]
            /\ task[j].at = "ready" /\ task'[j].at = "waiting"
        BY <2>1, <2>4, <3>0 DEF Moves
      <3>2. \A i : i \in Holding(v)' <=> (i \in Tasks /\ task'[i].worker = v /\ Holds(i)')
        BY DEF Holding, Holds
      <3>3. ~Holds(j)'
        BY <3>1 DEF Holds
      <3>a. \A i : i \in Holding(v)' <=> i \in Holding(v)
        <4>1. ASSUME NEW i, i # j  PROVE i \in Holding(v)' <=> i \in Holding(v)
          <5>1. i \in Tasks => task'[i] = task[i] /\ (Holds(i)' <=> Holds(i))
            BY <1>1, <1>2, <4>1
          <5>2. i \in Holding(v) <=> (i \in Tasks /\ task[i].worker = v /\ Holds(i))
            BY Sets, Zenon
          <5>3. i \in Holding(v)' <=> (i \in Tasks /\ task'[i].worker = v /\ Holds(i)')
            BY <3>2, Zenon
          <5>. QED  BY <5>1, <5>2, <5>3
        <4>2. j \notin Holding(v)' /\ j \notin Holding(v)
          BY <2>1, <3>2, <3>3, Sets
        <4>. QED  BY <4>1, <4>2
      <3>4. Holding(v)' = Holding(v)
        BY <3>a, Zenon
      <3>5. j \notin ToSet(waiting[v]) /\ IsInjective(waiting[v]) /\ waiting[v] \in Seq(Tasks)
        BY <1>0, <2>1, <3>1 DEF Conserved
      <3>6. waiting'[v] = Append(waiting[v], j) /\ permits'[v] = permits[v]
        BY <2>1, <3>1
      <3>7. /\ \A i : i \in ToSet(waiting'[v]) <=> (i \in ToSet(waiting[v]) \/ i = j)
            /\ IsInjective(waiting'[v])
        BY <3>5, <3>6, Joins
      <3>b. \A i \in Tasks : (task[i].at = "waiting" /\ task[i].worker = v) <=> i \in ToSet(waiting[v])
        BY <1>0, <2>1, Zenon DEF Conserved
      <3>8. \A i \in Tasks : (task'[i].at = "waiting" /\ task'[i].worker = v) <=> i \in ToSet(waiting'[v])
        <4>1. ASSUME NEW i \in Tasks, i # j
              PROVE  (task'[i].at = "waiting" /\ task'[i].worker = v) <=> i \in ToSet(waiting'[v])
          BY <1>1, <3>7, <3>b, <4>1
        <4>2. task'[j].at = "waiting" /\ task'[j].worker = v /\ j \in ToSet(waiting'[v])
          BY <2>1, <3>1, <3>7
        <4>. QED  BY <4>1, <4>2
      <3>9. permits'[v] + Cardinality(Holding(v)') = Permits /\ permits'[v] = 0
        BY <1>0, <2>1, <3>1, <3>4, <3>6 DEF Conserved
      <3>10. Conserved(v)'
        BY <3>7, <3>8, <3>9 DEF Conserved
      <3>. QED  BY <2>2, <3>10 DEF Conserved, PermitsAreConserved
    <2>. QED  BY <1>3, <2>3, <2>4
  <1>4. CASE ~(Moves(j, "ready", "call") \/ Moves(j, "ready", "waiting"))
    <2>1. UNCHANGED <<permits, waiting>>
      BY <1>4 DEF OwnMove, Step, Still
    <2>2. (Holds(j)' <=> Holds(j)) /\ task[j].at # "waiting" /\ task'[j].at # "waiting"
      BY <1>4 DEF OwnMove, Step, Moves, Holds
    <2>3. Holds(j) => task'[j].worker = task[j].worker
      BY <2>2 DEF OwnMove, Located, Holds
    <2>4. ASSUME NEW w \in Workers  PROVE Conserved(w)'
      BY <1>0, <1>1, <1>2, <2>1, <2>2, <2>3, Elsewhere
    <2>. QED  BY <2>4 DEF Conserved, PermitsAreConserved
  <1>. QED  BY <1>3, <1>4

-----------------------------------------------------------------------------
(* Where jobs only start over, end, turn to recording what their call came  *)
(* to, or are woken, and caches are only lost, nothing but the permits is   *)
(* at stake.                                                                *)
Over(i) ==
  /\ task'[i].at \in {"queued", "done"} /\ task'[i].worker = "none"
  /\ task'[i].outcome = "none" /\ task'[i].late = "no"

Recording(i) ==
  /\ i \in Evaluators /\ task[i].at = "return" /\ task'[i].at \in {"record", "leave"}
  /\ task'[i].worker = task[i].worker /\ task'[i].outcome = task[i].outcome
  /\ task'[i].late = task[i].late

Woken(i) ==
  /\ task[i].at = "waiting" /\ task'[i].at = "call" /\ task'[i].worker = task[i].worker
  /\ task'[i].outcome = task[i].outcome /\ task'[i].late = task[i].late

LEMMA Quiet ==
  ASSUME CallInv, task' \in [Tasks -> Records], UNCHANGED <<switch, changed, spent, peak, breaker>>,
         halt' \in [Workers -> Readings], \A w \in Workers : halt'[w] = halt[w] \/ halt'[w] = NoReading,
         permits' \in [Workers -> 0..Permits], waiting' \in [Workers -> Seq(Tasks)],
         \A i \in Tasks : task'[i] = task[i] \/ Over(i) \/ Recording(i) \/ Woken(i)
  PROVE  CallTypeOK' /\ AnsweredInv' /\ StopInv' /\ OvershootIsBounded'
  <1>. CallTypeOK /\ AnsweredInv /\ StopInv /\ OvershootIsBounded
    BY DEF CallInv
  <1>1. ASSUME NEW i \in Tasks
        PROVE  /\ task'[i].worker = "none" <=> task'[i].at \in {"queued", "done"}
               /\ task'[i].at = "return" => i \in Evaluators
               /\ Settled(i)' => task'[i].at \in {"record", "trip", "meter", "leave"}
               /\ task'[i].at = "meter" => task'[i].outcome = "ok"
               /\ task'[i].late = "yes" => task'[i].at = "switch" /\ switch' = "engaged"
               /\ Pays(i)' => Pays(i)
    <2>0. /\ task[i].worker = "none" <=> task[i].at \in {"queued", "done"}
          /\ task[i].at = "return" => i \in Evaluators
          /\ Settled(i) => task[i].at \in {"record", "trip", "meter", "leave"}
      BY Types
    <2>1. CASE task'[i] = task[i]
      BY <2>0, <2>1 DEF Settled, AnsweredInv, StopInv, Pays
    <2>2. CASE Over(i)
      BY <2>2 DEF Over, Settled, Pays
    <2>3. CASE Woken(i)
      BY <2>0, <2>3 DEF Woken, Settled, StopInv, Pays
    <2>4. CASE Recording(i)
      BY <2>0, <2>4, CallGateAssumption DEF Recording, Settled, StopInv, Pays
    <2>. QED  BY <2>1, <2>2, <2>3, <2>4
  <1>2. \A w \in Workers : halt'[w].age < Refresh /\ halt'[w].switch # switch' => changed' <= halt'[w].age
    <2>1. ASSUME NEW w \in Workers, halt'[w].age < Refresh, halt'[w].switch # switch'
          PROVE  changed' <= halt'[w].age
      <3>1. CASE halt'[w] = halt[w]
        BY <2>1, <3>1 DEF StopInv
      <3>2. CASE halt'[w] = NoReading
        BY <2>1, <3>2, WrittenTypes
      <3>. QED  BY <3>1, <3>2
    <2>. QED  BY <2>1
  <1>3. OvershootIsBounded'
    BY <1>1, FewerPay
  <1>4. AnsweredInv' /\ StopInv'
    BY <1>1, <1>2 DEF AnsweredInv, StopInv
  <1>5. CallTypeOK'
    BY <1>1, Types DEF CallTypeOK, Records, Readings
  <1>. QED  BY <1>3, <1>4, <1>5

LEMMA ReleaseStep ==
  ASSUME CallInv, NEW j \in Tasks, Release(j)
  PROVE  CallInv'
  <1>. /\ CallTypeOK /\ task \in [Tasks -> Records] /\ task[j] \in Records
       /\ halt \in [Workers -> Readings] /\ permits \in [Workers -> 0..Permits]
       /\ waiting \in [Workers -> Seq(Tasks)]
       /\ task[j].worker = "none" <=> task[j].at \in {"queued", "done"}
    BY Types DEF CallInv
  <1>0. \A w \in Workers : Conserved(w)
    BY Permitted DEF CallInv
  <1>1. /\ task[j].at = LastHeld(j) /\ task[j].at \in {"leave", "return"}
        /\ UNCHANGED <<spent, breaker, peak>> /\ UNCHANGED gateVars
    BY DEF Release, LastHeld
  <1>2. PICK v \in Workers : v = task[j].worker
    BY <1>1 DEF Records
  <1>3. PICK next \in Returned(j) :
          \/ /\ waiting[v] # <<>> /\ Wake(v, [task EXCEPT ![j] = next]) /\ UNCHANGED permits
          \/ /\ waiting[v] = <<>> /\ UNCHANGED waiting
             /\ permits' = [permits EXCEPT ![v] = permits[v] + 1]
             /\ task' = [task EXCEPT ![j] = next]
    BY <1>2 DEF Release
  <1>4. /\ next \in Records /\ next.at \notin {"waiting", "call", "return"}
        /\ \/ /\ next.at \in {"queued", "done"} /\ next.worker = "none"
              /\ next.outcome = "none" /\ next.late = "no"
           \/ /\ j \in Evaluators /\ j \notin Candidates /\ task[j].at = "return"
              /\ next.at \in {"record", "leave"} /\ next.worker = task[j].worker
              /\ next.outcome = task[j].outcome /\ next.late = task[j].late
    <2>1. CASE j \in Candidates
      BY <1>3, <2>1, WrittenTypes DEF Returned, Left
    <2>2. CASE j \notin Candidates
      <3>. DEFINE at == Onward(task[j].outcome)
      <3>1. next = [task[j] EXCEPT !.at = at] /\ at \in {"record", "leave"} /\ at \in Places
        BY <1>3, <2>2 DEF Returned, Onward, Places
      <3>2. j \in Evaluators /\ task[j].at = "return"
        BY <1>1, <2>2 DEF LastHeld, Tasks
      <3>. HIDE DEF at
      <3>. QED  BY <2>2, <3>1, <3>2 DEF Records
    <2>. QED  BY <2>1, <2>2
  <1>e. next.worker = v => j \notin Candidates /\ next.at \in {"record", "leave"}
    <2>1. "none" \notin Workers
      BY CallGateAssumption
    <2>. QED  BY <1>4, <2>1
  <1>f. task'[j] = next => task'[j] = task[j] \/ Over(j) \/ Recording(j)
    BY <1>4 DEF Over, Recording
  <1>g. task'[j] = next => ~(task'[j].worker = v /\ Holds(j)')
    BY <1>e DEF Holds
  <1>5. Holds(j) /\ j \in Holding(v) /\ v # "none"
    BY <1>1, <1>2, Sets DEF Holds, LastHeld
  <1>6. /\ permits[v] + Cardinality(Holding(v)) = Permits /\ permits[v] \in 0..Permits
        /\ IsInjective(waiting[v]) /\ waiting[v] \in Seq(Tasks)
        /\ waiting[v] # <<>> => permits[v] = 0
    BY <1>0 DEF Conserved
  <1>b. \A i \in Tasks : (task[i].at = "waiting" /\ task[i].worker = v) <=> i \in ToSet(waiting[v])
    BY <1>0, Zenon DEF Conserved
  <1>c. \A i : i \in Holding(v)' <=> (i \in Tasks /\ task'[i].worker = v /\ Holds(i)')
    BY DEF Holding, Holds
  <1>d. Cardinality(Holding(v) \ {j}) = Cardinality(Holding(v)) - 1 /\ IsFiniteSet(Holding(v) \ {j})
        /\ Cardinality(Holding(v)) \in Nat /\ Cardinality(Holding(v) \ {j}) \in Nat
    BY <1>5, Sets, FS_RemoveElement, FS_CardinalityType
  <1>7. CASE /\ waiting[v] # <<>> /\ Wake(v, [task EXCEPT ![j] = next]) /\ UNCHANGED permits
    <2>. DEFINE first == Head(waiting[v])
    <2>0. PICK i \in Tasks : i = first /\ i \in ToSet(waiting[v])
      BY <1>6, <1>7, Leaves
    <2>1. task[i].at = "waiting" /\ task[i].worker = v /\ i # j
      BY <1>1, <1>b, <2>0
    <2>2. waiting' = [waiting EXCEPT ![v] = Tail(waiting[v])]
          /\ task' = [[task EXCEPT ![j] = next] EXCEPT ![i].at = "call"]
      BY <1>7, <2>0 DEF Wake
    <2>. DEFINE x == [task[i] EXCEPT !.at = "call"]
    <2>3. /\ x \in Records /\ x.at = "call" /\ x.worker = task[i].worker
          /\ x.outcome = task[i].outcome /\ x.late = task[i].late
      BY DEF Records, Places
    <2>4. task' = [[task EXCEPT ![j] = next] EXCEPT ![i] = x]
      BY <2>1, <2>2
    <2>. HIDE DEF x
    <2>5. /\ task' \in [Tasks -> Records] /\ task'[j] = next /\ task'[i] = x
          /\ \A k \in Tasks : k # i /\ k # j => task'[k] = task[k]
      BY <1>4, <2>1, <2>3, <2>4
    <2>6. /\ Tail(waiting[v]) \in Seq(Tasks) /\ IsInjective(Tail(waiting[v]))
          /\ \A k : k \in ToSet(Tail(waiting[v])) <=> (k \in ToSet(waiting[v]) /\ k # i)
      BY <1>6, <1>7, <2>0, Leaves
    <2>7. CallTypeOK' /\ AnsweredInv' /\ StopInv' /\ OvershootIsBounded'
      <3>1. (task'[j] = task[j] \/ Over(j) \/ Recording(j)) /\ Woken(i)
        BY <1>f, <2>1, <2>3, <2>5 DEF Woken
      <3>2. waiting' \in [Workers -> Seq(Tasks)] /\ UNCHANGED permits
        BY <1>7, <2>2, <2>6
      <3>. QED  BY <1>1, <2>5, <3>1, <3>2, Quiet DEF gateVars
    <2>8. ASSUME NEW w \in Workers, w # v  PROVE Conserved(w)'
      <3>1. permits'[w] = permits[w] /\ waiting'[w] = waiting[w]
        BY <1>7, <2>2, <2>8
      <3>2. ASSUME NEW k \in Tasks
            PROVE  /\ (task'[k].worker = w /\ Holds(k)') <=> (task[k].worker = w /\ Holds(k))
                   /\ (task'[k].at = "waiting" /\ task'[k].worker = w)
                      <=> (task[k].at = "waiting" /\ task[k].worker = w)
        <4>1. CASE k = j
          BY <1>2, <1>4, <2>5, <2>8, <4>1
        <4>2. CASE k = i
          BY <2>1, <2>3, <2>5, <2>8, <4>2
        <4>3. CASE k # i /\ k # j
          BY <2>5, <4>3 DEF Holds
        <4>. QED  BY <4>1, <4>2, <4>3
      <3>. QED  BY <1>0, <3>1, <3>2, Elsewhere
    <2>9. Conserved(v)'
      <3>1. \A k : k \in Holding(v)' <=> (k \in Holding(v) \ {j} \/ k = i)
        <4>1. ASSUME NEW k, k # i, k # j  PROVE k \in Holding(v)' <=> k \in Holding(v)
          <5>1. ASSUME k \in Tasks  PROVE task'[k] = task[k] /\ (Holds(k)' <=> Holds(k))
            BY <2>5, <4>1, <5>1 DEF Holds
          <5>. QED  BY <1>c, <5>1, Sets
        <4>2. i \in Holding(v)'
          BY <1>c, <2>1, <2>3, <2>5 DEF Holds
        <4>3. j \notin Holding(v)'
          BY <1>c, <1>g, <2>5
        <4>. QED  BY <2>1, <4>1, <4>2, <4>3
      <3>2. Holding(v)' = (Holding(v) \ {j}) \cup {i}
        BY <3>1, Zenon
      <3>3. i \notin Holding(v) \ {j}
        BY <2>1, Sets DEF Holds
      <3>4. Cardinality(Holding(v)') = Cardinality(Holding(v))
        <4>1. Cardinality((Holding(v) \ {j}) \cup {i}) = Cardinality(Holding(v) \ {j}) + 1
          BY <1>d, <3>3, FS_AddElement
        <4>. QED  BY <1>d, <3>2, <4>1
      <3>5. permits'[v] = permits[v] /\ waiting'[v] = Tail(waiting[v])
        BY <1>7, <2>2
      <3>6. \A k \in Tasks : (task'[k].at = "waiting" /\ task'[k].worker = v) <=> k \in ToSet(waiting'[v])
        <4>1. ASSUME NEW k \in Tasks, k # i, k # j
              PROVE  (task'[k].at = "waiting" /\ task'[k].worker = v) <=> k \in ToSet(waiting'[v])
          BY <1>b, <2>5, <2>6, <3>5, <4>1
        <4>2. task'[i].at # "waiting" /\ i \notin ToSet(waiting'[v])
          BY <2>3, <2>5, <2>6, <3>5
        <4>3. task'[j].at # "waiting" /\ j \notin ToSet(waiting'[v])
          BY <1>1, <1>4, <1>b, <2>5, <2>6, <3>5
        <4>. QED  BY <4>1, <4>2, <4>3
      <3>. QED  BY <1>6, <1>7, <2>6, <3>4, <3>5, <3>6 DEF Conserved
    <2>. QED  BY <2>7, <2>8, <2>9 DEF CallInv, PermitsAreConserved, Conserved
  <1>8. CASE /\ waiting[v] = <<>> /\ UNCHANGED waiting
             /\ permits' = [permits EXCEPT ![v] = permits[v] + 1]
             /\ task' = [task EXCEPT ![j] = next]
    <2>1. task' \in [Tasks -> Records] /\ task'[j] = next /\ \A i \in Tasks : i # j => task'[i] = task[i]
      BY <1>4, <1>8, PutTypes
    <2>2. \A k : k \in Holding(v)' <=> (k \in Holding(v) \ {j})
      <3>1. ASSUME NEW k, k # j  PROVE k \in Holding(v)' <=> k \in Holding(v)
        <4>1. ASSUME k \in Tasks  PROVE task'[k] = task[k] /\ (Holds(k)' <=> Holds(k))
          BY <2>1, <3>1, <4>1 DEF Holds
        <4>2. k \in Holding(v) <=> (k \in Tasks /\ task[k].worker = v /\ Holds(k))
          BY Sets
        <4>3. k \in Holding(v)' <=> (k \in Tasks /\ task'[k].worker = v /\ Holds(k)')
          BY <1>c
        <4>. QED  BY <4>1, <4>2, <4>3
      <3>2. j \notin Holding(v)'
        BY <1>c, <1>g, <2>1
      <3>. QED  BY <3>1, <3>2
    <2>3. Holding(v)' = Holding(v) \ {j}
      BY <2>2, Zenon
    <2>4. permits'[v] = permits[v] + 1 /\ permits'[v] \in 0..Permits
          /\ permits'[v] + Cardinality(Holding(v)') = Permits
      BY <1>6, <1>8, <1>d, <2>3
    <2>5. permits' \in [Workers -> 0..Permits]
      BY <1>8, <2>4
    <2>6. CallTypeOK' /\ AnsweredInv' /\ StopInv' /\ OvershootIsBounded'
      <3>1. task'[j] = task[j] \/ Over(j) \/ Recording(j)
        BY <1>f, <2>1
      <3>. QED  BY <1>1, <1>8, <2>1, <2>5, <3>1, Quiet DEF gateVars
    <2>7. ASSUME NEW w \in Workers, w # v  PROVE Conserved(w)'
      <3>1. permits'[w] = permits[w] /\ waiting'[w] = waiting[w]
        BY <1>8, <2>7
      <3>2. ASSUME NEW k \in Tasks
            PROVE  /\ (task'[k].worker = w /\ Holds(k)') <=> (task[k].worker = w /\ Holds(k))
                   /\ (task'[k].at = "waiting" /\ task'[k].worker = w)
                      <=> (task[k].at = "waiting" /\ task[k].worker = w)
        <4>1. CASE k = j
          BY <1>2, <1>4, <2>1, <2>7, <4>1
        <4>2. CASE k # j
          BY <2>1, <4>2 DEF Holds
        <4>. QED  BY <4>1, <4>2
      <3>. QED  BY <1>0, <3>1, <3>2, Elsewhere
    <2>8. Conserved(v)'
      <3>1. \A k \in Tasks : (task'[k].at = "waiting" /\ task'[k].worker = v) <=> k \in ToSet(waiting'[v])
        <4>1. ASSUME NEW k \in Tasks, k # j
              PROVE  (task'[k].at = "waiting" /\ task'[k].worker = v) <=> k \in ToSet(waiting'[v])
          BY <1>8, <1>b, <2>1, <4>1
        <4>2. task'[j].at # "waiting" /\ j \notin ToSet(waiting'[v])
          BY <1>1, <1>4, <1>8, <1>b, <2>1
        <4>. QED  BY <4>1, <4>2
      <3>. QED  BY <1>6, <1>8, <2>4, <3>1 DEF Conserved
    <2>. QED  BY <2>6, <2>7, <2>8 DEF CallInv, PermitsAreConserved, Conserved
  <1>. QED  BY <1>3, <1>7, <1>8

-----------------------------------------------------------------------------
(* A process that dies gives back all it held, its place in no line.        *)
LEMMA CrashStep ==
  ASSUME CallInv, NEW v \in Workers, Crash(v)
  PROVE  CallInv'
  <1>. /\ CallTypeOK /\ task \in [Tasks -> Records] /\ halt \in [Workers -> Readings]
       /\ permits \in [Workers -> 0..Permits] /\ waiting \in [Workers -> Seq(Tasks)]
    BY Types DEF CallInv
  <1>0. \A w \in Workers : Conserved(w)
    BY Permitted DEF CallInv
  <1>1. \A i \in Tasks :
          task'[i] = IF task[i].worker # v THEN task[i] ELSE IF Settled(i) THEN Finished ELSE Queued
    BY DEF Crash
  <1>2. ASSUME NEW i \in Tasks
        PROVE  /\ task[i].worker # v => task'[i] = task[i]
               /\ task[i].worker = v => Over(i) /\ task'[i] \in Records
    BY <1>1, WrittenTypes DEF Over
  <1>3. task' \in [Tasks -> Records]
    <2>1. \A i \in Tasks : task'[i] \in Records
      BY <1>2
    <2>2. task' = [i \in Tasks |-> task'[i]]
      BY DEF Crash
    <2>. QED  BY <2>1, <2>2
  <1>4. /\ halt' = [halt EXCEPT ![v] = NoReading] /\ permits' = [permits EXCEPT ![v] = Permits]
        /\ waiting' = [waiting EXCEPT ![v] = <<>>]
        /\ UNCHANGED <<switch, changed, spent, peak, breaker>>
    BY DEF Crash
  <1>5. /\ halt' \in [Workers -> Readings] /\ \A w \in Workers : halt'[w] = halt[w] \/ halt'[w] = NoReading
        /\ permits' \in [Workers -> 0..Permits] /\ waiting' \in [Workers -> Seq(Tasks)]
    BY <1>4, WrittenTypes
  <1>6. CallTypeOK' /\ AnsweredInv' /\ StopInv' /\ OvershootIsBounded'
    BY <1>2, <1>3, <1>4, <1>5, Quiet
  <1>7. \A i \in Tasks : task'[i].worker # v /\ (task'[i].worker \in Workers => task'[i] = task[i])
    BY <1>2 DEF Over
  <1>8. ASSUME NEW w \in Workers, w # v  PROVE Conserved(w)'
    <2>1. permits'[w] = permits[w] /\ waiting'[w] = waiting[w]
      BY <1>4, <1>8
    <2>2. \A i \in Tasks :
            /\ (task'[i].worker = w /\ Holds(i)') <=> (task[i].worker = w /\ Holds(i))
            /\ (task'[i].at = "waiting" /\ task'[i].worker = w)
               <=> (task[i].at = "waiting" /\ task[i].worker = w)
      BY <1>2, <1>7, <1>8 DEF Holds
    <2>. QED  BY <1>0, <2>1, <2>2, Elsewhere
  <1>9. Conserved(v)'
    <2>1. \A i : i \notin Holding(v)'
      BY <1>7 DEF Holding
    <2>2. Holding(v)' = {}
      BY <2>1, Zenon
    <2>3. permits'[v] = Permits /\ waiting'[v] = <<>>
      BY <1>4
    <2>4. permits'[v] + Cardinality(Holding(v)') = Permits
      BY <2>2, <2>3, FS_EmptySet
    <2>5. IsInjective(waiting'[v]) /\ \A i : i \notin ToSet(waiting'[v])
      <3>1. DOMAIN waiting'[v] = {}
        BY <2>3
      <3>. QED  BY <3>1 DEF IsInjective, ToSet
    <2>. QED  BY <1>7, <2>3, <2>4, <2>5 DEF Conserved
  <1>. QED  BY <1>6, <1>8, <1>9 DEF CallInv, PermitsAreConserved, Conserved

(* Steps of the switch, of time and of the breaker's record move no job.    *)
LEMMA StillJobs ==
  ASSUME CallInv, task' \in [Tasks -> Records], UNCHANGED <<spent, peak, permits, waiting>>,
         \A i \in Tasks : /\ task'[i].at = task[i].at /\ task'[i].worker = task[i].worker
                           /\ task'[i].outcome = task[i].outcome,
         halt' \in [Workers -> Readings], switch' \in {"released", "engaged"}, changed' \in 0..Refresh,
         breaker' \in [failures: 0..Threshold, open: 0..Cooldown], StopInv'
  PROVE  CallInv'
  <1>. CallTypeOK /\ AnsweredInv /\ OvershootIsBounded
    BY DEF CallInv
  <1>1. \A i \in Tasks : (Pays(i)' <=> Pays(i)) /\ (Holds(i)' <=> Holds(i)) /\ (Settled(i)' <=> Settled(i))
    BY DEF Pays, Holds, Settled
  <1>2. OvershootIsBounded'
    BY <1>1, FewerPay
  <1>3. AnsweredInv'
    BY DEF AnsweredInv
  <1>4. CallTypeOK'
    BY <1>1, Types DEF CallTypeOK, Records, Readings
  <1>5. ASSUME NEW w \in Workers  PROVE Conserved(w)'
    BY <1>1, Permitted, Elsewhere DEF CallInv
  <1>. QED  BY <1>2, <1>3, <1>4, <1>5 DEF CallInv, PermitsAreConserved, Conserved

(* A change of the switch is now, and whoever was late no longer is. *)
LEMMA SwitchStep == CallInv /\ Switch => CallInv'
  <1>. SUFFICES ASSUME CallInv, Switch  PROVE CallInv'
    OBVIOUS
  <1>. /\ task \in [Tasks -> Records] /\ halt \in [Workers -> Readings]
       /\ switch \in {"released", "engaged"} /\ breaker \in [failures: 0..Threshold, open: 0..Cooldown]
    BY Types DEF CallInv
  <1>1. ASSUME NEW i \in Tasks
        PROVE  /\ task'[i] \in Records /\ task'[i].at = task[i].at /\ task'[i].worker = task[i].worker
               /\ task'[i].outcome = task[i].outcome /\ task'[i].late = "no"
    <2>1. task'[i] = [task[i] EXCEPT !.late = "no"] /\ task[i] \in Records
      BY DEF Switch
    <2>. QED  BY <2>1 DEF Records
  <1>2. task' = [i \in Tasks |-> task'[i]]
    BY DEF Switch
  <1>3. task' \in [Tasks -> Records]
    BY <1>1, <1>2
  <1>4. /\ switch' \in {"released", "engaged"} /\ changed' = 0 /\ halt' = halt /\ breaker' = breaker
        /\ UNCHANGED <<spent, peak, permits, waiting>>
    BY DEF Switch, slotVars
  <1>5. StopInv'
    BY <1>1, <1>4 DEF StopInv, Readings
  <1>. QED  BY <1>1, <1>3, <1>4, <1>5, StillJobs

(* Time passes for a reading and for the switch alike. *)
LEMMA TickStep == CallInv /\ Tick => CallInv'
  <1>. SUFFICES ASSUME CallInv, Tick  PROVE CallInv'
    OBVIOUS
  <1>. /\ task \in [Tasks -> Records] /\ halt \in [Workers -> Readings] /\ changed \in 0..Refresh
       /\ switch \in {"released", "engaged"} /\ breaker \in [failures: 0..Threshold, open: 0..Cooldown]
    BY Types DEF CallInv
  <1>0. /\ \A age \in 0..Refresh : older(age) \in 0..Refresh
        /\ \A age, since \in 0..Refresh : since <= age => older(since) <= older(age)
        /\ \A age \in 0..Refresh : older(age) < Refresh => age < Refresh
    BY DEF older
  <1>1. ASSUME NEW i \in Tasks
        PROVE  /\ task'[i] \in Records /\ task'[i].at = task[i].at /\ task'[i].worker = task[i].worker
               /\ task'[i].outcome = task[i].outcome /\ task'[i].late = task[i].late
    <2>. DEFINE n == older(task[i].age)
    <2>1. task'[i] = (IF task[i].at = "switch" THEN [task[i] EXCEPT !.age = n] ELSE task[i]) /\ task[i] \in Records
      BY DEF Tick
    <2>2. n \in 0..Refresh
      BY <1>0 DEF Records
    <2>. HIDE DEF n
    <2>. QED  BY <2>1, <2>2 DEF Records
  <1>2. task' = [i \in Tasks |-> task'[i]]
    BY DEF Tick
  <1>3. task' \in [Tasks -> Records]
    BY <1>1, <1>2
  <1>4. ASSUME NEW w \in Workers
        PROVE  /\ halt'[w] \in Readings
               /\ \/ halt'[w].age = Refresh
                  \/ /\ halt'[w].age = older(halt[w].age) /\ halt'[w].switch = halt[w].switch
                     /\ halt[w].age < Refresh
    <2>. DEFINE n == older(halt[w].age)
    <2>1. halt'[w] = (IF n < Refresh THEN [halt[w] EXCEPT !.age = n] ELSE NoReading) /\ halt[w] \in Readings
      BY DEF Tick
    <2>2. n \in 0..Refresh /\ (n < Refresh => halt[w].age < Refresh)
      BY <1>0 DEF Readings
    <2>3. CASE n < Refresh
      <3>. DEFINE x == [halt[w] EXCEPT !.age = n]
      <3>1. x \in Readings /\ x.age = n /\ x.switch = halt[w].switch
        BY <2>1, <2>2 DEF Readings
      <3>2. halt'[w] = x
        BY <2>1, <2>3
      <3>. HIDE DEF x
      <3>. QED  BY <2>2, <2>3, <3>1, <3>2
    <2>4. CASE ~(n < Refresh)
      BY <2>1, <2>4, WrittenTypes
    <2>. QED  BY <2>3, <2>4
  <1>5. halt' = [w \in Workers |-> halt'[w]]
    BY DEF Tick
  <1>6. halt' \in [Workers -> Readings]
    BY <1>4, <1>5
  <1>7. /\ switch' = switch /\ changed' = older(changed) /\ changed' \in 0..Refresh
        /\ UNCHANGED <<spent, peak, permits, waiting>>
    BY <1>0 DEF Tick, slotVars
  <1>8. breaker' \in [failures: 0..Threshold, open: 0..Cooldown]
    <2>. DEFINE n == IF breaker.open > 0 THEN breaker.open - 1 ELSE 0
    <2>1. n \in 0..Cooldown
      OBVIOUS
    <2>2. breaker' = [breaker EXCEPT !.open = n]
      BY DEF Tick
    <2>. HIDE DEF n
    <2>. QED  BY <2>1, <2>2
  <1>9. StopInv'
    <2>1. ASSUME NEW w \in Workers, halt'[w].age < Refresh, halt'[w].switch # switch'
          PROVE  changed' <= halt'[w].age
      <3>1. /\ halt'[w].age = older(halt[w].age) /\ halt'[w].switch = halt[w].switch
            /\ halt[w].age < Refresh /\ halt[w].age \in 0..Refresh
        BY <1>4, <2>1 DEF Readings
      <3>2. changed <= halt[w].age
        BY <1>7, <2>1, <3>1 DEF CallInv, StopInv
      <3>. QED  BY <1>0, <1>7, <3>1, <3>2
    <2>2. ASSUME NEW i \in Tasks, task'[i].late = "yes"  PROVE task'[i].at = "switch" /\ switch' = "engaged"
      BY <1>1, <1>7, <2>2 DEF CallInv, StopInv
    <2>. QED  BY <2>1, <2>2 DEF StopInv
  <1>. QED  BY <1>1, <1>3, <1>6, <1>7, <1>8, <1>9, StillJobs

LEMMA ForgetStep == CallInv /\ Forget => CallInv'
  <1>. SUFFICES ASSUME CallInv, Forget  PROVE CallInv'
    OBVIOUS
  <1>1. /\ UNCHANGED <<task, switch, halt, changed, spent, peak, permits, waiting>>
        /\ breaker' = [failures |-> 0, open |-> 0]
    BY DEF Forget, gateVars, slotVars
  <1>2. /\ task \in [Tasks -> Records] /\ halt \in [Workers -> Readings] /\ changed \in 0..Refresh
        /\ switch \in {"released", "engaged"}
    BY Types DEF CallInv
  <1>3. breaker' \in [failures: 0..Threshold, open: 0..Cooldown]
    BY <1>1
  <1>4. StopInv'
    BY <1>1 DEF CallInv, StopInv
  <1>. QED  BY <1>1, <1>2, <1>3, <1>4, StillJobs

-----------------------------------------------------------------------------
(* The fleet starts with nothing delivered, spent, held or halted. *)
LEMMA InitInv == CallInit => CallInv
  <1>. SUFFICES ASSUME CallInit  PROVE CallInv
    OBVIOUS
  <1>1. /\ switch = "released" /\ changed = Refresh /\ \A w \in Workers : halt[w] = NoReading
        /\ \A j \in Tasks : task[j] = Queued
        /\ \A w \in Workers : permits[w] = Permits /\ waiting[w] = <<>>
        /\ \A r \in Runs : peak[r] = 0
    BY DEF CallInit
  <1>2. task \in [Tasks -> Records] /\ halt \in [Workers -> Readings]
    BY WrittenTypes DEF CallInit
  <1>3. /\ spent \in [Runs -> Nat] /\ peak \in [Runs -> Nat]
        /\ permits \in [Workers -> 0..Permits] /\ waiting \in [Workers -> Seq(Tasks)]
        /\ breaker \in [failures: 0..Threshold, open: 0..Cooldown] /\ changed \in 0..Refresh
    BY DEF CallInit
  <1>4. CallTypeOK
    BY <1>1, <1>2, <1>3, WrittenTypes, Types DEF Settled
  <1>5. AnsweredInv /\ StopInv
    BY <1>1, WrittenTypes DEF AnsweredInv, StopInv
  <1>6. OvershootIsBounded
    BY <1>1 DEF OvershootIsBounded
  <1>7. ASSUME NEW w \in Workers  PROVE Conserved(w)
    <2>1. \A j : j \notin Holding(w)
      BY <1>1, WrittenTypes DEF Holding
    <2>2. Holding(w) = {}
      BY <2>1, Zenon
    <2>3. permits[w] + Cardinality(Holding(w)) = Permits
      BY <1>1, <2>2, FS_EmptySet
    <2>4. IsInjective(waiting[w]) /\ \A j : j \notin ToSet(waiting[w])
      <3>1. DOMAIN waiting[w] = {}
        BY <1>1
      <3>. QED  BY <3>1 DEF IsInjective, ToSet
    <2>. QED  BY <1>1, <2>3, <2>4, WrittenTypes DEF Conserved
  <1>. QED  BY <1>4, <1>5, <1>6, <1>7, Permitted DEF CallInv

LEMMA StepInv == CallInv /\ [CallNext]_callVars => CallInv'
  <1>. SUFFICES ASSUME CallInv, [CallNext]_callVars  PROVE CallInv'
    OBVIOUS
  <1>1. ASSUME NEW j \in Tasks, OwnSteps(j)  PROVE CallInv'
    <2>1. OwnMove(j)
      BY <1>1, OwnStepMoves DEF CallInv
    <2>. QED  BY <2>1, OwnTypes, OwnStop, OwnOvershoot, OwnPermits DEF CallInv
  <1>2. ASSUME NEW j \in Tasks, Release(j)  PROVE CallInv'
    BY <1>2, ReleaseStep
  <1>3. ASSUME NEW w \in Workers, Crash(w)  PROVE CallInv'
    BY <1>3, CrashStep
  <1>4. CASE UNCHANGED callVars
    <2>1. StopInv'
      BY <1>4 DEF callVars, CallInv, StopInv
    <2>. QED  BY <1>4, <2>1, Types, StillJobs DEF callVars, CallInv
  <1>. QED  BY <1>1, <1>2, <1>3, <1>4, SwitchStep, TickStep, ForgetStep
            DEF CallNext, OwnSteps, withBulkhead

(* The invariant holds of the fleet, for any number of jobs and processes.  *)
THEOREM CallInvariant == CallSpec => []CallInv
BY InitInv, StepInv, PTL DEF CallSpec

(* Types, and a candidate whose answer is saved is on its way out           *)
(* (worker/src/context.ts, worker/src/candidate.ts).                      *)
THEOREM CallTyped == CallSpec => []CallTypeOK
<1>1. CallInv => CallTypeOK
  BY DEF CallInv
<1>. QED  BY <1>1, CallInvariant, PTL

(* A job delivered a refresh window or more after the switch was engaged    *)
(* does not pass its check, however many processes cache the switch and     *)
(* whatever they were reading when it was engaged, unless it could not be   *)
(* read (worker/src/context.ts, installHalted).                             *)
THEOREM StopReaches == CallSpec => []StopReachesWorkers
<1>1. CallInv => StopReachesWorkers
  BY Types DEF CallInv, StopInv, StopReachesWorkers, Records
<1>. QED  BY <1>1, CallInvariant, PTL

(* A run exceeds its ceiling by no more than the most of its jobs that were *)
(* ever under way at once, less one, whatever is retried, redelivered or    *)
(* lost with a process (worker/src/context.ts, checkBudget).                *)
THEOREM OvershootBounded == CallSpec => []OvershootIsBounded
<1>1. CallInv => OvershootIsBounded
  BY DEF CallInv
<1>. QED  BY <1>1, CallInvariant, PTL

(* Each process's permits are free or held, never both or neither, nobody   *)
(* waits while one is free, and nobody is in line twice                     *)
(* (worker/src/resilience.ts, Semaphore).                                   *)
THEOREM PermitsConserved == CallSpec => []PermitsAreConserved
<1>1. CallInv => PermitsAreConserved
  BY DEF CallInv
<1>. QED  BY <1>1, CallInvariant, PTL

-----------------------------------------------------------------------------
(* The rate limit. *)

Entry == [at: Int, nth: Nat]

(* A log of hits: the hits of one date are numbered from zero. *)
IsLog(log) ==
  /\ log \in SUBSET Entry /\ IsFiniteSet(log)
  /\ \A h \in log : h.nth < Cardinality(Dated(log, h.at))

(* What is younger than a date is a log, and what is younger than a later   *)
(* one is found in it.                                                      *)
LEMMA AfterIsLog ==
  ASSUME NEW log, IsLog(log), NEW t \in Int
  PROVE  /\ IsLog(After(log, t)) /\ After(log, t) \subseteq log
         /\ \A u \in Int : u >= t => After(After(log, t), u) = After(log, u)
         /\ Cardinality(log) \in Nat /\ Cardinality(After(log, t)) \in Nat
         /\ Cardinality(After(log, t)) <= Cardinality(log)
  <1>. DEFINE rest == After(log, t)
  <1>1. /\ log \in SUBSET Entry /\ IsFiniteSet(log)
        /\ \A h \in log : h.at \in Int /\ h.nth \in Nat /\ h.nth < Cardinality(Dated(log, h.at))
    BY DEF IsLog, Entry
  <1>2. rest \subseteq log /\ \A h : h \in rest <=> h \in log /\ h.at > t
    BY DEF After
  <1>3. /\ IsFiniteSet(rest) /\ Cardinality(rest) <= Cardinality(log)
        /\ Cardinality(log) \in Nat /\ Cardinality(rest) \in Nat
    <2>. HIDE DEF rest
    <2>. QED  BY <1>1, <1>2, FS_Subset, FS_CardinalityType
  <1>4. \A h \in rest : Dated(rest, h.at) = Dated(log, h.at)
    <2>. HIDE DEF rest
    <2>. QED  BY <1>1, <1>2 DEF Dated
  <1>5. \A u \in Int : u >= t => After(rest, u) = After(log, u)
    <2>1. ASSUME NEW u \in Int, u >= t, NEW h \in log, h.at > u PROVE h.at > t
      BY <1>1, <2>1
    <2>2. \A u : After(rest, u) = {h \in rest : h.at > u} /\ After(log, u) = {h \in log : h.at > u}
      BY DEF After
    <2>. HIDE DEF rest
    <2>. QED  BY <1>2, <2>1, <2>2
  <1>6. IsLog(rest)
    <2>. HIDE DEF rest
    <2>. QED  BY <1>1, <1>2, <1>3, <1>4 DEF IsLog
  <1>. QED  BY <1>2, <1>3, <1>5, <1>6

(* A hit is one more than there were, whatever others have its date. *)
LEMMA RecordAdds ==
  ASSUME NEW log, IsLog(log), NEW t \in Int
  PROVE  /\ IsLog(Record(log, t))
         /\ Cardinality(Record(log, t)) = Cardinality(log) + 1
         /\ \A h \in Record(log, t) : h \in log \/ h.at = t
         /\ \A u \in Int : u >= t => After(Record(log, t), u) = After(log, u)
         /\ \A u \in Int : u < t => Cardinality(After(Record(log, t), u)) = Cardinality(After(log, u)) + 1
  <1>. DEFINE n == Cardinality(Dated(log, t))
              x == [at |-> t, nth |-> n]
              more == Record(log, t)
  <1>1. /\ log \in SUBSET Entry /\ IsFiniteSet(log)
        /\ \A h \in log : h.at \in Int /\ h.nth \in Nat /\ h.nth < Cardinality(Dated(log, h.at))
    BY DEF IsLog, Entry
  <1>2. \A u : Dated(log, u) \in SUBSET log
    BY DEF Dated
  <1>3. \A u : IsFiniteSet(Dated(log, u)) /\ Cardinality(Dated(log, u)) \in Nat
    BY <1>1, <1>2, FS_Subset, FS_CardinalityType
  <1>4. n \in Nat /\ x \in Entry /\ x.at = t /\ x.nth = n
    BY <1>3 DEF Entry
  <1>5. x \notin log
    <2>1. ASSUME x \in log PROVE FALSE
      <3>1. x.nth < Cardinality(Dated(log, x.at))
        BY <1>1, <2>1
      <3>. QED  BY <1>4, <3>1
    <2>. QED  BY <2>1
  <1>6. more = log \cup {x}
    BY DEF Record
  <1>7. n = Cardinality(Dated(log, t))
    OBVIOUS
  <1>. HIDE DEF n, x, more
  <1>8. IsFiniteSet(more) /\ Cardinality(more) = Cardinality(log) + 1 /\ more \in SUBSET Entry
    BY <1>1, <1>4, <1>5, <1>6, FS_AddElement
  <1>9. /\ \A u : u # t => Dated(more, u) = Dated(log, u)
        /\ Dated(more, t) = Dated(log, t) \cup {x} /\ x \notin Dated(log, t)
    BY <1>4, <1>5, <1>6 DEF Dated
  <1>10. Cardinality(Dated(more, t)) = n + 1
    BY <1>3, <1>7, <1>9, FS_AddElement
  <1>11. \A h \in more : h.nth < Cardinality(Dated(more, h.at))
    <2>1. CASE \E h \in more : h = x
      <3>1. x.nth < Cardinality(Dated(more, x.at))
        BY <1>4, <1>10
      <3>2. ASSUME NEW h \in log PROVE h.nth < Cardinality(Dated(more, h.at))
        <4>1. h.nth \in Nat /\ h.nth < Cardinality(Dated(log, h.at))
          BY <1>1
        <4>2. CASE h.at = t
          <5>1. h.nth < n
            BY <1>7, <4>1, <4>2
          <5>. QED  BY <1>4, <1>10, <4>1, <4>2, <5>1
        <4>3. CASE h.at # t
          BY <1>9, <4>1, <4>3
        <4>. QED  BY <4>2, <4>3
      <3>. QED  BY <1>6, <3>1, <3>2
    <2>. QED  BY <1>6, <2>1
  <1>12. IsLog(more)
    BY <1>8, <1>11 DEF IsLog
  <1>13. ASSUME NEW u \in Int, u >= t PROVE After(more, u) = After(log, u)
    <2>1. ~(x.at > u)
      BY <1>4, <1>13
    <2>. QED  BY <1>6, <2>1 DEF After
  <1>14. ASSUME NEW u \in Int, u < t
         PROVE Cardinality(After(more, u)) = Cardinality(After(log, u)) + 1
    <2>1. After(more, u) = After(log, u) \cup {x} /\ x \notin After(log, u)
      <3>1. x.at > u
        BY <1>4, <1>14
      <3>. QED  BY <1>5, <1>6, <3>1 DEF After
    <2>2. IsFiniteSet(After(log, u))
      <3>1. After(log, u) \in SUBSET log
        BY DEF After
      <3>. QED  BY <1>1, <3>1, FS_Subset
    <2>. QED  BY <2>1, <2>2, FS_AddElement
  <1>15. \A h \in more : h \in log \/ h.at = t
    BY <1>4, <1>6
  <1>. QED  BY <1>8, <1>12, <1>13, <1>14, <1>15 DEF more

(* How far back the window reaches that no clock and no delay can move. *)
Span == Window - MaxSkew - MaxLag

(* What a budget has let through of late is found among its hits, each      *)
(* dated by a clock and a delay before it was let through.                  *)
Accounts(log, passed, limit, now) ==
  /\ IsLog(log) /\ IsLog(passed) /\ Cardinality(log) <= limit
  /\ \A h \in passed : h.at > now - Span
  /\ \A t \in Int : t >= now - Span =>
       Cardinality(After(passed, t)) <= Cardinality(After(log, t - MaxLag))

(* A request is dated by a clock that is at most MaxSkew ahead, and judged  *)
(* at most MaxLag later.                                                    *)
Timely(c) ==
  request[c].at # "idle" =>
    /\ instant - request[c].since <= MaxLag
    /\ request[c].since <= request[c].now /\ request[c].now <= request[c].since + MaxSkew

RateInv ==
  /\ RateTypeOK
  /\ \A store \in Stores, b \in Budgets :
       Accounts(hits[store][b], admitted[store][b], limitOf(b), instant)
  /\ \A c \in Credentials : Timely(c)

LEMMA SpanIsPositive ==
  /\ Span \in Nat \ {0} /\ Span = Window - MaxSkew - MaxLag
  /\ Window \in Nat /\ MaxSkew \in Nat /\ MaxLag \in Nat
  BY RateLimitAssumption DEF Span

(* A charge keeps the accounts: what it trims is too old to count, and what *)
(* it lets through is a hit.                                                *)
LEMMA ChargeAccounts ==
  ASSUME NEW log, NEW passed, NEW limit \in Nat, NEW now \in Int, NEW date \in Int,
         Accounts(log, passed, limit, now), now - MaxLag <= date, date <= now + MaxSkew
  PROVE  LET result == consumed(log, date, limit)
         IN  /\ Accounts(result.kept, IF result.allowed THEN Record(passed, now) ELSE passed, limit, now)
             /\ \A h \in result.kept : h \in log \/ h.at = date
  <1>. DEFINE kept == Trim(log, date)
              result == consumed(log, date, limit)
              known == IF result.allowed THEN Record(passed, now) ELSE passed
              start == date - Window
  <1>0. /\ Span \in Nat \ {0} /\ Window \in Nat /\ MaxSkew \in Nat /\ MaxLag \in Nat
        /\ start \in Int /\ start <= now - Span - MaxLag
    BY SpanIsPositive
  <1>1. /\ IsLog(log) /\ IsLog(passed) /\ Cardinality(log) <= limit
        /\ \A h \in passed : h.at > now - Span
        /\ \A t \in Int : t >= now - Span =>
             Cardinality(After(passed, t)) <= Cardinality(After(log, t - MaxLag))
    BY DEF Accounts
  <1>2. kept = After(log, start)
    BY DEF Trim
  <1>3. /\ IsLog(kept) /\ kept \subseteq log
        /\ Cardinality(kept) \in Nat /\ Cardinality(log) \in Nat
        /\ Cardinality(kept) <= Cardinality(log)
        /\ \A u \in Int : u >= start => After(kept, u) = After(log, u)
    <2>. HIDE DEF start, kept
    <2>1. start \in Int /\ IsLog(log)
      BY <1>0, <1>1
    <2>2. /\ IsLog(After(log, start)) /\ After(log, start) \subseteq log
          /\ \A u \in Int : u >= start => After(After(log, start), u) = After(log, u)
          /\ Cardinality(log) \in Nat /\ Cardinality(After(log, start)) \in Nat
          /\ Cardinality(After(log, start)) <= Cardinality(log)
      BY <2>1, AfterIsLog
    <2>. QED  BY <1>2, <2>2
  <1>4. /\ result.allowed <=> Cardinality(kept) + 1 <= limit
        /\ result.kept = IF result.allowed THEN Record(kept, date) ELSE kept
    BY DEF consumed, Admits
  <1>. HIDE DEF start, kept, result
  <1>5. \A t \in Int : t >= now - Span =>
          /\ t - MaxLag \in Int /\ t - MaxLag >= start
          /\ After(kept, t - MaxLag) = After(log, t - MaxLag)
          /\ Cardinality(After(passed, t)) \in Nat
          /\ Cardinality(After(kept, t - MaxLag)) \in Nat
          /\ Cardinality(After(passed, t)) <= Cardinality(After(kept, t - MaxLag))
    <2>1. ASSUME NEW t \in Int, t >= now - Span PROVE t - MaxLag \in Int /\ t - MaxLag >= start
      BY <1>0, <2>1
    <2>2. \A u \in Int : /\ Cardinality(After(passed, u)) \in Nat
                         /\ Cardinality(After(kept, u)) \in Nat
      BY <1>1, <1>3, AfterIsLog
    <2>. QED  BY <1>1, <1>3, <2>1, <2>2
  <1>6. CASE ~result.allowed
    <2>1. result.kept = kept /\ known = passed
      BY <1>4, <1>6
    <2>2. Accounts(kept, passed, limit, now)
      BY <1>1, <1>3, <1>5 DEF Accounts
    <2>. QED  BY <1>3, <2>1, <2>2 DEF result
  <1>7. CASE result.allowed
    <2>. DEFINE log2 == Record(kept, date)
                passed2 == Record(passed, now)
    <2>1. result.kept = log2 /\ known = passed2
      BY <1>4, <1>7
    <2>2. /\ IsLog(log2) /\ Cardinality(log2) = Cardinality(kept) + 1
          /\ \A h \in log2 : h \in kept \/ h.at = date
          /\ \A u \in Int : u >= date => After(log2, u) = After(kept, u)
          /\ \A u \in Int : u < date =>
               Cardinality(After(log2, u)) = Cardinality(After(kept, u)) + 1
      BY <1>3, RecordAdds
    <2>3. /\ IsLog(passed2)
          /\ \A h \in passed2 : h \in passed \/ h.at = now
          /\ \A u \in Int : u >= now => After(passed2, u) = After(passed, u)
          /\ \A u \in Int : u < now =>
               Cardinality(After(passed2, u)) = Cardinality(After(passed, u)) + 1
      BY <1>1, RecordAdds
    <2>. HIDE DEF log2, passed2
    <2>4. Cardinality(log2) <= limit
      BY <1>4, <1>7, <2>2
    <2>5. \A h \in passed2 : h.at > now - Span
      <3>1. now > now - Span
        BY <1>0
      <3>. QED  BY <1>1, <2>3, <3>1
    <2>6. ASSUME NEW t \in Int, t >= now - Span
          PROVE Cardinality(After(passed2, t)) <= Cardinality(After(log2, t - MaxLag))
      <3>. DEFINE a == Cardinality(After(passed, t))
                  l == Cardinality(After(kept, t - MaxLag))
      <3>1. t - MaxLag \in Int /\ a \in Nat /\ l \in Nat /\ a <= l
        BY <1>5, <2>6
      <3>2. Cardinality(After(log2, t - MaxLag)) \in {l, l + 1}
        <4>1. t - MaxLag >= date \/ t - MaxLag < date
          BY <3>1
        <4>. QED  BY <2>2, <3>1, <4>1
      <3>3. CASE t >= now
        <4>1. Cardinality(After(passed2, t)) = a
          BY <2>3, <3>3
        <4>. HIDE DEF a, l
        <4>. QED  BY <3>1, <3>2, <4>1
      <3>4. CASE t < now
        <4>1. Cardinality(After(passed2, t)) = a + 1
          BY <2>3, <3>4
        <4>2. t - MaxLag < date
          BY <1>0, <3>4
        <4>3. Cardinality(After(log2, t - MaxLag)) = l + 1
          BY <2>2, <3>1, <4>2
        <4>. HIDE DEF a, l
        <4>. QED  BY <3>1, <4>1, <4>3
      <3>. QED  BY <3>3, <3>4
    <2>7. Accounts(log2, passed2, limit, now)
      BY <2>2, <2>3, <2>4, <2>5, <2>6 DEF Accounts
    <2>8. \A h \in log2 : h \in log \/ h.at = date
      BY <1>3, <2>2
    <2>. QED  BY <2>1, <2>7, <2>8 DEF result
  <1>. QED  BY <1>6, <1>7

(* Time takes away what was let through too long ago to count. *)
LEMMA TimeAccounts ==
  ASSUME NEW log, NEW passed, NEW limit \in Nat, NEW now \in Int,
         Accounts(log, passed, limit, now)
  PROVE  /\ Accounts(log, After(passed, now + 1 - Span), limit, now + 1)
         /\ After(passed, now + 1 - Span) \subseteq passed
  <1>. DEFINE start == now + 1 - Span
              left == After(passed, start)
  <1>0. Span \in Nat \ {0} /\ start \in Int /\ start >= now - Span
    BY SpanIsPositive
  <1>1. /\ IsLog(log) /\ IsLog(passed) /\ Cardinality(log) <= limit
        /\ \A t \in Int : t >= now - Span =>
             Cardinality(After(passed, t)) <= Cardinality(After(log, t - MaxLag))
    BY DEF Accounts
  <1>2. \A h \in left : h.at > start
    BY DEF After
  <1>3. /\ IsLog(left) /\ left \subseteq passed
        /\ \A u \in Int : u >= start => After(left, u) = After(passed, u)
    <2>. HIDE DEF start
    <2>. QED  BY <1>0, <1>1, AfterIsLog
  <1>4. start = now + 1 - Span
    OBVIOUS
  <1>. HIDE DEF start, left
  <1>5. \A t \in Int : t >= start =>
          Cardinality(After(left, t)) <= Cardinality(After(log, t - MaxLag))
    <2>1. \A t \in Int : t >= start => t >= now - Span
      BY <1>0
    <2>. QED  BY <1>1, <1>3, <2>1
  <1>6. Accounts(log, left, limit, now + 1)
    BY <1>0, <1>1, <1>2, <1>3, <1>4, <1>5 DEF Accounts
  <1>. QED  BY <1>3, <1>6 DEF left, start

(* There is an oldest hit. *)
LEMMA LeastExists ==
  ASSUME NEW D \in SUBSET Nat, D # {}
  PROVE  Min(D) \in D /\ \A d \in D : Min(D) <= d
  <1>. DEFINE less == {pair \in Nat \X Nat : pair[1] < pair[2]}
  <1>1. \A m, n \in Nat : <<m, n>> \in less <=> m < n
    OBVIOUS
  <1>2. IsWellFoundedOn(less, Nat)
    BY NatLessThanWellFounded DEF OpToRel
  <1>. HIDE DEF less
  <1>3. PICK d \in D : \A n \in D : <<n, d>> \notin less
    BY <1>2, WFMin
  <1>4. \A n \in D : d <= n
    <2>1. ASSUME NEW n \in D PROVE d <= n
      <3>1. d \in Nat /\ n \in Nat /\ ~(n < d)
        BY <1>1, <1>3
      <3>. QED  BY <3>1
    <2>. QED  BY <2>1
  <1>. QED  BY <1>4 DEF Min

(* Whoever is refused and waits as long as it is told to finds room, if     *)
(* nobody else took it.                                                     *)
LEMMA WaitIsEnough ==
  ASSUME NEW log, IsLog(log), \A h \in log : h.at \in Nat, NEW limit \in Nat \ {0},
         Cardinality(log) <= limit, NEW now \in Nat
  PROVE  LET kept == Trim(log, now)
             later == now + retryAfterSeconds(kept, now) * TicksPerSecond
         IN ~Admits(kept, limit) => Admits(Trim(kept, later), limit)
  <1>. DEFINE kept == Trim(log, now)
              reset == resetAt(kept, now)
              seconds == retryAfterSeconds(kept, now)
              later == now + seconds * TicksPerSecond
              left == Trim(kept, later)
              dates == {h.at : h \in kept}
              oldest == Min(dates)
  <1>0. Window \in Nat \ {0} /\ TicksPerSecond \in Nat \ {0}
    BY RateLimitAssumption
  <1>1. /\ IsLog(kept) /\ IsFiniteSet(kept)
        /\ \A h \in kept : h.at \in Nat /\ h.at > now - Window
        /\ Cardinality(kept) \in Nat /\ Cardinality(kept) <= limit
    <2>. DEFINE start == now - Window
    <2>1. start \in Int /\ kept = After(log, start)
      BY <1>0 DEF Trim
    <2>2. \A h \in kept : h \in log /\ h.at > start
      BY <2>1 DEF After
    <2>3. start = now - Window
      OBVIOUS
    <2>. HIDE DEF start, kept
    <2>4. /\ IsLog(After(log, start)) /\ Cardinality(log) \in Nat
          /\ Cardinality(After(log, start)) \in Nat
          /\ Cardinality(After(log, start)) <= Cardinality(log)
      BY <2>1, AfterIsLog
    <2>. QED  BY <2>1, <2>2, <2>3, <2>4 DEF IsLog
  <1>2. SUFFICES ASSUME ~Admits(kept, limit) PROVE Admits(left, limit)
    OBVIOUS
  <1>3. kept # {}
    <2>1. Cardinality(kept) # 0
      <3>. HIDE DEF kept
      <3>. QED  BY <1>1, <1>2 DEF Admits
    <2>. HIDE DEF kept
    <2>. QED  BY <2>1, FS_EmptySet
  <1>4. oldest \in dates
    <2>1. dates \in SUBSET Nat /\ dates # {}
      <3>. HIDE DEF kept
      <3>. QED  BY <1>1, <1>3
    <2>. HIDE DEF dates
    <2>. QED  BY <2>1, LeastExists
  <1>5. PICK first \in kept : first.at = oldest
    <2>. HIDE DEF kept, oldest
    <2>. QED  BY <1>4
  <1>6. later >= first.at + Window
    <2>. DEFINE wait == reset - now
    <2>1. reset = Window + oldest
      <3>. HIDE DEF kept
      <3>. QED  BY <1>3 DEF resetAt
    <2>2. first.at \in Nat /\ first.at > now - Window
      BY <1>1
    <2>3. seconds = IF wait <= 0 THEN 1 ELSE (wait + TicksPerSecond - 1) \div TicksPerSecond
      BY DEF retryAfterSeconds
    <2>. HIDE DEF seconds, reset, oldest, kept, left
    <2>4. wait = Window + first.at - now
      BY <1>0, <1>5, <2>1, <2>2
    <2>. HIDE DEF wait
    <2>5. wait \in Nat \ {0}
      BY <1>0, <2>2, <2>4
    <2>6. seconds = (wait + TicksPerSecond - 1) \div TicksPerSecond
      BY <2>3, <2>5
    <2>7. seconds * TicksPerSecond >= wait /\ seconds \in Int
      BY <1>0, <2>5, <2>6
    <2>. QED  BY <1>0, <2>2, <2>4, <2>7
  <1>7. left \subseteq kept /\ first \notin left
    <2>1. ~(first.at > later - Window)
      <3>1. first.at \in Nat
        BY <1>1
      <3>2. later \in Int
        <4>. DEFINE wait == reset - now
        <4>1. reset \in Int
          <5>. HIDE DEF kept, oldest, dates
          <5>1. resetAt(kept, now) = Window + IF kept = {} THEN now ELSE oldest
            BY DEF resetAt, oldest, dates
          <5>2. oldest \in Nat
            BY <1>1, <1>5
          <5>. QED  BY <1>0, <5>1, <5>2
        <4>2. seconds = IF wait <= 0 THEN 1 ELSE (wait + TicksPerSecond - 1) \div TicksPerSecond
          BY DEF retryAfterSeconds
        <4>. HIDE DEF reset, seconds
        <4>. QED  BY <1>0, <4>1, <4>2
      <3>. HIDE DEF later
      <3>. QED  BY <1>0, <1>6, <3>1, <3>2
    <2>. HIDE DEF kept, later
    <2>. QED  BY <2>1 DEF Trim, After
  <1>8. Cardinality(left) + 1 <= limit
    <2>. HIDE DEF kept, left
    <2>1. /\ Cardinality(left) <= Cardinality(kept) /\ Cardinality(left) # Cardinality(kept)
          /\ Cardinality(left) \in Nat
      BY <1>1, <1>5, <1>7, FS_Subset, FS_CardinalityType
    <2>. QED  BY <1>1, <2>1
  <1>. QED  BY <1>8 DEF Admits

LEMMA LimitsArePositive ==
  \A b \in Budgets : limitOf(b) \in Nat \ {0}
  BY RateLimitAssumption DEF limitOf

(* What the accounts come to. *)
LEMMA AccountsHold ==
  ASSUME RateInv
  PROVE  LimitsHold
  <1>1. ASSUME NEW store \in Stores, NEW b \in Budgets
        PROVE  Cardinality(admitted[store][b]) <= limitOf(b)
    <2>. DEFINE log == hits[store][b]
                passed == admitted[store][b]
                start == instant - Span
    <2>0. instant \in Nat /\ Span \in Nat \ {0} /\ MaxLag \in Nat /\ limitOf(b) \in Nat
      BY SpanIsPositive, LimitsArePositive, RateLimitAssumption DEF RateInv, RateTypeOK
    <2>1. start \in Int /\ start - MaxLag \in Int
      BY <2>0
    <2>2. /\ IsLog(log) /\ IsLog(passed) /\ Cardinality(log) <= limitOf(b)
          /\ \A h \in passed : h.at > start
          /\ Cardinality(After(passed, start)) <= Cardinality(After(log, start - MaxLag))
      <3>1. start >= start
        BY <2>1
      <3>2. Accounts(log, passed, limitOf(b), instant)
        BY DEF RateInv
      <3>. QED  BY <2>1, <3>1, <3>2 DEF Accounts
    <2>3. After(passed, start) = passed
      <3>. HIDE DEF passed, start
      <3>. QED  BY <2>2 DEF After
    <2>. HIDE DEF log, passed, start
    <2>4. /\ Cardinality(After(log, start - MaxLag)) \in Nat /\ Cardinality(log) \in Nat
          /\ Cardinality(After(log, start - MaxLag)) <= Cardinality(log)
          /\ Cardinality(passed) \in Nat
      BY <2>1, <2>2, AfterIsLog
    <2>5. Cardinality(passed) <= limitOf(b)
      BY <2>0, <2>2, <2>3, <2>4
    <2>. QED  BY <2>5 DEF passed
  <1>2. RetryAfterIsEnough
    <2>1. ASSUME NEW store \in Stores, NEW b \in Budgets, NEW now \in 0..LastInstant
          PROVE  LET kept == Trim(hits[store][b], now)
                     later == now + retryAfterSeconds(kept, now) * TicksPerSecond
                 IN ~Admits(kept, limitOf(b)) => Admits(Trim(kept, later), limitOf(b))
      <3>1. IsLog(hits[store][b]) /\ Cardinality(hits[store][b]) <= limitOf(b)
        BY DEF RateInv, Accounts
      <3>2. \A h \in hits[store][b] : h.at \in Nat
        BY SpanIsPositive DEF RateInv, RateTypeOK
      <3>3. now \in Nat /\ limitOf(b) \in Nat \ {0}
        BY LimitsArePositive, RateLimitAssumption
      <3>. QED  BY <3>1, <3>2, <3>3, WaitIsEnough
    <2>. QED  BY <2>1 DEF RetryAfterIsEnough
  <1>. QED  BY <1>1, <1>2 DEF LimitsHold, WindowHolds

LEMMA RateInvStarts ==
  RateInit => RateInv
  <1>. SUFFICES ASSUME RateInit PROVE RateInv
    OBVIOUS
  <1>1. RateTypeOK
    <2>1. NoRequest \in [at: {"idle", "credential", "address"}, replica: Replicas, address: Addresses,
                         now: 0..(instant + MaxSkew), since: 0..instant]
      BY RateLimitAssumption DEF RateInit, NoRequest
    <2>. HIDE DEF NoRequest
    <2>2. instant \in 0..LastInstant
      BY RateLimitAssumption DEF RateInit
    <2>. QED  BY <2>1, <2>2 DEF RateInit, RateTypeOK
  <1>2. ASSUME NEW store \in Stores, NEW b \in Budgets
        PROVE  Accounts(hits[store][b], admitted[store][b], limitOf(b), instant)
    <2>1. hits[store][b] = {} /\ admitted[store][b] = {}
      BY DEF RateInit
    <2>2. IsLog({}) /\ Cardinality({}) = 0
      BY FS_EmptySet DEF IsLog
    <2>3. \A t : After({}, t) = {}
      BY DEF After
    <2>4. limitOf(b) \in Nat \ {0}
      BY LimitsArePositive
    <2>5. Cardinality({}) <= limitOf(b) /\ Cardinality({}) <= Cardinality({})
      BY <2>2, <2>4
    <2>. HIDE DEF limitOf
    <2>6. Accounts({}, {}, limitOf(b), instant)
      BY <2>2, <2>3, <2>5 DEF Accounts
    <2>. QED  BY <2>1, <2>6
  <1>3. \A c \in Credentials : Timely(c)
    BY DEF RateInit, NoRequest, Timely
  <1>. QED  BY <1>1, <1>2, <1>3 DEF RateInv

Requests(now) ==
  [at: {"idle", "credential", "address"}, replica: Replicas, address: Addresses,
   now: 0..(now + MaxSkew), since: 0..now]

(* A request that stops leaves nothing under way. *)
LEMMA StopsTimely ==
  ASSUME RateInv, NEW c \in Credentials, NEW r \in Requests(instant),
         request' = [request EXCEPT ![c] = r], instant' = instant,
         r.at # "idle" => /\ instant - r.since <= MaxLag
                          /\ r.since <= r.now /\ r.now <= r.since + MaxSkew
  PROVE  request' \in [Credentials -> Requests(instant')] /\ \A d \in Credentials : Timely(d)'
  <1>1. request \in [Credentials -> Requests(instant)]
    BY DEF RateInv, RateTypeOK, Requests
  <1>2. /\ request' \in [Credentials -> Requests(instant)] /\ request'[c] = r
        /\ \A d \in Credentials : d # c => request'[d] = request[d]
    BY <1>1
  <1>3. ASSUME NEW d \in Credentials PROVE Timely(d)'
    <2>1. CASE d = c
      BY <1>2, <2>1 DEF Timely
    <2>2. CASE d # c
      <3>1. Timely(d)
        BY DEF RateInv
      <3>. QED  BY <1>2, <2>2, <3>1 DEF Timely
    <2>. QED  BY <2>1, <2>2
  <1>. QED  BY <1>2, <1>3

LEMMA NoRequestIdles ==
  ASSUME NEW now \in Nat
  PROVE  NoRequest \in Requests(now) /\ NoRequest.at = "idle"
  BY RateLimitAssumption DEF NoRequest, Requests

(* Charging a budget. *)
LEMMA ConsumeKeepsInv ==
  ASSUME RateInv, NEW c \in Credentials, NEW b \in Budgets, NEW next \in {"idle", "address"},
         request[c].at # "idle", Consume(c, b, next)
  PROVE  RateInv'
  <1>. DEFINE store == rateLimiter(request[c].replica)
              date == request[c].now
              log == hits[store][b]
              passed == admitted[store][b]
              result == consumed(log, date, limitOf(b))
              known == IF result.allowed THEN Record(passed, instant) ELSE passed
              r == IF next = "idle" THEN NoRequest ELSE [request[c] EXCEPT !.at = next]
  <1>0. /\ instant \in Nat /\ MaxSkew \in Nat /\ MaxLag \in Nat /\ limitOf(b) \in Nat
        /\ instant \in 0..LastInstant
    BY SpanIsPositive, LimitsArePositive, RateLimitAssumption DEF RateInv, RateTypeOK
  <1>1. /\ request[c] \in Requests(instant) /\ store \in Stores
        /\ date \in 0..(instant + MaxSkew)
        /\ instant - MaxLag <= date /\ date <= instant + MaxSkew
    <2>1. request[c] \in Requests(instant)
      BY DEF RateInv, RateTypeOK, Requests
    <2>2. store \in Stores
      BY <2>1 DEF rateLimiter, Stores, Requests
    <2>3. date \in 0..(instant + MaxSkew) /\ request[c].since \in 0..instant
      BY <2>1 DEF Requests
    <2>4. Timely(c)
      BY DEF RateInv
    <2>. QED  BY <1>0, <2>1, <2>2, <2>3, <2>4 DEF Timely
  <1>2. /\ hits' = [hits EXCEPT ![store][b] = result.kept]
        /\ admitted' = [admitted EXCEPT ![store][b] = known]
        /\ request' = [request EXCEPT ![c] = r]
        /\ UNCHANGED <<instant, transport, skew>>
    BY DEF Consume
  <1>3. /\ Accounts(result.kept, known, limitOf(b), instant)
        /\ \A h \in result.kept : h \in log \/ h.at = date
    <2>1. Accounts(log, passed, limitOf(b), instant)
      BY <1>1 DEF RateInv
    <2>2. PICK l, p, n, m, d : l = log /\ p = passed /\ n = instant /\ m = limitOf(b) /\ d = date
      OBVIOUS
    <2>3. /\ result = consumed(l, d, m)
          /\ known = IF result.allowed THEN Record(p, n) ELSE p
      BY <2>2
    <2>. HIDE DEF log, passed, date, store, result, known
    <2>4. /\ m \in Nat /\ n \in Int /\ d \in Int /\ Accounts(l, p, m, n)
          /\ n - MaxLag <= d /\ d <= n + MaxSkew
      BY <1>0, <1>1, <2>1, <2>2
    <2>5. /\ Accounts(consumed(l, d, m).kept,
                      IF consumed(l, d, m).allowed THEN Record(p, n) ELSE p, m, n)
          /\ \A h \in consumed(l, d, m).kept : h \in l \/ h.at = d
      BY <2>4, ChargeAccounts
    <2>. QED  BY <2>2, <2>3, <2>5
  <1>4. \A h \in known : h \in passed \/ h.at = instant
    <2>1. IsLog(passed)
      BY <1>1 DEF RateInv, Accounts
    <2>2. \A h \in Record(passed, instant) : h \in passed \/ h.at = instant
      <3>. HIDE DEF passed
      <3>. QED  BY <1>0, <2>1, RecordAdds
    <2>. HIDE DEF passed, result
    <2>. QED  BY <2>2
  <1>5. request' \in [Credentials -> Requests(instant')] /\ \A d \in Credentials : Timely(d)'
    <2>1. r \in Requests(instant)
      <3>1. CASE next = "idle"
        BY <1>0, <3>1, NoRequestIdles
      <3>2. CASE next # "idle"
        <4>1. r = [request[c] EXCEPT !.at = "address"]
          BY <3>2
        <4>. HIDE DEF r
        <4>. QED  BY <1>1, <4>1 DEF Requests
      <3>. QED  BY <3>1, <3>2
    <2>2. r.at # "idle" => r.since = request[c].since /\ r.now = request[c].now
      <3>1. CASE next = "idle"
        BY <1>0, <3>1, NoRequestIdles
      <3>2. CASE next # "idle"
        BY <1>1, <3>2 DEF Requests
      <3>. QED  BY <3>1, <3>2
    <2>3. Timely(c)
      BY DEF RateInv
    <2>. HIDE DEF r
    <2>. QED  BY <1>2, <2>1, <2>2, <2>3, StopsTimely DEF Timely
  <1>6. /\ hits \in [Stores -> [Budgets -> SUBSET [at: 0..(instant + MaxSkew), nth: Nat]]]
        /\ admitted \in [Stores -> [Budgets -> SUBSET [at: 0..instant, nth: Nat]]]
    BY DEF RateInv, RateTypeOK
  <1>7. /\ result.kept \in SUBSET [at: 0..(instant + MaxSkew), nth: Nat]
        /\ known \in SUBSET [at: 0..instant, nth: Nat]
    <2>1. log \in SUBSET [at: 0..(instant + MaxSkew), nth: Nat] /\ passed \in SUBSET [at: 0..instant, nth: Nat]
      BY <1>1, <1>6
    <2>. HIDE DEF log, passed, result, known, date
    <2>2. result.kept \in SUBSET Entry /\ known \in SUBSET Entry
      BY <1>3 DEF Accounts, IsLog
    <2>3. ASSUME NEW h \in result.kept PROVE h \in [at: 0..(instant + MaxSkew), nth: Nat]
      <3>1. h \in Entry /\ (h \in log \/ h.at = date)
        BY <1>3, <2>2
      <3>. QED  BY <1>1, <2>1, <3>1 DEF Entry
    <2>4. ASSUME NEW h \in known PROVE h \in [at: 0..instant, nth: Nat]
      <3>1. h \in Entry /\ (h \in passed \/ h.at = instant) /\ instant \in 0..instant
        BY <1>0, <1>4, <2>2
      <3>. QED  BY <2>1, <3>1 DEF Entry
    <2>. QED  BY <2>3, <2>4
  <1>. HIDE DEF store, result, known, r, log, passed, date
  <1>8. /\ hits' \in [Stores -> [Budgets -> SUBSET [at: 0..(instant + MaxSkew), nth: Nat]]]
        /\ hits'[store][b] = result.kept
        /\ \A s \in Stores, a \in Budgets : <<s, a>> # <<store, b>> => hits'[s][a] = hits[s][a]
    BY <1>1, <1>2, <1>6, <1>7
  <1>9. /\ admitted' \in [Stores -> [Budgets -> SUBSET [at: 0..instant, nth: Nat]]]
        /\ admitted'[store][b] = known
        /\ \A s \in Stores, a \in Budgets : <<s, a>> # <<store, b>> => admitted'[s][a] = admitted[s][a]
    BY <1>1, <1>2, <1>6, <1>7
  <1>10. RateTypeOK'
    BY <1>2, <1>5, <1>8, <1>9 DEF RateInv, RateTypeOK, Requests
  <1>11. ASSUME NEW s \in Stores, NEW a \in Budgets
         PROVE  Accounts(hits'[s][a], admitted'[s][a], limitOf(a), instant')
    <2>1. CASE <<s, a>> = <<store, b>>
      BY <1>2, <1>3, <1>8, <1>9, <2>1
    <2>2. CASE <<s, a>> # <<store, b>>
      <3>1. Accounts(hits[s][a], admitted[s][a], limitOf(a), instant)
        BY DEF RateInv
      <3>. QED  BY <1>2, <1>8, <1>9, <2>2, <3>1
    <2>. QED  BY <2>1, <2>2
  <1>. QED  BY <1>5, <1>10, <1>11 DEF RateInv

LEMMA RateInvSteps ==
  RateInv /\ [RateNext]_rateVars => RateInv'
  <1>. SUFFICES ASSUME RateInv, [RateNext]_rateVars PROVE RateInv'
    OBVIOUS
  <1>0. /\ instant \in Nat /\ instant \in 0..LastInstant /\ MaxSkew \in Nat /\ MaxLag \in Nat
        /\ Span \in Nat \ {0} /\ Span = Window - MaxSkew - MaxLag /\ LastInstant \in Nat
    BY SpanIsPositive, RateLimitAssumption DEF RateInv, RateTypeOK
  <1>1. ASSUME NEW c \in Credentials, NEW p \in Replicas, NEW a \in Addresses, Take(c, p, a)
        PROVE  RateInv'
    <2>. DEFINE r == [at |-> "credential", replica |-> p, address |-> a,
                      now |-> instant + skew[p], since |-> instant]
    <2>1. /\ request' = [request EXCEPT ![c] = r]
          /\ UNCHANGED <<instant, transport, skew, hits, admitted>>
      BY <1>1 DEF Take
    <2>2. skew[p] \in 0..MaxSkew
      BY DEF RateInv, RateTypeOK
    <2>3. r \in Requests(instant) /\ r.since = instant /\ r.now = instant + skew[p]
      BY <1>0, <2>2 DEF Requests
    <2>. HIDE DEF r
    <2>4. request' \in [Credentials -> Requests(instant')] /\ \A d \in Credentials : Timely(d)'
      <3>1. instant - r.since <= MaxLag /\ r.since <= r.now /\ r.now <= r.since + MaxSkew
        BY <1>0, <2>2, <2>3
      <3>. QED  BY <2>1, <2>3, <3>1, StopsTimely
    <2>5. RateTypeOK'
      BY <2>1, <2>4 DEF RateInv, RateTypeOK, Requests
    <2>. QED  BY <2>1, <2>4, <2>5 DEF RateInv
  <1>2. ASSUME NEW c \in Credentials, ConsumeCredential(c) PROVE RateInv'
    <2>1. c \in Budgets /\ request[c].at # "idle" /\ Consume(c, c, "address")
      BY <1>2 DEF ConsumeCredential, Budgets
    <2>. QED  BY <2>1, ConsumeKeepsInv
  <1>3. ASSUME NEW c \in Credentials, ConsumeAddress(c) PROVE RateInv'
    <2>1. request[c].address \in Addresses
      BY DEF RateInv, RateTypeOK
    <2>2. request[c].address \in Budgets /\ request[c].at # "idle"
          /\ Consume(c, request[c].address, "idle")
      BY <1>3, <2>1 DEF ConsumeAddress, Budgets
    <2>. QED  BY <2>2, ConsumeKeepsInv
  <1>4. ASSUME NEW c \in Credentials, ConsumeFails(c) PROVE RateInv'
    <2>1. /\ request' = [request EXCEPT ![c] = NoRequest]
          /\ UNCHANGED <<instant, transport, skew, hits, admitted>>
      BY <1>4 DEF ConsumeFails
    <2>2. request' \in [Credentials -> Requests(instant')] /\ \A d \in Credentials : Timely(d)'
      BY <1>0, <2>1, NoRequestIdles, StopsTimely
    <2>3. RateTypeOK'
      BY <2>1, <2>2 DEF RateInv, RateTypeOK, Requests
    <2>. QED  BY <2>1, <2>2, <2>3 DEF RateInv
  <1>5. CASE Passes
    <2>1. /\ instant < LastInstant /\ instant' = instant + 1
          /\ \A c \in Credentials : request[c].at # "idle" => instant - request[c].since < MaxLag
          /\ admitted' = [store \in Stores |-> [b \in Budgets |->
               After(admitted[store][b], instant + 1 - Span)]]
          /\ UNCHANGED <<transport, skew, hits, request>>
      BY <1>0, <1>5 DEF Passes
    <2>2. ASSUME NEW store \in Stores, NEW b \in Budgets
          PROVE  /\ Accounts(hits'[store][b], admitted'[store][b], limitOf(b), instant')
                 /\ admitted'[store][b] \subseteq admitted[store][b]
      <3>. DEFINE log == hits[store][b]
                  passed == admitted[store][b]
      <3>1. Accounts(log, passed, limitOf(b), instant) /\ limitOf(b) \in Nat
        BY LimitsArePositive DEF RateInv
      <3>2. hits'[store][b] = log /\ admitted'[store][b] = After(passed, instant + 1 - Span)
        BY <2>1
      <3>. HIDE DEF log, passed
      <3>3. /\ Accounts(log, After(passed, instant + 1 - Span), limitOf(b), instant + 1)
            /\ After(passed, instant + 1 - Span) \subseteq passed
        <4>1. PICK l, p, n, m : l = log /\ p = passed /\ n = instant /\ m = limitOf(b)
          OBVIOUS
        <4>2. m \in Nat /\ n \in Int /\ Accounts(l, p, m, n)
          BY <1>0, <3>1, <4>1
        <4>3. /\ Accounts(l, After(p, n + 1 - Span), m, n + 1)
              /\ After(p, n + 1 - Span) \subseteq p
          BY <4>2, TimeAccounts
        <4>. QED  BY <4>1, <4>3
      <3>. QED  BY <2>1, <3>2, <3>3 DEF passed
    <2>3. instant' \in 0..LastInstant /\ instant' \in Nat /\ 0..instant \subseteq 0..instant'
          /\ 0..(instant + MaxSkew) \subseteq 0..(instant' + MaxSkew)
      BY <1>0, <2>1
    <2>4. RateTypeOK'
      <3>1. ASSUME NEW store \in Stores, NEW b \in Budgets
            PROVE /\ hits[store][b] \in SUBSET [at: 0..(instant' + MaxSkew), nth: Nat]
                  /\ admitted'[store][b] \in SUBSET [at: 0..instant', nth: Nat]
        <4>1. /\ hits[store][b] \in SUBSET [at: 0..(instant + MaxSkew), nth: Nat]
              /\ admitted[store][b] \in SUBSET [at: 0..instant, nth: Nat]
          BY DEF RateInv, RateTypeOK
        <4>. QED  BY <2>2, <2>3, <4>1
      <3>2. /\ hits' \in [Stores -> [Budgets -> SUBSET [at: 0..(instant' + MaxSkew), nth: Nat]]]
            /\ admitted' \in [Stores -> [Budgets -> SUBSET [at: 0..instant', nth: Nat]]]
        BY <2>1, <3>1 DEF RateInv, RateTypeOK
      <3>3. request \in [Credentials -> Requests(instant')]
        <4>1. request \in [Credentials -> Requests(instant)]
          BY DEF RateInv, RateTypeOK, Requests
        <4>2. Requests(instant) \subseteq Requests(instant')
          BY <2>3 DEF Requests
        <4>. QED  BY <4>1, <4>2
      <3>. QED  BY <2>1, <2>3, <3>2, <3>3 DEF RateInv, RateTypeOK, Requests
    <2>5. ASSUME NEW c \in Credentials PROVE Timely(c)'
      <3>1. request[c].since \in Nat
        BY DEF RateInv, RateTypeOK
      <3>2. Timely(c)
        BY DEF RateInv
      <3>. QED  BY <1>0, <2>1, <3>1, <3>2 DEF Timely
    <2>. QED  BY <2>2, <2>4, <2>5 DEF RateInv
  <1>6. CASE UNCHANGED rateVars
    BY <1>6 DEF rateVars, RateInv, RateTypeOK, Timely
  <1>. QED  BY <1>1, <1>2, <1>3, <1>4, <1>5, <1>6 DEF RateNext

(* The accounts of the rate limit: the hits of every budget are numbered    *)
(* and no more than its limit, and what it let through of late is among     *)
(* them (CONSUME_SCRIPT, MemoryRateLimiter.consume).                        *)
THEOREM RateInvariant == RateSpec => []RateInv
  BY RateInvStarts, RateInvSteps, PTL DEF RateSpec

(* For any number of replicas, credentials and addresses, any limits, and   *)
(* clocks and delays that are together less than a window: no budget admits *)
(* more than its limit within the window they leave, and a caller that      *)
(* waits as long as Retry-After said finds room (queue/src/ratelimit.ts,    *)
(* shared/src/ratelimit.ts).                                                *)
THEOREM LimitsAlwaysHold == RateSpec => []LimitsHold
  BY RateInvariant, AccountsHold, PTL
=============================================================================
