------------------------------ MODULE CallGate ------------------------------
(***************************************************************************)
(* What stands between a worker's job and a call of a model: the kill       *)
(* switch, which every worker process reads through a cache of its own; the *)
(* run's spend ceiling, judged from the usage records of every process; the *)
(* provider's circuit breaker, shared by the fleet in Redis; and the        *)
(* bulkhead, a semaphore of each process.                                   *)
(*                                                                         *)
(* One provider. A job is a candidate's or an evaluator's; what its call    *)
(* costs is one unit. Ages are as in SpendGate. The settled rows, the       *)
(* events and the cancellation of runs are in RunLifecycle.                 *)
(***************************************************************************)
EXTENDS Integers, FiniteSets, SequencesExt

CONSTANTS
  Candidates, Evaluators,  \* the jobs
  Runs, RunOf,             \* the runs, and the run of each job
  Workers,                 \* worker processes
  Refresh,                 \* KILL_SWITCH_REFRESH_MS, in ticks
  Ceiling,                 \* the run's spend ceiling, in calls
  Permits,                 \* PROVIDER_MAX_CONCURRENCY
  Threshold,               \* BREAKER_FAILURE_THRESHOLD
  Cooldown                 \* BREAKER_COOLDOWN_MS, in ticks

Tasks == Candidates \cup Evaluators

ASSUME CallGateAssumption ==
  /\ IsFiniteSet(Tasks) /\ Candidates \cap Evaluators = {}
  /\ RunOf \in [Tasks -> Runs] /\ "none" \notin Workers
  /\ Refresh \in Nat \ {0} /\ Ceiling \in Nat \ {0} /\ Permits \in Nat \ {0}
  /\ Threshold \in Nat \ {0} /\ Cooldown \in Nat \ {0}

VARIABLES
  switch,   \* the KillSwitch row
  halt,     \* haltCache of each process
  task,     \* where each job is, on which process, with which outcome
  spent,    \* the usage records of each run
  permits,  \* Semaphore.#available of each process
  waiting,  \* Semaphore.#waiting of each process
  breaker,  \* the provider's record in Redis
  changed,  \* how long ago the switch last changed (history, never read)
  peak      \* most jobs of a run ever between check and record (history, never read)

callVars == <<switch, halt, task, spent, permits, waiting, breaker, changed, peak>>

gateVars == <<switch, halt, changed>>
slotVars == <<permits, waiting>>

-----------------------------------------------------------------------------
NoReading == [age |-> Refresh, switch |-> "released"]

Queued == [at |-> "queued", worker |-> "none", age |-> 0, late |-> "no", outcome |-> "none"]

Finished == [Queued EXCEPT !.at = "done"]

(* A candidate whose answer is saved never calls again.                     *)
Settled(j) == j \in Candidates /\ task[j].outcome \in {"ok", "lost"}

Goto(j, at) == task' = [task EXCEPT ![j].at = at]

-----------------------------------------------------------------------------
(* checkStop: the switch, then the run. *)

(* What the job does with a reading of the switch.                          *)
Judged(rec, state) ==
  IF state = "engaged" THEN Finished ELSE [rec EXCEPT !.at = "check", !.age = 0]

(* A process takes the job; its reading of the switch may still do.         *)
Deliver(j, w) ==
  LET started == [Queued EXCEPT !.worker = w,
        !.late = IF switch = "engaged" /\ changed = Refresh THEN "yes" ELSE "no"]
  IN /\ task[j].at = "queued"
     /\ task' = [task EXCEPT ![j] =
          IF halt[w].age < Refresh THEN Judged(started, halt[w].switch)
          ELSE [started EXCEPT !.at = "switch"]]
     /\ UNCHANGED <<spent, breaker, peak>> /\ UNCHANGED gateVars /\ UNCHANGED slotVars

(* A reading is dated when its request began.                               *)
Cache(j, state) ==
  halt' = [halt EXCEPT ![task[j].worker] =
    IF task[j].age < Refresh THEN [age |-> task[j].age, switch |-> state] ELSE NoReading]

installHalted(j) ==
  /\ task[j].at = "switch"
  /\ Cache(j, switch)
  /\ task' = [task EXCEPT ![j] = Judged(task[j], switch)]
  /\ UNCHANGED <<switch, changed, spent, breaker, peak>> /\ UNCHANGED slotVars

(* Variant: that is remembered like a reading.                              *)
ReadFailsCached(j) ==
  /\ task[j].at = "switch"
  /\ Cache(j, "released")
  /\ task' = [task EXCEPT ![j] = [Judged(task[j], "released") EXCEPT !.late = "no"]]
  /\ UNCHANGED <<switch, changed, spent, breaker, peak>> /\ UNCHANGED slotVars

(* The switch cannot be read, which counts as not halted.                   *)
ReadFails(j) ==
  /\ task[j].at = "switch"
  /\ task' = [task EXCEPT ![j] = [Judged(task[j], "released") EXCEPT !.late = "no"]]
  /\ UNCHANGED <<spent, breaker, peak>> /\ UNCHANGED gateVars /\ UNCHANGED slotVars

(* Between check and usage record: each of these may still cost a call.     *)
Paying(r) ==
  {j \in Tasks : RunOf[j] = r /\
     \/ task[j].at \in {"breaker", "ready", "waiting", "call"}
     \/ task[j].at \in {"return", "record", "meter"} /\ task[j].outcome = "ok"}

(* Variant: one call more.                                                  *)
UnderCeilingLoose(j) == spent[RunOf[j]] <= Ceiling

UnderCeiling(j) == spent[RunOf[j]] < Ceiling

(* checkBudget. The evaluator never looks at the breaker.                   *)
CheckBudget(j) ==
  LET r == RunOf[j]
      now == Cardinality(Paying(r)) + 1
  IN /\ task[j].at = "check" /\ UnderCeiling(j)
     /\ Goto(j, IF j \in Candidates THEN "breaker" ELSE "ready")
     /\ peak' = [peak EXCEPT ![r] = IF now > peak[r] THEN now ELSE peak[r]]
     /\ UNCHANGED <<spent, breaker>> /\ UNCHANGED gateVars /\ UNCHANGED slotVars

(* The ceiling is reached, or the run is gone, canceled, past its deadline  *)
(* or over, or the provider is not configured.                              *)
Stop(j) ==
  /\ task[j].at = "check"
  /\ task' = [task EXCEPT ![j] = Finished]
  /\ UNCHANGED <<spent, breaker, peak>> /\ UNCHANGED gateVars /\ UNCHANGED slotVars

-----------------------------------------------------------------------------
(* The breaker is read, and then the bulkhead waited for. *)

breakerState(j) ==
  /\ task[j].at = "breaker"
  /\ task' = [task EXCEPT ![j] =
       IF breaker.open > 0 THEN Finished ELSE [task[j] EXCEPT !.at = "ready"]]
  /\ UNCHANGED <<spent, breaker, peak>> /\ UNCHANGED gateVars /\ UNCHANGED slotVars

Acquire(j) ==
  LET w == task[j].worker
  IN /\ task[j].at = "ready"
     /\ \/ /\ permits[w] > 0
           /\ permits' = [permits EXCEPT ![w] = permits[w] - 1] /\ UNCHANGED waiting
           /\ Goto(j, "call")
        \/ /\ permits[w] = 0
           /\ waiting' = [waiting EXCEPT ![w] = Append(waiting[w], j)] /\ UNCHANGED permits
           /\ Goto(j, "waiting")
     /\ UNCHANGED <<spent, breaker, peak>> /\ UNCHANGED gateVars

(* What follows a call: nothing is recorded of one refused for good.        *)
Onward(outcome) == IF outcome = "permanent" THEN "leave" ELSE "record"

(* The provider answers, is unwell, or refuses or is aborted for good. A    *)
(* candidate's answer is saved at once. The call is all that an evaluator   *)
(* wraps in the bulkhead.                                                   *)
CallEnds(j) ==
  /\ task[j].at = "call"
  /\ \E outcome \in {"ok", "unwell", "permanent"} :
       task' = [task EXCEPT ![j].outcome = outcome,
                          ![j].at = IF j \in Evaluators THEN "return" ELSE Onward(outcome)]
  /\ UNCHANGED <<spent, breaker, peak>> /\ UNCHANGED gateVars /\ UNCHANGED slotVars

Wake(w, records) ==
  /\ waiting' = [waiting EXCEPT ![w] = Tail(waiting[w])]
  /\ task' = [records EXCEPT ![Head(waiting[w])].at = "call"]

(* The queue may deliver a failed job again.                                *)
Left(j) ==
  IF task[j].outcome \in {"unwell", "lost"} /\ ~Settled(j) THEN {Queued, Finished} ELSE {Finished}

(* A candidate holds its permit until its job is over, an evaluator until   *)
(* its call is, whose outcome it then records.                              *)
LastHeld(j) == IF j \in Candidates THEN "leave" ELSE "return"

Returned(j) ==
  IF j \in Candidates THEN Left(j) ELSE {[task[j] EXCEPT !.at = Onward(task[j].outcome)]}

(* Variant: the permit is returned although it was handed on.               *)
ReleaseTwice(j) ==
  LET w == task[j].worker
  IN /\ task[j].at = LastHeld(j)
     /\ \E next \in Returned(j) :
          \/ waiting[w] # <<>> /\ Wake(w, [task EXCEPT ![j] = next])
          \/ waiting[w] = <<>> /\ task' = [task EXCEPT ![j] = next] /\ UNCHANGED waiting
     /\ permits' = [permits EXCEPT ![w] = permits[w] + 1]
     /\ UNCHANGED <<spent, breaker, peak>> /\ UNCHANGED gateVars

(* The permit goes to the first in line.                                    *)
Release(j) ==
  LET w == task[j].worker
  IN /\ task[j].at = LastHeld(j)
     /\ \E next \in Returned(j) :
          \/ /\ waiting[w] # <<>>
             /\ Wake(w, [task EXCEPT ![j] = next]) /\ UNCHANGED permits
          \/ /\ waiting[w] = <<>>
             /\ permits' = [permits EXCEPT ![w] = permits[w] + 1]
             /\ task' = [task EXCEPT ![j] = next] /\ UNCHANGED waiting
     /\ UNCHANGED <<spent, breaker, peak>> /\ UNCHANGED gateVars

(* An evaluator's job ends with no permit to give back.                     *)
Leave(j) ==
  /\ j \in Evaluators /\ task[j].at = "leave"
  /\ \E next \in Left(j) : task' = [task EXCEPT ![j] = next]
  /\ UNCHANGED <<spent, breaker, peak>> /\ UNCHANGED gateVars /\ UNCHANGED slotVars

-----------------------------------------------------------------------------
(* recordProviderOutcome, and the usage record. *)

recordSuccess(j) ==
  /\ task[j].at = "record" /\ task[j].outcome = "ok"
  /\ breaker' = [failures |-> 0, open |-> 0]
  /\ Goto(j, "meter")
  /\ UNCHANGED <<spent, peak>> /\ UNCHANGED gateVars /\ UNCHANGED slotVars

(* The counter goes up in one command, counted here up to the threshold;    *)
(* the breaker opens in another.                                            *)
recordFailure(j) ==
  LET failures == IF breaker.failures < Threshold THEN breaker.failures + 1 ELSE Threshold
  IN /\ task[j].at = "record" /\ task[j].outcome \in {"unwell", "lost"}
     /\ breaker' = [breaker EXCEPT !.failures = failures]
     /\ Goto(j, IF failures = Threshold THEN "trip" ELSE "leave")
     /\ UNCHANGED <<spent, peak>> /\ UNCHANGED gateVars /\ UNCHANGED slotVars

Trip(j) ==
  /\ task[j].at = "trip"
  /\ breaker' = [breaker EXCEPT !.open = Cooldown]
  /\ Goto(j, "leave")
  /\ UNCHANGED <<spent, peak>> /\ UNCHANGED gateVars /\ UNCHANGED slotVars

(* Redis fails, or an evaluator's answer cannot be saved: an error of ours  *)
(* after a call that succeeded is recorded as the provider's.               *)
RecordFails(j) ==
  /\ \/ /\ task[j].outcome = "ok"
        /\ task[j].at = "record" \/ (task[j].at = "meter" /\ j \in Evaluators)
        /\ task' = [task EXCEPT ![j].at = "record", ![j].outcome = "lost"]
     \/ /\ task[j].outcome \in {"unwell", "lost"} /\ task[j].at \in {"record", "trip"}
        /\ Goto(j, "leave")
  /\ UNCHANGED <<spent, breaker, peak>> /\ UNCHANGED gateVars /\ UNCHANGED slotVars

Meter(j) ==
  /\ task[j].at = "meter"
  /\ \/ spent' = [spent EXCEPT ![RunOf[j]] = spent[RunOf[j]] + 1]
     \/ UNCHANGED spent   \* a usage record that cannot be written is given up
  /\ Goto(j, "leave")
  /\ UNCHANGED <<breaker, peak>> /\ UNCHANGED gateVars /\ UNCHANGED slotVars

-----------------------------------------------------------------------------
(* A process dies with its cache and its semaphore; the queue delivers its  *)
(* jobs again.                                                              *)
Crash(w) ==
  /\ task' = [j \in Tasks |->
       IF task[j].worker # w THEN task[j] ELSE IF Settled(j) THEN Finished ELSE Queued]
  /\ halt' = [halt EXCEPT ![w] = NoReading]
  /\ permits' = [permits EXCEPT ![w] = Permits]
  /\ waiting' = [waiting EXCEPT ![w] = <<>>]
  /\ UNCHANGED <<switch, changed, spent, breaker, peak>>

(* The API or an operator stops the install, or an operator restarts it.    *)
Switch ==
  /\ switch' = IF switch = "engaged" THEN "released" ELSE "engaged"
  /\ changed' = 0
  /\ task' = [j \in Tasks |-> [task[j] EXCEPT !.late = "no"]]
  /\ UNCHANGED <<halt, spent, breaker, peak>> /\ UNCHANGED slotVars

older(age) == IF age < Refresh THEN age + 1 ELSE Refresh

Tick ==
  /\ halt' = [w \in Workers |->
       IF older(halt[w].age) < Refresh THEN [halt[w] EXCEPT !.age = older(halt[w].age)]
       ELSE NoReading]
  /\ task' = [j \in Tasks |->
       IF task[j].at = "switch" THEN [task[j] EXCEPT !.age = older(task[j].age)] ELSE task[j]]
  /\ breaker' = [breaker EXCEPT !.open = IF breaker.open > 0 THEN breaker.open - 1 ELSE 0]
  /\ changed' = older(changed)
  /\ UNCHANGED <<switch, spent, peak>> /\ UNCHANGED slotVars

(* The record expires, well after the cooldown.                             *)
Forget ==
  /\ breaker.failures > 0 /\ breaker.open = 0
  /\ breaker' = [failures |-> 0, open |-> 0]
  /\ UNCHANGED <<task, spent, peak>> /\ UNCHANGED gateVars /\ UNCHANGED slotVars

CallInit ==
  /\ switch = "released" /\ changed = Refresh
  /\ halt = [w \in Workers |-> NoReading]
  /\ task = [j \in Tasks |-> Queued]
  /\ spent = [r \in Runs |-> 0] /\ peak = [r \in Runs |-> 0]
  /\ permits = [w \in Workers |-> Permits]
  /\ waiting = [w \in Workers |-> <<>>]
  /\ breaker = [failures |-> 0, open |-> 0]

CheckStop(j) ==
  \/ \E w \in Workers : Deliver(j, w)
  \/ installHalted(j) \/ ReadFails(j) \/ CheckBudget(j) \/ Stop(j)

withBulkhead(j) == Acquire(j) \/ CallEnds(j) \/ Meter(j) \/ Release(j) \/ Leave(j)

recordProviderOutcome(j) == recordSuccess(j) \/ recordFailure(j) \/ Trip(j) \/ RecordFails(j)

CallNext ==
  \/ \E j \in Tasks : CheckStop(j) \/ breakerState(j) \/ withBulkhead(j) \/ recordProviderOutcome(j)
  \/ \E w \in Workers : Crash(w)
  \/ Switch \/ Tick \/ Forget

CallSpec == CallInit /\ [][CallNext]_callVars

-----------------------------------------------------------------------------
Holding(w) ==
  {j \in Tasks : task[j].worker = w /\
     task[j].at \in IF j \in Candidates THEN {"call", "record", "trip", "meter", "leave"}
                   ELSE {"call", "return"}}

Places == {"queued", "switch", "check", "breaker", "ready", "waiting", "call", "return", "record",
           "trip", "meter", "leave", "done"}

(* Types; a candidate whose answer is saved is on its way out.              *)
CallTypeOK ==
  /\ switch \in {"released", "engaged"} /\ changed \in 0..Refresh
  /\ halt \in [Workers -> [age: 0..Refresh, switch: {"released", "engaged"}]]
  /\ task \in [Tasks -> [at: Places, worker: Workers \cup {"none"}, age: 0..Refresh,
                       late: {"no", "yes"},
                       outcome: {"none", "ok", "unwell", "permanent", "lost"}]]
  /\ \A j \in Tasks :
       /\ task[j].worker = "none" <=> task[j].at \in {"queued", "done"}
       /\ task[j].at = "return" => j \in Evaluators
       /\ Settled(j) => task[j].at \in {"record", "trip", "meter", "leave"}
  /\ spent \in [Runs -> Nat] /\ peak \in [Runs -> Nat]
  /\ permits \in [Workers -> 0..Permits] /\ waiting \in [Workers -> Seq(Tasks)]
  /\ breaker \in [failures: 0..Threshold, open: 0..Cooldown]

(* A job delivered a refresh window or more after the switch was engaged    *)
(* does not pass its check, whatever its process had cached or was just     *)
(* reading, unless the switch could not be read (worker/src/context.ts,     *)
(* installHalted: a freshly tripped switch takes up to one window to reach  *)
(* every worker).                                                           *)
StopReachesWorkers ==
  \A j \in Tasks : task[j].at \notin {"queued", "switch", "done"} => task[j].late = "no"

(* The ceiling is judged from what was recorded, so the jobs of a run that  *)
(* are under way at once overshoot it together: by as many calls as there   *)
(* were beyond one, and by no more whatever is retried or redelivered.      *)
OvershootIsBounded ==
  \A r \in Runs : peak[r] > 0 => spent[r] + Cardinality(Paying(r)) <= Ceiling - 1 + peak[r]

(* A permit is free or held, never both or neither, and nobody waits while  *)
(* one is free: whoever waits is woken by one of the calls in flight.       *)
PermitsAreConserved ==
  \A w \in Workers :
    /\ permits[w] + Cardinality(Holding(w)) = Permits
    /\ waiting[w] # <<>> => permits[w] = 0
    /\ \A j \in Tasks :
         task[j].at = "waiting" /\ task[j].worker = w <=> j \in ToSet(waiting[w])
    /\ IsInjective(waiting[w])
=============================================================================
