------------------------------- MODULE MCFleet -------------------------------
(* The processes and what they share: the calls of the workers, the limiter *)
(* and the dead letters, and the bus and the queue of a process on its own. *)
(* The parts share no state, so an instance moves one of them and leaves    *)
(* the others where they start.                                             *)
EXTENDS CallGate, RateLimit, Operations, LocalBus, LocalQueue, TLC

CONSTANTS c1, c2, e

VARIABLE part

fleetVars == <<part, callVars, rateVars, opsVars, localBusVars, localVars>>

Still(vs) == UNCHANGED <<part, vs>>

(* A part that does not move starts in one state.                           *)
FleetInit ==
  /\ part \in {"call", "limit", "queue", "local bus", "local queue"}
  /\ CallInit /\ RateInit /\ OpsInit /\ LocalBusInit /\ LocalInit
  /\ part # "limit" => transport = "local" /\ \A r \in Replicas : skew[r] = 0

FleetNext ==
  \/ /\ part = "call" /\ CallNext
     /\ Still(<<rateVars, opsVars, localBusVars, localVars>>)
  \/ /\ part = "limit" /\ RateNext
     /\ Still(<<callVars, opsVars, localBusVars, localVars>>)
  \/ /\ part = "queue" /\ OpsNext
     /\ Still(<<callVars, rateVars, localBusVars, localVars>>)
  \/ /\ part = "local bus" /\ LocalBusNext
     /\ Still(<<callVars, rateVars, opsVars, localVars>>)
  \/ /\ part = "local queue" /\ LocalNext
     /\ Still(<<callVars, rateVars, opsVars, localBusVars>>)

FleetSpec == FleetInit /\ [][FleetNext]_fleetVars

MCRunOf == [j \in {c1, c2, e} |-> IF j = e THEN "other" ELSE "panel"]

(* Two candidates of one run, and two processes, whatever they run.         *)
Symmetry == Permutations({c1, c2}) \cup Permutations(Workers)
=============================================================================
