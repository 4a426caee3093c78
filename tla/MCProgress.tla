------------------------------ MODULE MCProgress ------------------------------
(* What must eventually happen: a run concludes, its stream is followed to  *)
(* the end, the page shows it, a claimed key is released and the rollup     *)
(* agrees with the records. The parts share no state, so an instance moves  *)
(* one of them and leaves the others where they start.                      *)
EXTENDS RunLifecycle, IdempotencyKeys, ProgressBus, Metering, RunView

VARIABLE part

Parts == {"run", "key", "bus", "rollup", "view"}

progressVars == <<part, vars, keysVars, busVars, meteringVars, viewVars>>

(* A part that does not move starts in one state.                           *)
ProgressInit ==
  /\ part \in Parts
  /\ Init /\ KeysInit /\ BusInit /\ MeteringInit /\ ViewInit
  /\ part # "key" => runRow = "none"

ProgressNext ==
  \/ part = "run" /\ Next /\ UNCHANGED <<part, keysVars, busVars, meteringVars, viewVars>>
  \/ part = "key" /\ KeysNext /\ UNCHANGED <<part, vars, busVars, meteringVars, viewVars>>
  \/ part = "bus" /\ BusNext /\ UNCHANGED <<part, vars, keysVars, meteringVars, viewVars>>
  \/ part = "rollup" /\ MeteringNext /\ UNCHANGED <<part, vars, keysVars, busVars, viewVars>>
  \/ part = "view" /\ ViewNext /\ UNCHANGED <<part, vars, keysVars, busVars, meteringVars>>

-----------------------------------------------------------------------------
(* The fairness of each module, of the part that moves.                     *)
RunFairness ==
  /\ WF_vars(part = "run" /\ StartRun)
  /\ WF_vars(part = "run" /\ (CancelCandidates \/ CancelRequest \/ CancelPublish))
  /\ WF_vars(part = "run" /\ Reap)
  /\ WF_vars(part = "run" /\ Deadline)
  /\ \A c \in Candidates : WF_vars(part = "run" /\ ProcessCandidate(c))
  /\ WF_vars(part = "run" /\ ProcessSynthesis)
  /\ \A j \in Jobs :
       WF_vars(part = "run" /\ Deliver(j)) /\ WF_vars(part = "run" /\ DeliverCancel(j))

KeyFairness ==
  /\ \A q \in Requests : WF_keysVars(part = "key" /\ Handle(q))
  /\ \A c \in Clients : WF_keysVars(part = "key" /\ (Hear(c) \/ HearNothing(c)))
  /\ WF_keysVars(part = "key" /\ Expire) /\ WF_keysVars(part = "key" /\ Sweep)

FeedFairness ==
  /\ \A p \in Publishers : WF_busVars(part = "bus" /\ pub[p].at # "idle" /\ Publish(p))
  /\ \A r \in Readers : WF_busVars(part = "bus" /\ Subscribe(r))

SweepFairness ==
  \A s \in Sweepers :
    /\ WF_meteringVars(part = "rollup" /\ rollupUsage(s))
    /\ WF_meteringVars(part = "rollup" /\ rollupOnce(s))

PageFairness ==
  /\ WF_viewVars(part = "view" /\ Publishes)
  /\ WF_viewVars(part = "view" /\ (streamRun \/ Told \/ Receives \/ Renders))

ProgressSpec ==
  /\ ProgressInit /\ [][ProgressNext]_progressVars
  /\ RunFairness /\ KeyFairness /\ FeedFairness /\ SweepFairness /\ PageFairness
=============================================================================
