----------------------------- MODULE LocalQueue -----------------------------
(***************************************************************************)
(* RUN_TRANSPORT=local: one process serves the API, executes the runs and  *)
(* delivers the webhooks, with promises for queues. It stops by draining,  *)
(* by running out of the drain's time, or by dying; another takes over.    *)
(*                                                                         *)
(* A job has one attempt and no lock, and nothing deduplicates jobs by id. *)
(* A candidate's handler that throws leaves its row unsettled, which here  *)
(* is the same as settling it: the synthesis follows either way. Prisma    *)
(* reconnects a query made after $disconnect; it is taken at its word.     *)
(***************************************************************************)
EXTENDS Naturals, FiniteSets

CONSTANTS
  Submitted,    \* the runs that are asked for
  Panellists,   \* the candidates of a run
  Receiver,     \* the endpoints subscribed to a run's end
  MaxOverlap,   \* bound on the deliveries of one row in flight at once
  MaxStops      \* bound on the processes that end

ASSUME LocalQueueAssumption ==
  /\ IsFiniteSet(Panellists) /\ IsFiniteSet(Receiver)
  /\ MaxOverlap \in Nat \ {0} /\ MaxStops \in Nat

Dispatches == Submitted \X Receiver

VARIABLES
  server,      \* where this process stands between its start and its exit
  handlers,    \* the in-process handlers are registered
  submitted,   \* the request of each run, from its row to its answer
  runStatus,   \* the status of each run's row
  inFlight,    \* the unsettled candidates of each run in flight, or its synthesis
  awaited,     \* the runs in flight that close() waits for
  announcing,  \* the runs whose end is being announced by their synthesis
  dispatch,    \* the status of each WebhookDispatch row
  deliveries,  \* how many deliveries of each row are in flight
  stops

localVars == <<server, handlers, submitted, runStatus, inFlight, awaited, announcing,
               dispatch, deliveries, stops>>

None == [at |-> "none", left |-> {}]

Live == server \in {"up", "draining"}

Ended == {"COMPLETE", "FAILED"}

-----------------------------------------------------------------------------
webhookVars == <<announcing, dispatch, deliveries>>
stopVars == <<server, handlers, awaited, stops>>

(* createRun: the row exists before the queue has heard of it.              *)
startRun(q) ==
  /\ Live /\ submitted[q] = "new"
  /\ submitted' = [submitted EXCEPT ![q] = "created"]
  /\ runStatus' = [runStatus EXCEPT ![q] = "PENDING"]
  /\ UNCHANGED inFlight /\ UNCHANGED webhookVars /\ UNCHANGED stopVars

(* Without handlers the queue refuses, and the request fails its run.       *)
enqueueRun(q) ==
  /\ Live /\ submitted[q] = "created"
  /\ \/ /\ handlers
        /\ inFlight' = [inFlight EXCEPT ![q] = [at |-> "candidates", left |-> Panellists]]
        /\ submitted' = [submitted EXCEPT ![q] = "accepted"]
        /\ UNCHANGED runStatus
     \/ /\ ~handlers
        /\ submitted' = [submitted EXCEPT ![q] = "refused"]
        /\ runStatus' = [runStatus EXCEPT ![q] = "FAILED"]
        /\ UNCHANGED inFlight
  /\ UNCHANGED webhookVars /\ UNCHANGED stopVars

(* Promise.all over the candidates: each settles or throws, none rejects.   *)
CandidateReturns(q, c) ==
  /\ Live /\ inFlight[q].at = "candidates" /\ c \in inFlight[q].left
  /\ inFlight' = [inFlight EXCEPT ![q] =
       LET left == @.left \ {c}
       IN  [at |-> IF left = {} THEN "synthesis" ELSE "candidates", left |-> left]]
  /\ UNCHANGED <<submitted, runStatus>> /\ UNCHANGED webhookVars /\ UNCHANGED stopVars

(* The synthesis concludes the run and announces it, or throws.             *)
SynthesisReturns(q) ==
  /\ Live /\ inFlight[q].at = "synthesis"
  /\ \/ /\ runStatus[q] = "PENDING"
        /\ runStatus' \in {[runStatus EXCEPT ![q] = s] : s \in Ended}
        /\ announcing' = announcing \cup {q}
        /\ inFlight' = [inFlight EXCEPT ![q].at = "announce"]
     \/ /\ inFlight' = [inFlight EXCEPT ![q] = None]
        /\ UNCHANGED <<runStatus, announcing>>
  /\ UNCHANGED <<submitted, dispatch, deliveries>> /\ UNCHANGED stopVars

(* Each due row is handed to the handler at once, whatever is in flight for *)
(* it; without a handler nothing happens.                                   *)
EnqueueAll(D) ==
  deliveries' = IF handlers THEN [d \in Dispatches |-> deliveries[d] + (IF d \in D THEN 1 ELSE 0)]
                ELSE deliveries

Rows(q) == {q} \X Receiver

(* emitRunWebhook: the rows, then the queue; then the run's promise settles.*)
emitRunWebhook(q) ==
  /\ Live /\ q \in announcing
  /\ \/ /\ dispatch' = [d \in Dispatches |-> IF d \in Rows(q) THEN "PENDING" ELSE dispatch[d]]
        /\ announcing' = announcing \ {q}
        /\ EnqueueAll(Rows(q))
        /\ inFlight' = [inFlight EXCEPT ![q] = None]
     \/ /\ announcing' = announcing \ {q}
        /\ inFlight' = [inFlight EXCEPT ![q] = None]
        /\ UNCHANGED <<dispatch, deliveries>>
  /\ UNCHANGED <<submitted, runStatus>> /\ UNCHANGED stopVars

(* The sweep enqueues the rows that are due, those in flight included. A    *)
(* sweep that has begun is not waited for when the process stops.           *)
sweepWebhooksOnce ==
  LET due == {d \in Dispatches : dispatch[d] = "PENDING"}
  IN  /\ Live /\ due # {}
      /\ \A d \in due : deliveries[d] < MaxOverlap
      /\ EnqueueAll(due)
      /\ UNCHANGED <<submitted, runStatus, inFlight, announcing, dispatch>> /\ UNCHANGED stopVars

(* One attempt is all a local delivery has: it ends delivered or given up,  *)
(* or, when it throws, with the row as it was.                              *)
processWebhookJob(d) ==
  /\ Live /\ deliveries[d] > 0
  /\ deliveries' = [deliveries EXCEPT ![d] = @ - 1]
  /\ dispatch' \in {[dispatch EXCEPT ![d] = s] : s \in {dispatch[d], "DELIVERED", "FAILED"}}
  /\ UNCHANGED <<submitted, runStatus, inFlight, announcing>> /\ UNCHANGED stopVars

(* The reaper fails a run that is past its deadline.                        *)
reapOnce(q) ==
  /\ Live /\ runStatus[q] = "PENDING"
  /\ runStatus' = [runStatus EXCEPT ![q] = "FAILED"]
  /\ UNCHANGED <<submitted, inFlight>> /\ UNCHANGED webhookVars /\ UNCHANGED stopVars

-----------------------------------------------------------------------------
runVars == <<submitted, runStatus, inFlight>>

(* Variant: the queue is closed before the handlers are unregistered.       *)
shutdownClosesFirst ==
  /\ server = "up" /\ stops < MaxStops
  /\ server' = "draining" /\ stops' = stops + 1
  /\ UNCHANGED <<handlers, awaited>> /\ UNCHANGED runVars /\ UNCHANGED webhookVars

(* SIGTERM: the teardown unregisters the handlers.                          *)
shutdownLocal ==
  /\ server = "up" /\ stops < MaxStops
  /\ server' = "draining" /\ stops' = stops + 1
  /\ handlers' = FALSE
  /\ UNCHANGED awaited /\ UNCHANGED runVars /\ UNCHANGED webhookVars

Flying == {q \in Submitted : inFlight[q].at # "none"}

(* runQueue().close(): the promises in flight now, and none that come later.*)
close ==
  /\ server = "draining" /\ awaited = {}
  /\ \/ /\ Flying # {} /\ awaited' = Flying
        /\ UNCHANGED <<server, handlers, stops>>
     \/ /\ Flying = {} /\ server' = "drained"
        /\ UNCHANGED <<handlers, awaited, stops>>
  /\ UNCHANGED runVars /\ UNCHANGED webhookVars

CloseReturns ==
  /\ server = "draining" /\ awaited # {} /\ awaited \cap Flying = {}
  /\ server' = "drained"
  /\ UNCHANGED <<handlers, awaited, stops>> /\ UNCHANGED runVars /\ UNCHANGED webhookVars

(* The process dies, or the drain exceeds SHUTDOWN_TIMEOUT_MS.              *)
Dies ==
  /\ \/ server = "up" /\ stops < MaxStops /\ stops' = stops + 1
     \/ server = "draining" /\ UNCHANGED stops
  /\ server' = "dead"
  /\ UNCHANGED <<handlers, awaited>> /\ UNCHANGED runVars /\ UNCHANGED webhookVars

(* A new process begins with no promises; a request that had no answer is   *)
(* never continued.                                                         *)
startWorker ==
  /\ server \in {"drained", "dead"}
  /\ server' = "up" /\ handlers' = TRUE
  /\ awaited' = {} /\ announcing' = {}
  /\ inFlight' = [q \in Submitted |-> None]
  /\ deliveries' = [d \in Dispatches |-> 0]
  /\ submitted' = [q \in Submitted |-> IF submitted[q] = "created" THEN "cut" ELSE submitted[q]]
  /\ UNCHANGED <<runStatus, dispatch, stops>>

-----------------------------------------------------------------------------
LocalInit ==
  /\ server = "up" /\ handlers = TRUE /\ stops = 0
  /\ submitted = [q \in Submitted |-> "new"]
  /\ runStatus = [q \in Submitted |-> "none"]
  /\ inFlight = [q \in Submitted |-> None]
  /\ awaited = {} /\ announcing = {}
  /\ dispatch = [d \in Dispatches |-> "none"]
  /\ deliveries = [d \in Dispatches |-> 0]

LocalNext ==
  \/ \E q \in Submitted :
       \/ startRun(q) \/ enqueueRun(q) \/ SynthesisReturns(q) \/ emitRunWebhook(q) \/ reapOnce(q)
       \/ \E c \in Panellists : CandidateReturns(q, c)
  \/ sweepWebhooksOnce \/ \E d \in Dispatches : processWebhookJob(d)
  \/ shutdownLocal \/ close \/ CloseReturns \/ Dies \/ startWorker

LocalSpec == LocalInit /\ [][LocalNext]_localVars

-----------------------------------------------------------------------------
(* Types, and that a run in flight was accepted.                            *)
LocalQueueTypeOK ==
  /\ server \in {"up", "draining", "drained", "dead"} /\ handlers \in BOOLEAN
  /\ submitted \in [Submitted -> {"new", "created", "accepted", "refused", "cut"}]
  /\ runStatus \in [Submitted -> {"none", "PENDING"} \cup Ended]
  /\ inFlight \in [Submitted -> [at: {"none", "candidates", "synthesis", "announce"},
                                 left: SUBSET Panellists]]
  /\ Flying \subseteq {q \in Submitted : submitted[q] = "accepted"}
  /\ awaited \subseteq Submitted /\ announcing \subseteq Submitted
  /\ dispatch \in [Dispatches -> {"none", "PENDING", "DELIVERED", "FAILED"}]
  /\ deliveries \in [Dispatches -> 0..MaxOverlap] /\ stops \in 0..MaxStops

(* A process that drained has finished every run it accepted: whatever was  *)
(* submitted while it was stopping was either taken before the queue looked *)
(* at what is in flight, or refused (server/src/index.ts:79-124).           *)
DrainFinishesRuns == server = "drained" => Flying = {}
=============================================================================
