----------------------------- MODULE FleetProofs -----------------------------
(****************************************************************************)
(* The processes and their queues, for any number of runs, candidates,      *)
(* endpoints, workers, jobs, readers, faults and restarts: the queue of a   *)
(* process on its own drains before it closes; its bus, with one handler    *)
(* that publishes, implements EventFeed; and a dead letter can be replayed  *)
(* without a second call.                                                   *)
(****************************************************************************)
EXTENDS LocalBus, LocalQueue, Operations, SequenceTheorems, TLAPS

-----------------------------------------------------------------------------
(* The local queue. *)

(* Once the handlers are gone nothing new takes off, so what close() found  *)
(* in flight is all that can be.                                            *)
DrainInv ==
  /\ server \in {"draining", "drained"} => ~handlers
  /\ server = "up" => awaited = {}
  /\ server = "draining" /\ awaited # {} => Flying \subseteq awaited
  /\ DrainFinishesRuns

(* A run whose end was not announced has no row to deliver. *)
Unannounced(q) == runStatus[q] \in {"none", "PENDING"} \/ q \in announcing

AnnouncedInv ==
  \A q \in Submitted :
    /\ submitted[q] = "new" => runStatus[q] = "none"
    /\ q \in announcing => runStatus[q] \in Ended
    /\ Unannounced(q) => \A h \in Receiver : dispatch[<<q, h>>] = "none" /\ deliveries[<<q, h>>] = 0

QueueInv == LocalQueueTypeOK /\ DrainInv /\ AnnouncedInv

Flights == [at: {"none", "candidates", "synthesis", "announce"}, left: SUBSET Panellists]

(* What a step does to what is in flight: it adds a run only by accepting   *)
(* it, with the handlers in place.                                          *)
LEMMA FlightSteps ==
  ASSUME QueueInv, LocalNext
  PROVE  /\ inFlight' \in [Submitted -> Flights]
         /\ \/ Flying' \subseteq Flying /\ \A q \in Flying' : submitted'[q] = submitted[q]
            \/ /\ Live /\ handlers /\ UNCHANGED <<server, handlers, awaited>>
               /\ Flying' \subseteq {q \in Submitted : submitted'[q] = "accepted"}
  <1>. /\ inFlight \in [Submitted -> Flights] /\ None \in Flights /\ None.at = "none"
       /\ submitted \in [Submitted -> {"new", "created", "accepted", "refused", "cut"}]
       /\ Flying \subseteq {q \in Submitted : submitted[q] = "accepted"}
    BY DEF QueueInv, LocalQueueTypeOK, Flights, None
  <1>a. \A q : q \in Flying <=> q \in Submitted /\ inFlight[q].at # "none"
    BY DEF Flying
  <1>b. \A q : q \in Flying' <=> q \in Submitted /\ inFlight'[q].at # "none"
    BY DEF Flying
  <1>1. ASSUME NEW q \in Submitted, NEW x \in Flights, inFlight' = [inFlight EXCEPT ![q] = x]
        PROVE  /\ inFlight' \in [Submitted -> Flights] /\ inFlight'[q] = x
               /\ \A p \in Submitted : p # q => inFlight'[p] = inFlight[p]
    BY <1>1
  <1>2. ASSUME UNCHANGED inFlight, \A q \in Flying : submitted'[q] = submitted[q]
        PROVE  /\ inFlight' \in [Submitted -> Flights] /\ Flying' \subseteq Flying
               /\ \A q \in Flying' : submitted'[q] = submitted[q]
    BY <1>2, <1>a, <1>b
  <1>3. ASSUME NEW q \in Submitted, NEW x \in Flights, inFlight' = [inFlight EXCEPT ![q] = x],
               q \in Flying \/ x.at = "none", UNCHANGED submitted
        PROVE  inFlight' \in [Submitted -> Flights] /\ Flying' \subseteq Flying
               /\ \A p \in Flying' : submitted'[p] = submitted[p]
    BY <1>1, <1>3, <1>a, <1>b
  <1>4. ASSUME NEW q \in Submitted, startRun(q)
        PROVE  UNCHANGED inFlight /\ \A p \in Flying : submitted'[p] = submitted[p]
    BY <1>4, <1>a DEF startRun
  <1>5. ASSUME NEW q \in Submitted, enqueueRun(q), ~handlers
        PROVE  UNCHANGED inFlight /\ \A p \in Flying : submitted'[p] = submitted[p]
    BY <1>5, <1>a DEF enqueueRun
  <1>6. ASSUME NEW q \in Submitted, enqueueRun(q), handlers
        PROVE  /\ Live /\ handlers /\ UNCHANGED <<server, handlers, awaited>>
               /\ inFlight' \in [Submitted -> Flights]
               /\ Flying' \subseteq {p \in Submitted : submitted'[p] = "accepted"}
    <2>1. /\ inFlight' = [inFlight EXCEPT ![q] = [at |-> "candidates", left |-> Panellists]]
          /\ submitted' = [submitted EXCEPT ![q] = "accepted"]
          /\ Live /\ UNCHANGED <<server, handlers, awaited>>
      BY <1>6 DEF enqueueRun, stopVars
    <2>2. [at |-> "candidates", left |-> Panellists] \in Flights
      BY DEF Flights
    <2>. QED  BY <1>1, <1>6, <1>a, <1>b, <2>1, <2>2
  <1>7. ASSUME NEW q \in Submitted, NEW c \in Panellists, CandidateReturns(q, c)
        PROVE  /\ inFlight' \in [Submitted -> Flights] /\ Flying' \subseteq Flying
               /\ \A p \in Flying' : submitted'[p] = submitted[p]
    <2>. DEFINE left == inFlight[q].left \ {c}
                x == [at |-> IF left = {} THEN "synthesis" ELSE "candidates", left |-> left]
    <2>1. inFlight' = [inFlight EXCEPT ![q] = x] /\ q \in Flying /\ UNCHANGED submitted
      BY <1>7, <1>a DEF CandidateReturns
    <2>2. x \in Flights
      BY DEF Flights
    <2>. QED  BY <1>3, <2>1, <2>2
  <1>8. ASSUME NEW q \in Submitted, SynthesisReturns(q)
        PROVE  /\ inFlight' \in [Submitted -> Flights] /\ Flying' \subseteq Flying
               /\ \A p \in Flying' : submitted'[p] = submitted[p]
    <2>. DEFINE x == [inFlight[q] EXCEPT !.at = "announce"]
    <2>1. /\ inFlight' = [inFlight EXCEPT ![q] = x] \/ inFlight' = [inFlight EXCEPT ![q] = None]
          /\ q \in Flying /\ UNCHANGED submitted
      BY <1>8, <1>a DEF SynthesisReturns
    <2>2. x \in Flights
      BY DEF Flights
    <2>. HIDE DEF x
    <2>. QED  BY <1>3, <2>1, <2>2
  <1>9. ASSUME NEW q \in Submitted, emitRunWebhook(q)
        PROVE  /\ inFlight' \in [Submitted -> Flights] /\ Flying' \subseteq Flying
               /\ \A p \in Flying' : submitted'[p] = submitted[p]
    <2>1. inFlight' = [inFlight EXCEPT ![q] = None] /\ UNCHANGED submitted
      BY <1>9 DEF emitRunWebhook
    <2>. QED  BY <1>3, <2>1
  <1>10. ASSUME NEW q \in Submitted, reapOnce(q)
         PROVE  UNCHANGED inFlight /\ \A p \in Flying : submitted'[p] = submitted[p]
    BY <1>10 DEF reapOnce
  <1>11. ASSUME sweepWebhooksOnce \/ shutdownLocal \/ close \/ CloseReturns \/ Dies
         PROVE  UNCHANGED inFlight /\ \A p \in Flying : submitted'[p] = submitted[p]
    BY <1>11 DEF sweepWebhooksOnce, shutdownLocal, close, CloseReturns, Dies, runVars
  <1>12. ASSUME NEW d \in Dispatches, processWebhookJob(d)
         PROVE  UNCHANGED inFlight /\ \A p \in Flying : submitted'[p] = submitted[p]
    BY <1>12 DEF processWebhookJob
  <1>13. ASSUME startWorker
         PROVE  inFlight' \in [Submitted -> Flights] /\ Flying' \subseteq Flying
                /\ \A p \in Flying' : submitted'[p] = submitted[p]
    <2>1. inFlight' = [q \in Submitted |-> None]
      BY <1>13 DEF startWorker
    <2>. QED  BY <1>a, <1>b, <2>1
  <1>14. ASSUME NEW q \in Submitted, enqueueRun(q)
         PROVE  /\ inFlight' \in [Submitted -> Flights]
                /\ \/ Flying' \subseteq Flying /\ \A p \in Flying' : submitted'[p] = submitted[p]
                   \/ /\ Live /\ handlers /\ UNCHANGED <<server, handlers, awaited>>
                      /\ Flying' \subseteq {p \in Submitted : submitted'[p] = "accepted"}
    BY <1>2, <1>5, <1>6, <1>14
  <1>. QED  BY <1>2, <1>4, <1>7, <1>8, <1>9, <1>10, <1>11, <1>12, <1>13, <1>14 DEF LocalNext

(* The stages of a process. *)
LEMMA ServerSteps ==
  ASSUME LocalNext
  PROVE  \/ UNCHANGED <<server, handlers, awaited, stops>>
         \/ /\ server = "up" /\ server' = "draining" /\ handlers' = FALSE /\ UNCHANGED <<awaited, inFlight>>
            /\ stops < MaxStops /\ stops' = stops + 1
         \/ /\ server = "draining" /\ awaited = {} /\ awaited' = Flying
            /\ UNCHANGED <<server, handlers, stops, inFlight>>
         \/ /\ server = "draining" /\ server' = "drained" /\ UNCHANGED <<handlers, awaited, stops, inFlight>>
            /\ \/ awaited = {} /\ Flying = {}
               \/ awaited # {} /\ awaited \cap Flying = {}
         \/ /\ server' = "dead" /\ UNCHANGED <<handlers, awaited>>
            /\ stops' = stops \/ (stops < MaxStops /\ stops' = stops + 1)
         \/ /\ server' = "up" /\ handlers' = TRUE /\ awaited' = {} /\ UNCHANGED stops
BY DEF LocalNext, startRun, enqueueRun, SynthesisReturns, emitRunWebhook, reapOnce, CandidateReturns,
       sweepWebhooksOnce, processWebhookJob, shutdownLocal, close, CloseReturns, Dies, startWorker,
       stopVars, runVars

(* A process that has stopped does nothing more. *)
LEMMA StoppedStays ==
  ASSUME LocalNext, server \in {"drained", "dead"}
  PROVE  server' = "up" /\ handlers' = TRUE /\ awaited' = {}
BY DEF LocalNext, startRun, enqueueRun, SynthesisReturns, emitRunWebhook, reapOnce, CandidateReturns,
       sweepWebhooksOnce, processWebhookJob, shutdownLocal, close, CloseReturns, Dies, startWorker, Live

LEMMA DrainStep ==
  ASSUME QueueInv, LocalNext
  PROVE  DrainInv'
  <1>. DrainInv /\ server \in {"up", "draining", "drained", "dead"}
    BY DEF QueueInv, LocalQueueTypeOK
  <1>1. CASE server \in {"drained", "dead"}
    BY <1>1, StoppedStays DEF DrainInv, DrainFinishesRuns
  <1>2. CASE UNCHANGED <<server, handlers, awaited, stops>> /\ server \in {"up", "draining"}
    <2>1. server = "draining" => Flying' \subseteq Flying
      BY FlightSteps DEF DrainInv
    <2>. QED  BY <1>2, <2>1 DEF DrainInv, DrainFinishesRuns
  <1>3. CASE /\ server = "up" /\ server' = "draining" /\ handlers' = FALSE /\ UNCHANGED <<awaited, inFlight>>
    BY <1>3 DEF DrainInv, DrainFinishesRuns
  <1>4. CASE /\ server = "draining" /\ awaited = {} /\ awaited' = Flying
             /\ UNCHANGED <<server, handlers, stops, inFlight>>
    <2>1. Flying' = Flying
      BY <1>4 DEF Flying
    <2>. QED  BY <1>4, <2>1 DEF DrainInv, DrainFinishesRuns
  <1>5. CASE /\ server = "draining" /\ server' = "drained" /\ UNCHANGED <<handlers, awaited, stops, inFlight>>
             /\ \/ awaited = {} /\ Flying = {}
                \/ awaited # {} /\ awaited \cap Flying = {}
    <2>1. Flying' = Flying
      BY <1>5 DEF Flying
    <2>2. Flying = {}
      BY <1>5 DEF DrainInv
    <2>. QED  BY <1>5, <2>1, <2>2 DEF DrainInv, DrainFinishesRuns
  <1>6. CASE server' = "dead"
    BY <1>6 DEF DrainInv, DrainFinishesRuns
  <1>7. CASE server' = "up" /\ handlers' = TRUE /\ awaited' = {}
    BY <1>7 DEF DrainInv, DrainFinishesRuns
  <1>. QED  BY <1>1, <1>2, <1>3, <1>4, <1>5, <1>6, <1>7, ServerSteps

(* What is announced and delivered, with its types. *)
AnnouncedOK ==
  /\ AnnouncedInv /\ announcing \subseteq Submitted
  /\ submitted \in [Submitted -> {"new", "created", "accepted", "refused", "cut"}]
  /\ runStatus \in [Submitted -> {"none", "PENDING"} \cup Ended]
  /\ dispatch \in [Dispatches -> {"none", "PENDING", "DELIVERED", "FAILED"}]
  /\ deliveries \in [Dispatches -> 0..MaxOverlap]

(* A run's rows appear when its end is announced, by the synthesis that     *)
(* ended it: until then none is in flight.                                  *)
LEMMA AnnouncedStep ==
  ASSUME QueueInv, LocalNext
  PROVE  AnnouncedOK'
  <1>. AnnouncedOK /\ AnnouncedInv
    BY DEF QueueInv, LocalQueueTypeOK, AnnouncedOK
  <1>. /\ submitted \in [Submitted -> {"new", "created", "accepted", "refused", "cut"}]
       /\ runStatus \in [Submitted -> {"none", "PENDING"} \cup Ended]
       /\ dispatch \in [Dispatches -> {"none", "PENDING", "DELIVERED", "FAILED"}]
       /\ deliveries \in [Dispatches -> 0..MaxOverlap] /\ announcing \subseteq Submitted
       /\ MaxOverlap \in Nat \ {0}
    BY LocalQueueAssumption DEF AnnouncedOK
  <1>. /\ \A s \in Ended : s \notin {"none", "PENDING"}
       /\ "FAILED" \in Ended
       /\ \A q \in Submitted, h \in Receiver : <<q, h>> \in Dispatches
       /\ \A d \in Dispatches : \E q \in Submitted, h \in Receiver : d = <<q, h>>
    BY DEF Ended, Dispatches
  <1>1. ASSUME UNCHANGED webhookVars,
               submitted' \in [Submitted -> {"new", "created", "accepted", "refused", "cut"}],
               runStatus' \in [Submitted -> {"none", "PENDING"} \cup Ended],
               \A q \in Submitted :
                 /\ submitted'[q] = "new" => submitted[q] = "new" /\ (runStatus[q] = "none" => runStatus'[q] = "none")
                 /\ runStatus'[q] = runStatus[q] \/ (runStatus[q] \in {"none", "PENDING"})
                 /\ q \in announcing => runStatus'[q] \in Ended
        PROVE  AnnouncedOK'
    <2>1. UNCHANGED <<announcing, dispatch, deliveries>>
      BY <1>1 DEF webhookVars
    <2>2. \A q \in Submitted : Unannounced(q)' => Unannounced(q)
      BY <1>1, <2>1 DEF Unannounced
    <2>3. AnnouncedInv'
      BY <1>1, <2>1, <2>2 DEF AnnouncedInv
    <2>. QED  BY <1>1, <2>1, <2>3 DEF AnnouncedOK
  <1>0. \A q \in announcing : q \in Submitted /\ runStatus[q] \in Ended
    BY DEF AnnouncedInv
  <1>2. ASSUME NEW q \in Submitted, startRun(q)  PROVE AnnouncedOK'
    <2>1. /\ submitted[q] = "new" /\ submitted' = [submitted EXCEPT ![q] = "created"]
          /\ runStatus' = [runStatus EXCEPT ![q] = "PENDING"] /\ UNCHANGED webhookVars
      BY <1>2 DEF startRun
    <2>2. runStatus[q] = "none" /\ q \notin announcing
      BY <1>0, <2>1 DEF AnnouncedInv
    <2>. QED  BY <1>0, <1>1, <2>1, <2>2
  <1>3. ASSUME NEW q \in Submitted, enqueueRun(q)  PROVE AnnouncedOK'
    <2>1. /\ submitted[q] = "created" /\ UNCHANGED webhookVars
          /\ \/ submitted' = [submitted EXCEPT ![q] = "accepted"] /\ UNCHANGED runStatus
             \/ submitted' = [submitted EXCEPT ![q] = "refused"] /\ runStatus' = [runStatus EXCEPT ![q] = "FAILED"]
      BY <1>3 DEF enqueueRun
    <2>2. CASE submitted' = [submitted EXCEPT ![q] = "accepted"] /\ UNCHANGED runStatus
      BY <1>0, <1>1, <2>1, <2>2
    <2>3. CASE submitted' = [submitted EXCEPT ![q] = "refused"] /\ runStatus' = [runStatus EXCEPT ![q] = "FAILED"]
      <3>1. \A p \in Submitted : Unannounced(p)' => Unannounced(p)
        BY <2>1, <2>3 DEF Unannounced, webhookVars
      <3>2. AnnouncedInv'
        BY <1>0, <2>1, <2>3, <3>1 DEF AnnouncedInv, webhookVars
      <3>. QED  BY <2>1, <2>3, <3>2 DEF AnnouncedOK, webhookVars
    <2>. QED  BY <2>1, <2>2, <2>3
  <1>4. ASSUME NEW q \in Submitted, NEW c \in Panellists, CandidateReturns(q, c)  PROVE AnnouncedOK'
    BY <1>0, <1>1, <1>4 DEF CandidateReturns
  <1>5. ASSUME NEW q \in Submitted, SynthesisReturns(q)  PROVE AnnouncedOK'
    <2>1. CASE /\ runStatus[q] = "PENDING" /\ runStatus' \in {[runStatus EXCEPT ![q] = s] : s \in Ended}
               /\ announcing' = announcing \cup {q}
      <3>1. PICK s \in Ended : runStatus' = [runStatus EXCEPT ![q] = s]
        BY <2>1
      <3>2. UNCHANGED <<submitted, dispatch, deliveries>>
        BY <1>5 DEF SynthesisReturns
      <3>3. \A p \in Submitted : Unannounced(p)' => Unannounced(p)
        BY <2>1, <3>1 DEF Unannounced
      <3>4. AnnouncedInv'
        BY <1>0, <2>1, <3>1, <3>2, <3>3 DEF AnnouncedInv
      <3>. QED  BY <2>1, <3>1, <3>2, <3>4 DEF AnnouncedOK
    <2>2. CASE UNCHANGED <<runStatus, announcing>>
      BY <1>0, <1>1, <1>5, <2>2 DEF SynthesisReturns, webhookVars
    <2>. QED  BY <1>5, <2>1, <2>2 DEF SynthesisReturns
  <1>6. ASSUME NEW q \in Submitted, emitRunWebhook(q)  PROVE AnnouncedOK'
    <2>1. q \in announcing /\ announcing' = announcing \ {q} /\ UNCHANGED <<submitted, runStatus>>
      BY <1>6 DEF emitRunWebhook
    <2>2. \A p \in Submitted : Unannounced(p)' => Unannounced(p) /\ p # q
      BY <1>0, <2>1 DEF Unannounced
    <2>3. CASE UNCHANGED <<dispatch, deliveries>>
      <3>1. AnnouncedInv'
        BY <2>1, <2>2, <2>3 DEF AnnouncedInv
      <3>. QED  BY <2>1, <2>3, <3>1 DEF AnnouncedOK
    <2>4. CASE /\ dispatch' = [d \in Dispatches |-> IF d \in Rows(q) THEN "PENDING" ELSE dispatch[d]]
               /\ EnqueueAll(Rows(q))
      <3>1. \A h \in Receiver : deliveries[<<q, h>>] = 0
        BY <2>1 DEF AnnouncedInv, Unannounced
      <3>2. \A d \in Rows(q) : d \in Dispatches => deliveries[d] = 0
        BY <3>1 DEF Rows
      <3>3. \A p \in Submitted, h \in Receiver : p # q => <<p, h>> \notin Rows(q)
        BY DEF Rows
      <3>4. /\ deliveries' \in [Dispatches -> 0..MaxOverlap]
            /\ \A d \in Dispatches : d \notin Rows(q) => deliveries'[d] = deliveries[d]
        <4>1. CASE handlers
          <5>1. deliveries' = [d \in Dispatches |-> deliveries[d] + (IF d \in Rows(q) THEN 1 ELSE 0)]
            BY <2>4, <4>1 DEF EnqueueAll
          <5>2. \A d \in Dispatches : deliveries[d] + (IF d \in Rows(q) THEN 1 ELSE 0) \in 0..MaxOverlap
            BY <3>2
          <5>. QED  BY <5>1, <5>2
        <4>2. CASE ~handlers
          BY <2>4, <4>2 DEF EnqueueAll
        <4>. QED  BY <4>1, <4>2
      <3>5. dispatch' \in [Dispatches -> {"none", "PENDING", "DELIVERED", "FAILED"}]
        BY <2>4
      <3>6. \A d \in Dispatches : d \notin Rows(q) => dispatch'[d] = dispatch[d]
        BY <2>4
      <3>7. AnnouncedInv'
        BY <2>1, <2>2, <3>3, <3>4, <3>6 DEF AnnouncedInv
      <3>. QED  BY <2>1, <3>4, <3>5, <3>7 DEF AnnouncedOK
    <2>. QED  BY <1>6, <2>3, <2>4 DEF emitRunWebhook
  <1>7. ASSUME sweepWebhooksOnce  PROVE AnnouncedOK'
    <2>. DEFINE due == {d \in Dispatches : dispatch[d] = "PENDING"}
    <2>1. /\ \A d \in due : deliveries[d] < MaxOverlap
          /\ EnqueueAll(due) /\ UNCHANGED <<submitted, runStatus, announcing, dispatch>>
      BY <1>7 DEF sweepWebhooksOnce
    <2>2. /\ deliveries' \in [Dispatches -> 0..MaxOverlap]
          /\ \A d \in Dispatches : d \notin due => deliveries'[d] = deliveries[d]
      <3>1. CASE handlers
        <4>1. deliveries' = [d \in Dispatches |-> deliveries[d] + (IF d \in due THEN 1 ELSE 0)]
          BY <2>1, <3>1 DEF EnqueueAll
        <4>2. \A d \in Dispatches : deliveries[d] + (IF d \in due THEN 1 ELSE 0) \in 0..MaxOverlap
          BY <2>1
        <4>. QED  BY <4>1, <4>2
      <3>2. CASE ~handlers
        BY <2>1, <3>2 DEF EnqueueAll
      <3>. QED  BY <3>1, <3>2
    <2>3. \A q \in Submitted : Unannounced(q)' <=> Unannounced(q)
      BY <2>1 DEF Unannounced
    <2>4. AnnouncedInv'
      BY <2>1, <2>2, <2>3 DEF AnnouncedInv
    <2>. QED  BY <2>1, <2>2, <2>4 DEF AnnouncedOK
  <1>8. ASSUME NEW d \in Dispatches, processWebhookJob(d)  PROVE AnnouncedOK'
    <2>1. /\ deliveries[d] > 0 /\ deliveries' = [deliveries EXCEPT ![d] = deliveries[d] - 1]
          /\ UNCHANGED <<submitted, runStatus, announcing>>
      BY <1>8 DEF processWebhookJob
    <2>2. PICK s \in {dispatch[d], "DELIVERED", "FAILED"} : dispatch' = [dispatch EXCEPT ![d] = s]
      BY <1>8 DEF processWebhookJob
    <2>3. \A q \in Submitted : Unannounced(q)' <=> Unannounced(q)
      BY <2>1 DEF Unannounced
    <2>4. \A q \in Submitted, h \in Receiver : Unannounced(q) => <<q, h>> # d
      BY <2>1 DEF AnnouncedInv
    <2>5. AnnouncedInv'
      BY <2>1, <2>2, <2>3, <2>4 DEF AnnouncedInv
    <2>. QED  BY <2>1, <2>2, <2>5 DEF AnnouncedOK
  <1>9. ASSUME NEW q \in Submitted, reapOnce(q)  PROVE AnnouncedOK'
    <2>1. /\ runStatus[q] = "PENDING" /\ runStatus' = [runStatus EXCEPT ![q] = "FAILED"]
          /\ UNCHANGED submitted /\ UNCHANGED webhookVars
      BY <1>9 DEF reapOnce
    <2>2. submitted[q] # "new"
      BY <2>1 DEF AnnouncedInv
    <2>. QED  BY <1>0, <1>1, <2>1, <2>2
  <1>10. ASSUME shutdownLocal \/ close \/ CloseReturns \/ Dies  PROVE AnnouncedOK'
    <2>1. UNCHANGED <<submitted, runStatus>> /\ UNCHANGED webhookVars
      BY <1>10 DEF shutdownLocal, close, CloseReturns, Dies, runVars
    <2>. QED  BY <1>0, <1>1, <2>1
  <1>11. ASSUME startWorker  PROVE AnnouncedOK'
    <2>1. /\ announcing' = {} /\ deliveries' = [d \in Dispatches |-> 0] /\ UNCHANGED <<runStatus, dispatch>>
          /\ submitted' = [q \in Submitted |-> IF submitted[q] = "created" THEN "cut" ELSE submitted[q]]
      BY <1>11 DEF startWorker
    <2>2. \A q \in Submitted : Unannounced(q)' => Unannounced(q)
      BY <2>1 DEF Unannounced
    <2>3. AnnouncedInv'
      BY <2>1, <2>2 DEF AnnouncedInv
    <2>. QED  BY <2>1, <2>3 DEF AnnouncedOK
  <1>. QED  BY <1>2, <1>3, <1>4, <1>5, <1>6, <1>7, <1>8, <1>9, <1>10, <1>11 DEF LocalNext

LEMMA QueueStep == QueueInv /\ [LocalNext]_localVars => QueueInv'
  <1>1. ASSUME QueueInv, LocalNext  PROVE QueueInv'
    <2>1. DrainInv' /\ AnnouncedOK' /\ inFlight' \in [Submitted -> Flights]
      BY <1>1, DrainStep, AnnouncedStep, FlightSteps
    <2>2. /\ server' \in {"up", "draining", "drained", "dead"} /\ handlers' \in BOOLEAN
          /\ awaited' \subseteq Submitted /\ stops' \in 0..MaxStops
      <3>1. /\ server \in {"up", "draining", "drained", "dead"} /\ handlers \in BOOLEAN
            /\ awaited \subseteq Submitted /\ stops \in 0..MaxStops /\ Flying \subseteq Submitted
            /\ MaxStops \in Nat
        BY <1>1, LocalQueueAssumption DEF QueueInv, LocalQueueTypeOK, Flying
      <3>2. stops' = stops \/ (stops < MaxStops /\ stops' = stops + 1)
        BY <1>1, ServerSteps
      <3>3. server' \in {"up", "draining", "drained", "dead"} /\ handlers' \in BOOLEAN
        BY <1>1, <3>1, ServerSteps
      <3>4. awaited' \subseteq Submitted
        BY <1>1, <3>1, ServerSteps
      <3>. QED  BY <3>1, <3>2, <3>3, <3>4
    <2>3. Flying' \subseteq {q \in Submitted : submitted'[q] = "accepted"}
      <3>1. \A q \in Flying : submitted[q] = "accepted"
        BY <1>1 DEF QueueInv, LocalQueueTypeOK
      <3>2. \A q \in Flying' : q \in Submitted
        BY DEF Flying
      <3>. QED  BY <1>1, <3>1, <3>2, FlightSteps
    <2>. QED  BY <2>1, <2>2, <2>3 DEF QueueInv, LocalQueueTypeOK, AnnouncedOK, Flights
  <1>2. ASSUME QueueInv, UNCHANGED localVars  PROVE QueueInv'
    <2>1. UNCHANGED Flying
      BY <1>2 DEF localVars, Flying
    <2>. QED  BY <1>2, <2>1 DEF localVars, QueueInv, LocalQueueTypeOK, DrainInv, DrainFinishesRuns,
                                AnnouncedInv, Unannounced
  <1>. QED  BY <1>1, <1>2

LEMMA QueueStart == LocalInit => QueueInv
  <1>. SUFFICES ASSUME LocalInit  PROVE QueueInv
    OBVIOUS
  <1>1. Flying = {}
    BY DEF LocalInit, Flying, None
  <1>2. LocalQueueTypeOK
    BY <1>1, LocalQueueAssumption DEF LocalInit, LocalQueueTypeOK, None
  <1>3. DrainInv
    BY <1>1 DEF LocalInit, DrainInv, DrainFinishesRuns
  <1>4. AnnouncedInv
    <2>1. \A q \in Submitted, h \in Receiver : <<q, h>> \in Dispatches
      BY DEF Dispatches
    <2>. QED  BY <2>1 DEF LocalInit, AnnouncedInv
  <1>. QED  BY <1>2, <1>3, <1>4 DEF QueueInv

(* The invariant of the local queue, whatever is submitted while it stops.  *)
THEOREM LocalQueueInvariant == LocalSpec => []QueueInv
BY QueueStart, QueueStep, PTL DEF LocalSpec

(* A run in flight was accepted, and deliveries of a row overlap only as    *)
(* far as sweeps do (queue/src/queues.ts, queue/src/webhooks.ts).           *)
THEOREM LocalQueueTyped == LocalSpec => []LocalQueueTypeOK
<1>1. QueueInv => LocalQueueTypeOK
  BY DEF QueueInv
<1>. QED  BY <1>1, LocalQueueInvariant, PTL

(* A process that drained has finished every run it accepted                *)
(* (server/src/index.ts:79-124).                                            *)
THEOREM DrainFinishes == LocalSpec => []DrainFinishesRuns
<1>1. QueueInv => DrainFinishesRuns
  BY DEF QueueInv, DrainInv
<1>. QED  BY <1>1, LocalQueueInvariant, PTL

-----------------------------------------------------------------------------
(* The local bus, with one handler that publishes. *)
OneEmitter == \A p, q \in Emitters : p = q

Tails == [at: {"away", "latest", "backfill", "follow", "closed"},
          page: Seq(LocalFrames), short: BOOLEAN, pending: Seq(LocalFrames)]

(* What is about to be fanned out is the last row, or was not appended.     *)
EmitInv ==
  /\ \A i \in 1..Len(rows) : rows[i] => concluded
  /\ \A p \in Emitters :
       /\ emitting[p].at = "conclude" => concluded
       /\ emitting[p].at = "fan" =>
            /\ emitting[p].frame.seq \in {0, Len(rows)} /\ (emitting[p].frame.terminal => concluded)

(* The rows whose listeners have been called, if they ever will be.         *)
Fanned(s) ==
  /\ s \in 1..Len(rows)
  /\ \A p \in Emitters : emitting[p].at = "fan" => emitting[p].frame.seq # s

(* Where a connection x with cursor c stands: its page is the rows after    *)
(* the cursor; its queue holds events in order; and once the backfill has   *)
(* reached the end of the log, every later event is in the queue.           *)
Placed(x, c) ==
  /\ x.at \in {"latest", "closed"} => concluded
  /\ x.at # "backfill" => x.page = <<>>
  /\ x.at \notin {"backfill", "follow"} => x.pending = <<>>
  /\ x.at \in {"away", "latest"} => ~x.short
  /\ \A i \in 1..Len(x.page) :
       x.page[i].seq = c + i /\ c + i <= Len(rows) /\ (x.page[i].terminal => concluded)
  /\ \A i \in 1..Len(x.pending) :
       /\ x.pending[i].terminal => concluded
       /\ x.pending[i].seq # 0 => Fanned(x.pending[i].seq)
  /\ \A i, k \in 1..Len(x.pending) :
       i < k /\ x.pending[i].seq # 0 /\ x.pending[k].seq # 0 => x.pending[i].seq < x.pending[k].seq
  /\ x.at = "follow" \/ (x.at = "backfill" /\ x.short) =>
       \A s \in Nat : Fanned(s) /\ s > c + Len(x.page) => \E i \in 1..Len(x.pending) : x.pending[i].seq = s

(* What a reader got is the log's prefix up to its cursor.                  *)
HandedPrefix(r) == Len(handed[r]) = cursor[r] /\ \A i \in 1..cursor[r] : handed[r][i] = i

LocalFeedInv ==
  LocalBusTypeOK /\ EmitInv /\ \A r \in Watchers : Placed(tail[r], cursor[r]) /\ HandedPrefix(r)

LEMMA LocalTypes ==
  LocalBusTypeOK <=>
    /\ concluded \in BOOLEAN /\ rows \in Seq(BOOLEAN)
    /\ emitting \in [Emitters -> [at: {"idle", "conclude", "fan"}, frame: LocalFrames]]
    /\ tail \in [Watchers -> Tails] /\ cursor \in [Watchers -> 0..Len(rows)]
    /\ handed \in [Watchers -> Seq(Nat)] /\ mishaps \in 0..MaxMishaps /\ hangups \in 0..MaxHangups
BY DEF LocalBusTypeOK, Tails

(* A connection that is away is nowhere. *)
LEMMA AwayPlaced ==
  /\ Away \in Tails /\ Away.at = "away" /\ [Away EXCEPT !.at = "closed"] \in Tails
  /\ [Away EXCEPT !.at = "closed"].at = "closed"
  /\ \A c : Placed(Away, c)
  /\ \A c : concluded => Placed([Away EXCEPT !.at = "closed"], c)
  <1>. DEFINE y == [Away EXCEPT !.at = "closed"]
  <1>1. /\ Away \in Tails /\ Away.at = "away" /\ Away.page = <<>> /\ Away.pending = <<>> /\ ~Away.short
        /\ y \in Tails /\ y.at = "closed" /\ y.page = <<>> /\ y.pending = <<>>
        /\ Len(<<>>) = 0
    <2>1. <<>> \in Seq(LocalFrames) /\ Len(<<>>) = 0
      OBVIOUS
    <2>2. Away \in Tails /\ Away.at = "away" /\ Away.page = <<>> /\ Away.pending = <<>> /\ ~Away.short
      BY <2>1 DEF Away, Tails
    <2>3. \A x \in Tails : /\ [x EXCEPT !.at = "closed"] \in Tails /\ [x EXCEPT !.at = "closed"].at = "closed"
                            /\ [x EXCEPT !.at = "closed"].page = x.page
                            /\ [x EXCEPT !.at = "closed"].pending = x.pending
      BY DEF Tails
    <2>4. y \in Tails /\ y.at = "closed" /\ y.page = Away.page /\ y.pending = Away.pending
      BY <2>2, <2>3, Zenon
    <2>. HIDE DEF y
    <2>. QED  BY <2>1, <2>2, <2>4
  <1>. HIDE DEF y
  <1>2. \A c : Placed(Away, c) /\ (concluded => Placed(y, c))
    BY <1>1 DEF Placed
  <1>. QED  BY <1>1, <1>2 DEF y

(* What a reader does: it moves without a word, or gets the next event.     *)
ReaderStays(r, x) == UNCHANGED <<cursor, handed>> /\ Placed(x, cursor[r])

ReaderGets(r, x) ==
  /\ cursor[r] < Len(rows) /\ Placed(x, cursor[r] + 1)
  /\ cursor' = [cursor EXCEPT ![r] = cursor[r] + 1]
  /\ handed' = [handed EXCEPT ![r] = Append(handed[r], cursor[r] + 1)]

ReaderActs(r) ==
  \/ Opens(r) \/ ComparesLatest(r) \/ backfill(r) \/ Follows(r)
  \/ SendsRow(r) \/ SendsPending(r) \/ HangsUp(r)

(* A page is the rows after the cursor, and short only at the log's end.    *)
LEMMA PageOfRows ==
  ASSUME LocalFeedInv, NEW r \in Watchers
  PROVE  LET page == backfillPage(r)
             c == cursor[r]
         IN  /\ page \in Seq(LocalFrames) /\ Len(page) \in Nat
             /\ Len(page) < BackfillPage => c + Len(page) = Len(rows)
             /\ \A i \in 1..Len(page) :
                  page[i].seq = c + i /\ c + i <= Len(rows) /\ (page[i].terminal => concluded)
  <1>. DEFINE c == cursor[r]
              last == IF Len(rows) < c + BackfillPage THEN Len(rows) ELSE c + BackfillPage
              f == [i \in 1..(last - c) |-> [seq |-> c + i, terminal |-> rows[c + i]]]
  <1>1. /\ c \in Nat /\ c <= Len(rows) /\ BackfillPage \in Nat \ {0} /\ Len(rows) \in Nat
        /\ rows \in Seq(BOOLEAN) /\ \A i \in 1..Len(rows) : rows[i] => concluded
    BY LocalTypes, LocalBusAssumption DEF LocalFeedInv, EmitInv
  <1>2. last \in Nat /\ c <= last /\ last <= Len(rows) /\ (last < c + BackfillPage => last = Len(rows))
    BY <1>1
  <1>3. backfillPage(r) = f
    BY DEF backfillPage
  <1>. HIDE DEF c, last
  <1>4. \A i \in 1..(last - c) : c + i \in 1..Len(rows) /\ [seq |-> c + i, terminal |-> rows[c + i]] \in LocalFrames
    BY <1>1, <1>2 DEF LocalFrames
  <1>5. f \in Seq(LocalFrames) /\ Len(f) = last - c
    <2>1. last - c \in Nat
      BY <1>1, <1>2
    <2>2. f \in [1..(last - c) -> LocalFrames]
      BY <1>4
    <2>. HIDE DEF f
    <2>. QED  BY <2>1, <2>2
  <1>6. \A i \in 1..(last - c) : f[i].seq = c + i /\ f[i].terminal = rows[c + i]
    OBVIOUS
  <1>. HIDE DEF f
  <1>7. Len(f) < BackfillPage => c + Len(f) = Len(rows)
    BY <1>1, <1>2, <1>5
  <1>8. ASSUME NEW i \in 1..Len(f)
        PROVE  f[i].seq = c + i /\ c + i <= Len(rows) /\ (f[i].terminal => concluded)
    <2>1. i \in 1..(last - c)
      BY <1>5
    <2>2. c + i \in 1..Len(rows)
      BY <1>4, <2>1
    <2>. QED  BY <1>1, <1>6, <2>1, <2>2
  <1>. QED  BY <1>1, <1>2, <1>3, <1>5, <1>7, <1>8 DEF c

(* Changing a connection field by field.                                    *)
IsTail(y, at, page, short, pending) ==
  y \in Tails /\ y.at = at /\ y.page = page /\ (y.short <=> short) /\ y.pending = pending

LEMMA TailFields ==
  ASSUME NEW x \in Tails
  PROVE  /\ \A at \in {"away", "latest", "backfill", "follow", "closed"} :
              IsTail([x EXCEPT !.at = at], at, x.page, x.short, x.pending)
         /\ \A page \in Seq(LocalFrames) :
              IsTail([x EXCEPT !.page = page], x.at, page, x.short, x.pending)
         /\ \A pending \in Seq(LocalFrames) :
              IsTail([x EXCEPT !.pending = pending], x.at, x.page, x.short, pending)
         /\ \A page \in Seq(LocalFrames), short \in BOOLEAN :
              IsTail([x EXCEPT !.page = page, !.short = short], x.at, page, short, x.pending)
  <1>1. \A at \in {"away", "latest", "backfill", "follow", "closed"} :
          IsTail([x EXCEPT !.at = at], at, x.page, x.short, x.pending)
    BY DEF Tails, IsTail
  <1>2. \A page \in Seq(LocalFrames) : IsTail([x EXCEPT !.page = page], x.at, page, x.short, x.pending)
    BY DEF Tails, IsTail
  <1>3. \A pending \in Seq(LocalFrames) :
          IsTail([x EXCEPT !.pending = pending], x.at, x.page, x.short, pending)
    BY DEF Tails, IsTail
  <1>4. \A page \in Seq(LocalFrames), short \in BOOLEAN :
          IsTail([x EXCEPT !.page = page, !.short = short], x.at, page, short, x.pending)
    BY DEF Tails, IsTail
  <1>. QED  BY <1>1, <1>2, <1>3, <1>4, Zenon

LEMMA Sends ==
  ASSUME LocalFeedInv, NEW r \in Watchers, NEW frame \in LocalFrames, NEW rest \in Tails,
         Yields(r, frame, rest), tail[r].at \in {"backfill", "follow"},
         frame.terminal => concluded,
         frame.seq \in {0, cursor[r] + 1}, frame.seq = cursor[r] + 1 => cursor[r] < Len(rows),
         frame.seq = 0 => Placed(rest, cursor[r]),
         frame.seq = cursor[r] + 1 => Placed(rest, cursor[r] + 1)
  PROVE  /\ UNCHANGED publishing /\ UNCHANGED hangups
         /\ \E x \in Tails : tail' = [tail EXCEPT ![r] = x] /\ (ReaderStays(r, x) \/ ReaderGets(r, x))
  <1>. DEFINE x == IF frame.terminal THEN [Away EXCEPT !.at = "closed"] ELSE rest
  <1>1. x \in Tails /\ tail' = [tail EXCEPT ![r] = x] /\ UNCHANGED publishing /\ UNCHANGED hangups
    BY AwayPlaced DEF Yields
  <1>2. cursor[r] \in Nat
    BY LocalTypes DEF LocalFeedInv
  <1>3. \A c : (frame.terminal => Placed(x, c)) /\ (~frame.terminal => x = rest)
    BY AwayPlaced
  <1>4. CASE frame.seq = 0
    <2>1. UNCHANGED <<cursor, handed>> /\ Placed(x, cursor[r])
      BY <1>3, <1>4 DEF Yields
    <2>. QED  BY <1>1, <2>1 DEF ReaderStays
  <1>5. CASE frame.seq = cursor[r] + 1
    <2>1. Placed(x, cursor[r] + 1)
      BY <1>3, <1>5
    <2>2. /\ cursor' = [cursor EXCEPT ![r] = cursor[r] + 1]
          /\ handed' = [handed EXCEPT ![r] = Append(handed[r], cursor[r] + 1)]
      BY <1>2, <1>5 DEF Yields
    <2>. QED  BY <1>1, <1>5, <2>1, <2>2 DEF ReaderGets
  <1>. QED  BY <1>4, <1>5

LEMMA HeadAndTail ==
  ASSUME NEW S, NEW q \in Seq(S), q # <<>>
  PROVE  /\ Tail(q) \in Seq(S) /\ Len(q) \in Nat \ {0} /\ Head(q) = q[1] /\ Head(q) \in S
         /\ Len(Tail(q)) = Len(q) - 1 /\ \A i \in 1..(Len(q) - 1) : Tail(q)[i] = q[i + 1]
OBVIOUS

LEMMA ReaderMoves ==
  ASSUME LocalFeedInv, NEW r \in Watchers, ReaderActs(r)
  PROVE  /\ UNCHANGED publishing /\ hangups' \in 0..MaxHangups /\ tail[r].at # "closed"
         /\ \E x \in Tails : tail' = [tail EXCEPT ![r] = x] /\ (ReaderStays(r, x) \/ ReaderGets(r, x))
  <1>. DEFINE t == tail[r]
              c == cursor[r]
  <1>0. /\ t \in Tails /\ tail \in [Watchers -> Tails] /\ c \in Nat /\ c <= Len(rows) /\ Len(rows) \in Nat
        /\ hangups \in 0..MaxHangups /\ MaxHangups \in Nat /\ Placed(t, c)
        /\ t.page \in Seq(LocalFrames) /\ t.pending \in Seq(LocalFrames)
    BY LocalTypes, LocalBusAssumption DEF LocalFeedInv, Tails
  <1>1. CASE Opens(r)
    <2>1. /\ t.at = "away" /\ UNCHANGED <<cursor, handed, hangups>> /\ UNCHANGED publishing
          /\ \/ concluded /\ tail' = [tail EXCEPT ![r] = [t EXCEPT !.at = "latest"]]
             \/ ~concluded /\ tail' = [tail EXCEPT ![r] = [t EXCEPT !.at = "backfill"]]
      BY <1>1 DEF Opens
    <2>2. ASSUME NEW at \in {"latest", "backfill"}, at = "latest" => concluded,
                 tail' = [tail EXCEPT ![r] = [t EXCEPT !.at = at]]
          PROVE  \E x \in Tails : tail' = [tail EXCEPT ![r] = x] /\ ReaderStays(r, x)
      <3>. DEFINE x == [t EXCEPT !.at = at]
      <3>1. x \in Tails /\ x.at = at /\ x.page = t.page /\ (x.short <=> t.short) /\ x.pending = t.pending
        <4>1. at \in {"away", "latest", "backfill", "follow", "closed"}
          BY <2>2
        <4>2. IsTail(x, at, t.page, t.short, t.pending)
          BY <1>0, <4>1, TailFields, Zenon
        <4>. QED  BY <4>2 DEF IsTail
      <3>2. t.page = <<>> /\ t.pending = <<>> /\ ~t.short /\ Len(<<>>) = 0
        BY <1>0, <2>1 DEF Placed
      <3>. HIDE DEF x
      <3>3. Placed(x, c)
        BY <2>2, <3>1, <3>2 DEF Placed
      <3>. QED  BY <2>1, <2>2, <3>1, <3>3 DEF ReaderStays, x
    <2>. QED  BY <1>0, <2>1, <2>2
  <1>2. CASE ComparesLatest(r)
    <2>. DEFINE at == IF Len(rows) <= c THEN "closed" ELSE "backfill"
                x == [t EXCEPT !.at = at]
    <2>1. /\ t.at = "latest" /\ UNCHANGED <<cursor, handed, hangups>> /\ UNCHANGED publishing
          /\ tail' = [tail EXCEPT ![r] = x]
      BY <1>2 DEF ComparesLatest
    <2>2. at \in {"away", "latest", "backfill", "follow", "closed"} /\ at \in {"closed", "backfill"}
      OBVIOUS
    <2>. HIDE DEF at
    <2>3. x \in Tails /\ x.at = at /\ x.page = t.page /\ (x.short <=> t.short) /\ x.pending = t.pending
      <3>1. IsTail(x, at, t.page, t.short, t.pending)
        BY <1>0, <2>2, TailFields, Zenon
      <3>. QED  BY <3>1 DEF IsTail
    <2>4. t.page = <<>> /\ t.pending = <<>> /\ ~t.short /\ Len(<<>>) = 0 /\ concluded
      BY <1>0, <2>1 DEF Placed
    <2>. HIDE DEF x
    <2>5. Placed(x, c)
      BY <2>2, <2>3, <2>4 DEF Placed
    <2>. QED  BY <1>0, <2>1, <2>3, <2>5 DEF ReaderStays
  <1>3. CASE backfill(r)
    <2>. DEFINE page == backfillPage(r)
                x == [t EXCEPT !.page = page, !.short = Len(page) < BackfillPage]
    <2>1. /\ t.at = "backfill" /\ UNCHANGED <<cursor, handed, hangups>> /\ UNCHANGED publishing
          /\ tail' = [tail EXCEPT ![r] = x]
      BY <1>3 DEF backfill
    <2>2. /\ page \in Seq(LocalFrames) /\ Len(page) \in Nat
          /\ Len(page) < BackfillPage => c + Len(page) = Len(rows)
          /\ \A i \in 1..Len(page) :
               page[i].seq = c + i /\ c + i <= Len(rows) /\ (page[i].terminal => concluded)
      BY PageOfRows
    <2>. HIDE DEF page
    <2>3. /\ x \in Tails /\ x.at = t.at /\ x.page = page /\ x.pending = t.pending
          /\ x.short <=> Len(page) < BackfillPage
      <3>1. (Len(page) < BackfillPage) \in BOOLEAN
        OBVIOUS
      <3>2. IsTail(x, t.at, page, Len(page) < BackfillPage, t.pending)
        BY <1>0, <2>2, <3>1, TailFields, Zenon
      <3>. QED  BY <3>2 DEF IsTail
    <2>. HIDE DEF x
    <2>4. x.short => \A s \in Nat : ~(Fanned(s) /\ s > c + Len(x.page))
      BY <1>0, <2>2, <2>3 DEF Fanned
    <2>5. Placed(x, c)
      BY <1>0, <2>1, <2>2, <2>3, <2>4 DEF Placed
    <2>. QED  BY <1>0, <2>1, <2>3, <2>5 DEF ReaderStays
  <1>4. CASE Follows(r)
    <2>. DEFINE x == [t EXCEPT !.at = "follow"]
    <2>1. /\ t.at = "backfill" /\ t.page = <<>> /\ t.short /\ UNCHANGED <<cursor, handed, hangups>>
          /\ UNCHANGED publishing /\ tail' = [tail EXCEPT ![r] = x]
      BY <1>4 DEF Follows
    <2>2. x \in Tails /\ x.at = "follow" /\ x.page = t.page /\ (x.short <=> t.short) /\ x.pending = t.pending
      <3>1. "follow" \in {"away", "latest", "backfill", "follow", "closed"}
        OBVIOUS
      <3>2. IsTail(x, "follow", t.page, t.short, t.pending)
        BY <1>0, <3>1, TailFields, Zenon
      <3>. QED  BY <3>2 DEF IsTail
    <2>. HIDE DEF x
    <2>3. Placed(x, c)
      BY <1>0, <2>1, <2>2 DEF Placed
    <2>. QED  BY <1>0, <2>1, <2>2, <2>3 DEF ReaderStays
  <1>5. CASE SendsRow(r)
    <2>. DEFINE frame == Head(t.page)
                rest == [t EXCEPT !.page = Tail(t.page)]
    <2>1. t.at = "backfill" /\ t.page # <<>> /\ Yields(r, frame, rest)
      BY <1>5 DEF SendsRow
    <2>2. /\ Tail(t.page) \in Seq(LocalFrames) /\ Len(t.page) \in Nat \ {0} /\ frame = t.page[1]
          /\ Len(Tail(t.page)) = Len(t.page) - 1 /\ frame \in LocalFrames
          /\ \A i \in 1..(Len(t.page) - 1) : Tail(t.page)[i] = t.page[i + 1]
      BY <1>0, <2>1, HeadAndTail, Zenon
    <2>3. frame.seq = c + 1 /\ c + 1 <= Len(rows) /\ (frame.terminal => concluded)
      BY <1>0, <2>2 DEF Placed
    <2>4. /\ rest \in Tails /\ rest.at = t.at /\ rest.page = Tail(t.page)
          /\ (rest.short <=> t.short) /\ rest.pending = t.pending
      <3>1. IsTail(rest, t.at, Tail(t.page), t.short, t.pending)
        BY <1>0, <2>2, TailFields, Zenon
      <3>. QED  BY <3>1 DEF IsTail
    <2>. HIDE DEF rest, frame
    <2>5. Placed(rest, c + 1)
      <3>1. (c + 1) + Len(rest.page) = c + Len(t.page)
        BY <1>0, <2>2, <2>4
      <3>2. ASSUME NEW i \in 1..Len(rest.page)
            PROVE  rest.page[i].seq = (c + 1) + i /\ (c + 1) + i <= Len(rows) /\ (rest.page[i].terminal => concluded)
        <4>1. i + 1 \in 1..Len(t.page) /\ rest.page[i] = t.page[i + 1]
          BY <2>2, <2>4
        <4>2. (c + 1) + i = c + (i + 1)
          BY <1>0, <2>2, <2>4
        <4>3. /\ t.page[i + 1].seq = c + (i + 1) /\ c + (i + 1) <= Len(rows)
              /\ t.page[i + 1].terminal => concluded
          BY <1>0, <4>1 DEF Placed
        <4>. QED  BY <4>1, <4>2, <4>3
      <3>. QED  BY <1>0, <2>1, <2>4, <3>1, <3>2 DEF Placed
    <2>. QED  BY <1>0, <2>1, <2>2, <2>3, <2>4, <2>5, Sends
  <1>6. CASE SendsPending(r)
    <2>. DEFINE frame == Head(t.pending)
                rest == [t EXCEPT !.pending = Tail(t.pending)]
                q == t.pending
    <2>1. /\ t.at = "follow" /\ t.pending # <<>>
          /\ IF frame.seq # 0 /\ frame.seq <= c
               THEN /\ tail' = [tail EXCEPT ![r] = rest]
                    /\ UNCHANGED <<cursor, handed, hangups>> /\ UNCHANGED publishing
               ELSE Yields(r, frame, rest)
      BY <1>6 DEF SendsPending
    <2>2. /\ Tail(q) \in Seq(LocalFrames) /\ Len(q) \in Nat \ {0} /\ frame = q[1]
          /\ Len(Tail(q)) = Len(q) - 1 /\ frame \in LocalFrames
          /\ \A i \in 1..(Len(q) - 1) : Tail(q)[i] = q[i + 1]
      BY <1>0, <2>1, HeadAndTail, Zenon
    <2>3. /\ rest \in Tails /\ rest.at = t.at /\ rest.page = t.page
          /\ (rest.short <=> t.short) /\ rest.pending = Tail(q)
      <3>1. IsTail(rest, t.at, t.page, t.short, Tail(q))
        BY <1>0, <2>2, TailFields, Zenon
      <3>. QED  BY <3>1 DEF IsTail
    <2>4. t.page = <<>> /\ Len(t.page) = 0 /\ rest.page = <<>>
      BY <1>0, <2>1, <2>3 DEF Placed
    <2>. HIDE DEF rest, frame
    <2>5. /\ frame.seq \in Nat /\ (frame.terminal => concluded) /\ (frame.seq # 0 => Fanned(frame.seq))
          /\ \A s \in Nat : Fanned(s) /\ s > c => \E i \in 1..Len(q) : q[i].seq = s
          /\ \A i, k \in 1..Len(q) : i < k /\ q[i].seq # 0 /\ q[k].seq # 0 => q[i].seq < q[k].seq
      BY <1>0, <2>1, <2>2, <2>4 DEF Placed, LocalFrames
    <2>6. ASSUME NEW d \in {c, c + 1}, d >= frame.seq
          PROVE  Placed(rest, d)
      <3>1. ASSUME NEW i \in 1..Len(rest.pending)
            PROVE  /\ i + 1 \in 1..Len(q) /\ rest.pending[i] = q[i + 1]
                   /\ (rest.pending[i].terminal => concluded)
                   /\ (rest.pending[i].seq # 0 => Fanned(rest.pending[i].seq))
        <4>1. i + 1 \in 1..Len(q) /\ rest.pending[i] = q[i + 1]
          BY <2>2, <2>3
        <4>. QED  BY <1>0, <4>1 DEF Placed
      <3>2. ASSUME NEW s \in Nat, Fanned(s), s > d
            PROVE  \E i \in 1..Len(rest.pending) : rest.pending[i].seq = s
        <4>1. PICK i \in 1..Len(q) : q[i].seq = s
          BY <1>0, <2>5, <3>2
        <4>2. i # 1
          BY <1>0, <2>2, <2>6, <3>2, <4>1
        <4>3. i - 1 \in 1..Len(rest.pending) /\ rest.pending[i - 1] = q[i]
          BY <2>2, <2>3, <4>1, <4>2
        <4>. QED  BY <4>1, <4>3
      <3>3. ASSUME NEW i \in 1..Len(rest.pending), NEW k \in 1..Len(rest.pending),
                   i < k, rest.pending[i].seq # 0, rest.pending[k].seq # 0
            PROVE  rest.pending[i].seq < rest.pending[k].seq
        <4>1. /\ i + 1 \in 1..Len(q) /\ k + 1 \in 1..Len(q) /\ i + 1 < k + 1
              /\ q[i + 1] = rest.pending[i] /\ q[k + 1] = rest.pending[k]
          BY <2>2, <2>3, <3>1, <3>3
        <4>. QED  BY <2>5, <3>3, <4>1
      <3>4. d + Len(rest.page) = d
        BY <1>0, <2>4
      <3>5. rest.at = "follow" /\ Len(rest.page) = 0
        BY <2>1, <2>3, <2>4
      <3>. QED  BY <2>4, <3>1, <3>2, <3>3, <3>4, <3>5 DEF Placed
    <2>7. CASE frame.seq # 0 /\ frame.seq <= c
      BY <1>0, <2>1, <2>3, <2>5, <2>6, <2>7 DEF ReaderStays
    <2>8. CASE ~(frame.seq # 0 /\ frame.seq <= c)
      <3>1. frame.seq \in {0, c + 1} /\ (frame.seq = c + 1 => c < Len(rows))
        <4>1. CASE frame.seq > c
          <5>1. Fanned(frame.seq) /\ frame.seq <= Len(rows)
            BY <1>0, <2>5, <4>1 DEF Fanned
          <5>2. Fanned(c + 1)
            <6>1. ASSUME NEW p \in Emitters, emitting[p].at = "fan", emitting[p].frame.seq = c + 1  PROVE FALSE
              <7>1. c + 1 = Len(rows)
                BY <1>0, <6>1 DEF LocalFeedInv, EmitInv
              <7>2. frame.seq = c + 1
                BY <1>0, <2>5, <4>1, <5>1, <7>1
              <7>. QED  BY <5>1, <6>1, <7>2 DEF Fanned
            <6>. QED  BY <1>0, <2>5, <4>1, <5>1, <6>1 DEF Fanned
          <5>3. PICK k \in 1..Len(q) : q[k].seq = c + 1
            BY <1>0, <2>5, <5>2
          <5>4. k = 1 \/ q[1].seq < q[k].seq
            BY <1>0, <2>2, <2>5, <4>1, <5>3
          <5>. QED  BY <1>0, <2>2, <2>5, <4>1, <5>1, <5>3, <5>4
        <4>2. CASE ~(frame.seq > c)
          BY <1>0, <2>5, <2>8, <4>2
        <4>. QED  BY <4>1, <4>2
      <3>2. frame.seq = 0 => Placed(rest, c)
        BY <1>0, <2>6
      <3>3. frame.seq = c + 1 => Placed(rest, c + 1)
        BY <1>0, <2>6
      <3>. QED  BY <1>0, <2>1, <2>2, <2>3, <2>5, <2>8, <3>1, <3>2, <3>3, Sends
    <2>. QED  BY <2>7, <2>8
  <1>7. CASE HangsUp(r)
    <2>1. /\ t.at # "closed" /\ tail' = [tail EXCEPT ![r] = Away] /\ UNCHANGED <<cursor, handed>>
          /\ UNCHANGED publishing /\ hangups' \in 0..MaxHangups
      BY <1>0, <1>7 DEF HangsUp
    <2>. QED  BY <2>1, AwayPlaced DEF ReaderStays
  <1>. QED  BY <1>1, <1>2, <1>3, <1>4, <1>5, <1>6, <1>7 DEF ReaderActs

(* The readers whose stream has ended.                                      *)
Closed == {r \in Watchers : tail[r].at = "closed"}

(* A connection stays placed while the log and the fan-out stand still.     *)
LEMMA PlacedStays ==
  ASSUME NEW x \in Tails, NEW c \in Nat, Placed(x, c), concluded => concluded',
         Len(rows) \in Nat, Len(rows') \in Nat, Len(rows) <= Len(rows'),
         \A s \in Nat : Fanned(s)' <=> Fanned(s)
  PROVE  Placed(x, c)'
  <1>1. Len(x.page) \in Nat /\ Len(x.pending) \in Nat /\ x.pending \in Seq(LocalFrames)
    BY DEF Tails
  <1>2. ASSUME NEW i \in 1..Len(x.pending)  PROVE x.pending[i].seq \in Nat
    <2>1. x.pending[i] \in LocalFrames
      BY <1>1
    <2>. QED  BY <2>1 DEF LocalFrames
  <1>3. \A i \in 1..Len(x.page) :
          x.page[i].seq = c + i /\ c + i <= Len(rows') /\ (x.page[i].terminal => concluded')
    BY <1>1 DEF Placed
  <1>4. \A i \in 1..Len(x.pending) :
          (x.pending[i].terminal => concluded') /\ (x.pending[i].seq # 0 => Fanned(x.pending[i].seq)')
    BY <1>2 DEF Placed
  <1>5. x.at = "follow" \/ (x.at = "backfill" /\ x.short) =>
          \A s \in Nat : Fanned(s)' /\ s > c + Len(x.page) => \E i \in 1..Len(x.pending) : x.pending[i].seq = s
    BY DEF Placed
  <1>. QED  BY <1>3, <1>4, <1>5 DEF Placed

(* While no reader moves, the readers keep their places.                    *)
LEMMA ReadersStand ==
  ASSUME LocalFeedInv, LocalBusTypeOK', EmitInv', UNCHANGED <<tail, cursor, handed>>,
         concluded => concluded', Len(rows) <= Len(rows'), \A s \in Nat : Fanned(s)' <=> Fanned(s)
  PROVE  LocalFeedInv' /\ UNCHANGED Closed
  <1>1. Len(rows) \in Nat /\ Len(rows') \in Nat
    BY DEF LocalFeedInv, LocalBusTypeOK
  <1>2. ASSUME NEW r \in Watchers  PROVE Placed(tail[r], cursor[r])' /\ HandedPrefix(r)'
    <2>1. tail[r] \in Tails /\ cursor[r] \in Nat /\ Placed(tail[r], cursor[r]) /\ HandedPrefix(r)
      BY LocalTypes, <1>1 DEF LocalFeedInv
    <2>2. PICK x \in Tails, c \in Nat : x = tail[r] /\ c = cursor[r]
      BY <2>1
    <2>3. Placed(x, c)'
      BY <1>1, <2>1, <2>2, PlacedStays
    <2>4. tail'[r] = x /\ cursor'[r] = c
      BY <2>2
    <2>. QED  BY <2>1, <2>3, <2>4 DEF HandedPrefix, Placed, Fanned
  <1>. QED  BY <1>2 DEF LocalFeedInv, Closed

LEMMA ConcludesStep ==
  ASSUME LocalFeedInv, NEW p \in Emitters, Concludes(p)
  PROVE  LocalFeedInv' /\ UNCHANGED <<rows, handed, Closed>> /\ concluded' = TRUE
  <1>1. LocalBusTypeOK'
    BY DEF LocalFeedInv, LocalBusTypeOK, Concludes
  <1>2. \A q \in Emitters : /\ emitting'[q].at = "fan" <=> emitting[q].at = "fan"
                            /\ emitting'[q].frame = emitting[q].frame
    BY DEF LocalFeedInv, LocalBusTypeOK, Concludes
  <1>3. EmitInv' /\ \A s \in Nat : Fanned(s)' <=> Fanned(s)
    BY <1>2 DEF LocalFeedInv, EmitInv, Fanned, Concludes
  <1>. QED  BY <1>1, <1>3, ReadersStand DEF Concludes, LocalFeedInv, LocalBusTypeOK

LEMMA FrameStep ==
  ASSUME OneEmitter, LocalFeedInv, NEW p \in Emitters, toFrame(p)
  PROVE  LocalFeedInv' /\ UNCHANGED <<concluded, handed, Closed>> /\ Len(rows') \in {Len(rows), Len(rows) + 1}
  <1>. DEFINE ends == emitting[p].at = "conclude"
  <1>1. /\ rows \in Seq(BOOLEAN) /\ Len(rows) \in Nat /\ mishaps \in 0..MaxMishaps
        /\ emitting \in [Emitters -> [at: {"idle", "conclude", "fan"}, frame: LocalFrames]]
        /\ emitting[p].at # "fan" /\ ends \in BOOLEAN /\ (ends => concluded) /\ MaxMishaps \in Nat
    BY LocalBusAssumption DEF LocalFeedInv, EmitInv, LocalBusTypeOK, toFrame
  <1>2. \A q \in Emitters : q = p
    BY DEF OneEmitter
  <1>3. ASSUME NEW seq \in {0, Len(rows')}, Len(rows') \in Nat, rows' \in Seq(BOOLEAN), mishaps' \in 0..MaxMishaps,
               \A i \in 1..Len(rows') : rows'[i] => concluded,
               (Len(rows') = Len(rows) + 1 /\ seq = Len(rows')) \/ (rows' = rows /\ seq = 0),
               emitting' = [emitting EXCEPT ![p] = [at |-> "fan", frame |-> [seq |-> seq, terminal |-> ends]]]
        PROVE  LocalFeedInv' /\ UNCHANGED <<concluded, handed, Closed>>
    <2>1. [seq |-> seq, terminal |-> ends] \in LocalFrames
      BY <1>1, <1>3 DEF LocalFrames
    <2>2. emitting' \in [Emitters -> [at: {"idle", "conclude", "fan"}, frame: LocalFrames]]
      BY <1>1, <1>3, <2>1
    <2>3. /\ emitting'[p].at = "fan" /\ emitting'[p].frame.seq = seq
          /\ emitting'[p].frame.terminal <=> ends
      BY <1>1, <1>3
    <2>4. LocalBusTypeOK'
      BY <1>1, <1>3, <2>2 DEF LocalFeedInv, LocalBusTypeOK, toFrame
    <2>5. EmitInv'
      BY <1>1, <1>2, <1>3, <2>3 DEF EmitInv, toFrame
    <2>6. \A s \in Nat : Fanned(s)' <=> Fanned(s)
      BY <1>1, <1>2, <1>3, <2>3 DEF Fanned
    <2>. QED  BY <1>1, <1>3, <2>4, <2>5, <2>6, ReadersStand DEF toFrame
  <1>4. CASE /\ rows' = Append(rows, ends) /\ UNCHANGED mishaps
             /\ emitting' = [emitting EXCEPT ![p] =
                  [at |-> "fan", frame |-> [seq |-> Len(rows) + 1, terminal |-> ends]]]
    <2>. HIDE DEF ends
    <2>1. Len(rows') = Len(rows) + 1 /\ rows' \in Seq(BOOLEAN)
      BY <1>1, <1>4
    <2>2. \A i \in 1..Len(rows') : rows'[i] => concluded
      BY <1>1, <1>4, <2>1 DEF LocalFeedInv, EmitInv
    <2>3. emitting' = [emitting EXCEPT ![p] = [at |-> "fan", frame |-> [seq |-> Len(rows'), terminal |-> ends]]]
      BY <1>4, <2>1
    <2>4. Len(rows') \in {0, Len(rows')} /\ Len(rows') \in Nat /\ mishaps' \in 0..MaxMishaps
      BY <1>1, <1>4, <2>1
    <2>. QED  BY <1>3, <2>1, <2>2, <2>3, <2>4, Zenon
  <1>5. CASE /\ mishaps < MaxMishaps /\ mishaps' = mishaps + 1 /\ UNCHANGED rows
             /\ emitting' = [emitting EXCEPT ![p] =
                  [at |-> "fan", frame |-> [seq |-> 0, terminal |-> ends]]]
    <2>. HIDE DEF ends
    <2>. QED  BY <1>1, <1>3, <1>5 DEF LocalFeedInv, EmitInv
  <1>. QED  BY <1>4, <1>5 DEF toFrame

LEMMA NeverStep ==
  ASSUME LocalFeedInv, NEW p \in Emitters, NeverAnnounced(p)
  PROVE  LocalFeedInv' /\ UNCHANGED <<rows, concluded, handed, Closed>>
  <1>1. Silent \in [at: {"idle", "conclude", "fan"}, frame: LocalFrames] /\ Silent.at = "idle"
    BY DEF Silent, NoFrame, LocalFrames
  <1>2. LocalBusTypeOK'
    BY <1>1, LocalBusAssumption DEF LocalFeedInv, LocalBusTypeOK, NeverAnnounced
  <1>3. \A q \in Emitters : /\ emitting'[q].at = "fan" <=> emitting[q].at = "fan"
                            /\ emitting'[q].at \in {emitting[q].at, "idle"}
                            /\ emitting'[q].at = "fan" => emitting'[q].frame = emitting[q].frame
    BY <1>1 DEF LocalFeedInv, LocalBusTypeOK, NeverAnnounced
  <1>4. EmitInv' /\ \A s \in Nat : Fanned(s)' <=> Fanned(s)
    BY <1>3 DEF LocalFeedInv, EmitInv, Fanned, NeverAnnounced
  <1>. QED  BY <1>2, <1>4, ReadersStand DEF NeverAnnounced, LocalFeedInv, LocalBusTypeOK

(* A frame that every listener is given comes last, and is nobody's loss.   *)
LEMMA PlacedOnPublish ==
  ASSUME NEW x \in Tails, NEW y \in Tails, NEW c \in Nat, NEW frame \in LocalFrames,
         Placed(x, c), UNCHANGED <<concluded, rows>>, Len(rows) \in Nat,
         frame.terminal => concluded, frame.seq \in {0, Len(rows)},
         \A s \in Nat : Fanned(s) => s # frame.seq,
         \A s \in Nat : Fanned(s)' <=> Fanned(s) \/ (s # 0 /\ s = frame.seq),
         IF x.at \in {"backfill", "follow"}
           THEN IsTail(y, x.at, x.page, x.short, Append(x.pending, frame))
           ELSE y = x
  PROVE  Placed(y, c)'
  <1>1. Len(x.page) \in Nat /\ x.pending \in Seq(LocalFrames) /\ Len(x.pending) \in Nat /\ frame.seq \in Nat
    BY DEF Tails, LocalFrames
  <1>2. CASE x.at \in {"backfill", "follow"}
    <2>0. PICK n \in Nat : n = Len(x.pending)
      BY <1>1
    <2>. DEFINE q == Append(x.pending, frame)
    <2>1. /\ y.at = x.at /\ y.page = x.page /\ (y.short <=> x.short) /\ y.pending = q
          /\ Len(q) = n + 1 /\ q[n + 1] = frame /\ \A i \in 1..n : q[i] = x.pending[i]
      BY <1>1, <1>2, <2>0 DEF IsTail
    <2>. HIDE DEF q
    <2>2. \A i \in 1..(n + 1) : i \in 1..n \/ i = n + 1
      OBVIOUS
    <2>3. ASSUME NEW i \in 1..n
          PROVE  /\ x.pending[i].seq \in Nat /\ (x.pending[i].terminal => concluded)
                 /\ x.pending[i].seq # 0 => Fanned(x.pending[i].seq)
      <3>1. \A s \in Seq(LocalFrames) : \A k \in 1..Len(s) : s[k] \in LocalFrames
        OBVIOUS
      <3>2. x.pending[i] \in LocalFrames
        BY <1>1, <2>0, <3>1, Zenon
      <3>. QED  BY <2>0, <3>2 DEF Placed, LocalFrames
    <2>4. \A i \in 1..(n + 1) :
            (q[i].terminal => concluded') /\ (q[i].seq # 0 => Fanned(q[i].seq)')
      <3>1. ASSUME NEW i \in 1..n  PROVE (q[i].terminal => concluded') /\ (q[i].seq # 0 => Fanned(q[i].seq)')
        BY <2>1, <2>3
      <3>2. (q[n + 1].terminal => concluded') /\ (q[n + 1].seq # 0 => Fanned(q[n + 1].seq)')
        BY <1>1, <2>1
      <3>. QED  BY <2>2, <3>1, <3>2
    <2>5. ASSUME NEW i \in 1..(n + 1), NEW k \in 1..(n + 1), i < k, q[i].seq # 0, q[k].seq # 0
          PROVE  q[i].seq < q[k].seq
      <3>1. i \in 1..n
        BY <1>1, <2>5
      <3>2. CASE k \in 1..n
        BY <2>0, <2>1, <2>5, <3>1, <3>2 DEF Placed
      <3>3. CASE k = n + 1
        <4>1. q[i].seq \in Nat /\ Fanned(q[i].seq) /\ q[k].seq = frame.seq /\ frame.seq = Len(rows)
          BY <2>1, <2>3, <2>5, <3>1, <3>3
        <4>2. q[i].seq <= Len(rows) /\ q[i].seq # frame.seq
          BY <4>1 DEF Fanned
        <4>. QED  BY <4>1, <4>2
      <3>. QED  BY <2>2, <3>2, <3>3
    <2>6. x.at = "follow" \/ (x.at = "backfill" /\ x.short) =>
            \A s \in Nat : Fanned(s)' /\ s > c + Len(x.page) => \E i \in 1..(n + 1) : q[i].seq = s
      <3>. SUFFICES ASSUME x.at = "follow" \/ (x.at = "backfill" /\ x.short), NEW s \in Nat,
                           Fanned(s)', s > c + Len(x.page)
                    PROVE  \E i \in 1..(n + 1) : q[i].seq = s
        OBVIOUS
      <3>1. CASE Fanned(s)
        <4>1. PICK i \in 1..n : x.pending[i].seq = s
          BY <2>0, <3>1 DEF Placed
        <4>. QED  BY <1>1, <2>1, <4>1
      <3>2. CASE s = frame.seq
        BY <1>1, <2>1, <3>2
      <3>. QED  BY <3>1, <3>2
    <2>. QED  BY <1>2, <2>0, <2>1, <2>4, <2>5, <2>6 DEF Placed
  <1>3. CASE x.at \notin {"backfill", "follow"}
    <2>1. y = x /\ Len(x.pending) = 0
      BY <1>3 DEF Placed
    <2>. QED  BY <1>3, <2>1 DEF Placed
  <1>. QED  BY <1>2, <1>3

LEMMA AppendField ==
  ASSUME NEW x \in Tails, NEW frame \in LocalFrames
  PROVE  IsTail([x EXCEPT !.pending = Append(@, frame)], x.at, x.page, x.short, Append(x.pending, frame))
  <1>1. x.pending \in Seq(LocalFrames)
    BY DEF Tails
  <1>2. Append(x.pending, frame) \in Seq(LocalFrames)
    BY <1>1
  <1>3. [x EXCEPT !.pending = Append(@, frame)] = [x EXCEPT !.pending = Append(x.pending, frame)]
    OBVIOUS
  <1>. QED  BY <1>2, <1>3, TailFields, Zenon

LEMMA PublishStep ==
  ASSUME OneEmitter, LocalFeedInv, NEW p \in Emitters, publish(p)
  PROVE  LocalFeedInv' /\ UNCHANGED <<rows, concluded, handed, Closed>>
  <1>. DEFINE frame == emitting[p].frame
  <1>1. Silent \in [at: {"idle", "conclude", "fan"}, frame: LocalFrames] /\ Silent.at = "idle"
    BY DEF Silent, NoFrame, LocalFrames
  <1>2. /\ emitting'[p].at = "idle" /\ \A q \in Emitters : q = p
        /\ emitting' \in [Emitters -> [at: {"idle", "conclude", "fan"}, frame: LocalFrames]]
        /\ frame \in LocalFrames /\ (frame.terminal => concluded) /\ frame.seq \in {0, Len(rows)}
        /\ Len(rows) \in Nat /\ emitting[p].at = "fan"
    BY <1>1 DEF OneEmitter, LocalFeedInv, EmitInv, LocalBusTypeOK, publish
  <1>3. UNCHANGED <<concluded, rows, cursor, handed, mishaps, hangups>>
    BY DEF publish
  <1>4. /\ \A s \in Nat : Fanned(s) => s # frame.seq
        /\ \A s \in Nat : Fanned(s)' <=> Fanned(s) \/ (s # 0 /\ s = frame.seq)
    BY <1>2, <1>3 DEF Fanned
  <1>5. ASSUME NEW r \in Watchers
        PROVE  /\ tail'[r] \in Tails /\ (tail'[r].at = "closed" <=> tail[r].at = "closed")
               /\ Placed(tail[r], cursor[r])' /\ HandedPrefix(r)'
    <2>1. tail[r] \in Tails /\ cursor[r] \in Nat /\ Placed(tail[r], cursor[r]) /\ HandedPrefix(r)
      BY <1>2, LocalTypes DEF LocalFeedInv
    <2>2. PICK x \in Tails, c \in Nat : x = tail[r] /\ c = cursor[r]
      BY <2>1
    <2>3. IF x.at \in {"backfill", "follow"} THEN tail'[r] = [x EXCEPT !.pending = Append(@, frame)]
          ELSE tail'[r] = x
      BY <2>2 DEF publish, Listening
    <2>. HIDE DEF frame
    <2>4. /\ tail'[r] \in Tails /\ tail'[r].at = x.at
          /\ IF x.at \in {"backfill", "follow"}
               THEN IsTail(tail'[r], x.at, x.page, x.short, Append(x.pending, frame))
               ELSE tail'[r] = x
      <3>1. CASE x.at \in {"backfill", "follow"}
        <4>1. tail'[r] = [x EXCEPT !.pending = Append(@, frame)]
          BY <2>3, <3>1
        <4>2. IsTail(tail'[r], x.at, x.page, x.short, Append(x.pending, frame))
          <5>1. frame \in LocalFrames
            BY <1>2
          <5>. QED  BY <4>1, <5>1, AppendField, Zenon
        <4>. QED  BY <3>1, <4>2 DEF IsTail
      <3>. QED  BY <2>3, <3>1
    <2>5. PICK y \in Tails : y = tail'[r]
      BY <2>4
    <2>6. Placed(y, c)'
      BY <1>2, <1>3, <1>4, <2>1, <2>2, <2>4, <2>5, PlacedOnPublish
    <2>7. cursor'[r] = c
      BY <1>3, <2>2
    <2>. QED  BY <1>3, <2>1, <2>2, <2>4, <2>5, <2>6, <2>7 DEF HandedPrefix, Placed, Fanned
  <1>6. tail' \in [Watchers -> Tails]
    <2>1. tail' = [r \in Watchers |-> tail'[r]]
      BY DEF publish
    <2>. QED  BY <1>5, <2>1
  <1>7. LocalBusTypeOK'
    BY <1>2, <1>3, <1>6 DEF LocalFeedInv, LocalBusTypeOK, Tails
  <1>8. EmitInv'
    BY <1>2, <1>3 DEF LocalFeedInv, EmitInv
  <1>9. Closed' = Closed
    BY <1>5 DEF Closed
  <1>. QED  BY <1>3, <1>5, <1>7, <1>8, <1>9 DEF LocalFeedInv

LEMMA RestartStep ==
  ASSUME LocalFeedInv, Restart
  PROVE  LocalFeedInv' /\ UNCHANGED <<rows, concluded, handed, Closed>>
  <1>1. Silent \in [at: {"idle", "conclude", "fan"}, frame: LocalFrames] /\ Silent.at = "idle"
    BY DEF Silent, NoFrame, LocalFrames
  <1>2. /\ emitting' \in [Emitters -> [at: {"idle", "conclude", "fan"}, frame: LocalFrames]]
        /\ \A q \in Emitters : emitting'[q].at = "idle"
        /\ UNCHANGED <<concluded, rows, cursor, handed, hangups>> /\ mishaps' \in 0..MaxMishaps
    BY <1>1, LocalBusAssumption DEF Restart, LocalFeedInv, LocalBusTypeOK
  <1>3. ASSUME NEW r \in Watchers
        PROVE  /\ tail'[r] \in Tails /\ (tail'[r].at = "closed" <=> tail[r].at = "closed")
               /\ Placed(tail[r], cursor[r])' /\ HandedPrefix(r)'
    <2>1. tail[r] \in Tails /\ cursor[r] \in Nat /\ Placed(tail[r], cursor[r]) /\ HandedPrefix(r)
      BY LocalTypes DEF LocalFeedInv
    <2>2. PICK x \in Tails, c \in Nat : x = tail[r] /\ c = cursor[r]
      BY <2>1
    <2>3. (x.at = "closed" /\ tail'[r] = x) \/ (x.at # "closed" /\ tail'[r] = Away)
      BY <2>2 DEF Restart
    <2>4. tail'[r] \in Tails /\ (tail'[r].at = "closed" <=> x.at = "closed") /\ Placed(tail'[r], c)
      BY <2>1, <2>2, <2>3, AwayPlaced
    <2>5. PICK y \in Tails : y = tail'[r]
      BY <2>4
    <2>6. y.pending = <<>> /\ y.page = <<>> /\ Len(<<>>) = 0 /\ y.at \in {"away", "closed"} /\ Placed(y, c)
      BY <2>3, <2>4, <2>5, AwayPlaced DEF Placed
    <2>7. Placed(y, c)'
      BY <1>2, <2>6 DEF Placed
    <2>8. cursor'[r] = c
      BY <1>2, <2>2
    <2>. QED  BY <1>2, <2>1, <2>2, <2>4, <2>5, <2>7, <2>8 DEF HandedPrefix, Placed, Fanned
  <1>4. tail' \in [Watchers -> Tails]
    <2>1. tail' = [r \in Watchers |-> tail'[r]]
      BY DEF Restart
    <2>. QED  BY <1>3, <2>1
  <1>5. LocalBusTypeOK'
    BY <1>2, <1>4 DEF LocalFeedInv, LocalBusTypeOK, Tails
  <1>6. EmitInv'
    BY <1>2 DEF LocalFeedInv, EmitInv
  <1>7. Closed' = Closed
    BY <1>3 DEF Closed
  <1>. QED  BY <1>2, <1>3, <1>5, <1>6, <1>7 DEF LocalFeedInv

LEMMA ReaderStep ==
  ASSUME LocalFeedInv, NEW r \in Watchers, ReaderActs(r)
  PROVE  /\ LocalFeedInv' /\ UNCHANGED <<rows, concluded>> /\ r \notin Closed
         /\ Closed' = Closed \/ (Closed' = Closed \cup {r} /\ concluded)
         /\ \/ UNCHANGED handed
            \/ /\ Len(handed[r]) < Len(rows)
               /\ handed' = [handed EXCEPT ![r] = Append(handed[r], Len(handed[r]) + 1)]
  <1>1. PICK x \in Tails : tail' = [tail EXCEPT ![r] = x] /\ (ReaderStays(r, x) \/ ReaderGets(r, x))
    BY ReaderMoves
  <1>2. /\ UNCHANGED <<concluded, rows, emitting, mishaps>> /\ hangups' \in 0..MaxHangups
        /\ tail[r].at # "closed"
    BY ReaderMoves DEF publishing
  <1>3. /\ tail \in [Watchers -> Tails] /\ cursor \in [Watchers -> 0..Len(rows)] /\ Len(rows) \in Nat
        /\ handed \in [Watchers -> Seq(Nat)] /\ HandedPrefix(r) /\ cursor[r] \in Nat
    BY LocalTypes DEF LocalFeedInv
  <1>4. \A s \in Nat : Fanned(s)' <=> Fanned(s)
    BY <1>2 DEF Fanned
  <1>5. /\ cursor' \in [Watchers -> 0..Len(rows)] /\ handed' \in [Watchers -> Seq(Nat)]
        /\ Placed(x, cursor'[r]) /\ HandedPrefix(r)'
        /\ \A q \in Watchers \ {r} : cursor'[q] = cursor[q] /\ handed'[q] = handed[q]
        /\ UNCHANGED handed
           \/ (/\ Len(handed[r]) < Len(rows)
               /\ handed' = [handed EXCEPT ![r] = Append(handed[r], Len(handed[r]) + 1)])
    <2>1. CASE ReaderStays(r, x)
      BY <1>2, <1>3, <2>1 DEF ReaderStays, HandedPrefix
    <2>2. CASE ReaderGets(r, x)
      <3>. DEFINE c == cursor[r]
                  s == Append(handed[r], c + 1)
      <3>1. /\ cursor' = [cursor EXCEPT ![r] = c + 1] /\ handed' = [handed EXCEPT ![r] = s]
            /\ c < Len(rows) /\ Placed(x, c + 1) /\ Len(handed[r]) = c /\ handed[r] \in Seq(Nat)
            /\ \A i \in 1..c : handed[r][i] = i
        BY <1>3, <2>2 DEF ReaderGets, HandedPrefix
      <3>2. s \in Seq(Nat) /\ Len(s) = c + 1 /\ \A i \in 1..(c + 1) : s[i] = i
        BY <1>3, <3>1
      <3>3. handed' = [handed EXCEPT ![r] = Append(handed[r], Len(handed[r]) + 1)]
        BY <3>1
      <3>. HIDE DEF s
      <3>4. cursor'[r] = c + 1 /\ handed'[r] = s /\ cursor' \in [Watchers -> 0..Len(rows)]
        BY <1>3, <3>1
      <3>. QED  BY <1>3, <3>1, <3>2, <3>3, <3>4 DEF HandedPrefix
    <2>. QED  BY <1>1, <2>1, <2>2
  <1>6. ASSUME NEW q \in Watchers  PROVE Placed(tail[q], cursor[q])' /\ HandedPrefix(q)'
    <2>1. tail'[q] \in Tails /\ cursor'[q] \in Nat /\ Placed(tail'[q], cursor'[q])
      <3>1. CASE q = r
        BY <1>1, <1>3, <1>5, <3>1
      <3>2. CASE q # r
        BY <1>1, <1>3, <1>5, <3>2 DEF LocalFeedInv
      <3>. QED  BY <3>1, <3>2
    <2>2. PICK y \in Tails, c \in Nat : y = tail'[q] /\ c = cursor'[q]
      BY <2>1
    <2>3. Placed(y, c)'
      BY <1>2, <1>3, <1>4, <2>1, <2>2, PlacedStays
    <2>4. HandedPrefix(q)'
      BY <1>5 DEF LocalFeedInv, HandedPrefix
    <2>5. Placed(tail[q], cursor[q])'
      BY <2>2, <2>3, SMTT(20) DEF Placed, Fanned
    <2>. QED  BY <2>4, <2>5
  <1>7. LocalBusTypeOK' /\ EmitInv'
    BY <1>1, <1>2, <1>3, <1>5 DEF LocalFeedInv, LocalBusTypeOK, EmitInv, Tails
  <1>8. Closed' = Closed \/ (Closed' = Closed \cup {r} /\ concluded)
    <2>1. \A q \in Watchers : q # r => tail'[q] = tail[q]
      BY <1>1, <1>3
    <2>2. tail'[r] = x /\ (x.at = "closed" => concluded)
      BY <1>1, <1>3, <1>5 DEF Placed
    <2>. QED  BY <1>2, <2>1, <2>2 DEF Closed
  <1>. QED  BY <1>2, <1>5, <1>6, <1>7, <1>8 DEF LocalFeedInv, Closed

(* A step of the local bus is a step of the feed, or none of its business.  *)
LEMMA LocalBusStep ==
  ASSUME OneEmitter, LocalFeedInv, [LocalBusNext]_localBusVars
  PROVE  LocalFeedInv' /\ [LocalFeed!FeedNext]_(LocalFeed!feedVars)
  <1>. DEFINE Mapped == [LocalFeed!FeedNext]_(LocalFeed!feedVars)
  <1>1. ASSUME LocalFeedInv', UNCHANGED <<rows, concluded, handed, Closed>>
        PROVE  Mapped
    BY <1>1 DEF LocalFeed!feedVars, Closed
  <1>2. ASSUME NEW p \in Emitters, Concludes(p)  PROVE LocalFeedInv' /\ Mapped
    <2>1. LocalFeedInv' /\ UNCHANGED <<rows, handed, Closed>> /\ concluded' = TRUE
      BY <1>2, ConcludesStep
    <2>. QED  BY <2>1 DEF LocalFeed!FeedNext, LocalFeed!RunConcludes, Closed
  <1>3. ASSUME NEW p \in Emitters, toFrame(p)  PROVE LocalFeedInv' /\ Mapped
    <2>1. /\ LocalFeedInv' /\ UNCHANGED <<concluded, handed, Closed>>
          /\ Len(rows') \in {Len(rows), Len(rows) + 1}
      BY <1>3, FrameStep
    <2>. QED  BY <2>1 DEF LocalFeed!FeedNext, LocalFeed!PublishEvent, LocalFeed!feedVars, Closed
  <1>4. ASSUME NEW p \in Emitters, publish(p) \/ NeverAnnounced(p)  PROVE LocalFeedInv' /\ Mapped
    BY <1>1, <1>4, PublishStep, NeverStep
  <1>5. CASE Restart
    BY <1>1, <1>5, RestartStep
  <1>6. ASSUME NEW r \in Watchers, ReaderActs(r)  PROVE LocalFeedInv' /\ Mapped
    <2>1. /\ LocalFeedInv' /\ UNCHANGED <<rows, concluded>> /\ r \notin Closed
          /\ Closed' = Closed \/ (Closed' = Closed \cup {r} /\ concluded)
          /\ \/ UNCHANGED handed
             \/ /\ Len(handed[r]) < Len(rows)
                /\ handed' = [handed EXCEPT ![r] = Append(handed[r], Len(handed[r]) + 1)]
      BY <1>6, ReaderStep
    <2>2. CASE UNCHANGED handed
      <3>1. CASE Closed' = Closed
        BY <1>1, <2>1, <2>2, <3>1
      <3>2. CASE Closed' = Closed \cup {r} /\ concluded
        <4>1. LocalFeed!CloseFeed(r)
          BY <2>1, <2>2, <3>2 DEF LocalFeed!CloseFeed, Closed
        <4>. QED  BY <2>1, <4>1 DEF LocalFeed!FeedNext
      <3>. QED  BY <2>1, <3>1, <3>2
    <2>3. CASE /\ Len(handed[r]) < Len(rows)
               /\ handed' = [handed EXCEPT ![r] = Append(handed[r], Len(handed[r]) + 1)]
      <3>1. LocalFeed!Receive(r)
        BY <2>1, <2>3 DEF LocalFeed!Receive, Closed
      <3>. QED  BY <2>1, <3>1 DEF LocalFeed!FeedNext
    <2>. QED  BY <2>1, <2>2, <2>3
  <1>7. CASE UNCHANGED localBusVars
    <2>1. LocalFeedInv'
      BY <1>7 DEF localBusVars, LocalFeedInv, LocalBusTypeOK, EmitInv, Placed, Fanned, HandedPrefix
    <2>. QED  BY <1>1, <1>7, <2>1 DEF localBusVars, Closed
  <1>. QED  BY <1>2, <1>3, <1>4, <1>5, <1>6, <1>7 DEF LocalBusNext, ReaderActs

LEMMA LocalBusStart == LocalBusInit => LocalFeedInv /\ LocalFeed!FeedInit
  <1>. SUFFICES ASSUME LocalBusInit  PROVE LocalFeedInv /\ LocalFeed!FeedInit
    OBVIOUS
  <1>1. Silent \in [at: {"idle", "conclude", "fan"}, frame: LocalFrames] /\ Silent.at = "idle"
    BY DEF Silent, NoFrame, LocalFrames
  <1>2. Len(<<>>) = 0 /\ <<>> \in Seq(Nat) /\ <<>> \in Seq(BOOLEAN)
    OBVIOUS
  <1>3. LocalBusTypeOK
    <2>1. emitting \in [Emitters -> [at: {"idle", "conclude", "fan"}, frame: LocalFrames]]
      BY <1>1 DEF LocalBusInit
    <2>2. tail \in [Watchers -> Tails]
      BY AwayPlaced DEF LocalBusInit
    <2>3. /\ cursor \in [Watchers -> 0..Len(rows)] /\ handed \in [Watchers -> Seq(Nat)]
          /\ rows \in Seq(BOOLEAN) /\ concluded \in BOOLEAN /\ mishaps \in 0..MaxMishaps
          /\ hangups \in 0..MaxHangups
      <3>1. cursor \in [Watchers -> 0..Len(rows)] /\ Len(rows) = 0
        BY <1>2 DEF LocalBusInit
      <3>2. handed \in [Watchers -> Seq(Nat)] /\ rows \in Seq(BOOLEAN) /\ concluded \in BOOLEAN
        BY <1>2 DEF LocalBusInit
      <3>3. mishaps \in 0..MaxMishaps /\ hangups \in 0..MaxHangups
        BY LocalBusAssumption DEF LocalBusInit
      <3>. QED  BY <3>1, <3>2, <3>3
    <2>. QED  BY <2>1, <2>2, <2>3, LocalTypes, Zenon
  <1>4. EmitInv
    BY <1>1, <1>2 DEF LocalBusInit, EmitInv
  <1>5. \A r \in Watchers : Placed(tail[r], cursor[r]) /\ HandedPrefix(r)
    <2>1. ASSUME NEW r \in Watchers  PROVE tail[r] = Away /\ cursor[r] = 0 /\ handed[r] = <<>>
      BY DEF LocalBusInit
    <2>. QED  BY <1>2, <2>1, AwayPlaced DEF HandedPrefix
  <1>6. LocalFeed!FeedInit
    BY <1>2, AwayPlaced DEF LocalBusInit, LocalFeed!FeedInit
  <1>. QED  BY <1>3, <1>4, <1>5, <1>6 DEF LocalFeedInv

(* With one handler publishing, every reader of RUN_TRANSPORT=local gets a  *)
(* prefix of the log in order and each event once, across failed appends,   *)
(* lost connections and restarts (queue/src/bus.ts:268-375,                 *)
(* server/src/app.ts:405-464).                                              *)
THEOREM LocalBusImplementsFeed ==
  ASSUME OneEmitter
  PROVE  LocalBusSpec => LocalImplementsFeed
<1>1. LocalBusInit => LocalFeedInv /\ LocalFeed!FeedInit
  BY LocalBusStart
<1>2. LocalFeedInv /\ [LocalBusNext]_localBusVars => LocalFeedInv' /\ [LocalFeed!FeedNext]_(LocalFeed!feedVars)
  BY LocalBusStep
<1>. QED  BY <1>1, <1>2, PTL DEF LocalBusSpec, LocalImplementsFeed, LocalFeed!FeedSpec

-----------------------------------------------------------------------------
(* The failed set and its operators. *)

Attempt == [at : {"waiting", "active", "failed", "completed", "gone"}, attempts : 0..QUEUE_MAX_ATTEMPTS]

Busy(w) == execution[w].step # "idle"

(* The failed set is what failed, each job once; a job that may still be    *)
(* tried has an attempt left.                                               *)
QueueOK ==
  /\ job \in [Jobs -> Attempt] /\ failedSet \in Seq(Jobs) /\ Len(failedSet) <= QUEUE_KEEP_FAILED
  /\ \A i, k \in 1..Len(failedSet) : failedSet[i] = failedSet[k] => i = k
  /\ \A j \in Jobs : job[j].at = "failed" <=> \E i \in 1..Len(failedSet) : failedSet[i] = j
  /\ \A j \in Jobs : job[j].at \in {"waiting", "active"} => job[j].attempts < QUEUE_MAX_ATTEMPTS

(* A job is active exactly while one live worker has it; before its call    *)
(* the row is pending.                                                      *)
HeldInv ==
  /\ execution \in [Fleet -> [job : Jobs, step : {"load", "call", "settled"}] \cup {Free}]
  /\ \A w \in Fleet : Busy(w) =>
       /\ process[w] \in {"serving", "draining"} /\ job[execution[w].job].at = "active"
       /\ execution[w].step = "call" => candidate[execution[w].job] = "PENDING"
  /\ \A v, w \in Fleet : Busy(v) /\ Busy(w) /\ execution[v].job = execution[w].job => v = w
  /\ \A j \in Jobs : job[j].at = "active" => \E w \in Fleet : Busy(w) /\ execution[w].job = j

OpsOthers ==
  /\ process \in [Fleet -> {"serving", "draining", "drained", "killed"}]
  /\ candidate \in [Jobs -> {"PENDING", "OK", "ERROR"}]
  /\ listed \in [Operators -> SUBSET Jobs] /\ replays \in 0..MaxReplays

OpsInv == OpsOthers /\ QueueOK /\ HeldInv

(* A letter is appended, dropped at the head, or taken out.                 *)
LEMMA Removed ==
  ASSUME NEW S, NEW s \in Seq(S), NEW n \in 1..Len(s)
  PROVE  /\ RemoveAt(s, n) \in Seq(S) /\ Len(RemoveAt(s, n)) = Len(s) - 1
         /\ \A k \in 1..(Len(s) - 1) : RemoveAt(s, n)[k] = IF k < n THEN s[k] ELSE s[k + 1]
  <1>. DEFINE u == SubSeq(s, 1, n - 1)
              v == SubSeq(s, n + 1, Len(s))
              w == u \o v
  <1>1. Len(s) \in Nat /\ n \in Nat /\ 1 <= n /\ n <= Len(s)
    OBVIOUS
  <1>2. u \in Seq(S) /\ Len(u) = n - 1 /\ \A k \in 1..(n - 1) : u[k] = s[k]
    BY <1>1
  <1>3. v \in Seq(S) /\ Len(v) = Len(s) - n /\ \A k \in 1..(Len(s) - n) : v[k] = s[n + k]
    BY <1>1
  <1>. HIDE DEF u, v
  <1>4. /\ w \in Seq(S) /\ Len(w) = Len(s) - 1
        /\ \A k \in 1..(Len(s) - 1) : w[k] = IF k <= n - 1 THEN u[k] ELSE v[k - (n - 1)]
    BY <1>1, <1>2, <1>3
  <1>. HIDE DEF w
  <1>5. ASSUME NEW k \in 1..(Len(s) - 1)  PROVE w[k] = IF k < n THEN s[k] ELSE s[k + 1]
    <2>1. CASE k < n
      BY <1>1, <1>2, <1>4, <2>1
    <2>2. CASE ~(k < n)
      <3>1. k - (n - 1) \in 1..(Len(s) - n) /\ n + (k - (n - 1)) = k + 1
        BY <1>1, <2>2
      <3>2. w[k] = v[k - (n - 1)]
        <4>1. ~(k <= n - 1)
          BY <1>1, <2>2
        <4>. QED  BY <1>4, <4>1, Zenon
      <3>. QED  BY <1>3, <2>2, <3>1, <3>2
    <2>. QED  BY <2>1, <2>2
  <1>. QED  BY <1>4, <1>5 DEF RemoveAt, u, v, w

(* What becomes of the other jobs when one fails for good: nothing, or the  *)
(* oldest letter is dropped.                                                *)
Released(j) ==
  /\ job'[j].at # "active"
  /\ \A k \in Jobs \ {j} : job'[k] = job[k] \/ (job[k].at = "failed" /\ job'[k].at = "gone")

LEMMA QueueMade ==
  ASSUME job' \in [Jobs -> Attempt], failedSet' \in Seq(Jobs), Len(failedSet') <= QUEUE_KEEP_FAILED,
         \A i, k \in 1..Len(failedSet') : failedSet'[i] = failedSet'[k] => i = k,
         \A j \in Jobs : job'[j].at = "failed" <=> \E i \in 1..Len(failedSet') : failedSet'[i] = j,
         \A j \in Jobs : job'[j].at \in {"waiting", "active"} => job'[j].attempts < QUEUE_MAX_ATTEMPTS
  PROVE  QueueOK'
BY DEF QueueOK, Attempt

LEMMA FailedStep ==
  ASSUME QueueOK, NEW j \in Jobs, job[j].at = "active", Failed(j)
  PROVE  QueueOK' /\ Released(j)
  <1>. DEFINE letters == Append(failedSet, j)
              n == Len(failedSet)
              over == Len(letters) > QUEUE_KEEP_FAILED
  <1>1. /\ job \in [Jobs -> Attempt] /\ failedSet \in Seq(Jobs) /\ n \in Nat /\ n <= QUEUE_KEEP_FAILED
        /\ QUEUE_MAX_ATTEMPTS \in Nat \ {0} /\ QUEUE_KEEP_FAILED \in Nat
        /\ job[j].attempts < QUEUE_MAX_ATTEMPTS /\ job[j].attempts \in 0..QUEUE_MAX_ATTEMPTS
    BY OperationsAssumption DEF QueueOK, Attempt
  <1>2. /\ letters \in Seq(Jobs) /\ Len(letters) = n + 1 /\ letters[n + 1] = j
        /\ \A i \in 1..n : letters[i] = failedSet[i]
    BY <1>1
  <1>3. /\ failedSet' = IF over THEN Tail(letters) ELSE letters
        /\ job' = [k \in Jobs |->
             IF over /\ k = letters[1] THEN [job[k] EXCEPT !.at = "gone"]
             ELSE IF k = j THEN [at |-> "failed", attempts |-> job[j].attempts + 1] ELSE job[k]]
    BY <1>2 DEF Failed
  <1>. HIDE DEF letters
  <1>4. \A i, k \in 1..(n + 1) : letters[i] = letters[k] => i = k
    <2>1. \A i \in 1..n : letters[i] # j
      BY <1>2 DEF QueueOK
    <2>. QED  BY <1>1, <1>2, <2>1 DEF QueueOK
  <1>5. \A k \in Jobs : (k = j \/ job[k].at = "failed") <=> \E i \in 1..(n + 1) : letters[i] = k
    BY <1>1, <1>2 DEF QueueOK
  <1>6. \A a \in Attempt : /\ [a EXCEPT !.at = "gone"] \in Attempt /\ [a EXCEPT !.at = "gone"].at = "gone"
    BY DEF Attempt
  <1>7. [at |-> "failed", attempts |-> job[j].attempts + 1] \in Attempt
    BY <1>1 DEF Attempt
  <1>8. CASE over
    <2>1. /\ failedSet' = Tail(letters) /\ Len(failedSet') = n /\ failedSet' \in Seq(Jobs)
          /\ \A i \in 1..n : failedSet'[i] = letters[i + 1]
      BY <1>1, <1>2, <1>3, <1>8
    <2>2. PICK old \in Jobs : old = letters[1]
      BY <1>1, <1>2
    <2>3. \A k \in Jobs : /\ k = old => job'[k] = [job[k] EXCEPT !.at = "gone"]
                          /\ k # old /\ k = j => job'[k] = [at |-> "failed", attempts |-> job[j].attempts + 1]
                          /\ k # old /\ k # j => job'[k] = job[k]
      BY <1>3, <1>8, <2>2
    <2>4. ASSUME NEW k \in Jobs
          PROVE  /\ job'[k] \in Attempt
                 /\ k = old => job'[k].at = "gone"
                 /\ k # old /\ k = j => job'[k].at = "failed"
      <3>1. job[k] \in Attempt
        BY <1>1
      <3>2. CASE k = old
        BY <1>6, <2>3, <3>1, <3>2
      <3>3. CASE k # old /\ k = j
        <4>1. job'[k] = [at |-> "failed", attempts |-> job[j].attempts + 1]
          BY <2>3, <3>3, Zenon
        <4>. QED  BY <1>7, <3>3, <4>1
      <3>4. CASE k # old /\ k # j
        BY <2>3, <3>1, <3>4
      <3>. QED  BY <3>2, <3>3, <3>4
    <2>5. job' \in [Jobs -> Attempt]
      BY <1>3, <2>4
    <2>6. old = j \/ job[old].at = "failed"
      BY <1>1, <1>5, <2>2
    <2>7. \A k \in Jobs : job'[k].at = "failed" <=> \E i \in 1..n : failedSet'[i] = k
      <3>1. ASSUME NEW k \in Jobs, job'[k].at = "failed"  PROVE \E i \in 1..n : failedSet'[i] = k
        <4>1. k # old /\ (k = j \/ job[k].at = "failed")
          BY <2>3, <2>4, <3>1
        <4>2. PICK i \in 1..(n + 1) : letters[i] = k
          BY <1>5, <4>1
        <4>3. i # 1 /\ i - 1 \in 1..n /\ (i - 1) + 1 = i
          BY <1>1, <2>2, <4>1, <4>2
        <4>. QED  BY <2>1, <4>2, <4>3
      <3>2. ASSUME NEW k \in Jobs, NEW i \in 1..n, failedSet'[i] = k  PROVE job'[k].at = "failed"
        <4>1. i + 1 \in 1..(n + 1) /\ letters[i + 1] = k /\ i + 1 # 1 /\ 1 \in 1..(n + 1)
          BY <1>1, <2>1, <3>2
        <4>2. k # old
          BY <1>4, <2>2, <4>1
        <4>3. k = j \/ job[k].at = "failed"
          BY <1>5, <4>1
        <4>. QED  BY <2>3, <2>4, <4>2, <4>3
      <3>. QED  BY <3>1, <3>2
    <2>8. \A i, k \in 1..n : failedSet'[i] = failedSet'[k] => i = k
      <3>1. ASSUME NEW i \in 1..n, NEW k \in 1..n, failedSet'[i] = failedSet'[k]  PROVE i = k
        <4>0. failedSet'[i] = letters[i + 1] /\ failedSet'[k] = letters[k + 1]
          BY <2>1, Zenon
        <4>1. i + 1 \in 1..(n + 1) /\ k + 1 \in 1..(n + 1)
          BY <1>1
        <4>2. letters[i + 1] = letters[k + 1]
          BY <3>1, <4>0, Zenon
        <4>3. i + 1 = k + 1
          BY <1>4, <4>1, <4>2
        <4>. QED  BY <4>3
      <3>. QED  BY <3>1
    <2>9. \A k \in Jobs : job'[k].at \in {"waiting", "active"} => job'[k].attempts < QUEUE_MAX_ATTEMPTS
      BY <2>3, <2>4 DEF QueueOK
    <2>10. QueueOK'
      BY <1>1, <2>1, <2>5, <2>7, <2>8, <2>9, QueueMade
    <2>. QED  BY <2>3, <2>4, <2>6, <2>10 DEF Released
  <1>9. CASE ~over
    <2>1. /\ failedSet' = letters /\ Len(failedSet') = n + 1 /\ n + 1 <= QUEUE_KEEP_FAILED
      BY <1>1, <1>2, <1>3, <1>9
    <2>2. \A k \in Jobs : /\ k = j => job'[k] = [at |-> "failed", attempts |-> job[j].attempts + 1]
                          /\ k # j => job'[k] = job[k]
      BY <1>3, <1>9
    <2>3. job' \in [Jobs -> Attempt] /\ job'[j].at = "failed"
      BY <1>1, <1>3, <1>7, <1>9, <2>2
    <2>4. \A k \in Jobs : job'[k].at = "failed" <=> \E i \in 1..(n + 1) : letters[i] = k
      BY <1>5, <2>2, <2>3
    <2>5. \A k \in Jobs : job'[k].at \in {"waiting", "active"} => job'[k].attempts < QUEUE_MAX_ATTEMPTS
      BY <2>2, <2>3 DEF QueueOK
    <2>6. QueueOK'
      BY <1>2, <1>4, <2>1, <2>3, <2>4, <2>5, QueueMade
    <2>. QED  BY <2>2, <2>3, <2>6 DEF Released
  <1>. QED  BY <1>8, <1>9

(* A worker that gives its job up: the job is no longer active, and nobody  *)
(* else's is touched.                                                       *)
LEMMA LeftHeld ==
  ASSUME QueueOK, HeldInv, NEW w \in Fleet, Busy(w), Released(execution[w].job), Leaves(w),
         \A v \in Fleet \ {w} : process'[v] = process[v],
         \A j \in Jobs \ {execution[w].job} : candidate'[j] = candidate[j]
  PROVE  HeldInv'
  <1>. DEFINE j == execution[w].job
  <1>1. /\ execution \in [Fleet -> [job : Jobs, step : {"load", "call", "settled"}] \cup {Free}] /\ j \in Jobs
        /\ Free.step = "idle"
    BY DEF HeldInv, Busy, Free
  <1>2. /\ execution'[w] = Free /\ \A v \in Fleet \ {w} : execution'[v] = execution[v]
        /\ execution' \in [Fleet -> [job : Jobs, step : {"load", "call", "settled"}] \cup {Free}]
    BY <1>1 DEF Leaves
  <1>3. ASSUME NEW v \in Fleet, execution'[v].step # "idle"
        PROVE  v # w /\ Busy(v) /\ execution'[v] = execution[v] /\ execution[v].job \in Jobs \ {j}
    <2>1. v # w /\ execution'[v] = execution[v] /\ Busy(v)
      BY <1>1, <1>2, <1>3 DEF Busy
    <2>2. execution[v].job \in Jobs
      BY <1>1, <2>1 DEF Busy
    <2>3. execution[v].job # j
      BY <2>1 DEF HeldInv
    <2>. QED  BY <2>1, <2>2, <2>3
  <1>4. ASSUME NEW v \in Fleet, execution'[v].step # "idle"
        PROVE  /\ process'[v] \in {"serving", "draining"} /\ job'[execution'[v].job].at = "active"
               /\ execution'[v].step = "call" => candidate'[execution'[v].job] = "PENDING"
    <2>1. v # w /\ Busy(v) /\ execution'[v] = execution[v] /\ execution[v].job \in Jobs \ {j}
      BY <1>3, <1>4
    <2>2. job[execution[v].job].at = "active" /\ process[v] \in {"serving", "draining"}
      BY <2>1 DEF HeldInv
    <2>3. job'[execution[v].job] = job[execution[v].job]
      BY <2>1, <2>2 DEF Released
    <2>. QED  BY <2>1, <2>2, <2>3 DEF HeldInv
  <1>5. ASSUME NEW k \in Jobs, job'[k].at = "active"
        PROVE  \E v \in Fleet : execution'[v].step # "idle" /\ execution'[v].job = k
    <2>1. k # j /\ job[k].at = "active"
      BY <1>5 DEF Released
    <2>2. PICK v \in Fleet : Busy(v) /\ execution[v].job = k
      BY <2>1 DEF HeldInv
    <2>3. v # w
      BY <2>1, <2>2
    <2>. QED  BY <1>2, <2>2, <2>3 DEF Busy
  <1>6. \A u, v \in Fleet : execution'[u].step # "idle" /\ execution'[v].step # "idle"
                              /\ execution'[u].job = execution'[v].job => u = v
    BY <1>3 DEF HeldInv
  <1>. QED  BY <1>2, <1>4, <1>5, <1>6 DEF HeldInv, Busy

(* No worker moves and no job starts or stops being active. *)
LEMMA KeptHeld ==
  ASSUME QueueOK, HeldInv, UNCHANGED <<execution, candidate>>,
         \A j \in Jobs : job'[j].at = "active" <=> job[j].at = "active",
         \A w \in Fleet : Busy(w) => process'[w] \in {"serving", "draining"}
  PROVE  HeldInv'
  <1>1. \A w \in Fleet : Busy(w) => execution[w].job \in Jobs
    BY DEF HeldInv, Busy, Free
  <1>2. \A w \in Fleet : Busy(w) => job'[execution[w].job].at = "active"
    BY <1>1 DEF HeldInv
  <1>. QED  BY <1>2 DEF HeldInv, Busy

(* A job that ends one way or the other, without a letter. *)
LEMMA JobEnds ==
  ASSUME QueueOK, NEW j \in Jobs, job[j].at = "active", NEW a \in Attempt,
         job' = [job EXCEPT ![j] = a], UNCHANGED failedSet, a.at \in {"waiting", "completed"},
         a.at = "waiting" => a.attempts < QUEUE_MAX_ATTEMPTS
  PROVE  QueueOK' /\ Released(j)
  <1>1. /\ job' \in [Jobs -> Attempt] /\ job'[j] = a
        /\ \A k \in Jobs \ {j} : job'[k] = job[k]
    BY DEF QueueOK
  <1>2. \A k \in Jobs : job'[k].at = "failed" <=> job[k].at = "failed"
    BY <1>1
  <1>3. \A k \in Jobs : job'[k].at \in {"waiting", "active"} => job'[k].attempts < QUEUE_MAX_ATTEMPTS
    BY <1>1 DEF QueueOK
  <1>4. QueueOK'
    BY <1>1, <1>2, <1>3, QueueMade DEF QueueOK
  <1>. QED  BY <1>1, <1>4 DEF Released

LEMMA AttemptStep ==
  ASSUME QueueOK, NEW j \in Jobs, job[j].at = "active", AttemptFails(j)
  PROVE  QueueOK' /\ Released(j)
  <1>1. job[j] \in Attempt /\ job[j].attempts < QUEUE_MAX_ATTEMPTS /\ QUEUE_MAX_ATTEMPTS \in Nat
    BY OperationsAssumption DEF QueueOK
  <1>2. CASE job[j].attempts + 1 < QUEUE_MAX_ATTEMPTS
    <2>. DEFINE a == [at |-> "waiting", attempts |-> job[j].attempts + 1]
    <2>1. a \in Attempt /\ a.at = "waiting" /\ a.attempts < QUEUE_MAX_ATTEMPTS
      BY <1>1, <1>2 DEF Attempt
    <2>2. job' = [job EXCEPT ![j] = a] /\ UNCHANGED failedSet
      BY <1>2 DEF AttemptFails
    <2>. HIDE DEF a
    <2>. QED  BY <2>1, <2>2, JobEnds
  <1>3. CASE ~(job[j].attempts + 1 < QUEUE_MAX_ATTEMPTS)
    BY <1>3, FailedStep DEF AttemptFails
  <1>. QED  BY <1>2, <1>3

(* A worker that takes a job has it alone.                                  *)
LEMMA TakesStep ==
  ASSUME OpsInv, NEW w \in Fleet, NEW j \in Jobs, Takes(w, j)
  PROVE  QueueOK' /\ HeldInv'
  <1>. DEFINE a == [job[j] EXCEPT !.at = "active"]
              x == [job |-> j, step |-> "load"]
  <1>1. /\ job \in [Jobs -> Attempt] /\ job[j] \in Attempt /\ job[j].at = "waiting"
        /\ job[j].attempts < QUEUE_MAX_ATTEMPTS /\ process[w] = "serving" /\ execution[w].step = "idle"
        /\ execution \in [Fleet -> [job : Jobs, step : {"load", "call", "settled"}] \cup {Free}]
        /\ job' = [job EXCEPT ![j] = a] /\ execution' = [execution EXCEPT ![w] = x]
        /\ UNCHANGED <<failedSet, process, candidate>>
    BY DEF OpsInv, QueueOK, HeldInv, Takes, Free
  <1>2. a \in Attempt /\ a.at = "active" /\ a.attempts = job[j].attempts
    BY <1>1 DEF Attempt
  <1>3. x \in [job : Jobs, step : {"load", "call", "settled"}] \cup {Free} /\ x.job = j /\ x.step = "load"
    OBVIOUS
  <1>. HIDE DEF a, x
  <1>4. /\ job' \in [Jobs -> Attempt] /\ job'[j] = a /\ \A k \in Jobs \ {j} : job'[k] = job[k]
        /\ execution' \in [Fleet -> [job : Jobs, step : {"load", "call", "settled"}] \cup {Free}]
        /\ execution'[w] = x /\ \A v \in Fleet \ {w} : execution'[v] = execution[v]
    BY <1>1, <1>2, <1>3
  <1>5. QueueOK'
    <2>1. \A k \in Jobs : job'[k].at = "failed" <=> job[k].at = "failed"
      BY <1>1, <1>2, <1>4
    <2>2. \A k \in Jobs : job'[k].at \in {"waiting", "active"} => job'[k].attempts < QUEUE_MAX_ATTEMPTS
      BY <1>1, <1>2, <1>4 DEF OpsInv, QueueOK
    <2>. QED  BY <1>1, <1>4, <2>1, <2>2, QueueMade DEF OpsInv, QueueOK
  <1>6. ASSUME NEW v \in Fleet \ {w}, Busy(v)
        PROVE  /\ execution[v].job \in Jobs \ {j} /\ job'[execution[v].job].at = "active"
               /\ process[v] \in {"serving", "draining"}
               /\ execution[v].step = "call" => candidate[execution[v].job] = "PENDING"
    <2>1. execution[v].job \in Jobs /\ job[execution[v].job].at = "active"
      BY <1>1, <1>6 DEF OpsInv, HeldInv, Busy, Free
    <2>. QED  BY <1>1, <1>4, <1>6, <2>1 DEF OpsInv, HeldInv
  <1>7. ASSUME NEW v \in Fleet, execution'[v].step # "idle"
        PROVE  /\ process'[v] \in {"serving", "draining"} /\ job'[execution'[v].job].at = "active"
               /\ execution'[v].step = "call" => candidate'[execution'[v].job] = "PENDING"
    <2>1. CASE v = w
      BY <1>1, <1>2, <1>3, <1>4, <2>1
    <2>2. CASE v # w
      BY <1>1, <1>4, <1>6, <1>7, <2>2 DEF Busy
    <2>. QED  BY <2>1, <2>2
  <1>8. ASSUME NEW v \in Fleet, NEW u \in Fleet, execution'[v].step # "idle", execution'[u].step # "idle",
               execution'[v].job = execution'[u].job
        PROVE  v = u
    <2>1. CASE v # w /\ u # w
      BY <1>4, <1>8, <2>1 DEF OpsInv, HeldInv, Busy
    <2>2. CASE v = w /\ u # w
      BY <1>3, <1>4, <1>6, <1>8, <2>2 DEF Busy
    <2>3. CASE v # w /\ u = w
      BY <1>3, <1>4, <1>6, <1>8, <2>3 DEF Busy
    <2>. QED  BY <2>1, <2>2, <2>3
  <1>9. ASSUME NEW k \in Jobs, job'[k].at = "active"
        PROVE  \E v \in Fleet : execution'[v].step # "idle" /\ execution'[v].job = k
    <2>1. CASE k = j
      BY <1>3, <1>4, <2>1
    <2>2. CASE k # j
      <3>1. PICK v \in Fleet : Busy(v) /\ execution[v].job = k
        BY <1>4, <1>9, <2>2 DEF OpsInv, HeldInv
      <3>2. v # w
        BY <1>1, <3>1 DEF Busy
      <3>. QED  BY <1>4, <3>1, <3>2 DEF Busy
    <2>. QED  BY <2>1, <2>2
  <1>10. HeldInv'
    BY <1>4, <1>7, <1>8, <1>9 DEF HeldInv, Busy
  <1>. QED  BY <1>5, <1>10

(* A worker that goes on with its job, which no other worker has.           *)
LEMMA GoesOn ==
  ASSUME QueueOK, HeldInv, NEW w \in Fleet, Busy(w), NEW step \in {"call", "settled"}, Step(w, step),
         step = "call" => candidate[execution[w].job] = "PENDING" /\ UNCHANGED candidate,
         \A k \in Jobs : k # execution[w].job => candidate'[k] = candidate[k],
         UNCHANGED <<job, failedSet, process>>
  PROVE  QueueOK' /\ HeldInv'
  <1>. DEFINE j == execution[w].job
              Shape == [job : Jobs, step : {"load", "call", "settled"}]
  <1>1. execution \in [Fleet -> Shape \cup {Free}] /\ execution[w] \in Shape
    BY DEF HeldInv, Busy, Free
  <1>2. PICK x \in Shape : x = [execution[w] EXCEPT !.step = step] /\ x.job = j /\ x.step = step
    <2>1. \A y \in Shape : LET z == [y EXCEPT !.step = step]
                           IN  z \in Shape /\ z.job = y.job /\ z.step = step
      OBVIOUS
    <2>. HIDE DEF Shape
    <2>. QED  BY <1>1, <2>1
  <1>3. /\ execution' \in [Fleet -> Shape \cup {Free}]
        /\ execution'[w] = x /\ \A v \in Fleet \ {w} : execution'[v] = execution[v]
    <2>1. execution' = [execution EXCEPT ![w] = x]
      BY <1>2 DEF Step
    <2>. HIDE DEF Shape
    <2>. QED  BY <1>1, <1>2, <2>1
  <1>4. \A v \in Fleet : /\ execution'[v].step # "idle" <=> Busy(v)
                         /\ execution'[v].job = execution[v].job
    BY <1>2, <1>3 DEF Busy
  <1>5. ASSUME NEW v \in Fleet, execution'[v].step # "idle"
        PROVE  /\ process'[v] \in {"serving", "draining"} /\ job'[execution'[v].job].at = "active"
               /\ execution'[v].step = "call" => candidate'[execution'[v].job] = "PENDING"
    <2>1. Busy(v) /\ execution'[v].job = execution[v].job
      BY <1>4, <1>5
    <2>2. process'[v] \in {"serving", "draining"} /\ job'[execution'[v].job].at = "active"
      BY <2>1 DEF HeldInv
    <2>3. CASE v = w
      BY <1>2, <1>3, <2>1, <2>2, <2>3
    <2>4. CASE v # w
      <3>1. execution'[v] = execution[v] /\ execution[v].job # j /\ execution[v].job \in Jobs
        BY <1>1, <1>3, <2>1, <2>4 DEF HeldInv, Busy, Free
      <3>2. execution[v].step = "call" => candidate[execution[v].job] = "PENDING"
        BY <2>1 DEF HeldInv
      <3>. QED  BY <2>2, <3>1, <3>2
    <2>. QED  BY <2>3, <2>4
  <1>6. \A v, u \in Fleet : execution'[v].step # "idle" /\ execution'[u].step # "idle"
                              /\ execution'[v].job = execution'[u].job => v = u
    BY <1>4 DEF HeldInv
  <1>7. \A k \in Jobs : job'[k].at = "active" =>
           \E v \in Fleet : execution'[v].step # "idle" /\ execution'[v].job = k
    BY <1>4 DEF HeldInv
  <1>8. HeldInv'
    BY <1>3, <1>5, <1>6, <1>7 DEF HeldInv, Busy
  <1>. QED  BY <1>8 DEF QueueOK

(* A busy worker asks, settles its row, is done with its job, or throws.    *)
WorksOn(w) == Loads(w) \/ Settles(w) \/ Completes(w) \/ Throws(w)

LEMMA WorkStep ==
  ASSUME OpsInv, NEW w \in Fleet, WorksOn(w)
  PROVE  QueueOK' /\ HeldInv' /\ candidate' \in [Jobs -> {"PENDING", "OK", "ERROR"}]
  <1>. DEFINE j == execution[w].job
  <1>1. /\ execution \in [Fleet -> [job : Jobs, step : {"load", "call", "settled"}] \cup {Free}] /\ Busy(w)
        /\ candidate \in [Jobs -> {"PENDING", "OK", "ERROR"}] /\ QueueOK /\ HeldInv
        /\ UNCHANGED process
    BY DEF OpsInv, OpsOthers, HeldInv, Busy, Free, WorksOn, Loads, Settles, Completes, Throws, opsRest
  <1>2. j \in Jobs /\ job[j].at = "active" /\ job[j] \in Attempt
    BY <1>1 DEF HeldInv, QueueOK, Busy, Free
  <1>3. ASSUME job' = [job EXCEPT ![j].at = "completed"], UNCHANGED failedSet
        PROVE  QueueOK' /\ Released(j)
    <2>. DEFINE a == [job[j] EXCEPT !.at = "completed"]
    <2>1. a \in Attempt /\ a.at = "completed"
      BY <1>2 DEF Attempt
    <2>2. job' = [job EXCEPT ![j] = a]
      BY <1>3
    <2>. HIDE DEF a
    <2>. QED  BY <1>1, <1>2, <1>3, <2>1, <2>2, JobEnds
  <1>4. CASE Loads(w)
    <2>1. Step(w, "call") /\ candidate[j] = "PENDING" /\ UNCHANGED <<candidate, job, failedSet>>
      BY <1>4 DEF Loads, alreadySettled, queueVars
    <2>. QED  BY <1>1, <2>1, GoesOn
  <1>5. CASE Settles(w)
    <2>1. PICK result \in {"OK", "ERROR"} : candidate' = [candidate EXCEPT ![j] = result]
      BY <1>5 DEF Settles
    <2>2. Step(w, "settled") /\ UNCHANGED <<job, failedSet>>
      BY <1>5 DEF Settles, queueVars
    <2>3. /\ candidate' \in [Jobs -> {"PENDING", "OK", "ERROR"}]
          /\ \A k \in Jobs : k # j => candidate'[k] = candidate[k]
      BY <1>1, <2>1
    <2>. QED  BY <1>1, <2>2, <2>3, GoesOn
  <1>6. CASE Throws(w)
    <2>1. Leaves(w) /\ AttemptFails(j) /\ UNCHANGED candidate
      BY <1>6 DEF Throws
    <2>. HIDE DEF j
    <2>2. QueueOK' /\ Released(j)
      BY <1>1, <1>2, <2>1, AttemptStep
    <2>. QED  BY <1>1, <2>1, <2>2, LeftHeld DEF j
  <1>7. CASE Completes(w)
    <2>1. Leaves(w) /\ job' = [job EXCEPT ![j].at = "completed"] /\ UNCHANGED <<failedSet, candidate>>
      BY <1>7 DEF Completes
    <2>. HIDE DEF j
    <2>2. QueueOK' /\ Released(j)
      BY <1>3, <2>1
    <2>. QED  BY <1>1, <2>1, <2>2, LeftHeld DEF j
  <1>. QED  BY <1>4, <1>5, <1>6, <1>7 DEF WorksOn

(* A worker that dies gives its job back, or up.                            *)
LEMMA KilledStep ==
  ASSUME OpsInv, NEW w \in Fleet, Killed(w)
  PROVE  QueueOK' /\ HeldInv' /\ process' \in [Fleet -> {"serving", "draining", "drained", "killed"}]
  <1>. DEFINE j == execution[w].job
  <1>1. /\ process' \in [Fleet -> {"serving", "draining", "drained", "killed"}] /\ QueueOK /\ HeldInv
        /\ \A v \in Fleet \ {w} : process'[v] = process[v]
        /\ Leaves(w) /\ UNCHANGED candidate
        /\ execution \in [Fleet -> [job : Jobs, step : {"load", "call", "settled"}] \cup {Free}]
    BY DEF OpsInv, OpsOthers, HeldInv, Killed
  <1>2. CASE execution[w] = Free
    <2>1. UNCHANGED <<execution, job, failedSet>> /\ ~Busy(w)
      BY <1>1, <1>2 DEF Killed, queueVars, Leaves, Busy, Free
    <2>2. \A v \in Fleet : Busy(v) => process'[v] \in {"serving", "draining"}
      BY <1>1, <2>1 DEF HeldInv
    <2>3. HeldInv'
      BY <1>1, <2>1, <2>2, KeptHeld
    <2>. QED  BY <1>1, <2>1, <2>3 DEF QueueOK
  <1>3. CASE execution[w] # Free
    <2>1. Busy(w) /\ j \in Jobs /\ job[j].at = "active" /\ job[j] \in Attempt
          /\ job[j].attempts < QUEUE_MAX_ATTEMPTS
      BY <1>1, <1>3 DEF HeldInv, QueueOK, Busy, Free
    <2>2. (job' = [job EXCEPT ![j].at = "waiting"] /\ UNCHANGED failedSet) \/ Failed(j)
      BY <1>3 DEF Killed
    <2>3. QueueOK' /\ Released(j)
      <3>1. CASE job' = [job EXCEPT ![j].at = "waiting"] /\ UNCHANGED failedSet
        <4>. DEFINE a == [job[j] EXCEPT !.at = "waiting"]
        <4>1. a \in Attempt /\ a.at = "waiting" /\ a.attempts = job[j].attempts
          BY <2>1 DEF Attempt
        <4>2. job' = [job EXCEPT ![j] = a]
          BY <3>1
        <4>. HIDE DEF a, j
        <4>. QED  BY <1>1, <2>1, <3>1, <4>1, <4>2, JobEnds
      <3>2. CASE Failed(j)
        BY <1>1, <2>1, <3>2, FailedStep
      <3>. QED  BY <2>2, <3>1, <3>2
    <2>. QED  BY <1>1, <2>1, <2>3, LeftHeld
  <1>. QED  BY <1>2, <1>3

(* A letter that is put back is in the queue once, and no longer in the set. *)
LEMMA ReplayStep ==
  ASSUME OpsInv, NEW o \in Operators, NEW j \in Jobs, replayDeadLetter(o, j)
  PROVE  QueueOK' /\ HeldInv'
  <1>1. QueueOK /\ HeldInv /\ UNCHANGED <<process, execution, candidate>>
    BY DEF OpsInv, replayDeadLetter
  <1>2. CASE job[j].at # "failed"
    <2>1. UNCHANGED <<job, failedSet>>
      BY <1>2 DEF replayDeadLetter, queueVars
    <2>2. HeldInv'
      BY <1>1, <2>1, KeptHeld DEF HeldInv
    <2>. QED  BY <1>1, <2>1, <2>2 DEF QueueOK
  <1>3. CASE job[j].at = "failed"
    <2>. DEFINE a == [at |-> "waiting", attempts |-> 0]
                s == failedSet
                m == Len(failedSet) - 1
    <2>1. PICK n \in 1..Len(s) : s[n] = j /\ failedSet' = RemoveAt(s, n)
      BY <1>1, <1>3 DEF replayDeadLetter, QueueOK
    <2>2. a \in Attempt /\ a.at = "waiting" /\ a.attempts < QUEUE_MAX_ATTEMPTS /\ QUEUE_KEEP_FAILED \in Nat
      BY OperationsAssumption DEF Attempt
    <2>3. job' = [job EXCEPT ![j] = a]
      BY <1>3 DEF replayDeadLetter
    <2>. HIDE DEF a
    <2>4. /\ job' \in [Jobs -> Attempt] /\ job'[j] = a /\ \A k \in Jobs \ {j} : job'[k] = job[k]
          /\ s \in Seq(Jobs) /\ Len(s) \in Nat /\ m \in Nat /\ n \in Nat /\ 1 <= n /\ n <= Len(s)
          /\ Len(s) <= QUEUE_KEEP_FAILED
      BY <1>1, <2>1, <2>2, <2>3 DEF QueueOK
    <2>5. /\ failedSet' \in Seq(Jobs) /\ Len(failedSet') = m
          /\ \A k \in 1..m : failedSet'[k] = IF k < n THEN s[k] ELSE s[k + 1]
      BY <2>1, <2>4, Removed
    <2>6. ASSUME NEW k \in 1..m
          PROVE  \E i \in 1..Len(s) : /\ failedSet'[k] = s[i] /\ i # n
                                      /\ i = IF k < n THEN k ELSE k + 1
      <3>1. CASE k < n
        <4>1. k \in 1..Len(s) /\ failedSet'[k] = s[k] /\ k # n
          BY <2>4, <2>5, <3>1
        <4>. QED  BY <3>1, <4>1
      <3>2. CASE ~(k < n)
        <4>1. k + 1 \in 1..Len(s) /\ failedSet'[k] = s[k + 1] /\ k + 1 # n
          BY <2>4, <2>5, <3>2
        <4>. QED  BY <3>2, <4>1
      <3>. QED  BY <3>1, <3>2
    <2>7. ASSUME NEW k \in 1..m, NEW l \in 1..m, failedSet'[k] = failedSet'[l]  PROVE k = l
      <3>1. PICK i \in 1..Len(s) : failedSet'[k] = s[i] /\ i = IF k < n THEN k ELSE k + 1
        BY <2>6
      <3>2. PICK h \in 1..Len(s) : failedSet'[l] = s[h] /\ h = IF l < n THEN l ELSE l + 1
        BY <2>6
      <3>3. s[i] = s[h]
        BY <2>7, <3>1, <3>2
      <3>4. i = h
        BY <1>1, <3>3 DEF QueueOK
      <3>. QED  BY <2>4, <3>1, <3>2, <3>4
    <2>8. ASSUME NEW k \in Jobs
          PROVE  job'[k].at = "failed" <=> \E i \in 1..m : failedSet'[i] = k
      <3>1. CASE k = j
        <4>1. ASSUME NEW i \in 1..m  PROVE failedSet'[i] # j
          <5>1. PICK h \in 1..Len(s) : failedSet'[i] = s[h] /\ h # n
            BY <2>6
          <5>2. s[h] # s[n]
            BY <1>1, <2>1, <5>1 DEF QueueOK
          <5>. QED  BY <2>1, <5>1, <5>2
        <4>. QED  BY <2>2, <2>4, <3>1, <4>1
      <3>2. CASE k # j
        <4>1. ASSUME job'[k].at = "failed"  PROVE \E i \in 1..m : failedSet'[i] = k
          <5>1. PICK i \in 1..Len(s) : s[i] = k
            BY <1>1, <2>4, <3>2, <4>1 DEF QueueOK
          <5>2. i < n \/ i > n
            BY <2>1, <2>4, <3>2, <5>1
          <5>3. CASE i < n
            <6>1. i \in 1..m /\ failedSet'[i] = k
              BY <2>4, <2>5, <5>1, <5>3
            <6>. QED  BY <6>1
          <5>4. CASE i > n
            <6>1. i - 1 \in 1..m /\ ~(i - 1 < n) /\ (i - 1) + 1 = i
              BY <2>4, <5>1, <5>4
            <6>2. failedSet'[i - 1] = k
              BY <2>5, <5>1, <6>1
            <6>. QED  BY <6>1, <6>2
          <5>. QED  BY <5>2, <5>3, <5>4
        <4>2. ASSUME NEW i \in 1..m, failedSet'[i] = k  PROVE job'[k].at = "failed"
          BY <1>1, <2>4, <2>6, <3>2, <4>2 DEF QueueOK
        <4>. QED  BY <4>1, <4>2
      <3>. QED  BY <3>1, <3>2
    <2>9. \A k \in Jobs : job'[k].at \in {"waiting", "active"} => job'[k].attempts < QUEUE_MAX_ATTEMPTS
      BY <1>1, <2>2, <2>4 DEF QueueOK
    <2>10. m <= QUEUE_KEEP_FAILED
      BY <2>2, <2>4
    <2>11. QueueOK'
      BY <2>4, <2>5, <2>7, <2>8, <2>9, <2>10, QueueMade
    <2>12. \A k \in Jobs : job'[k].at = "active" <=> job[k].at = "active"
      BY <1>3, <2>2, <2>4
    <2>13. HeldInv'
      BY <1>1, <2>12, KeptHeld DEF HeldInv
    <2>. QED  BY <2>11, <2>13
  <1>. QED  BY <1>2, <1>3

LEMMA Cut ==
  ASSUME NEW S, NEW s \in Seq(S), NEW n \in 1..Len(s)
  PROVE  /\ SubSeq(s, 1, n) \in Seq(S) /\ Len(SubSeq(s, 1, n)) = n
         /\ \A i \in 1..n : SubSeq(s, 1, n)[i] = s[i]
         /\ SubSeq(s, n + 1, Len(s)) \in Seq(S) /\ Len(SubSeq(s, n + 1, Len(s))) = Len(s) - n
         /\ \A i \in 1..(Len(s) - n) : SubSeq(s, n + 1, Len(s))[i] = s[n + i]
  <1>1. Len(s) \in Nat /\ n \in Nat /\ 1 <= n /\ n <= Len(s)
    OBVIOUS
  <1>2. /\ SubSeq(s, 1, n) \in Seq(S) /\ Len(SubSeq(s, 1, n)) = n
        /\ \A i \in 1..n : SubSeq(s, 1, n)[i] = s[i]
    BY <1>1
  <1>3. /\ SubSeq(s, n + 1, Len(s)) \in Seq(S) /\ Len(SubSeq(s, n + 1, Len(s))) = Len(s) - n
        /\ \A i \in 1..(Len(s) - n) : SubSeq(s, n + 1, Len(s))[i] = s[n + i]
    BY <1>1
  <1>. QED  BY <1>2, <1>3, Zenon

LEMMA Members ==
  ASSUME NEW S, NEW s \in Seq(S)
  PROVE  \A j : j \in ToSet(s) <=> \E i \in 1..Len(s) : s[i] = j
BY DEF ToSet

(* The purge takes the oldest letters, and only them.                       *)
LEMMA PurgeStep ==
  ASSUME OpsInv, purgeDeadLetters
  PROVE  QueueOK' /\ HeldInv'
  <1>1. QueueOK /\ HeldInv /\ UNCHANGED <<process, execution, candidate>>
    BY DEF OpsInv, purgeDeadLetters
  <1>. DEFINE s == failedSet
  <1>2. PICK n \in 1..Len(s) :
          /\ failedSet' = SubSeq(s, n + 1, Len(s))
          /\ job' = [j \in Jobs |-> IF j \in ToSet(SubSeq(s, 1, n)) THEN [job[j] EXCEPT !.at = "gone"]
                                    ELSE job[j]]
    BY DEF purgeDeadLetters
  <1>. DEFINE m == Len(s) - n
  <1>3. /\ job \in [Jobs -> Attempt] /\ s \in Seq(Jobs) /\ Len(s) \in Nat /\ n \in Nat /\ 1 <= n /\ n <= Len(s)
        /\ Len(s) <= QUEUE_KEEP_FAILED /\ QUEUE_KEEP_FAILED \in Nat
    BY <1>1, OperationsAssumption DEF QueueOK
  <1>4. /\ failedSet' \in Seq(Jobs) /\ Len(failedSet') = m /\ m \in Nat /\ m <= QUEUE_KEEP_FAILED
        /\ \A i \in 1..m : failedSet'[i] = s[n + i]
    <2>1. /\ SubSeq(s, n + 1, Len(s)) \in Seq(Jobs) /\ Len(SubSeq(s, n + 1, Len(s))) = m
          /\ \A i \in 1..m : SubSeq(s, n + 1, Len(s))[i] = s[n + i]
      BY <1>3, Cut
    <2>. QED  BY <1>2, <1>3, <2>1
  <1>5. \A j \in Jobs : j \in ToSet(SubSeq(s, 1, n)) <=> \E i \in 1..n : s[i] = j
    <2>1. /\ SubSeq(s, 1, n) \in Seq(Jobs) /\ Len(SubSeq(s, 1, n)) = n
          /\ \A i \in 1..n : SubSeq(s, 1, n)[i] = s[i]
      BY <1>3, Cut
    <2>2. \A j : j \in ToSet(SubSeq(s, 1, n)) <=> \E i \in 1..n : SubSeq(s, 1, n)[i] = j
      BY <2>1, Members
    <2>. QED  BY <2>1, <2>2
  <1>6. \A j \in Jobs : (\E i \in 1..n : s[i] = j) => job[j].at = "failed"
    BY <1>1, <1>3 DEF QueueOK
  <1>7. ASSUME NEW j \in Jobs
        PROVE  /\ job'[j] \in Attempt
               /\ (\E i \in 1..n : s[i] = j) => job'[j].at = "gone" /\ job[j].at = "failed"
               /\ ~(\E i \in 1..n : s[i] = j) => job'[j] = job[j]
    <2>1. \A a \in Attempt : [a EXCEPT !.at = "gone"] \in Attempt /\ [a EXCEPT !.at = "gone"].at = "gone"
      BY DEF Attempt
    <2>2. job[j] \in Attempt
      BY <1>3
    <2>3. CASE \E i \in 1..n : s[i] = j
      <3>1. job'[j] = [job[j] EXCEPT !.at = "gone"]
        BY <1>2, <1>5, <2>3
      <3>. QED  BY <1>6, <2>1, <2>2, <2>3, <3>1
    <2>4. CASE ~(\E i \in 1..n : s[i] = j)
      <3>1. job'[j] = job[j]
        BY <1>2, <1>5, <2>4
      <3>. QED  BY <2>2, <2>4, <3>1
    <2>. QED  BY <2>3, <2>4
  <1>8. job' \in [Jobs -> Attempt]
    BY <1>2, <1>7
  <1>9. ASSUME NEW j \in Jobs  PROVE job'[j].at = "failed" <=> \E i \in 1..m : failedSet'[i] = j
    <2>1. ASSUME job'[j].at = "failed"  PROVE \E i \in 1..m : failedSet'[i] = j
      <3>1. job[j].at = "failed" /\ ~(\E i \in 1..n : s[i] = j)
        BY <1>7, <2>1
      <3>2. PICK i \in 1..Len(s) : s[i] = j
        BY <1>1, <3>1 DEF QueueOK
      <3>3. i - n \in 1..m /\ n + (i - n) = i
        BY <1>3, <3>1, <3>2
      <3>. QED  BY <1>4, <3>2, <3>3
    <2>2. ASSUME NEW i \in 1..m, failedSet'[i] = j  PROVE job'[j].at = "failed"
      <3>1. n + i \in 1..Len(s) /\ s[n + i] = j
        BY <1>3, <1>4, <2>2
      <3>2. \A h \in 1..n : s[h] # j
        BY <1>1, <1>3, <1>4, <3>1 DEF QueueOK
      <3>3. job[j].at = "failed"
        BY <1>1, <3>1 DEF QueueOK
      <3>. QED  BY <1>7, <3>2, <3>3
    <2>. QED  BY <2>1, <2>2
  <1>10. ASSUME NEW i \in 1..m, NEW k \in 1..m, failedSet'[i] = failedSet'[k]  PROVE i = k
    <2>0. n + i \in 1..Len(s) /\ n + k \in 1..Len(s) /\ failedSet'[i] = s[n + i] /\ failedSet'[k] = s[n + k]
      BY <1>3, <1>4
    <2>1. n + i \in 1..Len(s) /\ n + k \in 1..Len(s) /\ s[n + i] = s[n + k]
      BY <1>10, <2>0
    <2>2. n + i = n + k
      BY <1>1, <2>1 DEF QueueOK
    <2>. QED  BY <1>3, <1>4, <2>2
  <1>11. \A j \in Jobs : /\ job'[j].at \in {"waiting", "active"} => job'[j].attempts < QUEUE_MAX_ATTEMPTS
                         /\ job'[j].at = "active" <=> job[j].at = "active"
    BY <1>1, <1>7 DEF QueueOK
  <1>12. QueueOK'
    BY <1>4, <1>8, <1>9, <1>10, <1>11, QueueMade
  <1>13. HeldInv'
    BY <1>1, <1>11, KeptHeld DEF HeldInv
  <1>. QED  BY <1>12, <1>13

LEMMA OpsStep == OpsInv /\ [OpsNext]_opsVars => OpsInv'
  <1>1. ASSUME OpsInv, OpsNext  PROVE OpsInv'
    <2>0. OpsOthers /\ QueueOK /\ HeldInv
      BY <1>1 DEF OpsInv
    <2>1. ASSUME NEW w \in Fleet, NEW j \in Jobs, Takes(w, j)  PROVE OpsInv'
      <3>1. UNCHANGED <<process, candidate, listed, replays>>
        BY <2>1 DEF Takes
      <3>. QED  BY <1>1, <2>0, <2>1, <3>1, TakesStep DEF OpsInv, OpsOthers
    <2>2. ASSUME NEW w \in Fleet, WorksOn(w)  PROVE OpsInv'
      <3>1. UNCHANGED <<process, listed, replays>>
        BY <2>2 DEF WorksOn, Loads, Settles, Completes, Throws, opsRest
      <3>. QED  BY <1>1, <2>0, <2>2, <3>1, WorkStep DEF OpsInv, OpsOthers
    <2>3. ASSUME NEW w \in Fleet, Signalled(w) \/ Drained(w) \/ Starts(w)  PROVE OpsInv'
      <3>1. /\ UNCHANGED <<execution, job, failedSet, candidate, listed, replays>>
            /\ process' \in [Fleet -> {"serving", "draining", "drained", "killed"}]
        BY <2>0, <2>3 DEF OpsOthers, Signalled, Drained, Starts, queueVars
      <3>2. \A v \in Fleet : Busy(v) => process'[v] \in {"serving", "draining"}
        BY <2>0, <2>3 DEF OpsOthers, HeldInv, Busy, Free, Signalled, Drained, Starts
      <3>3. HeldInv'
        BY <2>0, <3>1, <3>2, KeptHeld
      <3>. QED  BY <2>0, <3>1, <3>3 DEF OpsInv, OpsOthers, QueueOK
    <2>4. ASSUME NEW w \in Fleet, Killed(w)  PROVE OpsInv'
      <3>1. UNCHANGED <<candidate, listed, replays>>
        BY <2>4 DEF Killed
      <3>. QED  BY <1>1, <2>0, <2>4, <3>1, KilledStep DEF OpsInv, OpsOthers
    <2>5. CASE purgeDeadLetters
      <3>1. UNCHANGED <<process, candidate, listed, replays>>
        BY <2>5 DEF purgeDeadLetters
      <3>. QED  BY <1>1, <2>0, <2>5, <3>1, PurgeStep DEF OpsInv, OpsOthers
    <2>6. ASSUME NEW o \in Operators, listDeadLetters(o)  PROVE OpsInv'
      <3>1. /\ UNCHANGED <<process, execution, job, failedSet, candidate, replays>>
            /\ listed' = [listed EXCEPT ![o] = ToSet(failedSet)]
        BY <2>6 DEF listDeadLetters, queueVars
      <3>2. ToSet(failedSet) \in SUBSET Jobs
        BY <2>0 DEF QueueOK, ToSet
      <3>3. HeldInv'
        BY <2>0, <3>1, KeptHeld DEF HeldInv
      <3>. QED  BY <2>0, <3>1, <3>2, <3>3 DEF OpsInv, OpsOthers, QueueOK
    <2>7. ASSUME NEW o \in Operators, NEW j \in Jobs, replayDeadLetter(o, j)  PROVE OpsInv'
      <3>1. /\ UNCHANGED <<process, candidate>> /\ replays' \in 0..MaxReplays
            /\ listed' = [listed EXCEPT ![o] = listed[o] \ {j}]
        BY <2>0, <2>7, OperationsAssumption DEF OpsOthers, replayDeadLetter
      <3>2. listed' \in [Operators -> SUBSET Jobs]
        BY <2>0, <3>1 DEF OpsOthers
      <3>. QED  BY <1>1, <2>0, <2>7, <3>1, <3>2, ReplayStep DEF OpsInv, OpsOthers
    <2>. QED  BY <1>1, <2>1, <2>2, <2>3, <2>4, <2>5, <2>6, <2>7 DEF OpsNext, WorksOn
  <1>2. ASSUME OpsInv, UNCHANGED opsVars  PROVE OpsInv'
    BY <1>2 DEF opsVars, OpsInv, OpsOthers, QueueOK, HeldInv, Busy
  <1>. QED  BY <1>1, <1>2

LEMMA OpsStart == OpsInit => OpsInv
  <1>. SUFFICES ASSUME OpsInit  PROVE OpsInv
    OBVIOUS
  <1>1. failedSet \in Seq(Jobs) /\ Len(failedSet) = 0 /\ QUEUE_KEEP_FAILED \in Nat
        /\ 0 < QUEUE_MAX_ATTEMPTS /\ QUEUE_MAX_ATTEMPTS \in Nat /\ MaxReplays \in Nat
    BY OperationsAssumption DEF OpsInit
  <1>2. QueueOK
    BY <1>1 DEF OpsInit, QueueOK, Attempt
  <1>3. HeldInv
    BY DEF OpsInit, HeldInv, Busy, Free
  <1>4. OpsOthers
    BY <1>1 DEF OpsInit, OpsOthers
  <1>. QED  BY <1>2, <1>3, <1>4 DEF OpsInv

(* The invariant of the fleet and its dead letters.                         *)
THEOREM OperationsInvariant == OpsSpec => []OpsInv
BY OpsStart, OpsStep, PTL DEF OpsSpec

(* Jobs, executions and the failed set keep their shape; the set holds no   *)
(* more than removeOnFail allows (queue/src/queues.ts:50-71).               *)
THEOREM OperationsTyped == OpsSpec => []OpsTypeOK
<1>1. OpsInv => OpsTypeOK
  <2>. SUFFICES ASSUME OpsInv  PROVE OpsTypeOK
    OBVIOUS
  <2>1. \A x \in [job : Jobs, step : {"load", "call", "settled"}] \cup {Free} :
          x \in [job : Jobs \cup {NoJob}, step : {"idle", "load", "call", "settled"}]
    BY DEF Free
  <2>2. execution \in [Fleet -> [job : Jobs \cup {NoJob}, step : {"idle", "load", "call", "settled"}]]
    BY <2>1 DEF OpsInv, HeldInv
  <2>. QED  BY <2>2 DEF OpsInv, OpsOthers, QueueOK, Attempt, OpsTypeOK
<1>. QED  BY <1>1, OperationsInvariant, PTL

(* A replayed dead letter never asks a model for an answered row, and no    *)
(* job is orphaned (queue/src/dlq.ts:87-113, worker/src/index.ts:121-163).  *)
THEOREM ReplaysSafe == OpsSpec => []ReplaysAreSafe
<1>1. OpsInv => ReplaysAreSafe
  <2>. SUFFICES ASSUME OpsInv  PROVE ReplaysAreSafe
    OBVIOUS
  <2>1. \A j \in Jobs : job[j].at = "failed" <=> j \in ToSet(failedSet)
    BY DEF OpsInv, QueueOK, ToSet
  <2>2. \A j \in Jobs : job[j].at = "active" =>
          \E w \in Fleet : execution[w].job = j /\ process[w] \in {"serving", "draining"}
    BY DEF OpsInv, HeldInv
  <2>3. AnsweredIsNotAsked
    BY DEF OpsInv, HeldInv, Busy, AnsweredIsNotAsked
  <2>. QED  BY <2>1, <2>2, <2>3 DEF ReplaysAreSafe, NothingIsOrphaned
<1>. QED  BY <1>1, OperationsInvariant, PTL
=============================================================================
