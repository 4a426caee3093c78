---------------------------- MODULE WebhookOutbox ----------------------------
(***************************************************************************)
(* Outbound webhooks: an event becomes one dispatch row per endpoint, the  *)
(* rows become queue jobs - at once, or by the sweeper - and the worker    *)
(* posts each to a receiver it knows nothing about, records the outcome on *)
(* the row and counts consecutive failures on the endpoint.                *)
(*                                                                         *)
(* A delivery is one event addressed to one endpoint: one row, one job id. *)
(* Its nextAttemptAt is modelled by where the delivery stands: in due, the *)
(* rows the sweeper would list, oldest first; PENDING and not yet in due;  *)
(* or settled, with none. Payloads, signatures and event types are left    *)
(* out; the queue of RUN_TRANSPORT=local is in LocalQueue.                 *)
(***************************************************************************)
EXTENDS Naturals, FiniteSets, Sequences

CONSTANTS
  Endpoints,     \* the receivers subscribed to the events
  Events,        \* the events emitted, each by one worker
  MaxAttempts,   \* WEBHOOK_MAX_ATTEMPTS
  MaxStalls,     \* deliveries of one job BullMQ recovers from a dead worker
  Threshold,     \* WEBHOOK_FAILURE_THRESHOLD
  SweepBatch,    \* WEBHOOK_SWEEP_BATCH
  Faults,        \* what may go wrong or be forgotten: a subset of FaultKinds
  MaxFaults,     \* bound on how often it is
  MaxReplays,    \* bound on the replays
  Operators      \* what the tenant may do: a subset of {"enable", "delete"}

FaultKinds == {"crash", "db", "redis", "lost", "evict"}

ASSUME OutboxAssumption ==
  /\ IsFiniteSet(Endpoints) /\ IsFiniteSet(Events)
  /\ MaxAttempts \in Nat \ {0} /\ Threshold \in Nat \ {0} /\ SweepBatch \in Nat \ {0}
  /\ MaxStalls \in Nat /\ MaxFaults \in Nat /\ MaxReplays \in Nat
  /\ Faults \subseteq FaultKinds
  /\ Operators \subseteq {"enable", "delete"}

Deliveries == Endpoints \X Events

EndpointOf(d) == d[1]

VARIABLES
  endpoint,   \* the WebhookEndpoint rows
  row,        \* the status of each WebhookDispatch row
  due,        \* the PENDING rows whose nextAttemptAt has passed, by that time
  job,        \* what the queue holds under each delivery's job id
  exec,       \* the execution of each job
  emitter,    \* the worker that emits each event
  batch,      \* what is left of the sweeper's current list
  replaying,  \* replays that have reset the row and not yet enqueued
  received,   \* the deliveries a receiver accepted (history, never read)
  refused,    \* those a receiver refused for good (history, never read)
  gaveUp,     \* those ever recorded as FAILED (history, never read)
  tries,      \* how often each was posted (history, never read)
  replays,
  faults

vars == <<endpoint, row, due, job, exec, emitter, batch, replaying,
          received, refused, gaveUp, tries, replays, faults>>

history == <<received, refused, gaveUp, tries>>

Fault(kind) == kind \in Faults /\ faults < MaxFaults /\ faults' = faults + 1

(* Variant: a settled row keeps its retry time.                             *)
DueKept(gone) == due

(* The rows that lose their place in due: settled, deleted or rescheduled.  *)
DueWithout(gone) ==
  LET kept == {i \in 1..Len(due) : due[i] \notin gone}
      Place(i) == Cardinality({j \in kept : j <= i})
  IN  [k \in 1..Cardinality(kept) |-> due[CHOOSE i \in kept : Place(i) = k]]

-----------------------------------------------------------------------------
(* The queue. *)

NoJob == [state |-> "absent", made |-> 0, stalls |-> 0]

(* add under a job id the queue already holds, in whatever state, adds      *)
(* nothing.                                                                 *)
Enqueue(S) ==
  job' = [d \in Deliveries |->
            IF d \in S /\ job[d].state = "absent"
              THEN [NoJob EXCEPT !.state = "waiting"] ELSE job[d]]

Goto(d, step) == exec' = [exec EXCEPT ![d].at = step]

Idle == [at |-> "idle", exhausted |-> FALSE]

(* meta.isFinalAttempt of the delivery in progress.                         *)
IsFinalAttempt(d) == job[d].made + 1 >= MaxAttempts

Finish(d) ==
  /\ job' = [job EXCEPT ![d].state = "completed"]
  /\ exec' = [exec EXCEPT ![d] = Idle]

(* An execution that throws goes back to wait out its backoff, while        *)
(* attempts remain.                                                         *)
Throw(d) ==
  /\ job' = [job EXCEPT ![d].made = job[d].made + 1,
                        ![d].state = IF IsFinalAttempt(d) THEN "failed" ELSE "delayed"]
  /\ exec' = [exec EXCEPT ![d] = Idle]

queueVars == <<endpoint, row, due, emitter, batch, replaying, replays>>

Deliver(d) ==
  /\ job[d].state = "waiting"
  /\ job' = [job EXCEPT ![d].state = "active"]
  /\ Goto(d, "claim")
  /\ UNCHANGED faults /\ UNCHANGED history /\ UNCHANGED queueVars

Backoff(d) ==
  /\ job[d].state = "delayed"
  /\ job' = [job EXCEPT ![d].state = "waiting"]
  /\ UNCHANGED <<exec, faults>> /\ UNCHANGED history /\ UNCHANGED queueVars

(* QUEUE_KEEP_COMPLETED younger jobs have completed or failed: the oldest   *)
(* is removed.                                                              *)
Evict(d) ==
  /\ job[d].state \in {"completed", "failed"}
  /\ Fault("evict")
  /\ job' = [job EXCEPT ![d] = NoJob]
  /\ UNCHANGED exec /\ UNCHANGED history /\ UNCHANGED queueVars

(* A job lost to a Redis eviction.                                          *)
LoseJob(d) ==
  /\ job[d].state \in {"waiting", "delayed"}
  /\ Fault("lost")
  /\ job' = [job EXCEPT ![d] = NoJob]
  /\ UNCHANGED exec /\ UNCHANGED history /\ UNCHANGED queueVars

(* The worker dies: the job is found stalled and redelivered, MaxStalls     *)
(* times, without counting an attempt.                                      *)
WorkerCrash(d) ==
  /\ exec[d].at # "idle"
  /\ Fault("crash")
  /\ job' = [job EXCEPT ![d].stalls = job[d].stalls + 1,
                        ![d].state = IF job[d].stalls >= MaxStalls THEN "failed" ELSE "waiting"]
  /\ exec' = [exec EXCEPT ![d] = Idle]
  /\ UNCHANGED history /\ UNCHANGED queueVars

-----------------------------------------------------------------------------
(* Emission: the rows first, then the queue.                                *)

emitterVars == <<endpoint, exec, batch, replaying, replays>>

(* The endpoints in rotation at this moment.                                *)
EmitList(ev) ==
  /\ emitter[ev].at = "idle"
  /\ emitter' = [emitter EXCEPT ![ev].at = "dispatch",
                   ![ev].todo = {e \in Endpoints : endpoint[e].state = "live"}]
  /\ UNCHANGED <<row, due, job, faults>> /\ UNCHANGED history /\ UNCHANGED emitterVars

(* One row per endpoint. An endpoint deleted meanwhile fails the insert, as *)
(* a database error does, and the emission with it: the rows created so far *)
(* are not enqueued, and the endpoints left get none.                       *)
EmitRow(ev) ==
  /\ emitter[ev].at = "dispatch"
  /\ \E e \in emitter[ev].todo :
       \/ /\ endpoint[e].state # "deleted"
          /\ row' = [row EXCEPT ![<<e, ev>>] = "PENDING"]
          /\ due' = Append(due, <<e, ev>>)
          /\ emitter' = [emitter EXCEPT ![ev].todo = @ \ {e}, ![ev].created = @ \cup {e}]
          /\ UNCHANGED faults
       \/ /\ \/ endpoint[e].state = "deleted" /\ UNCHANGED faults
             \/ Fault("db")
          /\ emitter' = [emitter EXCEPT ![ev].at = "aborted"]
          /\ UNCHANGED <<row, due>>
  /\ UNCHANGED job /\ UNCHANGED history /\ UNCHANGED emitterVars

(* The direct enqueue of each row; one that fails is left for the sweeper.  *)
EmitEnqueue(ev) ==
  /\ emitter[ev].at = "dispatch" /\ emitter[ev].todo = {}
  /\ \E failed \in SUBSET emitter[ev].created :
       /\ Enqueue({<<e, ev>> : e \in emitter[ev].created \ failed})
       /\ IF failed = {} THEN UNCHANGED faults ELSE Fault("redis")
  /\ emitter' = [emitter EXCEPT ![ev].at = "done"]
  /\ UNCHANGED <<row, due>> /\ UNCHANGED history /\ UNCHANGED emitterVars

EmitterCrash(ev) ==
  /\ emitter[ev].at = "dispatch"
  /\ Fault("crash")
  /\ emitter' = [emitter EXCEPT ![ev].at = "aborted"]
  /\ UNCHANGED <<row, due, job>> /\ UNCHANGED history /\ UNCHANGED emitterVars

-----------------------------------------------------------------------------
(* The sweeper. *)

sweepVars == <<endpoint, row, exec, emitter, replaying, replays>>

(* The retry time on the row passes.                                        *)
FallDue(d) ==
  /\ row[d] = "PENDING" /\ \A i \in 1..Len(due) : due[i] # d
  /\ due' = Append(due, d)
  /\ UNCHANGED <<job, batch, faults>> /\ UNCHANGED history /\ UNCHANGED sweepVars

(* listDueWebhookDeliveries: the oldest SweepBatch rows.                    *)
SweepList ==
  /\ batch = <<>> /\ due # <<>>
  /\ batch' = SubSeq(due, 1, IF Len(due) < SweepBatch THEN Len(due) ELSE SweepBatch)
  /\ UNCHANGED <<due, job, faults>> /\ UNCHANGED history /\ UNCHANGED sweepVars

SweepEnqueue ==
  /\ batch # <<>>
  /\ \/ Enqueue({Head(batch)}) /\ UNCHANGED faults
     \/ Fault("redis") /\ UNCHANGED job
  /\ batch' = Tail(batch)
  /\ UNCHANGED due /\ UNCHANGED history /\ UNCHANGED sweepVars

(* Retention removes a settled row.                                         *)
Prune(d) ==
  /\ row[d] \in {"DELIVERED", "FAILED"}
  /\ row' = [row EXCEPT ![d] = "none"]
  /\ UNCHANGED <<endpoint, due, job, exec, emitter, batch, replaying, replays, faults>>
  /\ UNCHANGED history

-----------------------------------------------------------------------------
(* processWebhookJob. *)

execVars == <<emitter, batch, replaying, replays>>

(* claimWebhookDispatch: a deleted row, or an endpoint out of rotation, is  *)
(* left alone. The status of the row is not looked at.                      *)
Claim(d) ==
  /\ exec[d].at = "claim"
  /\ IF row[d] = "none" \/ endpoint[EndpointOf(d)].state # "live"
       THEN Finish(d)
       ELSE Goto(d, "post") /\ UNCHANGED job
  /\ UNCHANGED <<endpoint, row, due, faults>> /\ UNCHANGED history /\ UNCHANGED execVars

(* Variant: any answer of the receiver counts as an acceptance.             *)
PostAnyAnswer(d) ==
  /\ exec[d].at = "post"
  /\ tries' = [tries EXCEPT ![d] = tries[d] + 1]
  /\ \/ /\ received' = received \cup {d} /\ UNCHANGED refused
        /\ Goto(d, "delivered")
     \/ /\ UNCHANGED <<received, refused>>
        /\ Goto(d, "delivered")
  /\ UNCHANGED <<endpoint, row, due, job, gaveUp, faults>> /\ UNCHANGED execVars

(* The receiver accepts (2xx), refuses for good (4xx), or fails in a way    *)
(* worth retrying; a timeout may hide that it accepted.                     *)
Post(d) ==
  /\ exec[d].at = "post"
  /\ tries' = [tries EXCEPT ![d] = tries[d] + 1]
  /\ \/ /\ received' = received \cup {d} /\ UNCHANGED refused
        /\ Goto(d, "delivered")
     \/ /\ refused' = refused \cup {d} /\ UNCHANGED received
        /\ exec' = [exec EXCEPT ![d] = [at |-> "failed", exhausted |-> TRUE]]
     \/ /\ UNCHANGED refused
        /\ received' \in {received, received \cup {d}}
        /\ exec' = [exec EXCEPT ![d] = [at |-> "failed", exhausted |-> IsFinalAttempt(d)]]
  /\ UNCHANGED <<endpoint, row, due, job, gaveUp, faults>> /\ UNCHANGED execVars

(* A row that is gone by now is not brought back by the update.             *)
Settle(d, status) ==
  /\ row' = [row EXCEPT ![d] = IF row[d] = "none" THEN "none" ELSE status]
  /\ due' = DueWithout({d})

RecordSuccess(d) ==
  /\ exec[d].at = "delivered"
  /\ Settle(d, "DELIVERED")
  /\ Goto(d, "reset")
  /\ UNCHANGED <<endpoint, job, faults>> /\ UNCHANGED history /\ UNCHANGED execVars

ResetFailures(d) ==
  /\ exec[d].at = "reset"
  /\ endpoint' = [endpoint EXCEPT ![EndpointOf(d)].failures = 0]
  /\ Finish(d)
  /\ UNCHANGED <<row, due, faults>> /\ UNCHANGED history /\ UNCHANGED execVars

(* Variant: every failed attempt is counted, not every delivery given up.   *)
RecordFailureCounted(d) ==
  /\ exec[d].at = "failed"
  /\ Settle(d, IF exec[d].exhausted THEN "FAILED" ELSE "PENDING")
  /\ gaveUp' = IF exec[d].exhausted THEN gaveUp \cup {d} ELSE gaveUp
  /\ IF exec[d].exhausted
       THEN Goto(d, "count") /\ UNCHANGED <<job, endpoint>>
       ELSE /\ Throw(d)
            /\ endpoint' = [endpoint EXCEPT ![EndpointOf(d)].failures = @ + 1]
  /\ UNCHANGED <<received, refused, tries, faults>> /\ UNCHANGED execVars

(* Variant: the processor returns, and the retry is left to the sweeper.    *)
RecordFailureReturns(d) ==
  /\ exec[d].at = "failed"
  /\ Settle(d, IF exec[d].exhausted THEN "FAILED" ELSE "PENDING")
  /\ gaveUp' = IF exec[d].exhausted THEN gaveUp \cup {d} ELSE gaveUp
  /\ IF exec[d].exhausted THEN Goto(d, "count") /\ UNCHANGED job ELSE Finish(d)
  /\ UNCHANGED <<endpoint, received, refused, tries, faults>> /\ UNCHANGED execVars

(* recordWebhookFailure: the row is FAILED, or PENDING until the queue's    *)
(* next attempt, which the processor asks for by throwing.                  *)
RecordFailure(d) ==
  /\ exec[d].at = "failed"
  /\ Settle(d, IF exec[d].exhausted THEN "FAILED" ELSE "PENDING")
  /\ gaveUp' = IF exec[d].exhausted THEN gaveUp \cup {d} ELSE gaveUp
  /\ IF exec[d].exhausted THEN Goto(d, "count") /\ UNCHANGED job ELSE Throw(d)
  /\ UNCHANGED <<endpoint, received, refused, tries, faults>> /\ UNCHANGED execVars

(* Counting a failure of an endpoint that was deleted meanwhile throws.     *)
CountFailure(d) ==
  /\ exec[d].at = "count"
  /\ LET e == EndpointOf(d)  failures == endpoint[e].failures + 1
     IN  \/ /\ endpoint[e].state = "deleted"
            /\ Throw(d) /\ UNCHANGED endpoint
         \/ /\ endpoint[e].state # "deleted"
            /\ endpoint' = [endpoint EXCEPT ![e].failures = failures]
            /\ IF failures >= Threshold /\ endpoint[e].state = "live"
                 THEN Goto(d, "disable") /\ UNCHANGED job
                 ELSE Finish(d)
  /\ UNCHANGED <<row, due, faults>> /\ UNCHANGED history /\ UNCHANGED execVars

DisableEndpoint(d) ==
  /\ exec[d].at = "disable"
  /\ endpoint' = [endpoint EXCEPT ![EndpointOf(d)].state =
                    IF @ = "deleted" THEN "deleted" ELSE "disabled"]
  /\ Finish(d)
  /\ UNCHANGED <<row, due, faults>> /\ UNCHANGED history /\ UNCHANGED execVars

(* A database round trip of the processor throws.                           *)
JobError(d) ==
  /\ exec[d].at \in {"claim", "delivered", "reset", "failed", "count", "disable"}
  /\ Fault("db")
  /\ IF exec[d].at \in {"delivered", "reset"}
       THEN /\ exec' = [exec EXCEPT ![d] = [at |-> "failed", exhausted |-> IsFinalAttempt(d)]]
            /\ UNCHANGED job
       ELSE Throw(d)
  /\ UNCHANGED <<endpoint, row, due>> /\ UNCHANGED history /\ UNCHANGED execVars

-----------------------------------------------------------------------------
(* The tenant: replays a delivery, puts an endpoint back, or deletes it.    *)

tenantVars == <<exec, emitter, batch, faults>>

ReplayRow(d) ==
  /\ replays < MaxReplays /\ replays' = replays + 1
  /\ row[d] # "none"
  /\ row' = [row EXCEPT ![d] = "PENDING"]
  /\ due' = Append(DueWithout({d}), d)
  /\ replaying' = replaying \cup {d}
  /\ UNCHANGED <<endpoint, job>> /\ UNCHANGED history /\ UNCHANGED tenantVars

ReplayEnqueue(d) ==
  /\ d \in replaying
  /\ Enqueue({d})
  /\ replaying' = replaying \ {d}
  /\ UNCHANGED <<endpoint, row, due, replays>> /\ UNCHANGED history /\ UNCHANGED tenantVars

(* On an endpoint in rotation it clears the count of its failures.          *)
EnableEndpoint(e) ==
  /\ "enable" \in Operators
  /\ endpoint[e].state # "deleted"
  /\ endpoint' = [endpoint EXCEPT ![e] = [state |-> "live", failures |-> 0]]
  /\ UNCHANGED <<row, due, job, replaying, replays>> /\ UNCHANGED history /\ UNCHANGED tenantVars

(* Its deliveries go with it. *)
DeleteEndpoint(e) ==
  /\ "delete" \in Operators
  /\ endpoint[e].state # "deleted"
  /\ LET gone == {d \in Deliveries : EndpointOf(d) = e}
     IN  /\ row' = [d \in Deliveries |-> IF d \in gone THEN "none" ELSE row[d]]
         /\ due' = DueWithout(gone)
  /\ endpoint' = [endpoint EXCEPT ![e] = [state |-> "deleted", failures |-> 0]]
  /\ UNCHANGED <<job, replaying, replays>> /\ UNCHANGED history /\ UNCHANGED tenantVars

-----------------------------------------------------------------------------
Init ==
  /\ endpoint = [e \in Endpoints |-> [state |-> "live", failures |-> 0]]
  /\ row = [d \in Deliveries |-> "none"]
  /\ due = <<>> /\ batch = <<>> /\ replaying = {}
  /\ job = [d \in Deliveries |-> NoJob]
  /\ exec = [d \in Deliveries |-> Idle]
  /\ emitter = [ev \in Events |-> [at |-> "idle", todo |-> {}, created |-> {}]]
  /\ received = {} /\ refused = {} /\ gaveUp = {}
  /\ tries = [d \in Deliveries |-> 0]
  /\ replays = 0 /\ faults = 0

Emit(ev) == EmitList(ev) \/ EmitRow(ev) \/ EmitEnqueue(ev)

Sweep == SweepList \/ SweepEnqueue

ProcessJob(d) ==
  \/ Claim(d) \/ Post(d) \/ RecordSuccess(d) \/ ResetFailures(d)
  \/ RecordFailure(d) \/ CountFailure(d) \/ DisableEndpoint(d)

Next ==
  \/ \E ev \in Events : Emit(ev) \/ EmitterCrash(ev)
  \/ Sweep
  \/ \E d \in Deliveries :
       \/ ProcessJob(d) \/ JobError(d)
       \/ Deliver(d) \/ Backoff(d) \/ Evict(d) \/ LoseJob(d) \/ WorkerCrash(d)
       \/ FallDue(d) \/ Prune(d) \/ ReplayRow(d) \/ ReplayEnqueue(d)
  \/ \E e \in Endpoints : EnableEndpoint(e) \/ DeleteEndpoint(e)

Spec == Init /\ [][Next]_vars

(* The worker, the queue, the sweeper's timer, the clock and a request that *)
(* has begun go on. Nothing obliges a tenant to act, or an old job to be    *)
(* removed: that takes a thousand younger ones.                             *)
Fairness ==
  /\ \A ev \in Events : WF_vars(Emit(ev))
  /\ WF_vars(Sweep)
  /\ \A d \in Deliveries :
       /\ WF_vars(ProcessJob(d)) /\ WF_vars(Deliver(d)) /\ WF_vars(Backoff(d))
       /\ WF_vars(FallDue(d)) /\ WF_vars(ReplayEnqueue(d))

FairSpec == Spec /\ Fairness

-----------------------------------------------------------------------------
(* Types, and that the sweeper's list holds each PENDING row at most once   *)
(* and no other; a job never exceeds its attempts.                          *)
TypeOK ==
  /\ endpoint \in [Endpoints -> [state: {"live", "disabled", "deleted"}, failures: Nat]]
  /\ row \in [Deliveries -> {"none", "PENDING", "DELIVERED", "FAILED"}]
  /\ due \in Seq({d \in Deliveries : row[d] = "PENDING"})
  /\ \A i, j \in 1..Len(due) : due[i] = due[j] => i = j
  /\ job \in [Deliveries -> [state: {"absent", "waiting", "active", "delayed", "completed", "failed"},
                             made: 0..MaxAttempts, stalls: 0..(MaxStalls + 1)]]
  /\ exec \in [Deliveries -> [at: {"idle", "claim", "post", "delivered", "reset",
                                   "failed", "count", "disable"}, exhausted: BOOLEAN]]
  /\ emitter \in [Events -> [at: {"idle", "dispatch", "done", "aborted"},
                             todo: SUBSET Endpoints, created: SUBSET Endpoints]]
  /\ batch \in Seq(Deliveries)
  /\ replaying \subseteq Deliveries
  /\ received \subseteq Deliveries /\ refused \subseteq Deliveries /\ gaveUp \subseteq Deliveries
  /\ tries \in [Deliveries -> Nat]
  /\ replays \in 0..MaxReplays /\ faults \in 0..MaxFaults

(* The log never claims a delivery its receiver did not accept, whatever    *)
(* crashed, was redelivered or replayed in between.                         *)
DeliveredWasReceived == \A d \in Deliveries : row[d] = "DELIVERED" => d \in received

(* A delivery is given up only after the receiver refused it for good or    *)
(* the queue made every attempt; an attempt that a fault cut short before   *)
(* the request counts as one.                                               *)
GivesUpLast ==
  \A d \in gaveUp : d \in refused \/ tries[d] + faults >= MaxAttempts

(* An endpoint is charged one failure per delivery given up, never one per  *)
(* attempt (db/src/webhooks.ts, recordWebhookFailure): what disables it is  *)
(* that many different deliveries. Only a fault, whose job is redelivered   *)
(* or forgotten, can charge a delivery once more; a replay cannot.          *)
FailuresAreDeliveries ==
  \A e \in Endpoints :
    endpoint[e].failures <= Cardinality({d \in gaveUp : EndpointOf(d) = e}) + faults

(* The queue gave the job up: its worker died once more than BullMQ         *)
(* recovers a job from, or a statement of its last attempt failed. The row  *)
(* is PENDING and its job id taken, so that no sweep adds another job until *)
(* the failed one is evicted.                                               *)
Stranded(d) == row[d] = "PENDING" /\ job[d].state = "failed"

(* Every row reaches its outcome, unless its endpoint leaves the rotation   *)
(* or its job fails on the way (queue/src/webhooks.ts:36-38 says that none  *)
(* does): enqueues that fail, jobs that are lost or evicted, workers that   *)
(* die and statements that fail before that do not lose the event. Of rows  *)
(* that are not replayed and of endpoints that are not put back: the        *)
(* completed job of a delivery that is replayed holds its id, and the row   *)
(* waits until that job is evicted.                                         *)
OutboxDelivers ==
  \A d \in Deliveries :
    []<>(row[d] # "PENDING" \/ endpoint[EndpointOf(d)].state # "live" \/ Stranded(d))
=============================================================================
