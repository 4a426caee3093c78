------------------------------- MODULE Receivers -------------------------------
(***************************************************************************)
(* The far end of outbound webhooks. A workspace registers endpoints of    *)
(* one receiver and deletes them, which is how a secret is rotated; the    *)
(* job that ends a run mints an event and addresses it to every endpoint   *)
(* that subscribes to its type; each delivery is signed with its           *)
(* endpoint's secret when it is attempted, and the receiver verifies it,   *)
(* handles it or recognises it. The queue of deliveries, its retry limits  *)
(* and disabled endpoints are in WebhookOutbox; here any delivery that is  *)
(* pending may be attempted.                                               *)
(*                                                                         *)
(* An event's id is its number. An endpoint's secret is its own, so the    *)
(* receiver's secrets are the endpoints it knows.                          *)
(***************************************************************************)
EXTENDS Integers, Sequences, FiniteSets

CONSTANTS
  Endpoints, Runs,
  MaxCrashes,     \* bound on the workers that die
  MaxPosts        \* bound on the requests under way at once

ASSUME ReceiversAssumption == MaxCrashes \in Nat /\ MaxPosts \in Nat

VARIABLES
  status,      \* the runs' rows
  synthesis,   \* the job of each run
  crashes,
  minted,      \* the events, in the order of their ids
  endpoint,    \* what each subscribes to; nothing when it is not registered
  deleted,
  dispatch,    \* the status of the rows, by endpoint and event
  posts,       \* requests under way, and whether their worker still waits
  receiver,    \* the secrets it holds, the events it has handled
  told,        \* how often each run's end was handled (history, never read)
  expected     \* the endpoints each end was of interest to (history, never read)

receiversVars == <<status, synthesis, crashes, minted, endpoint, deleted, dispatch, posts, receiver,
                   told, expected>>
runSide == <<status, synthesis, crashes, minted, expected>>
farSide == <<posts, receiver, told>>

-----------------------------------------------------------------------------
webhookEventType == {"run.completed", "run.failed"}

RunEnds == {"COMPLETE", "FAILED", "CANCELED"}

(* A cancellation is not an event. *)
typeOf(end) == CASE end = "COMPLETE" -> {"run.completed"} [] end = "FAILED" -> {"run.failed"}
                 [] OTHER -> {}

subscribed(type) == {e \in Endpoints : type \in endpoint[e]}

-----------------------------------------------------------------------------
(* Endpoints. *)

(* No list of types is all of them. *)
createWebhookEndpoint(e) ==
  /\ endpoint[e] = {} /\ e \notin deleted
  /\ \E types \in SUBSET webhookEventType :
       endpoint' = [endpoint EXCEPT ![e] = IF types = {} THEN webhookEventType ELSE types]
  /\ UNCHANGED <<deleted, dispatch>> /\ UNCHANGED runSide /\ UNCHANGED farSide

(* Its rows go with it. *)
deleteWebhookEndpoint(e) ==
  /\ endpoint[e] # {}
  /\ endpoint' = [endpoint EXCEPT ![e] = {}]
  /\ deleted' = deleted \cup {e}
  /\ dispatch' = [k \in {d \in DOMAIN dispatch : d[1] # e} |-> dispatch[k]]
  /\ UNCHANGED runSide /\ UNCHANGED farSide

(* The secret was shown when the endpoint was created; the receiver is      *)
(* given it beside the old one, or in its place.                            *)
Configure(e) ==
  /\ endpoint[e] # {}
  /\ receiver' \in {[receiver EXCEPT !.secrets = @ \cup {e}], [receiver EXCEPT !.secrets = {e}]}
  /\ UNCHANGED <<endpoint, deleted, dispatch, posts, told>> /\ UNCHANGED runSide

-----------------------------------------------------------------------------
(* The end of a run. *)

endpointRest == <<endpoint, deleted>>

Ends(r, end) ==
  /\ status' = [status EXCEPT ![r] = end]
  /\ expected' = [expected EXCEPT ![r] = UNION {subscribed(type) : type \in typeOf(end)}]

(* A run that is over is left alone. *)
processSynthesisJob(r) ==
  /\ synthesis[r] = "waiting"
  /\ IF status[r] \in RunEnds
     THEN synthesis' = [synthesis EXCEPT ![r] = "done"] /\ UNCHANGED <<status, expected>>
     ELSE \/ /\ \E end \in {"COMPLETE", "FAILED"} : Ends(r, end)
             /\ synthesis' = [synthesis EXCEPT ![r] = "announce"]
          \/ synthesis' = [synthesis EXCEPT ![r] = "done"] /\ Ends(r, "CANCELED")
  /\ UNCHANGED <<crashes, minted, dispatch>> /\ UNCHANGED endpointRest /\ UNCHANGED farSide

(* reapOnce, startRun, cancelRun: others that end a run.                    *)
EndsElsewhere(r) ==
  /\ status[r] \notin RunEnds
  /\ \E end \in {"FAILED", "CANCELED"} : Ends(r, end)
  /\ UNCHANGED <<synthesis, crashes, minted, dispatch>> /\ UNCHANGED endpointRest /\ UNCHANGED farSide

WorkerDies(r) ==
  /\ synthesis[r] = "announce" /\ crashes < MaxCrashes /\ crashes' = crashes + 1
  /\ synthesis' = [synthesis EXCEPT ![r] = "waiting"]
  /\ UNCHANGED <<status, minted, expected, dispatch>> /\ UNCHANGED endpointRest /\ UNCHANGED farSide

(* Variant: the event of each endpoint has an id of its own.                *)
announceEach(r) ==
  /\ synthesis[r] = "announce"
  /\ \E order \in [1..Cardinality(UNION {subscribed(type) : type \in typeOf(status[r])}) ->
                     UNION {subscribed(type) : type \in typeOf(status[r])}] :
       /\ \A i, j \in DOMAIN order : order[i] = order[j] => i = j
       /\ minted' = minted \o [i \in DOMAIN order |-> r]
       /\ dispatch' = [d \in DOMAIN dispatch \cup {<<order[i], Len(minted) + i>> : i \in DOMAIN order} |->
                         IF d \in DOMAIN dispatch THEN dispatch[d] ELSE "PENDING"]
  /\ synthesis' = [synthesis EXCEPT ![r] = "done"]
  /\ UNCHANGED <<status, crashes, expected>> /\ UNCHANGED endpointRest /\ UNCHANGED farSide

(* announce, dispatchWebhookEvent: the run is read again, an id minted, and *)
(* a row written for each endpoint that subscribes now.                     *)
announce(r) ==
  LET id == Len(minted) + 1
      rows == UNION {{<<e, id>> : e \in subscribed(type)} : type \in typeOf(status[r])}
  IN /\ synthesis[r] = "announce"
     /\ minted' = Append(minted, r)
     /\ dispatch' = [d \in DOMAIN dispatch \cup rows |-> IF d \in rows THEN "PENDING" ELSE dispatch[d]]
     /\ synthesis' = [synthesis EXCEPT ![r] = "done"]
     /\ UNCHANGED <<status, crashes, expected>> /\ UNCHANGED endpointRest /\ UNCHANGED farSide

-----------------------------------------------------------------------------
(* Deliveries. *)

(* The attempt is dated and signed now. *)
processWebhookJob(d) ==
  /\ dispatch[d] = "PENDING" /\ Cardinality(posts) < MaxPosts
  /\ ~\E p \in posts : p.of = d /\ p.awaited
  /\ posts' = posts \cup {[of |-> d, awaited |-> TRUE, stale |-> FALSE]}
  /\ UNCHANGED <<dispatch, receiver, told>> /\ UNCHANGED endpointRest /\ UNCHANGED runSide

(* What the worker records. A row that is gone stays gone.                  *)
Recorded(p, outcome) ==
  dispatch' = IF p.awaited /\ p.of \in DOMAIN dispatch THEN [dispatch EXCEPT ![p.of] = outcome] ELSE dispatch

(* No answer in time: another attempt, or the last one failed. The request  *)
(* may yet arrive, after a while as a stale one.                            *)
AttemptTimesOut(p) ==
  /\ p.awaited
  /\ \E outcome \in {"PENDING", "FAILED"} : Recorded(p, outcome)
  /\ posts' \in {posts \ {p}, (posts \ {p}) \cup {[p EXCEPT !.awaited = FALSE]}}
  /\ UNCHANGED <<receiver, told>> /\ UNCHANGED endpointRest /\ UNCHANGED runSide

GrowsStale(p) ==
  /\ ~p.awaited /\ ~p.stale
  /\ posts' = (posts \ {p}) \cup {[p EXCEPT !.stale = TRUE]}
  /\ UNCHANGED <<dispatch, receiver, told>> /\ UNCHANGED endpointRest /\ UNCHANGED runSide

verifyWebhookSignature(p) == ~p.stale /\ p.of[1] \in receiver.secrets

(* Refused with 400, which is final. *)
Refuses(p) ==
  /\ ~verifyWebhookSignature(p)
  /\ Recorded(p, "FAILED") /\ posts' = posts \ {p}
  /\ UNCHANGED <<receiver, told>> /\ UNCHANGED endpointRest /\ UNCHANGED runSide

(* Handled once; acknowledged either way, or the answer is lost.            *)
Accepts(p) ==
  LET id == p.of[2]
  IN /\ verifyWebhookSignature(p)
     /\ receiver' = [receiver EXCEPT !.handled = @ \cup {id}]
     /\ told' = IF id \in receiver.handled THEN told ELSE [told EXCEPT ![minted[id]] = @ + 1]
     /\ \E outcome \in {"DELIVERED", "PENDING"} : Recorded(p, outcome)
     /\ posts' = posts \ {p}
     /\ UNCHANGED endpointRest /\ UNCHANGED runSide

(* The row starts again; its event stays what it was.                       *)
replayWebhookDelivery(d) ==
  /\ dispatch[d] # "PENDING"
  /\ dispatch' = [dispatch EXCEPT ![d] = "PENDING"]
  /\ UNCHANGED endpointRest /\ UNCHANGED runSide /\ UNCHANGED farSide

-----------------------------------------------------------------------------
ReceiversInit ==
  /\ status = [r \in Runs |-> "SYNTHESIZING"] /\ synthesis = [r \in Runs |-> "waiting"]
  /\ crashes = 0 /\ minted = <<>>
  /\ endpoint = [e \in Endpoints |-> {}] /\ deleted = {}
  /\ dispatch = << >> /\ posts = {}
  /\ receiver = [secrets |-> {}, handled |-> {}]
  /\ told = [r \in Runs |-> 0] /\ expected = [r \in Runs |-> {}]

ReceiversNext ==
  \/ \E e \in Endpoints : createWebhookEndpoint(e) \/ deleteWebhookEndpoint(e) \/ Configure(e)
  \/ \E r \in Runs : processSynthesisJob(r) \/ EndsElsewhere(r) \/ WorkerDies(r) \/ announce(r)
  \/ \E d \in DOMAIN dispatch : processWebhookJob(d) \/ replayWebhookDelivery(d)
  \/ \E p \in posts : AttemptTimesOut(p) \/ GrowsStale(p) \/ Refuses(p) \/ Accepts(p)

ReceiversSpec == ReceiversInit /\ [][ReceiversNext]_receiversVars

(* The queue goes on: every job is taken, and taken up again.               *)
ReceiversFairSpec ==
  ReceiversSpec /\ \A r \in Runs : WF_receiversVars(processSynthesisJob(r) \/ announce(r))

ReceiversTypeOK ==
  /\ status \in [Runs -> {"SYNTHESIZING"} \cup RunEnds]
  /\ synthesis \in [Runs -> {"waiting", "announce", "done"}] /\ crashes \in 0..MaxCrashes
  /\ minted \in Seq(Runs) /\ endpoint \in [Endpoints -> SUBSET webhookEventType]
  /\ DOMAIN dispatch \subseteq (Endpoints \ deleted) \X (1..Len(minted))
  /\ \A d \in DOMAIN dispatch : dispatch[d] \in {"PENDING", "DELIVERED", "FAILED"}
  /\ posts \subseteq [of : Endpoints \X (1..Len(minted)), awaited : BOOLEAN, stale : BOOLEAN]
  /\ receiver.secrets \subseteq Endpoints /\ receiver.handled \subseteq 1..Len(minted)

(* However deliveries are retried, replayed, delayed past an answer that    *)
(* was lost or addressed to an old and a new endpoint of the same receiver, *)
(* and whichever worker died, a receiver that deduplicates on the event's   *)
(* id handles the end of a run once (sdk/examples/webhook-receiver.ts, "The *)
(* id is stable across every retry and across an operator's replay").       *)
HandledOnce == \A r \in Runs : told[r] <= 1

Addressed(r, e) == \E d \in DOMAIN dispatch : d[1] = e /\ minted[d[2]] = r

(* The end a worker gave a run and is about to announce is addressed to     *)
(* every endpoint that subscribes to it and is kept (shared/src/webhook.ts: *)
(* "run.completed", "A run reached COMPLETE"). It is not when the worker    *)
(* dies in between. (What the reaper or the API fails nobody announces.)    *)
EndsAreAnnounced ==
  \A r \in Runs, e \in Endpoints :
    (synthesis[r] = "announce" /\ e \in expected[r]) ~> (e \in deleted \/ Addressed(r, e))
=============================================================================
