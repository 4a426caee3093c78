----------------------------- MODULE MCDeliveries -----------------------------
(* What the installation and others tell each other: the webhooks it sends, *)
(* the ones Clerk sends it, or the contract of its API. The three share no  *)
(* state, so an instance moves one of them and leaves the others where they *)
(* start.                                                                   *)
EXTENDS WebhookOutbox, IdentitySync, ApiCompat, TLC

VARIABLE part

deliveriesVars == <<part, vars, identityVars, apiVars>>

DeliveriesInit ==
  /\ part \in {"out", "in", "contract"} /\ Init /\ IdentityInit /\ ApiInit
  /\ part # "contract" => onMain = {}

DeliveriesNext ==
  \/ part = "out" /\ Next /\ UNCHANGED <<part, identityVars, apiVars>>
  \/ part = "in" /\ IdentityNext /\ UNCHANGED <<part, vars, apiVars>>
  \/ part = "contract" /\ ApiNext /\ UNCHANGED <<part, vars, identityVars>>

(* Fairness and IdentityFairness, each of the part that moves.              *)
DeliveriesFairness ==
  /\ \A ev \in Events : WF_vars(part = "out" /\ Emit(ev))
  /\ WF_vars(part = "out" /\ Sweep)
  /\ \A d \in Deliveries :
       /\ WF_vars(part = "out" /\ ProcessJob(d)) /\ WF_vars(part = "out" /\ Deliver(d))
       /\ WF_vars(part = "out" /\ Backoff(d)) /\ WF_vars(part = "out" /\ FallDue(d))
       /\ WF_vars(part = "out" /\ ReplayEnqueue(d))
  /\ \A i \in 1..MaxChanges :
       WF_identityVars(part = "in" /\ i \in Handlers /\ (ClaimDelivery(i) \/ apply(i)))
  /\ WF_identityVars(part = "in" /\ Reconcile)

DeliveriesSpec ==
  DeliveriesInit /\ [][DeliveriesNext]_deliveriesVars /\ DeliveriesFairness
=============================================================================
