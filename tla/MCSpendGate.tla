----------------------------- MODULE MCSpendGate -----------------------------
(* What may be spent, and who pays for it: the gate before a run, or the    *)
(* subscription behind a workspace, or one decision on a month's usage. An  *)
(* instance moves one of them and leaves the others where they start.       *)
EXTENDS SpendGate, Billing, TLC

VARIABLES part, ask

moneyVars == <<part, ask, vars, billingVars>>

NoAsk == CHOOSE ask0 \in Asks : TRUE

Quiet == clerkSub = [s \in Subs |-> [payer |-> Person, plan |-> "pro", status |-> "active",
                                     since |-> NoDate]] /\ joined = {}

MoneyInit ==
  /\ Init /\ BillingInit
  /\ \/ part = "gate" /\ Quiet /\ ask = NoAsk
     \/ part = "billing" /\ ask = NoAsk
     \/ part = "ask" /\ Quiet /\ ask \in Asks

MoneyNext ==
  \/ part = "gate" /\ Next /\ UNCHANGED <<part, ask, billingVars>>
  \/ part = "billing" /\ BillingNext /\ UNCHANGED <<part, ask, vars>>

MoneySpec == MoneyInit /\ [][MoneyNext]_moneyVars

(* StampFits for every decision (server/src/quota.ts, assertRunAllowed): a  *)
(* run may not spend more than its month has left, and never gets a ceiling *)
(* of zero, which would be none.                                            *)
StampFitsMonth == part = "ask" => StampFits(ask)

Symmetry == Permutations(Slots) \cup Permutations(Replicas)
=============================================================================
