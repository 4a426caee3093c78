------------------------------- MODULE Billing -------------------------------
(***************************************************************************)
(* Who pays for a workspace, and what it may do when nobody does. Clerk    *)
(* reports subscriptions and payments; each event is attributed to one     *)
(* workspace and applied to its Subscription row in several statements.    *)
(* A failed payment opens a window of grace in which nothing changes for   *)
(* the workspace; after it, the workspace is read-only.                    *)
(*                                                                         *)
(* Events arrive in any order, are handled side by side, and again when a  *)
(* handler failed. Clerk may move a subscription to another payer, and a   *)
(* payer may be a person instead of an organization.                       *)
(***************************************************************************)
EXTENDS Plans, FiniteSets, FiniteSetsExt

CONSTANTS Workspaces, Person, Subs,
          Grace,              \* config.billing.gracePeriodDays
          MaxDay,             \* days that pass
          MaxReports,         \* events Clerk sends
          MaxBillingFaults    \* handlers that fail

ASSUME BillingAssumption ==
  /\ Grace \in Nat /\ MaxDay \in Nat \ {0} /\ MaxReports \in Nat /\ MaxBillingFaults \in Nat
  /\ "nowhere" \notin Workspaces /\ "nobody" \notin Subs

VARIABLES
  clerkSub,     \* external: who pays each subscription, and how it stands
  joined,       \* the workspaces the person is a member of
  subscription, \* the Subscription rows
  report,       \* the events sent, with the state of their handler
  day,
  billingFaults

billingVars == <<clerkSub, joined, subscription, report, day, billingFaults>>

NoDate == 0
Nowhere == "nowhere"
Nobodys == "nobody"

(* An organization the mirror does not have, or not yet.                    *)
Unmirrored == "unmirrored"

Payers == Workspaces \cup {Person, Unmirrored}

(* What a workspace has when nobody ever billed it: there is no row.        *)
freeSubscription ==
  [plan |-> DEFAULT_PLAN_ID, status |-> "ACTIVE", grace |-> NoDate,
   customer |-> Nobodys, sub |-> Nobodys]

-----------------------------------------------------------------------------
(* What a row means.                                                        *)

withinGrace(row) == row.grace # NoDate /\ row.grace > day

resolveAccess(row) ==
  IF row.status \in {"ACTIVE", "TRIALING"} \/ (row.status = "PAST_DUE" /\ withinGrace(row))
  THEN "full" ELSE "read-only"

effectivePlan(row) == IF resolveAccess(row) = "full" THEN row.plan ELSE DEFAULT_PLAN_ID

loadBilling(w) ==
  [access |-> resolveAccess(subscription[w]), plan |-> effectivePlan(subscription[w])]

(* POST /runs, once the install's own budget has allowed it.                *)
assertRunAllowed(w, snapshot) ==
  LET billing == loadBilling(w) IN
  IF billing.access = "read-only" THEN "payment_required"
  ELSE IF ~quotaDecision(billing.plan, snapshot).allowed THEN "quota_exceeded"
  ELSE "allowed"

-----------------------------------------------------------------------------
(* Clerk.                                                                   *)

(* What an event says. A payment event knows neither plan nor subscription. *)
(* The workspaces it was ever attributed to are history.                    *)
Report(kind, s, status, date) ==
  report' = Append(report, [kind |-> kind, status |-> status, date |-> date,
                            payer |-> clerkSub[s].payer,
                            sub |-> IF kind = "subscription" THEN s ELSE Nobodys,
                            plan |-> IF kind = "subscription" THEN clerkSub[s].plan ELSE "unknown",
                            at |-> "idle", tenant |-> Nowhere, attributed |-> {}, idsAreOurs |-> TRUE,
                            grace |-> NoDate, begun |-> NoDate])

Reports == Len(report) < MaxReports /\ UNCHANGED <<joined, subscription, day, billingFaults>>

(* A payment that failed; the date may be missing.                          *)
ClerkChargeFails(s) ==
  /\ Reports
  /\ clerkSub' = [clerkSub EXCEPT ![s].status = "past_due", ![s].since = day]
  /\ \E date \in {day, NoDate} : Report("payment", s, "failed", date)

ClerkChargePays(s) ==
  /\ Reports
  /\ clerkSub' = [clerkSub EXCEPT ![s].status = "active"]
  /\ Report("payment", s, "paid", NoDate)

(* A subscription as it stands, under a status this build may not know.     *)
ClerkTellsSubscription(s) ==
  /\ Reports
  /\ \E status \in {clerkSub[s].status, "upcoming", "ended"} :
       Report("subscription", s, status,
              IF status = "past_due" THEN clerkSub[s].since ELSE NoDate)
  /\ UNCHANGED clerkSub

ClerkMovesSubscription(s) ==
  /\ Reports /\ UNCHANGED report
  /\ \E p \in Payers \ {clerkSub[s].payer} : clerkSub' = [clerkSub EXCEPT ![s].payer = p]

-----------------------------------------------------------------------------
(* The handler of one event.                                                *)

Reporting == 1..Len(report)

mapSubscriptionStatus(status) ==
  CASE status = "active" -> "ACTIVE"
    [] status = "past_due" -> "PAST_DUE"
    [] status \in {"canceled", "ended", "expired", "abandoned"} -> "CANCELED"
    [] OTHER -> "unchanged"

(* The plan a subscription's items name, or none of ours: the recorded one  *)
(* stays.                                                                   *)
planFromItems(e, recorded) == IF e.plan \in PlanIds THEN e.plan ELSE recorded

(* The rows either id is on. Each column is unique; the pair is not.        *)
findTenantIdForBillingCustomer(e) ==
  {w \in Workspaces : \/ subscription[w].customer = e.payer
                      \/ e.sub # Nobodys /\ subscription[w].sub = e.sub}

(* An organization is a workspace, if it is mirrored. A person stands for   *)
(* one only if it belongs to one. Otherwise the ids may say, if they were   *)
(* recorded.                                                                *)
resolveTenantId(e) ==
  IF e.payer \in Workspaces THEN {e.payer}
  ELSE IF e.payer = Person /\ Cardinality(joined) = 1 THEN joined
  ELSE LET found == findTenantIdForBillingCustomer(e)
       IN IF found = {} THEN {Nowhere} ELSE found

Step(i, fields) == report' = [report EXCEPT ![i] = fields]

Handling == UNCHANGED <<clerkSub, joined, day, billingFaults>>

(* A failure that does not say when it was counts from when it is handled.  *)
Undated(e) == e.status \in {"failed", "past_due"} /\ e.date = NoDate

(* Where an event begins: a charge in progress and an event nobody can      *)
(* attribute are answered at once.                                          *)
FirstPlace(e, w) ==
  IF w = Nowhere THEN "done"
  ELSE CASE e.kind = "subscription" -> "ids"
         [] e.status = "paid" -> "write"
         [] OTHER -> "existing"

Attribute(i) ==
  /\ report[i].at = "idle"
  /\ \E w \in resolveTenantId(report[i]) :
       Step(i, [report[i] EXCEPT !.tenant = w, !.attributed = @ \cup {w},
                                 !.begun = IF Undated(report[i]) THEN day ELSE NoDate,
                                 !.at = FirstPlace(report[i], w)])
  /\ UNCHANGED subscription /\ Handling

(* Ids that are another workspace's are left out of the row.                *)
ReadIdsOwner(i) ==
  LET e == report[i] found == findTenantIdForBillingCustomer(e) IN
  /\ e.at = "ids"
  /\ \E ours \in BOOLEAN :
       /\ IF ours THEN found = {} \/ e.tenant \in found ELSE found \ {e.tenant} # {}
       /\ Step(i, [e EXCEPT !.idsAreOurs = ours, !.at = "existing"])
  /\ UNCHANGED subscription /\ Handling

graceDeadline(failedAt) == failedAt + Grace

dateOr(e, now) == IF e.date = NoDate THEN now ELSE e.date

(* A window that every report of a failure opens anew.                      *)
graceOfEveryReport(e, existing) ==
  IF e.kind = "payment" \/ mapSubscriptionStatus(e.status) = "PAST_DUE"
  THEN graceDeadline(day) ELSE NoDate

(* The window an event leaves the row with, from the row it read.           *)
graceOf(e, existing) ==
  LET opens == e.kind = "payment" \/ mapSubscriptionStatus(e.status) = "PAST_DUE"
  IN IF ~opens THEN NoDate
     ELSE IF existing.status = "PAST_DUE" /\ existing.grace # NoDate THEN existing.grace
     ELSE graceDeadline(dateOr(e, e.begun))

ReadExisting(i) ==
  LET e == report[i] IN
  /\ e.at = "existing"
  /\ Step(i, [e EXCEPT !.grace = graceOf(e, subscription[e.tenant]), !.at = "write"])
  /\ UNCHANGED subscription /\ Handling

(* The upsert: what the event did not establish is left alone.              *)
applySubscriptionEvent(e, row) ==
  LET status == mapSubscriptionStatus(e.status) IN
  [row EXCEPT !.plan = planFromItems(e, row.plan),
              !.status = IF status = "unchanged" THEN row.status ELSE status,
              !.grace = IF status = "unchanged" THEN row.grace ELSE e.grace,
              !.customer = IF e.idsAreOurs THEN e.payer ELSE row.customer,
              !.sub = IF e.idsAreOurs THEN e.sub ELSE row.sub]

applyPaymentAttemptEvent(e, row) ==
  IF e.status = "paid" THEN [row EXCEPT !.status = "ACTIVE", !.grace = NoDate]
  ELSE [row EXCEPT !.status = "PAST_DUE", !.grace = e.grace]

applyBillingEvent(e, row) ==
  IF e.kind = "subscription" THEN applySubscriptionEvent(e, row)
  ELSE applyPaymentAttemptEvent(e, row)

(* The two ids are unique columns: an upsert that would repeat one throws,  *)
(* the claim on the event is released, and it comes again.                  *)
upsertSubscription(i) ==
  LET e == report[i]
      row == applyBillingEvent(e, subscription[e.tenant])
      taken == \E w \in Workspaces \ {e.tenant} :
                 \/ row.customer # Nobodys /\ subscription[w].customer = row.customer
                 \/ row.sub # Nobodys /\ subscription[w].sub = row.sub
  IN /\ e.at = "write"
     /\ \/ /\ ~taken
           /\ subscription' = [subscription EXCEPT ![e.tenant] = row]
           /\ Step(i, [e EXCEPT !.at = "done", !.idsAreOurs = TRUE, !.grace = NoDate])
        \/ /\ taken
           /\ Step(i, [e EXCEPT !.at = "idle", !.idsAreOurs = TRUE, !.grace = NoDate])
           /\ UNCHANGED subscription
     /\ Handling

(* A handler that failed before its write, or whose write was committed and *)
(* not confirmed: the event is handled once more.                           *)
HandlerRepeats(i) ==
  /\ billingFaults < MaxBillingFaults /\ billingFaults' = billingFaults + 1
  /\ report[i].at # "idle" /\ report[i].tenant # Nowhere
  /\ Step(i, [report[i] EXCEPT !.at = "idle", !.idsAreOurs = TRUE, !.grace = NoDate])
  /\ UNCHANGED <<clerkSub, joined, subscription, day>>

NextDay ==
  /\ day < MaxDay /\ day' = day + 1
  /\ UNCHANGED <<clerkSub, joined, subscription, report, billingFaults>>

(* ensureUnmeteredPlan: the seed of the install's own workspace.            *)
ensureUnmeteredPlan(w) ==
  /\ subscription[w] = freeSubscription
  /\ day = 1 /\ report = <<>>
  /\ subscription' = [subscription EXCEPT ![w].plan = "enterprise"]
  /\ UNCHANGED report /\ Handling

-----------------------------------------------------------------------------
BillingInit ==
  /\ clerkSub \in [Subs -> [payer: Payers, plan: {"pro"}, status: {"active"}, since: {NoDate}]]
  /\ joined \in SUBSET Workspaces
  /\ subscription = [w \in Workspaces |-> freeSubscription]
  /\ report = <<>> /\ day = 1 /\ billingFaults = 0

BillingNext ==
  \/ \E s \in Subs : \/ ClerkChargeFails(s) \/ ClerkChargePays(s)
                     \/ ClerkTellsSubscription(s) \/ ClerkMovesSubscription(s)
  \/ \E i \in Reporting : \/ Attribute(i) \/ ReadIdsOwner(i) \/ ReadExisting(i)
                          \/ upsertSubscription(i) \/ HandlerRepeats(i)
  \/ NextDay
  \/ \E w \in Workspaces : ensureUnmeteredPlan(w)

BillingSpec == BillingInit /\ [][BillingNext]_billingVars

-----------------------------------------------------------------------------
(* Types, and that a row has a window exactly when it is past due.          *)
BillingTypeOK ==
  /\ subscription \in [Workspaces -> [plan: PlanIds, status: {"ACTIVE", "PAST_DUE", "CANCELED"},
                                      grace: Nat, customer: Payers \cup {Nobodys},
                                      sub: Subs \cup {Nobodys}]]
  /\ \A w \in Workspaces : subscription[w].status = "PAST_DUE" <=> subscription[w].grace # NoDate
  /\ joined \subseteq Workspaces
  /\ \A i \in Reporting : report[i].at \in {"idle", "ids", "existing", "write", "done"}
  /\ day \in 1..MaxDay /\ billingFaults \in 0..MaxBillingFaults

(* The events that reported a failure of a workspace, those included that   *)
(* are another's by now. One without a date counts from when it was handled.*)
failuresOf(w) ==
  {i \in Reporting : w \in report[i].attributed /\ report[i].status \in {"failed", "past_due"}}

failedOn(e) == dateOr(e, e.begun)

(* Grace ends: a workspace that is past due, and whose failures were all    *)
(* reported for a day longer ago than the window, starts no run, whatever   *)
(* came late, twice, side by side or in the wrong order in between.         *)
DunningEnds ==
  \A w \in Workspaces :
    /\ subscription[w].status = "PAST_DUE"
    /\ \A i \in failuresOf(w) : failedOn(report[i]) + Grace <= day
    => \A snapshot \in {[l \in {QUOTA_LIMITS[i] : i \in 1..4} |-> 0]} :
         assertRunAllowed(w, snapshot) = "payment_required"
=============================================================================
