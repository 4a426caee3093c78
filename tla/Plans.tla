--------------------------------- MODULE Plans ---------------------------------
(***************************************************************************)
(* The price list and the monthly limits, as the data and the pure         *)
(* functions the API decides with: which plan grants what, which ceiling a *)
(* tenant has reached, and what a run may still spend of the month. Money  *)
(* is in cents here, in millionths of a cent in the code.                  *)
(***************************************************************************)
EXTENDS Integers, Sequences, SequencesExt

PLAN_IDS == <<"free", "pro", "team", "enterprise">>
PlanIds == {PLAN_IDS[i] : i \in 1..4}

QUOTA_LIMITS == <<"monthly_runs", "monthly_tokens", "monthly_cost", "concurrent_runs">>

(* The most permissive ceiling is none at all, never zero.                  *)
Unlimited == -1

PLANS ==
  [free |-> [limits |-> [monthly_runs |-> 50, monthly_tokens |-> 500000,
                         monthly_cost |-> 500, concurrent_runs |-> 1],
             features |-> {}],
   pro |-> [limits |-> [monthly_runs |-> 1000, monthly_tokens |-> 20000000,
                        monthly_cost |-> 10000, concurrent_runs |-> 5],
            features |-> {"panel.custom", "api.keys", "usage.daily"}],
   team |-> [limits |-> [monthly_runs |-> 10000, monthly_tokens |-> 200000000,
                         monthly_cost |-> 100000, concurrent_runs |-> 20],
             features |-> {"panel.custom", "api.keys", "usage.daily", "webhooks",
                           "priority.queue"}],
   enterprise |-> [limits |-> [monthly_runs |-> Unlimited, monthly_tokens |-> Unlimited,
                               monthly_cost |-> Unlimited, concurrent_runs |-> 100],
                   features |-> {"panel.custom", "api.keys", "usage.daily", "webhooks",
                                 "priority.queue"}]]

DEFAULT_PLAN_ID == "free"

hasEntitlement(plan, feature) == feature \in PLANS[plan].features

planRank(plan) == CHOOSE i \in 1..4 : PLAN_IDS[i] = plan

nextPlanUp(plan) == IF planRank(plan) = 4 THEN "none" ELSE PLAN_IDS[planRank(plan) + 1]

(* One limit and the tenant's position against it, for every limit in the   *)
(* order they are judged. The concurrent runs reset with a run, not a month.*)
quotaStatuses(plan, snapshot) ==
  [i \in 1..4 |->
     LET limit == QUOTA_LIMITS[i]
         ceiling == PLANS[plan].limits[limit]
         used == snapshot[limit]
     IN [limit |-> limit, used |-> used, ceiling |-> ceiling,
         remaining |-> IF ceiling = Unlimited THEN Unlimited
                       ELSE IF used > ceiling THEN 0 ELSE ceiling - used,
         resets |-> limit # "concurrent_runs"]]

reached(status) == status.ceiling # Unlimited /\ status.used >= status.ceiling

(* The first limit that is reached, or none.                                *)
quotaDecision(plan, snapshot) ==
  LET statuses == quotaStatuses(plan, snapshot)
      first == SelectInSeq(statuses, reached)
  IN IF first = 0 THEN [allowed |-> TRUE]
     ELSE [allowed |-> FALSE, violation |-> statuses[first], upgradeTo |-> nextPlanUp(plan)]

(* Seconds to wait, of those left in the month.                             *)
retryAfterSeconds(violation, secondsLeft) ==
  IF ~violation.resets THEN 30 ELSE IF secondsLeft < 1 THEN 1 ELSE secondsLeft

(* A run's configured ceiling, narrowed to what the month has left. Zero is *)
(* no ceiling to the worker.                                                *)
narrowCeilingTakesLess(configured, remaining) ==
  IF remaining = Unlimited \/ configured < remaining THEN configured ELSE remaining

narrowCeiling(configured, remaining) ==
  IF remaining = Unlimited THEN configured
  ELSE LET left == IF remaining < 1 THEN 1 ELSE remaining
       IN IF configured = 0 \/ left < configured THEN left ELSE configured

remainingOf(plan, snapshot, limit) ==
  LET ceiling == PLANS[plan].limits[limit]
  IN IF ceiling = Unlimited THEN Unlimited ELSE ceiling - snapshot[limit]

-----------------------------------------------------------------------------
(* What a run is asked with: a plan, usage around every ceiling, and the    *)
(* configured ceilings.                                                     *)
Around(limit) ==
  {0, 1} \cup UNION {{c - 1, c, c + 1} :
                       c \in {PLANS[p].limits[limit] : p \in PlanIds} \ {Unlimited}}

Asks ==
  [plan: PlanIds, configured: {0, 1, 600000},
   snapshot: [monthly_runs: {0, 49, 50}, monthly_tokens: Around("monthly_tokens"),
              monthly_cost: Around("monthly_cost"), concurrent_runs: {0, 1, 100}]]

(* A run that is allowed is stamped with ceilings the worker enforces, that *)
(* fit in what is left of the month and are never zero, which the worker    *)
(* reads as none; a refusal names a limit that was reached, and no earlier  *)
(* one was.                                                                 *)
StampFits(ask) ==
  LET decision == quotaDecision(ask.plan, ask.snapshot) IN
  IF decision.allowed
  THEN \A limit \in {"monthly_tokens", "monthly_cost"} :
         LET left == remainingOf(ask.plan, ask.snapshot, limit)
             stamp == narrowCeiling(ask.configured, left)
         IN IF left = Unlimited THEN stamp = ask.configured ELSE stamp \in 1..left
  ELSE /\ reached(decision.violation)
       /\ \A i \in 1..4 :
            reached(quotaStatuses(ask.plan, ask.snapshot)[i]) =>
              \E j \in 1..i : QUOTA_LIMITS[j] = decision.violation.limit
=============================================================================
