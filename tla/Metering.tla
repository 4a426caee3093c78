------------------------------- MODULE Metering -------------------------------
(***************************************************************************)
(* What was spent, and the report of it. Every call of a model leaves a    *)
(* UsageRecord, dated when it is inserted. Each worker process, and an     *)
(* operator's command, recompute the UsageDaily rows of yesterday and      *)
(* today from the records, line by line; the dashboard reads those rows.   *)
(*                                                                         *)
(* A line is a tenant and a model. What a record costs is one unit; a row  *)
(* of zero and no row are the same to a reader. Days are counted from the  *)
(* first.                                                                  *)
(***************************************************************************)
EXTENDS Integers, FiniteSets, FiniteSetsExt

CONSTANTS Tenants, Models,
          Sweepers,       \* worker processes, and `sce-admin rollup`
          DefaultDays,    \* USAGE_DAILY_DEFAULT_DAYS
          MaxDays,        \* USAGE_DAILY_MAX_DAYS
          LastDay,        \* bound on the days
          MaxRecords,     \* bound on the records
          MaxSweepFaults  \* bound on the sweeps that fail

ASSUME MeteringAssumption ==
  /\ IsFiniteSet(Tenants) /\ IsFiniteSet(Models)
  /\ DefaultDays \in Nat \ {0} /\ MaxDays \in Nat \ {0}
  /\ LastDay \in Nat /\ MaxRecords \in Nat /\ MaxSweepFaults \in Nat

VARIABLES
  today,
  records,      \* the records of each line and day, summed
  daily,        \* UsageDaily
  sweep,        \* the sweep each sweeper is in
  sweepFaults

meteringVars == <<today, records, daily, sweep, sweepFaults>>

Lines == Tenants \X Models
Days == 0..LastDay

NoSums == [l \in Lines |-> 0]

Resting == [at |-> "rest", days |-> {}, day |-> 0, groups |-> NoSums, todo |-> {}]

(* The units of the sums of some tenants and days, each a record or a part  *)
(* of a row.                                                                *)
Units(sums, tenants, days) ==
  UNION {{where} \X (1..sums[where[1]][where[2]]) : where \in (tenants \X Models) \X days}

Total(sums, tenants, days) == Cardinality(Units(sums, tenants, days))

-----------------------------------------------------------------------------
meterCall(l) ==
  /\ Total(records, Tenants, Days) < MaxRecords
  /\ records' = [records EXCEPT ![l][today] = @ + 1]
  /\ UNCHANGED <<today, daily, sweep, sweepFaults>>

Midnight ==
  /\ today < LastDay
  /\ today' = today + 1
  /\ UNCHANGED <<records, daily, sweep, sweepFaults>>

(* Variant: a day is sealed when it ends.                                   *)
rolledDaysSealed == {today}

rolledDays == {today - 1, today} \cap Days

(* A process never starts a sweep while one of its own is under way.        *)
rollupOnce(s) ==
  /\ sweep[s].at = "rest"
  /\ sweep' = [sweep EXCEPT ![s] = [Resting EXCEPT !.at = "group", !.days = rolledDays]]
  /\ UNCHANGED <<today, records, daily, sweepFaults>>

(* One day, the earlier first: its records are summed ...                   *)
RollupGroups(s) ==
  /\ sweep[s].at = "group"
  /\ LET day == Min(sweep[s].days)
         groups == [l \in Lines |-> records[l][day]]
     IN sweep' = [sweep EXCEPT ![s].at = "write", ![s].day = day, ![s].groups = groups,
                               ![s].todo = {l \in Lines : groups[l] > 0}]
  /\ UNCHANGED <<today, records, daily, sweepFaults>>

(* ... and written one line at a time ...                                   *)
RollupWrite(s, l) ==
  /\ sweep[s].at = "write" /\ l \in sweep[s].todo
  /\ daily' = [daily EXCEPT ![l][sweep[s].day] = sweep[s].groups[l]]
  /\ sweep' = [sweep EXCEPT ![s].todo = @ \ {l}]
  /\ UNCHANGED <<today, records, sweepFaults>>

NextDay(s) ==
  IF sweep[s].days = {sweep[s].day} THEN Resting
  ELSE [sweep[s] EXCEPT !.at = "group", !.days = @ \ {sweep[s].day}]

(* ... then the day's rows are listed, and those of lines that had no       *)
(* record when they were summed are set to zero.                            *)
RollupOrphans(s) ==
  /\ sweep[s].at = "write" /\ sweep[s].todo = {}
  /\ LET orphans == {l \in Lines : daily[l][sweep[s].day] > 0 /\ sweep[s].groups[l] = 0}
     IN sweep' = [sweep EXCEPT ![s] = IF orphans = {} THEN NextDay(s)
                                      ELSE [@ EXCEPT !.at = "zero", !.todo = orphans]]
  /\ UNCHANGED <<today, records, daily, sweepFaults>>

RollupZero(s, l) ==
  /\ sweep[s].at = "zero" /\ l \in sweep[s].todo
  /\ daily' = [daily EXCEPT ![l][sweep[s].day] = 0]
  /\ sweep' = [sweep EXCEPT ![s] = IF sweep[s].todo = {l} THEN NextDay(s)
                                   ELSE [sweep[s] EXCEPT !.todo = @ \ {l}]]
  /\ UNCHANGED <<today, records, sweepFaults>>

rollupUsage(s) ==
  \/ RollupGroups(s) \/ RollupOrphans(s)
  \/ \E l \in Lines : RollupWrite(s, l) \/ RollupZero(s, l)

(* A statement fails, or the process ends.                                  *)
RollupFails(s) ==
  /\ sweep[s].at # "rest" /\ sweepFaults < MaxSweepFaults
  /\ sweep' = [sweep EXCEPT ![s] = Resting]
  /\ sweepFaults' = sweepFaults + 1
  /\ UNCHANGED <<today, records, daily>>

-----------------------------------------------------------------------------
(* GET /usage/daily. A bound that is not given is -1.                       *)
resolveWindow(from, to) ==
  LET end == IF to = -1 THEN today ELSE to
      asked == IF from = -1 THEN end - (DefaultDays - 1) ELSE from
      earliest == end - (MaxDays - 1)
      start == IF asked < earliest THEN earliest ELSE asked
  IN [from |-> IF start > end THEN end ELSE start, to |-> end]

listUsageDaily(tenant, window) == Total(daily, {tenant}, (window.from .. window.to) \cap Days)

spendByTenant(tenant, window) == Total(records, {tenant}, (window.from .. window.to) \cap Days)

-----------------------------------------------------------------------------
MeteringInit ==
  /\ today = 0
  /\ records = [l \in Lines |-> [d \in Days |-> 0]]
  /\ daily = records
  /\ sweep = [s \in Sweepers |-> Resting]
  /\ sweepFaults = 0

MeteringNext ==
  \/ Midnight
  \/ \E l \in Lines : meterCall(l)
  \/ \E s \in Sweepers : rollupOnce(s) \/ rollupUsage(s) \/ RollupFails(s)

(* A sweep that began goes on, and the interval starts another after it.    *)
MeteringFairness ==
  \A s \in Sweepers : WF_meteringVars(rollupUsage(s)) /\ WF_meteringVars(rollupOnce(s))

MeteringSpec == MeteringInit /\ [][MeteringNext]_meteringVars /\ MeteringFairness

MeteringTypeOK ==
  /\ today \in Days
  /\ records \in [Lines -> [Days -> 0..MaxRecords]] /\ daily \in [Lines -> [Days -> 0..MaxRecords]]
  /\ sweep \in [Sweepers -> [at: {"rest", "group", "write", "zero"}, days: SUBSET Days,
                             day: Days, groups: [Lines -> 0..MaxRecords], todo: SUBSET Lines]]
  /\ sweepFaults \in 0..MaxSweepFaults

(* Whatever sweeps run together, fail half way or run across midnight, the  *)
(* dashboard never shows more than the records say (db/src/metering.ts:     *)
(* retried and repeated sweeps "converge on the same numbers instead of     *)
(* each adding their own copy"), over a window that ends where the caller   *)
(* asked, is never empty, and is never wider than the maximum.              *)
ReportsUnderstate ==
  \A tenant \in Tenants : \A from, to \in Days \cup {-1} :
    LET window == resolveWindow(from, to)
    IN /\ listUsageDaily(tenant, window) <= spendByTenant(tenant, window)
       /\ window.to - window.from \in 0..(MaxDays - 1)
       /\ to # -1 => window.to = to

(* Once no more is spent, the rows of today and yesterday come to agree     *)
(* with the records and stay so, although a slow sweep may put an older sum *)
(* back or zero a row it did not know (worker/src/rollup.ts, "self-         *)
(* healing"). Needs every sweep to go on and another to follow it.          *)
RollupConverges ==
  <>[](\A l \in Lines : \A d \in {today - 1, today} \cap Days : daily[l][d] = records[l][d])

(* The rollup while it runs and once it is quiet (db/src/metering.ts).      *)
RollupHolds == []ReportsUnderstate /\ RollupConverges
=============================================================================
