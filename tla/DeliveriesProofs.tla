--------------------------- MODULE DeliveriesProofs ---------------------------
(****************************************************************************)
(* The safety properties of WebhookOutbox, for any endpoints, events,       *)
(* attempts and threshold, and any number of faults and replays; those of   *)
(* IdentitySync, for any organizations, people, keys, changes and faults;   *)
(* and that of ApiCompat, for any operations, properties, enums and edits.  *)
(*                                                                          *)
(* The worker and the queue agree on which job is active, so an execution   *)
(* can be related to the attempts its job has made: each was posted, or     *)
(* cut short by a fault. The failures charged to an endpoint balance: what  *)
(* was charged and what can still be charged, together, are no more than    *)
(* the deliveries given up and the faults. The mirror of Clerk is stated    *)
(* field by field: what a row, an event and the nightly run may hold. The   *)
(* gate's findings are related to what callers send and read by a witness.  *)
(****************************************************************************)
EXTENDS WebhookOutbox, IdentitySync, ApiCompat, FiniteSetTheorems, TLAPS

USE OutboxAssumption

Jobs == [state: {"absent", "waiting", "active", "delayed", "completed", "failed"},
         made: 0..MaxAttempts, stalls: 0..(MaxStalls + 1)]

Executions == [at: {"idle", "claim", "post", "delivered", "reset", "failed", "count", "disable"},
               exhausted: BOOLEAN]

Pending == {d \in Deliveries : row[d] = "PENDING"}

(* The worker executes the job that is active, and the queue keeps no job   *)
(* past its last attempt or its last stall.                                 *)
JobInv(d) ==
  /\ exec[d].at # "idle" <=> job[d].state = "active"
  /\ job[d].state \in {"waiting", "active", "delayed"} =>
       job[d].made < MaxAttempts /\ job[d].stalls <= MaxStalls

(* What the log and the processor hold of the receiver's answers.           *)
AnswerInv(d) ==
  /\ row[d] = "DELIVERED" \/ exec[d].at = "delivered" => d \in received
  /\ exec[d].at = "failed" /\ exec[d].exhausted => d \in refused \/ IsFinalAttempt(d)
  /\ exec[d].at \in {"count", "disable"} => d \in gaveUp

(* An attempt the queue counted was posted, or cut short by a fault.        *)
AttemptInv(d) ==
  /\ job[d].made <= tries[d] + faults
  /\ exec[d].at \in {"delivered", "reset", "failed", "count", "disable"} =>
       job[d].made + 1 <= tries[d] + faults
  /\ d \in gaveUp => d \in refused \/ tries[d] + faults >= MaxAttempts

(* The deliveries to e that were given up, and those of them that may yet   *)
(* be charged to it: their job can still run, and has not just charged it.  *)
GivenUp(e) == {d \in gaveUp : EndpointOf(d) = e}

Chargeable(d) == job[d].state \notin {"completed", "failed"} /\ exec[d].at # "disable"

Uncharged(e) == {d \in GivenUp(e) : Chargeable(d)}

(* A delivery that can be charged again was made so by a fault.             *)
ChargeInv(e) ==
  endpoint[e].failures + Cardinality(Uncharged(e)) <= Cardinality(GivenUp(e)) + faults

(* An emitter creates each row once: a row that exists is not on its list.  *)
EmitInv(ev) ==
  /\ \A e \in Endpoints : row[<<e, ev>>] # "none" => e \in emitter[ev].created
  /\ emitter[ev].todo \cap emitter[ev].created = {}
  /\ emitter[ev].at = "idle" => emitter[ev].created = {}

(* What holds of each delivery, and of all.                                 *)
DeliveryInv(d) == JobInv(d) /\ AnswerInv(d) /\ AttemptInv(d)

(* No row is twice in a list. *)
Distinct(s) == \A i, j \in 1..Len(s) : s[i] = s[j] => i = j

-----------------------------------------------------------------------------
(* DueWithout drops the rows that are gone and keeps the others, each once. *)
(* The place of a row among those kept is a bijection, by counting.         *)
LEMMA DueWithoutKeeps ==
  ASSUME NEW S, due \in Seq(S), Distinct(due), NEW gone
  PROVE  DueWithout(gone) \in Seq(S \ gone) /\ Distinct(DueWithout(gone))
  <1>. DEFINE kept == {i \in 1..Len(due) : due[i] \notin gone}
              upTo(i) == {j \in kept : j <= i}
              n == Cardinality(kept)
              place == [i \in kept |-> Cardinality(upTo(i))]
              chosen(k) == CHOOSE i \in kept : Cardinality({j \in kept : j <= i}) = k
  <1>1. Len(due) \in Nat /\ \A i \in 1..Len(due) : due[i] \in S
    OBVIOUS
  <1>2. IsFiniteSet(kept) /\ n \in Nat
    <2>1. IsFiniteSet(1..Len(due)) /\ kept \in SUBSET (1..Len(due))
      BY <1>1, FS_Interval
    <2>2. IsFiniteSet(kept)
      BY <2>1, FS_Subset
    <2>. QED  BY <2>2, FS_CardinalityType
  <1>3. \A i \in kept : IsFiniteSet(upTo(i)) /\ place[i] \in 1..n
    <2>. SUFFICES ASSUME NEW i \in kept PROVE IsFiniteSet(upTo(i)) /\ place[i] \in 1..n
      OBVIOUS
    <2>1. IsFiniteSet(upTo(i)) /\ Cardinality(upTo(i)) <= n /\ Cardinality(upTo(i)) \in Nat
      BY <1>2, FS_Subset, FS_CardinalityType
    <2>2. i \in upTo(i)
      BY <1>1
    <2>3. Cardinality(upTo(i)) # 0
      BY <2>1, <2>2, FS_EmptySet
    <2>. QED  BY <1>2, <2>1, <2>3
  <1>4. ASSUME NEW i \in kept, NEW j \in kept, i < j
        PROVE  place[i] # place[j]
    <2>1. upTo(i) \in SUBSET upTo(j) /\ j \in upTo(j) /\ j \notin upTo(i)
      BY <1>1, <1>4
    <2>2. Cardinality(upTo(i)) # Cardinality(upTo(j))
      BY <1>3, <2>1, FS_Subset
    <2>. QED  BY <2>2
  <1>5. place \in Injection(kept, 1..n)
    <2>1. place \in [kept -> 1..n]
      BY <1>3
    <2>2. \A i, j \in kept : i # j => place[i] # place[j]
      <3>. SUFFICES ASSUME NEW i \in kept, NEW j \in kept, i # j PROVE place[i] # place[j]
        OBVIOUS
      <3>1. i < j \/ j < i
        BY <1>1
      <3>. QED  BY <1>4, <3>1
    <2>. HIDE DEF place
    <2>. QED  BY <2>1, <2>2 DEF Injection, IsInjective
  <1>6. place \in Surjection(kept, 1..n)
    BY <1>2, <1>5, FS_Injection, FS_Interval
  <1>7. \A k \in 1..n : chosen(k) \in kept /\ place[chosen(k)] = k
    <2>. SUFFICES ASSUME NEW k \in 1..n PROVE chosen(k) \in kept /\ place[chosen(k)] = k
      OBVIOUS
    <2>1. \E i \in kept : Cardinality({j \in kept : j <= i}) = k
      BY <1>6 DEF Surjection
    <2>2. chosen(k) \in kept /\ Cardinality({j \in kept : j <= chosen(k)}) = k
      BY <2>1
    <2>. QED  BY <2>2
  <1>8. DueWithout(gone) = [k \in 1..n |-> due[chosen(k)]]
    BY DEF DueWithout
  <1>. HIDE DEF n, place, chosen
  <1>9. \A k \in 1..n : chosen(k) \in 1..Len(due) /\ due[chosen(k)] \in S \ gone
    BY <1>1, <1>7
  <1>10. DueWithout(gone) \in Seq(S \ gone) /\ Len(DueWithout(gone)) = n
    BY <1>2, <1>8, <1>9
  <1>11. \A k, l \in 1..n : due[chosen(k)] = due[chosen(l)] => k = l
    <2>1. \A k, l \in 1..n : due[chosen(k)] = due[chosen(l)] => chosen(k) = chosen(l)
      BY <1>9 DEF Distinct
    <2>. QED  BY <1>7, <2>1
  <1>12. Distinct(DueWithout(gone))
    BY <1>8, <1>10, <1>11 DEF Distinct
  <1>. QED  BY <1>10, <1>12

(* TypeOK, with its parts named.                                            *)
LEMMA Types ==
  TypeOK <=>
    /\ endpoint \in [Endpoints -> [state: {"live", "disabled", "deleted"}, failures: Nat]]
    /\ row \in [Deliveries -> {"none", "PENDING", "DELIVERED", "FAILED"}]
    /\ due \in Seq(Pending) /\ Distinct(due)
    /\ job \in [Deliveries -> Jobs] /\ exec \in [Deliveries -> Executions]
    /\ emitter \in [Events -> [at: {"idle", "dispatch", "done", "aborted"},
                               todo: SUBSET Endpoints, created: SUBSET Endpoints]]
    /\ batch \in Seq(Deliveries)
    /\ replaying \subseteq Deliveries
    /\ received \subseteq Deliveries /\ refused \subseteq Deliveries /\ gaveUp \subseteq Deliveries
    /\ tries \in [Deliveries -> Nat]
    /\ replays \in 0..MaxReplays /\ faults \in 0..MaxFaults
BY DEF TypeOK, Jobs, Executions, Pending, Distinct

(* A processor that goes on, returns or throws, and the job with it.        *)
LEMMA ProcessorMoves ==
  ASSUME TypeOK, NEW d \in Deliveries, JobInv(d), exec[d].at # "idle",
         \/ Finish(d) \/ Throw(d)
         \/ /\ UNCHANGED job
            /\ \E y \in Executions : y.at # "idle" /\ exec' = [exec EXCEPT ![d] = y]
  PROVE  /\ job' \in [Deliveries -> Jobs] /\ exec' \in [Deliveries -> Executions]
         /\ \A c \in Deliveries : c # d => job'[c] = job[c] /\ exec'[c] = exec[c]
         /\ JobInv(d)'
  <1>. /\ job \in [Deliveries -> Jobs] /\ exec \in [Deliveries -> Executions]
       /\ job[d] \in Jobs /\ exec[d] \in Executions
    BY Types
  <1>. USE DEF JobInv, Jobs, Executions, Idle
  <1>1. CASE Finish(d)
    BY <1>1 DEF Finish
  <1>2. CASE Throw(d)
    BY <1>2 DEF Throw, IsFinalAttempt
  <1>3. CASE UNCHANGED job /\ \E y \in Executions : y.at # "idle" /\ exec' = [exec EXCEPT ![d] = y]
    BY <1>3
  <1>. QED  BY <1>1, <1>2, <1>3

(* What a step of the processor does to its job and its execution.          *)
LEMMA ProcessorSteps ==
  ASSUME TypeOK, NEW d \in Deliveries, ProcessJob(d) \/ JobError(d)
  PROVE  /\ exec[d].at # "idle"
         /\ \/ Finish(d) \/ Throw(d)
            \/ /\ UNCHANGED job
               /\ \E y \in Executions : y.at # "idle" /\ exec' = [exec EXCEPT ![d] = y]
  <1>. exec \in [Deliveries -> Executions] /\ exec[d] \in Executions
    BY Types
  <1>1. ASSUME NEW step \in {"post", "delivered", "reset", "count", "disable"}, Goto(d, step)
        PROVE  \E y \in Executions : y.at # "idle" /\ exec' = [exec EXCEPT ![d] = y]
    <2>. DEFINE y == [exec[d] EXCEPT !.at = step]
    <2>1. y \in Executions /\ y.at # "idle"
      BY DEF Executions
    <2>2. exec' = [exec EXCEPT ![d] = y]
      BY <1>1 DEF Goto
    <2>. QED  BY <2>1, <2>2
  <1>2. \A ex \in BOOLEAN : /\ [at |-> "failed", exhausted |-> ex] \in Executions
                             /\ [at |-> "failed", exhausted |-> ex].at # "idle"
    BY DEF Executions
  <1>3. IsFinalAttempt(d) \in BOOLEAN
    BY DEF IsFinalAttempt
  <1>4. CASE Claim(d)
    BY <1>1, <1>4 DEF Claim
  <1>5. CASE Post(d)
    BY <1>1, <1>2, <1>3, <1>5 DEF Post
  <1>6. CASE RecordSuccess(d) \/ ResetFailures(d) \/ RecordFailure(d) \/ DisableEndpoint(d)
    BY <1>1, <1>6 DEF RecordSuccess, ResetFailures, RecordFailure, DisableEndpoint
  <1>7. CASE CountFailure(d)
    BY <1>1, <1>7 DEF CountFailure
  <1>8. CASE JobError(d)
    BY <1>2, <1>3, <1>8 DEF JobError
  <1>. QED  BY <1>4, <1>5, <1>6, <1>7, <1>8 DEF ProcessJob

(* What a step of the queue does to one job.                                *)
LEMMA JobSteps ==
  ASSUME TypeOK, NEW d \in Deliveries, JobInv(d),
         \/ ProcessJob(d) \/ JobError(d)
         \/ Deliver(d) \/ Backoff(d) \/ Evict(d) \/ LoseJob(d) \/ WorkerCrash(d)
  PROVE  /\ job' \in [Deliveries -> Jobs] /\ exec' \in [Deliveries -> Executions]
         /\ \A c \in Deliveries : c # d => job'[c] = job[c] /\ exec'[c] = exec[c]
         /\ JobInv(d)'
  <1>1. CASE ProcessJob(d) \/ JobError(d)
    BY <1>1, ProcessorSteps, ProcessorMoves
  <1>. /\ job \in [Deliveries -> Jobs] /\ exec \in [Deliveries -> Executions]
       /\ job[d] \in Jobs /\ exec[d] \in Executions
    BY Types
  <1>. USE DEF JobInv, Jobs, Executions, Idle, NoJob
  <1>2. CASE Deliver(d)
    BY <1>2 DEF Deliver, Goto
  <1>3. CASE Backoff(d)
    BY <1>3 DEF Backoff
  <1>4. CASE Evict(d)
    BY <1>4 DEF Evict
  <1>5. CASE LoseJob(d)
    BY <1>5 DEF LoseJob
  <1>6. CASE WorkerCrash(d)
    BY <1>6 DEF WorkerCrash
  <1>. QED  BY <1>1, <1>2, <1>3, <1>4, <1>5, <1>6

(* Enqueueing adds jobs that wait, under ids the queue does not hold.       *)
LEMMA EnqueueSteps ==
  ASSUME TypeOK, NEW S, Enqueue(S)
  PROVE  /\ job' \in [Deliveries -> Jobs]
         /\ \A c \in Deliveries : \/ job'[c] = job[c]
                                 \/ /\ job[c].state = "absent"
                                    /\ job'[c] = [state |-> "waiting", made |-> 0, stalls |-> 0]
  <1>1. [NoJob EXCEPT !.state = "waiting"] = [state |-> "waiting", made |-> 0, stalls |-> 0]
    BY DEF NoJob
  <1>2. [state |-> "waiting", made |-> 0, stalls |-> 0] \in Jobs
    BY DEF Jobs
  <1>. QED  BY <1>1, <1>2, Types DEF Enqueue

-----------------------------------------------------------------------------
(* The rows and the sweeper's list.                                         *)

(* A list of such rows is a list of any rows that include them.             *)
LEMMA SeqMonotone ==
  ASSUME NEW S, NEW T, S \subseteq T, NEW s \in Seq(S)
  PROVE  s \in Seq(T)
OBVIOUS

(* A row that joins the list, at its end.                                   *)
LEMMA AppendKeeps ==
  ASSUME NEW S, NEW s \in Seq(S), Distinct(s), NEW d, \A i \in 1..Len(s) : s[i] # d
  PROVE  Append(s, d) \in Seq(S \cup {d}) /\ Distinct(Append(s, d))
  <1>1. Append(s, d) \in Seq(S \cup {d}) /\ Len(Append(s, d)) = Len(s) + 1
    OBVIOUS
  <1>2. \A i \in 1..Len(Append(s, d)) :
          Append(s, d)[i] = IF i \in 1..Len(s) THEN s[i] ELSE d
    OBVIOUS
  <1>. QED  BY <1>1, <1>2 DEF Distinct

(* The list holds the PENDING rows that are due, each once, after any step. *)
LEMMA RowSteps ==
  ASSUME TypeOK, \A ev \in Events : EmitInv(ev), Next
  PROVE  /\ row' \in [Deliveries -> {"none", "PENDING", "DELIVERED", "FAILED"}]
         /\ due' \in Seq(Pending') /\ Distinct(due')
  <1>. /\ row \in [Deliveries -> {"none", "PENDING", "DELIVERED", "FAILED"}]
       /\ due \in Seq(Pending) /\ Distinct(due) /\ Pending \subseteq Deliveries
    BY Types DEF Pending
  <1>0. CASE UNCHANGED <<row, due>>
    BY <1>0 DEF Pending
  <1>1. ASSUME NEW d \in Deliveries, NEW status \in {"PENDING", "DELIVERED", "FAILED"}, Settle(d, status)
        PROVE  /\ row' \in [Deliveries -> {"none", "PENDING", "DELIVERED", "FAILED"}]
               /\ due' \in Seq(Pending') /\ Distinct(due')
    <2>1. Pending \ {d} \subseteq Pending' /\ row' \in [Deliveries -> {"none", "PENDING", "DELIVERED", "FAILED"}]
      BY <1>1 DEF Settle, Pending
    <2>2. due' \in Seq(Pending \ {d}) /\ Distinct(due')
      BY <1>1, DueWithoutKeeps DEF Settle
    <2>. QED  BY <2>1, <2>2, SeqMonotone
  <1>2. ASSUME NEW ev \in Events, EmitRow(ev)
        PROVE  /\ row' \in [Deliveries -> {"none", "PENDING", "DELIVERED", "FAILED"}]
               /\ due' \in Seq(Pending') /\ Distinct(due')
    <2>. SUFFICES ASSUME NEW e \in emitter[ev].todo,
                         row' = [row EXCEPT ![<<e, ev>>] = "PENDING"], due' = Append(due, <<e, ev>>)
                  PROVE  /\ row' \in [Deliveries -> {"none", "PENDING", "DELIVERED", "FAILED"}]
                         /\ due' \in Seq(Pending') /\ Distinct(due')
      BY <1>0, <1>2 DEF EmitRow
    <2>1. e \in Endpoints /\ <<e, ev>> \in Deliveries /\ row[<<e, ev>>] = "none"
      BY Types DEF EmitInv, Deliveries
    <2>2. \A i \in 1..Len(due) : due[i] \in Pending
      OBVIOUS
    <2>3. \A i \in 1..Len(due) : due[i] # <<e, ev>>
      BY <2>1, <2>2 DEF Pending
    <2>4. Append(due, <<e, ev>>) \in Seq(Pending \cup {<<e, ev>>}) /\ Distinct(Append(due, <<e, ev>>))
      BY <2>3, AppendKeeps
    <2>5. Pending \cup {<<e, ev>>} \subseteq Pending'
      BY <2>1 DEF Pending
    <2>6. row' \in [Deliveries -> {"none", "PENDING", "DELIVERED", "FAILED"}]
      BY <2>1
    <2>. QED  BY <2>4, <2>5, <2>6, SeqMonotone
  <1>3. ASSUME NEW d \in Deliveries, FallDue(d)
        PROVE  due' \in Seq(Pending') /\ Distinct(due')
    <2>1. d \in Pending /\ Pending' = Pending
      BY <1>3 DEF FallDue, sweepVars, Pending
    <2>2. Append(due, d) \in Seq(Pending \cup {d}) /\ Distinct(Append(due, d))
      BY <1>3, AppendKeeps DEF FallDue
    <2>. QED  BY <1>3, <2>1, <2>2, SeqMonotone DEF FallDue
  <1>4. ASSUME NEW d \in Deliveries, Prune(d)
        PROVE  /\ row' \in [Deliveries -> {"none", "PENDING", "DELIVERED", "FAILED"}]
               /\ due' \in Seq(Pending') /\ Distinct(due')
    <2>1. Pending \subseteq Pending'
      BY <1>4 DEF Prune, Pending
    <2>. QED  BY <1>4, <2>1, SeqMonotone DEF Prune
  <1>5. ASSUME NEW d \in Deliveries, ReplayRow(d)
        PROVE  /\ row' \in [Deliveries -> {"none", "PENDING", "DELIVERED", "FAILED"}]
               /\ due' \in Seq(Pending') /\ Distinct(due')
    <2>1. DueWithout({d}) \in Seq(Pending \ {d}) /\ Distinct(DueWithout({d}))
      BY DueWithoutKeeps
    <2>2. \A i \in 1..Len(DueWithout({d})) : DueWithout({d})[i] # d
      BY <2>1
    <2>3. (Pending \ {d}) \cup {d} \subseteq Pending'
      BY <1>5 DEF ReplayRow, Pending
    <2>4. due' \in Seq((Pending \ {d}) \cup {d}) /\ Distinct(due')
      BY <1>5, <2>1, <2>2, AppendKeeps DEF ReplayRow
    <2>5. row' \in [Deliveries -> {"none", "PENDING", "DELIVERED", "FAILED"}]
      BY <1>5 DEF ReplayRow
    <2>. QED  BY <2>3, <2>4, <2>5, SeqMonotone
  <1>6. ASSUME NEW e \in Endpoints, DeleteEndpoint(e)
        PROVE  /\ row' \in [Deliveries -> {"none", "PENDING", "DELIVERED", "FAILED"}]
               /\ due' \in Seq(Pending') /\ Distinct(due')
    <2>. DEFINE gone == {d \in Deliveries : EndpointOf(d) = e}
    <2>1. Pending \ gone \subseteq Pending'
      BY <1>6 DEF DeleteEndpoint, Pending
    <2>2. due' = DueWithout(gone)
      BY <1>6 DEF DeleteEndpoint
    <2>3. row' \in [Deliveries -> {"none", "PENDING", "DELIVERED", "FAILED"}]
      BY <1>6 DEF DeleteEndpoint
    <2>. HIDE DEF gone
    <2>4. due' \in Seq(Pending \ gone) /\ Distinct(due')
      BY <2>2, DueWithoutKeeps
    <2>. QED  BY <2>1, <2>3, <2>4, SeqMonotone
  <1>7. ASSUME NEW d \in Deliveries, ProcessJob(d) \/ JobError(d) \/ Deliver(d) \/ Backoff(d)
                                     \/ Evict(d) \/ LoseJob(d) \/ WorkerCrash(d)
        PROVE  \/ UNCHANGED <<row, due>>
               \/ \E status \in {"PENDING", "DELIVERED", "FAILED"} : Settle(d, status)
    BY <1>7 DEF ProcessJob, Claim, Post, RecordSuccess, ResetFailures, RecordFailure, CountFailure,
                DisableEndpoint, JobError, Deliver, Backoff, Evict, LoseJob, WorkerCrash, queueVars
  <1>8. ASSUME NEW ev \in Events, EmitList(ev) \/ EmitEnqueue(ev) \/ EmitterCrash(ev)
        PROVE  UNCHANGED <<row, due>>
    BY <1>8 DEF EmitList, EmitEnqueue, EmitterCrash
  <1>9. ASSUME Sweep PROVE UNCHANGED <<row, due>>
    BY <1>9 DEF Sweep, SweepList, SweepEnqueue, sweepVars
  <1>10. ASSUME NEW d \in Deliveries, ReplayEnqueue(d) PROVE UNCHANGED <<row, due>>
    BY <1>10 DEF ReplayEnqueue
  <1>11. ASSUME NEW e \in Endpoints, EnableEndpoint(e) PROVE UNCHANGED <<row, due>>
    BY <1>11 DEF EnableEndpoint
  <1>12. ASSUME NEW d \in Deliveries, FallDue(d) PROVE UNCHANGED row
    BY <1>12 DEF FallDue, sweepVars
  <1>. QED  BY <1>0, <1>1, <1>2, <1>3, <1>4, <1>5, <1>6, <1>7, <1>8, <1>9, <1>10, <1>11, <1>12 DEF Next, Emit

-----------------------------------------------------------------------------
(* The types of the rest, action by action.                                 *)

Steps(d) ==
  \/ ProcessJob(d) \/ JobError(d)
  \/ Deliver(d) \/ Backoff(d) \/ Evict(d) \/ LoseJob(d) \/ WorkerCrash(d)

(* What each kind of step leaves alone.                                     *)
LEMMA Frames ==
  ASSUME TypeOK, Next
  PROVE  /\ faults' \in 0..MaxFaults /\ faults <= faults'
         /\ \/ /\ \E d \in Deliveries : Steps(d)
               /\ UNCHANGED <<emitter, batch, replaying, replays>>
            \/ /\ (UNCHANGED job \/ \E S : Enqueue(S))
               /\ UNCHANGED <<exec, received, refused, gaveUp, tries>>
               /\ faults' = faults \/ faults' = faults + 1
  <1>. faults \in 0..MaxFaults /\ MaxFaults \in Nat
    BY Types
  <1>1. ASSUME NEW kind, Fault(kind) PROVE faults' \in 0..MaxFaults /\ faults <= faults'
    BY <1>1 DEF Fault
  <1>2. ASSUME NEW ev \in Events, Emit(ev) \/ EmitterCrash(ev)
        PROVE  /\ UNCHANGED faults \/ \E kind \in FaultKinds : Fault(kind)
               /\ UNCHANGED job \/ \E S : Enqueue(S)
               /\ UNCHANGED <<exec, received, refused, gaveUp, tries>>
    BY <1>2 DEF Emit, EmitList, EmitRow, EmitEnqueue, EmitterCrash, emitterVars, history, FaultKinds
  <1>3. ASSUME Sweep
        PROVE  /\ UNCHANGED faults \/ \E kind \in FaultKinds : Fault(kind)
               /\ UNCHANGED job \/ \E S : Enqueue(S)
               /\ UNCHANGED <<exec, received, refused, gaveUp, tries>>
    BY <1>3 DEF Sweep, SweepList, SweepEnqueue, sweepVars, history, FaultKinds
  <1>4. ASSUME NEW d \in Deliveries, FallDue(d) \/ Prune(d) \/ ReplayRow(d) \/ ReplayEnqueue(d)
        PROVE  /\ UNCHANGED faults
               /\ UNCHANGED job \/ \E S : Enqueue(S)
               /\ UNCHANGED <<exec, received, refused, gaveUp, tries>>
    BY <1>4 DEF FallDue, Prune, ReplayRow, ReplayEnqueue, sweepVars, tenantVars, history
  <1>5. ASSUME NEW e \in Endpoints, EnableEndpoint(e) \/ DeleteEndpoint(e)
        PROVE  UNCHANGED <<job, exec, received, refused, gaveUp, tries, faults>>
    BY <1>5 DEF EnableEndpoint, DeleteEndpoint, tenantVars, history
  <1>6. ASSUME NEW d \in Deliveries, Steps(d)
        PROVE  /\ UNCHANGED faults \/ \E kind \in FaultKinds : Fault(kind)
               /\ UNCHANGED <<emitter, batch, replaying, replays>>
    BY <1>6 DEF Steps, ProcessJob, Claim, Post, RecordSuccess, ResetFailures, RecordFailure, CountFailure,
                DisableEndpoint, JobError, Deliver, Backoff, Evict, LoseJob, WorkerCrash,
                execVars, queueVars, FaultKinds
  <1>7. \/ \E d \in Deliveries : Steps(d)
        \/ \E ev \in Events : Emit(ev) \/ EmitterCrash(ev)
        \/ Sweep
        \/ \E d \in Deliveries : FallDue(d) \/ Prune(d) \/ ReplayRow(d) \/ ReplayEnqueue(d)
        \/ \E e \in Endpoints : EnableEndpoint(e) \/ DeleteEndpoint(e)
    BY DEF Next, Steps
  <1>8. \A kind : Fault(kind) => faults' = faults + 1
    BY DEF Fault
  <1>. QED  BY <1>1, <1>2, <1>3, <1>4, <1>5, <1>6, <1>7, <1>8

(* An endpoint's state and count, which a processor or the tenant writes.   *)
LEMMA EndpointTypes ==
  ASSUME TypeOK, Next
  PROVE  endpoint' \in [Endpoints -> [state: {"live", "disabled", "deleted"}, failures: Nat]]
  <1>. endpoint \in [Endpoints -> [state: {"live", "disabled", "deleted"}, failures: Nat]]
    BY Types
  <1>0. CASE UNCHANGED endpoint
    BY <1>0
  <1>1. ASSUME NEW d \in Deliveries, ProcessJob(d)
        PROVE  endpoint' \in [Endpoints -> [state: {"live", "disabled", "deleted"}, failures: Nat]]
    <2>1. EndpointOf(d) \in Endpoints
      BY DEF Deliveries, EndpointOf
    <2>2. CASE ResetFailures(d)
      BY <2>1, <2>2 DEF ResetFailures
    <2>3. CASE CountFailure(d)
      BY <2>1, <2>3 DEF CountFailure
    <2>4. CASE DisableEndpoint(d)
      BY <2>1, <2>4 DEF DisableEndpoint
    <2>5. CASE Claim(d) \/ Post(d) \/ RecordSuccess(d) \/ RecordFailure(d)
      BY <2>5 DEF Claim, Post, RecordSuccess, RecordFailure
    <2>. QED  BY <1>1, <2>2, <2>3, <2>4, <2>5 DEF ProcessJob
  <1>2. ASSUME NEW e \in Endpoints, EnableEndpoint(e) \/ DeleteEndpoint(e)
        PROVE  endpoint' \in [Endpoints -> [state: {"live", "disabled", "deleted"}, failures: Nat]]
    BY <1>2 DEF EnableEndpoint, DeleteEndpoint
  <1>3. \/ UNCHANGED endpoint
        \/ \E d \in Deliveries : ProcessJob(d)
        \/ \E e \in Endpoints : EnableEndpoint(e) \/ DeleteEndpoint(e)
    BY DEF Next, Emit, EmitList, EmitRow, EmitEnqueue, EmitterCrash, emitterVars, Sweep, SweepList, SweepEnqueue,
           JobError, Deliver, Backoff, Evict, LoseJob, WorkerCrash, queueVars,
           FallDue, sweepVars, Prune, ReplayRow, ReplayEnqueue
  <1>. QED  BY <1>0, <1>1, <1>2, <1>3

(* The emitters, and that each creates a row once.                          *)
LEMMA EmitterTypes ==
  ASSUME TypeOK, Next, \A ev \in Events : EmitInv(ev)
  PROVE  /\ emitter' \in [Events -> [at: {"idle", "dispatch", "done", "aborted"},
                                   todo: SUBSET Endpoints, created: SUBSET Endpoints]]
         /\ \A ev \in Events : EmitInv(ev)'
  <1>. /\ emitter \in [Events -> [at: {"idle", "dispatch", "done", "aborted"},
                                 todo: SUBSET Endpoints, created: SUBSET Endpoints]]
       /\ row \in [Deliveries -> {"none", "PENDING", "DELIVERED", "FAILED"}]
       /\ \A e \in Endpoints, ev \in Events : <<e, ev>> \in Deliveries
    BY Types DEF Deliveries
  <1>1. CASE UNCHANGED emitter /\ \A d \in Deliveries : row'[d] # "none" => row[d] # "none"
    BY <1>1 DEF EmitInv
  <1>2. ASSUME NEW v \in Events, EmitList(v) \/ EmitEnqueue(v) \/ EmitterCrash(v)
        PROVE  /\ emitter' \in [Events -> [at: {"idle", "dispatch", "done", "aborted"},
                                         todo: SUBSET Endpoints, created: SUBSET Endpoints]]
               /\ \A ev \in Events : EmitInv(ev)'
    <2>. row' = row
      BY <1>2 DEF EmitList, EmitEnqueue, EmitterCrash
    <2>1. CASE EmitList(v)
      <3>. DEFINE live == {e \in Endpoints : endpoint[e].state = "live"}
                  x == [emitter[v] EXCEPT !.at = "dispatch", !.todo = live]
      <3>1. emitter' = [emitter EXCEPT ![v] = x] /\ emitter[v].at = "idle"
        BY <2>1 DEF EmitList
      <3>2. /\ x \in [at: {"idle", "dispatch", "done", "aborted"},
                      todo: SUBSET Endpoints, created: SUBSET Endpoints]
            /\ x.created = emitter[v].created /\ x.at = "dispatch"
            /\ x.todo \cap emitter[v].created = {}
        <4>1. emitter[v] \in [at: {"idle", "dispatch", "done", "aborted"},
                              todo: SUBSET Endpoints, created: SUBSET Endpoints]
          OBVIOUS
        <4>2. emitter[v].created = {}
          BY <3>1 DEF EmitInv
        <4>3. live \in SUBSET Endpoints
          OBVIOUS
        <4>. HIDE DEF live
        <4>. QED  BY <4>1, <4>2, <4>3
      <3>. HIDE DEF x
      <3>. QED  BY <3>1, <3>2 DEF EmitInv
    <2>2. CASE EmitEnqueue(v) \/ EmitterCrash(v)
      <3>1. \E at \in {"done", "aborted"} : emitter' = [emitter EXCEPT ![v].at = at]
        BY <2>2 DEF EmitEnqueue, EmitterCrash
      <3>. QED  BY <3>1 DEF EmitInv
    <2>. QED  BY <1>2, <2>1, <2>2
  <1>3. ASSUME NEW v \in Events, EmitRow(v)
        PROVE  /\ emitter' \in [Events -> [at: {"idle", "dispatch", "done", "aborted"},
                                         todo: SUBSET Endpoints, created: SUBSET Endpoints]]
               /\ \A ev \in Events : EmitInv(ev)'
    <2>1. CASE UNCHANGED row /\ emitter' = [emitter EXCEPT ![v].at = "aborted"]
      BY <2>1 DEF EmitInv
    <2>2. ASSUME NEW e \in emitter[v].todo, row' = [row EXCEPT ![<<e, v>>] = "PENDING"],
                 emitter[v].at = "dispatch",
                 emitter' = [emitter EXCEPT ![v].todo = @ \ {e}, ![v].created = @ \cup {e}]
          PROVE  /\ emitter' \in [Events -> [at: {"idle", "dispatch", "done", "aborted"},
                                           todo: SUBSET Endpoints, created: SUBSET Endpoints]]
                 /\ \A ev \in Events : EmitInv(ev)'
      <3>1. e \in Endpoints
        OBVIOUS
      <3>2. emitter' = [emitter EXCEPT ![v] = [emitter[v] EXCEPT !.todo = @ \ {e}, !.created = @ \cup {e}]]
        BY <2>2
      <3>3. ASSUME NEW f \in Endpoints, NEW ev \in Events
            PROVE  row'[<<f, ev>>] = IF ev = v /\ f = e THEN "PENDING" ELSE row[<<f, ev>>]
        <4>1. \A d \in Deliveries : row'[d] = IF d = <<e, v>> THEN "PENDING" ELSE row[d]
          BY <2>2
        <4>2. \A g \in Endpoints, w \in Events : <<g, w>> = <<e, v>> <=> g = e /\ w = v
          OBVIOUS
        <4>3. <<f, ev>> \in Deliveries
          OBVIOUS
        <4>. QED  BY <4>1, <4>2, <4>3
      <3>. QED  BY <2>2, <3>1, <3>2, <3>3 DEF EmitInv
    <2>. QED  BY <1>3, <2>1, <2>2 DEF EmitRow
  <1>4. \/ UNCHANGED emitter /\ \A d \in Deliveries : row'[d] # "none" => row[d] # "none"
        \/ \E ev \in Events : Emit(ev) \/ EmitterCrash(ev)
    <2>1. ASSUME NEW d \in Deliveries, NEW status, Settle(d, status)
          PROVE  \A c \in Deliveries : row'[c] # "none" => row[c] # "none"
      BY <2>1 DEF Settle
    <2>2. ASSUME NEW d \in Deliveries, Steps(d)
          PROVE  \A c \in Deliveries : row'[c] # "none" => row[c] # "none"
      BY <2>1, <2>2 DEF Steps, ProcessJob, Claim, Post, RecordSuccess, ResetFailures, RecordFailure,
                        CountFailure, DisableEndpoint, JobError, Deliver, Backoff, Evict, LoseJob,
                        WorkerCrash, queueVars
    <2>3. ASSUME NEW d \in Deliveries, FallDue(d) \/ Prune(d) \/ ReplayRow(d) \/ ReplayEnqueue(d)
          PROVE  UNCHANGED emitter /\ \A c \in Deliveries : row'[c] # "none" => row[c] # "none"
      BY <2>3 DEF FallDue, Prune, ReplayRow, ReplayEnqueue, sweepVars, tenantVars
    <2>4. ASSUME NEW e \in Endpoints, EnableEndpoint(e) \/ DeleteEndpoint(e)
          PROVE  UNCHANGED emitter /\ \A c \in Deliveries : row'[c] # "none" => row[c] # "none"
      BY <2>4 DEF EnableEndpoint, DeleteEndpoint, tenantVars
    <2>5. ASSUME Sweep PROVE UNCHANGED <<emitter, row>>
      BY <2>5 DEF Sweep, SweepList, SweepEnqueue, sweepVars
    <2>6. ASSUME NEW d \in Deliveries, Steps(d) PROVE UNCHANGED emitter
      BY <2>6 DEF Steps, ProcessJob, Claim, Post, RecordSuccess, ResetFailures, RecordFailure, CountFailure,
                DisableEndpoint, JobError, Deliver, Backoff, Evict, LoseJob, WorkerCrash,
                execVars, queueVars
    <2>. QED  BY <2>2, <2>3, <2>4, <2>5, <2>6 DEF Next, Steps
  <1>. QED  BY <1>1, <1>2, <1>3, <1>4 DEF Emit

(* The sweeper's list, the replays and the histories.                       *)
LEMMA OtherTypes ==
  ASSUME TypeOK, Next
  PROVE  /\ batch' \in Seq(Deliveries) /\ replaying' \subseteq Deliveries /\ replays' \in 0..MaxReplays
         /\ received' \subseteq Deliveries /\ refused' \subseteq Deliveries /\ gaveUp' \subseteq Deliveries
         /\ tries' \in [Deliveries -> Nat]
  <1>. /\ batch \in Seq(Deliveries) /\ replaying \subseteq Deliveries /\ replays \in 0..MaxReplays
       /\ received \subseteq Deliveries /\ refused \subseteq Deliveries /\ gaveUp \subseteq Deliveries
       /\ tries \in [Deliveries -> Nat] /\ due \in Seq(Pending) /\ MaxReplays \in Nat
    BY Types
  <1>1. batch' \in Seq(Deliveries)
    <2>1. CASE SweepList
      <3>. DEFINE n == IF Len(due) < SweepBatch THEN Len(due) ELSE SweepBatch
      <3>1. n \in 0..Len(due) /\ due \in Seq(Deliveries)
        BY DEF Pending
      <3>2. batch' = SubSeq(due, 1, n)
        BY <2>1 DEF SweepList
      <3>. HIDE DEF n
      <3>. QED  BY <3>1, <3>2
    <2>2. CASE SweepEnqueue
      BY <2>2 DEF SweepEnqueue
    <2>3. SweepList \/ SweepEnqueue \/ UNCHANGED batch
      BY DEF Next, Emit, EmitList, EmitRow, EmitEnqueue, EmitterCrash, emitterVars, Sweep, FallDue,
             Prune, ReplayRow, ReplayEnqueue, EnableEndpoint, DeleteEndpoint, tenantVars,
             ProcessJob, Claim, Post, RecordSuccess, ResetFailures, RecordFailure, CountFailure,
             DisableEndpoint, JobError, Deliver, Backoff, Evict, LoseJob, WorkerCrash,
             execVars, queueVars
    <2>. QED  BY <2>1, <2>2, <2>3
  <1>2. replaying' \subseteq Deliveries /\ replays' \in 0..MaxReplays
    <2>1. \/ UNCHANGED <<replaying, replays>>
          \/ \E d \in Deliveries : ReplayRow(d) \/ ReplayEnqueue(d)
      BY DEF Next, Emit, EmitList, EmitRow, EmitEnqueue, EmitterCrash, emitterVars, Sweep, SweepList, SweepEnqueue,
             sweepVars, FallDue, Prune, EnableEndpoint, DeleteEndpoint,
             ProcessJob, Claim, Post, RecordSuccess, ResetFailures, RecordFailure, CountFailure,
             DisableEndpoint, JobError, Deliver, Backoff, Evict, LoseJob, WorkerCrash,
             execVars, queueVars
    <2>2. ASSUME NEW d \in Deliveries, ReplayRow(d)
          PROVE  replaying' \subseteq Deliveries /\ replays' \in 0..MaxReplays
      BY <2>2 DEF ReplayRow
    <2>3. ASSUME NEW d \in Deliveries, ReplayEnqueue(d)
          PROVE  replaying' \subseteq Deliveries /\ replays' \in 0..MaxReplays
      BY <2>3 DEF ReplayEnqueue
    <2>. QED  BY <2>1, <2>2, <2>3
  <1>3. /\ received' \subseteq Deliveries /\ refused' \subseteq Deliveries /\ gaveUp' \subseteq Deliveries
        /\ tries' \in [Deliveries -> Nat]
    <2>1. \/ UNCHANGED <<received, refused, gaveUp, tries>>
          \/ \E d \in Deliveries : Post(d) \/ RecordFailure(d)
      BY Frames DEF Steps, ProcessJob, Claim, RecordSuccess, ResetFailures, CountFailure,
             DisableEndpoint, JobError, Deliver, Backoff, Evict, LoseJob, WorkerCrash, history
    <2>2. ASSUME NEW d \in Deliveries, Post(d)
          PROVE  received' \subseteq Deliveries /\ refused' \subseteq Deliveries /\ gaveUp' = gaveUp
      BY <2>2 DEF Post
    <2>3. ASSUME NEW d \in Deliveries, Post(d) PROVE tries' \in [Deliveries -> Nat]
      BY <2>3 DEF Post
    <2>4. ASSUME NEW d \in Deliveries, RecordFailure(d)
          PROVE  gaveUp' \subseteq Deliveries /\ UNCHANGED <<received, refused, tries>>
      BY <2>4 DEF RecordFailure
    <2>. QED  BY <2>1, <2>2, <2>3, <2>4
  <1>. QED  BY <1>1, <1>2, <1>3

(* Every step keeps the types, given that the worker and the queue agree    *)
(* and that each row is created once.                                       *)
LEMMA TypeStep ==
  ASSUME TypeOK, \A ev \in Events : EmitInv(ev), \A d \in Deliveries : JobInv(d), Next
  PROVE  TypeOK'
  <1>. DEFINE Types1 == job' \in [Deliveries -> Jobs] /\ exec' \in [Deliveries -> Executions]
  <1>1. Types1
    <2>1. ASSUME NEW d \in Deliveries, Steps(d) PROVE Types1
      BY <2>1, JobSteps DEF Steps
    <2>2. CASE UNCHANGED exec /\ (UNCHANGED job \/ \E S : Enqueue(S))
      BY <2>2, EnqueueSteps, Types
    <2>. QED  BY <2>1, <2>2, Frames
  <1>2. faults' \in 0..MaxFaults
    BY Frames
  <1>3. TypeOK' <=>
          /\ endpoint' \in [Endpoints -> [state: {"live", "disabled", "deleted"}, failures: Nat]]
          /\ row' \in [Deliveries -> {"none", "PENDING", "DELIVERED", "FAILED"}]
          /\ due' \in Seq(Pending') /\ Distinct(due')
          /\ Types1
          /\ emitter' \in [Events -> [at: {"idle", "dispatch", "done", "aborted"},
                                    todo: SUBSET Endpoints, created: SUBSET Endpoints]]
          /\ batch' \in Seq(Deliveries)
          /\ replaying' \subseteq Deliveries
          /\ received' \subseteq Deliveries /\ refused' \subseteq Deliveries /\ gaveUp' \subseteq Deliveries
          /\ tries' \in [Deliveries -> Nat]
          /\ replays' \in 0..MaxReplays /\ faults' \in 0..MaxFaults
    BY DEF TypeOK, Jobs, Executions, Pending, Distinct
  <1>. QED  BY <1>1, <1>2, <1>3, RowSteps, EndpointTypes, EmitterTypes, OtherTypes

-----------------------------------------------------------------------------
(* The deliveries. *)

(* A step of one delivery leaves the others' rows and attempts alone, and   *)
(* what receivers answered is never forgotten.                              *)
LEMMA OtherDeliveries ==
  ASSUME TypeOK, NEW d \in Deliveries, Steps(d)
  PROVE  /\ \A c \in Deliveries : c # d => row'[c] = row[c] /\ tries'[c] = tries[c]
         /\ received \subseteq received' /\ refused \subseteq refused'
         /\ \A c \in Deliveries : c # d => (c \in gaveUp' <=> c \in gaveUp)
         /\ gaveUp \subseteq gaveUp'
  <1>. /\ row \in [Deliveries -> {"none", "PENDING", "DELIVERED", "FAILED"}]
       /\ tries \in [Deliveries -> Nat]
    BY Types
  <1>1. CASE ProcessJob(d)
    BY <1>1 DEF ProcessJob, Claim, Post, RecordSuccess, RecordFailure, ResetFailures, CountFailure,
                DisableEndpoint, Settle, history
  <1>2. CASE JobError(d) \/ Deliver(d) \/ Backoff(d) \/ Evict(d) \/ LoseJob(d) \/ WorkerCrash(d)
    BY <1>2 DEF JobError, Deliver, Backoff, Evict, LoseJob, WorkerCrash, queueVars, history
  <1>. QED  BY <1>1, <1>2 DEF Steps

(* The delivery that takes the step.                                        *)
LEMMA OwnDelivery ==
  ASSUME TypeOK, NEW d \in Deliveries, DeliveryInv(d), Steps(d), JobInv(d)'
  PROVE  AnswerInv(d)' /\ AttemptInv(d)'
  <1>. /\ row \in [Deliveries -> {"none", "PENDING", "DELIVERED", "FAILED"}]
       /\ tries \in [Deliveries -> Nat] /\ tries[d] \in Nat /\ faults \in Nat
       /\ job \in [Deliveries -> Jobs] /\ exec \in [Deliveries -> Executions]
       /\ job[d] \in Jobs /\ exec[d] \in Executions
    BY Types
  <1>. /\ job[d].made \in Nat /\ MaxAttempts \in Nat
    BY DEF Jobs
  <1>. JobInv(d) /\ AnswerInv(d) /\ AttemptInv(d)
    BY DEF DeliveryInv
  <1>1. Finish(d) => exec'[d].at = "idle" /\ job'[d].made = job[d].made
    BY DEF Finish, Idle, Jobs
  <1>2. Throw(d) => exec'[d].at = "idle" /\ job'[d].made = job[d].made + 1
    BY DEF Throw, Idle, Jobs
  <1>3. \A step : Goto(d, step) => exec'[d].at = step
    BY DEF Goto, Executions
  <1>4. \A ex \in BOOLEAN : exec' = [exec EXCEPT ![d] = [at |-> "failed", exhausted |-> ex]] =>
                            exec'[d].at = "failed" /\ (exec'[d].exhausted <=> ex)
    OBVIOUS
  <1>. IsFinalAttempt(d) \in BOOLEAN
    BY DEF IsFinalAttempt
  <1>. USE DEF AnswerInv, AttemptInv
  <1>5. CASE Claim(d)
    BY <1>1, <1>3, <1>5 DEF Claim, history
  <1>6. CASE Post(d)
    <2>1. tries'[d] = tries[d] + 1 /\ UNCHANGED <<row, job, gaveUp, faults>>
      BY <1>6 DEF Post
    <2>2. \/ d \in received' /\ exec'[d].at = "delivered"
          \/ d \in refused' /\ exec'[d].at = "failed"
          \/ exec'[d].at = "failed" /\ (exec'[d].exhausted <=> IsFinalAttempt(d))
      BY <1>3, <1>4, <1>6 DEF Post
    <2>3. received \subseteq received' /\ refused \subseteq refused' /\ exec[d].at = "post"
      BY <1>6 DEF Post
    <2>4. IsFinalAttempt(d)' <=> IsFinalAttempt(d)
      BY <2>1 DEF IsFinalAttempt
    <2>5. AnswerInv(d)'
      BY <2>1, <2>2, <2>3, <2>4
    <2>6. AttemptInv(d)'
      BY <2>1, <2>3
    <2>. QED  BY <2>5, <2>6
  <1>7. CASE RecordSuccess(d)
    BY <1>3, <1>7 DEF RecordSuccess, Settle, history
  <1>8. CASE ResetFailures(d)
    BY <1>1, <1>8 DEF ResetFailures, history
  <1>9. CASE RecordFailure(d)
    <2>1. row'[d] # "DELIVERED" /\ UNCHANGED <<received, refused, tries, faults>>
      BY <1>9 DEF RecordFailure, Settle
    <2>2. \/ exec[d].exhausted /\ gaveUp' = gaveUp \cup {d} /\ exec'[d].at = "count" /\ job' = job
          \/ gaveUp' = gaveUp /\ exec'[d].at = "idle" /\ job'[d].made = job[d].made + 1
      BY <1>2, <1>3, <1>9 DEF RecordFailure
    <2>3. exec[d].at = "failed"
      BY <1>9 DEF RecordFailure
    <2>. QED  BY <2>1, <2>2, <2>3 DEF IsFinalAttempt
  <1>10. CASE CountFailure(d)
    BY <1>1, <1>2, <1>3, <1>10 DEF CountFailure, history
  <1>11. CASE DisableEndpoint(d)
    BY <1>1, <1>11 DEF DisableEndpoint, history
  <1>12. CASE JobError(d)
    <2>1. faults' = faults + 1 /\ UNCHANGED <<row, received, refused, gaveUp, tries>>
      BY <1>12 DEF JobError, Fault, history
    <2>2. \/ /\ exec[d].at \in {"delivered", "reset"} /\ job' = job
             /\ exec'[d].at = "failed" /\ (exec'[d].exhausted <=> IsFinalAttempt(d))
          \/ exec'[d].at = "idle" /\ job'[d].made = job[d].made + 1
      BY <1>2, <1>4, <1>12 DEF JobError
    <2>3. AnswerInv(d)'
      BY <2>1, <2>2 DEF IsFinalAttempt
    <2>4. AttemptInv(d)'
      BY <1>12, <2>1, <2>2 DEF JobError
    <2>. QED  BY <2>3, <2>4
  <1>13. CASE Deliver(d)
    BY <1>13 DEF Deliver, Goto, queueVars, history
  <1>14. CASE Backoff(d)
    BY <1>14 DEF Backoff, IsFinalAttempt, queueVars, history
  <1>15. CASE Evict(d) \/ LoseJob(d)
    <2>1. /\ faults' = faults + 1 /\ UNCHANGED <<row, exec, received, refused, gaveUp, tries>>
          /\ job' = [job EXCEPT ![d] = NoJob]
      BY <1>15 DEF Evict, LoseJob, Fault, queueVars, history
    <2>2. job'[d].made = 0 /\ exec[d].at = "idle"
      BY <1>15, <2>1 DEF NoJob, JobInv, Evict, LoseJob, Executions
    <2>. QED  BY <2>1, <2>2
  <1>16. CASE WorkerCrash(d)
    BY <1>16 DEF WorkerCrash, Idle, Fault, queueVars, history
  <1>. QED  BY <1>5, <1>6, <1>7, <1>8, <1>9, <1>10, <1>11, <1>12, <1>13, <1>14, <1>15, <1>16
            DEF Steps, ProcessJob

(* The rest neither settles a row as DELIVERED nor runs a job.              *)
LEMMA NoneDelivered ==
  ASSUME TypeOK, Next, \A d \in Deliveries : ~Steps(d)
  PROVE  \A c \in Deliveries : row'[c] = "DELIVERED" => row[c] = "DELIVERED"
  <1>. row \in [Deliveries -> {"none", "PENDING", "DELIVERED", "FAILED"}]
    BY Types
  <1>1. ASSUME NEW ev \in Events, Emit(ev) \/ EmitterCrash(ev)
        PROVE  \A c \in Deliveries : row'[c] = "DELIVERED" => row[c] = "DELIVERED"
    BY <1>1 DEF Emit, EmitList, EmitRow, EmitEnqueue, EmitterCrash
  <1>2. ASSUME Sweep PROVE UNCHANGED row
    BY <1>2 DEF Sweep, SweepList, SweepEnqueue, sweepVars
  <1>3. ASSUME NEW d \in Deliveries, FallDue(d) \/ Prune(d) \/ ReplayRow(d) \/ ReplayEnqueue(d)
        PROVE  \A c \in Deliveries : row'[c] = "DELIVERED" => row[c] = "DELIVERED"
    BY <1>3 DEF FallDue, Prune, ReplayRow, ReplayEnqueue, sweepVars
  <1>4. ASSUME NEW e \in Endpoints, EnableEndpoint(e) \/ DeleteEndpoint(e)
        PROVE  \A c \in Deliveries : row'[c] = "DELIVERED" => row[c] = "DELIVERED"
    BY <1>4 DEF EnableEndpoint, DeleteEndpoint
  <1>. QED  BY <1>1, <1>2, <1>3, <1>4 DEF Next, Steps

(* What holds of each delivery is kept by every step.                       *)
LEMMA DeliveryStep ==
  ASSUME TypeOK, \A d \in Deliveries : DeliveryInv(d), Next
  PROVE  \A c \in Deliveries : DeliveryInv(c)'
  <1>. /\ tries \in [Deliveries -> Nat] /\ faults \in Nat /\ faults' \in Nat /\ faults <= faults'
       /\ job \in [Deliveries -> Jobs] /\ MaxAttempts \in Nat
       /\ \A c \in Deliveries : job[c].made \in Nat /\ tries[c] \in Nat
    BY Types, Frames DEF Jobs
  <1>. SUFFICES ASSUME NEW c \in Deliveries PROVE DeliveryInv(c)'
    OBVIOUS
  <1>1. ASSUME NEW d \in Deliveries, Steps(d), c = d PROVE DeliveryInv(c)'
    BY <1>1, JobSteps, OwnDelivery DEF Steps, DeliveryInv
  <1>2. ASSUME NEW d \in Deliveries, Steps(d), c # d PROVE DeliveryInv(c)'
    <2>1. /\ job'[c] = job[c] /\ exec'[c] = exec[c]
      BY <1>2, JobSteps DEF Steps, DeliveryInv
    <2>2. /\ row'[c] = row[c] /\ tries'[c] = tries[c] /\ (c \in gaveUp' <=> c \in gaveUp)
          /\ received \subseteq received' /\ refused \subseteq refused'
      BY <1>2, OtherDeliveries
    <2>. QED  BY <2>1, <2>2 DEF DeliveryInv, JobInv, AnswerInv, AttemptInv, IsFinalAttempt
  <1>3. CASE \A d \in Deliveries : ~Steps(d)
    <2>1. /\ \/ job'[c] = job[c]
             \/ /\ job[c].state = "absent"
                /\ job'[c] = [state |-> "waiting", made |-> 0, stalls |-> 0]
          /\ UNCHANGED <<exec, received, refused, gaveUp, tries>>
      BY <1>3, Frames, EnqueueSteps
    <2>2. row'[c] = "DELIVERED" => row[c] = "DELIVERED"
      BY <1>3, NoneDelivered
    <2>. QED  BY <2>1, <2>2 DEF DeliveryInv, JobInv, AnswerInv, AttemptInv, IsFinalAttempt
  <1>. QED  BY <1>1, <1>2, <1>3

-----------------------------------------------------------------------------
(* The failures charged to an endpoint.                                     *)

(* Deliveries can be counted.                                               *)
LEMMA FiniteDeliveries ==
  ASSUME NEW S, S \subseteq Deliveries
  PROVE  IsFiniteSet(S) /\ Cardinality(S) \in Nat
  <1>1. IsFiniteSet(Deliveries)
    BY FS_Product DEF Deliveries
  <1>2. IsFiniteSet(S)
    BY <1>1, FS_Subset
  <1>. QED  BY <1>2, FS_CardinalityType

(* What the steps do to the account of an endpoint e: nothing that can be   *)
(* charged is added; or one delivery is, by a fault, or as it is given up;  *)
(* or one is charged, and cannot be again.                                  *)
Kept(e) ==
  /\ endpoint'[e].failures <= endpoint[e].failures
  /\ GivenUp(e)' = GivenUp(e) /\ Uncharged(e)' \subseteq Uncharged(e)

Faulted(e, d) ==
  /\ endpoint'[e].failures <= endpoint[e].failures /\ faults' = faults + 1
  /\ GivenUp(e)' = GivenUp(e) /\ Uncharged(e)' \subseteq Uncharged(e) \cup {d}

Abandoned(e, d) ==
  /\ endpoint'[e].failures <= endpoint[e].failures
  /\ d \notin GivenUp(e)
  /\ GivenUp(e)' = GivenUp(e) \cup {d} /\ Uncharged(e)' \subseteq Uncharged(e) \cup {d}

Charged(e, d) ==
  /\ endpoint'[e].failures <= endpoint[e].failures + 1
  /\ d \in Uncharged(e)
  /\ GivenUp(e)' = GivenUp(e) /\ Uncharged(e)' \subseteq Uncharged(e) \ {d}

(* Each of them keeps the balance.                                          *)
LEMMA AccountBalances ==
  ASSUME TypeOK, NEW e \in Endpoints, NEW d, ChargeInv(e),
         faults' \in Nat, faults <= faults', endpoint'[e].failures \in Nat,
         Kept(e) \/ Faulted(e, d) \/ Abandoned(e, d) \/ Charged(e, d)
  PROVE  ChargeInv(e)'
  <1>. DEFINE U == Uncharged(e)  V == Uncharged(e)'  G == GivenUp(e)
  <1>1. endpoint[e].failures \in Nat /\ faults \in Nat
    BY Types
  <1>2. U \subseteq Deliveries /\ G \subseteq Deliveries
    BY Types DEF GivenUp, Uncharged
  <1>3. /\ IsFiniteSet(U) /\ Cardinality(U) \in Nat
        /\ IsFiniteSet(G) /\ Cardinality(G) \in Nat
    BY <1>2, FiniteDeliveries
  <1>4. /\ IsFiniteSet(U \cup {d}) /\ Cardinality(U \cup {d}) <= Cardinality(U) + 1
        /\ d \notin G => Cardinality(G \cup {d}) = Cardinality(G) + 1
        /\ IsFiniteSet(U \ {d}) /\ (d \in U => Cardinality(U \ {d}) = Cardinality(U) - 1)
        /\ Cardinality(U \cup {d}) \in Nat /\ Cardinality(U \ {d}) \in Nat
    <2>. HIDE DEF U, G
    <2>1. IsFiniteSet(U \cup {d}) /\ IsFiniteSet(U \ {d})
      BY <1>3, FS_AddElement, FS_RemoveElement
    <2>2. Cardinality(U \cup {d}) = IF d \in U THEN Cardinality(U) ELSE Cardinality(U) + 1
      BY <1>3, FS_AddElement
    <2>3. Cardinality(U \ {d}) = IF d \in U THEN Cardinality(U) - 1 ELSE Cardinality(U)
      BY <1>3, FS_RemoveElement
    <2>4. Cardinality(G \cup {d}) = IF d \in G THEN Cardinality(G) ELSE Cardinality(G) + 1
      BY <1>3, FS_AddElement
    <2>5. Cardinality(U \cup {d}) \in Nat /\ Cardinality(U \ {d}) \in Nat
      BY <2>1, FS_CardinalityType
    <2>. QED  BY <1>3, <2>1, <2>2, <2>3, <2>4, <2>5
  <1>5. ASSUME NEW W, IsFiniteSet(W), V \subseteq W
        PROVE  Cardinality(V) \in Nat /\ Cardinality(V) <= Cardinality(W)
    BY <1>5, FS_Subset, FS_CardinalityType
  <1>6. ChargeInv(e) <=> endpoint[e].failures + Cardinality(U) <= Cardinality(G) + faults
    BY DEF ChargeInv
  <1>7. ChargeInv(e)' <=> endpoint'[e].failures + Cardinality(V) <= Cardinality(GivenUp(e)') + faults'
    BY DEF ChargeInv
  <1>8. CASE Kept(e)
    <2>1. V \subseteq U /\ GivenUp(e)' = G /\ endpoint'[e].failures <= endpoint[e].failures
      BY <1>8 DEF Kept
    <2>. HIDE DEF U, V, G
    <2>. QED  BY <1>1, <1>3, <1>5, <1>6, <1>7, <2>1
  <1>9. CASE Faulted(e, d)
    <2>1. /\ V \subseteq U \cup {d} /\ GivenUp(e)' = G
          /\ endpoint'[e].failures <= endpoint[e].failures /\ faults' = faults + 1
      BY <1>9 DEF Faulted
    <2>. HIDE DEF U, V, G
    <2>. QED  BY <1>1, <1>3, <1>4, <1>5, <1>6, <1>7, <2>1
  <1>10. CASE Abandoned(e, d)
    <2>1. /\ V \subseteq U \cup {d} /\ GivenUp(e)' = G \cup {d} /\ d \notin G
          /\ endpoint'[e].failures <= endpoint[e].failures
      BY <1>10 DEF Abandoned
    <2>. HIDE DEF U, V, G
    <2>. QED  BY <1>1, <1>3, <1>4, <1>5, <1>6, <1>7, <2>1
  <1>11. CASE Charged(e, d)
    <2>1. /\ V \subseteq U \ {d} /\ GivenUp(e)' = G /\ d \in U
          /\ endpoint'[e].failures <= endpoint[e].failures + 1
      BY <1>11 DEF Charged
    <2>. HIDE DEF U, V, G
    <2>. QED  BY <1>1, <1>3, <1>4, <1>5, <1>6, <1>7, <2>1
  <1>. QED  BY <1>8, <1>9, <1>10, <1>11

(* Which of these a step is.                                                *)
LEMMA AccountSteps ==
  ASSUME TypeOK, \A d \in Deliveries : DeliveryInv(d), Next, NEW e \in Endpoints
  PROVE  \/ Kept(e)
         \/ \E d \in Deliveries : Faulted(e, d) \/ Abandoned(e, d) \/ Charged(e, d)
  <1>. /\ endpoint \in [Endpoints -> [state: {"live", "disabled", "deleted"}, failures: Nat]]
       /\ job \in [Deliveries -> Jobs] /\ exec \in [Deliveries -> Executions]
       /\ gaveUp \subseteq Deliveries /\ endpoint[e].failures \in Nat
    BY Types
  <1>. \A d \in Deliveries : EndpointOf(d) \in Endpoints /\ exec[d] \in Executions /\ job[d] \in Jobs
    BY DEF Deliveries, EndpointOf
  <1>a. ASSUME gaveUp' = gaveUp, endpoint'[e].failures <= endpoint[e].failures,
               \A c \in Deliveries : Chargeable(c)' => Chargeable(c)
        PROVE  Kept(e)
    BY <1>a DEF Kept, GivenUp, Uncharged
  <1>b. ASSUME NEW d \in Deliveries, gaveUp' = gaveUp, endpoint'[e].failures <= endpoint[e].failures,
               Steps(d), Chargeable(d)' => Chargeable(d)
        PROVE  Kept(e)
    <2>1. \A c \in Deliveries : Chargeable(c)' => Chargeable(c)
      BY <1>b, JobSteps DEF Chargeable, Steps, DeliveryInv
    <2>. QED  BY <1>a, <1>b, <2>1
  <1>c. ASSUME NEW d \in Deliveries, gaveUp' = gaveUp, UNCHANGED endpoint, faults' = faults + 1, Steps(d)
        PROVE  Faulted(e, d)
    <2>1. \A c \in Deliveries : c # d => (Chargeable(c)' <=> Chargeable(c))
      BY <1>c, JobSteps DEF Chargeable, Steps, DeliveryInv
    <2>. QED  BY <1>c, <2>1 DEF Faulted, GivenUp, Uncharged
  <1>1. ASSUME NEW d \in Deliveries, Claim(d) \/ Post(d) \/ RecordSuccess(d) PROVE Kept(e)
    <2>1. /\ gaveUp' = gaveUp /\ endpoint' = endpoint
          /\ exec[d].at \in {"claim", "post", "delivered"}
      BY <1>1 DEF Claim, Post, RecordSuccess, history
    <2>2. Chargeable(d)
      BY <2>1 DEF Chargeable, DeliveryInv, JobInv
    <2>. QED  BY <1>1, <1>b, <2>1, <2>2 DEF Steps, ProcessJob
  <1>2. ASSUME NEW d \in Deliveries, ResetFailures(d) PROVE Kept(e)
    <2>1. /\ gaveUp' = gaveUp /\ endpoint'[e].failures <= endpoint[e].failures
          /\ exec[d].at = "reset"
      BY <1>2 DEF ResetFailures, history
    <2>2. Chargeable(d)
      BY <2>1 DEF Chargeable, DeliveryInv, JobInv
    <2>. QED  BY <1>2, <1>b, <2>1, <2>2 DEF Steps, ProcessJob
  <1>3. ASSUME NEW d \in Deliveries, RecordFailure(d) PROVE Kept(e) \/ Abandoned(e, d)
    <2>1. UNCHANGED endpoint /\ (gaveUp' = gaveUp \/ gaveUp' = gaveUp \cup {d}) /\ exec[d].at = "failed"
      BY <1>3 DEF RecordFailure
    <2>2. Chargeable(d)
      BY <2>1 DEF Chargeable, DeliveryInv, JobInv
    <2>3. \A c \in Deliveries : Chargeable(c)' => Chargeable(c)
      BY <1>3, <2>2, JobSteps DEF Chargeable, Steps, DeliveryInv, ProcessJob
    <2>4. CASE gaveUp' = gaveUp
      BY <1>a, <2>1, <2>3, <2>4
    <2>5. CASE d \notin gaveUp /\ gaveUp' = gaveUp \cup {d} /\ EndpointOf(d) = e
      BY <2>1, <2>3, <2>5 DEF Abandoned, GivenUp, Uncharged
    <2>6. CASE d \notin gaveUp /\ gaveUp' = gaveUp \cup {d} /\ EndpointOf(d) # e
      BY <2>1, <2>3, <2>6 DEF Kept, GivenUp, Uncharged
    <2>. QED  BY <2>1, <2>4, <2>5, <2>6
  <1>4. ASSUME NEW d \in Deliveries, CountFailure(d) PROVE Kept(e) \/ Charged(e, d)
    <2>1. gaveUp' = gaveUp /\ exec[d].at = "count" /\ d \in gaveUp
      BY <1>4 DEF CountFailure, history, DeliveryInv, AnswerInv
    <2>2. Chargeable(d)
      BY <2>1 DEF Chargeable, DeliveryInv, JobInv
    <2>3. CASE endpoint[EndpointOf(d)].state = "deleted" \/ EndpointOf(d) # e
      <3>1. endpoint'[e].failures <= endpoint[e].failures
        BY <1>4, <2>3 DEF CountFailure
      <3>. QED  BY <1>4, <1>b, <2>1, <2>2, <3>1 DEF Steps, ProcessJob
    <2>4. CASE endpoint[EndpointOf(d)].state # "deleted" /\ EndpointOf(d) = e
      <3>1. endpoint'[e].failures <= endpoint[e].failures + 1
        BY <1>4, <2>4 DEF CountFailure
      <3>2. ~Chargeable(d)'
        <4>1. Finish(d) => job'[d].state = "completed"
          BY DEF Finish, Jobs
        <4>2. Goto(d, "disable") => exec'[d].at = "disable"
          BY DEF Goto, Executions
        <4>3. Finish(d) \/ Goto(d, "disable")
          BY <1>4, <2>4 DEF CountFailure
        <4>. QED  BY <4>1, <4>2, <4>3 DEF Chargeable
      <3>3. \A c \in Deliveries : c # d => (Chargeable(c)' <=> Chargeable(c))
        BY <1>4, JobSteps DEF Chargeable, Steps, DeliveryInv, ProcessJob
      <3>. QED  BY <2>1, <2>2, <2>4, <3>1, <3>2, <3>3 DEF Charged, GivenUp, Uncharged
    <2>. QED  BY <2>3, <2>4
  <1>5. ASSUME NEW d \in Deliveries, DisableEndpoint(d) PROVE Kept(e)
    <2>1. gaveUp' = gaveUp /\ endpoint'[e].failures <= endpoint[e].failures /\ ~Chargeable(d)'
      BY <1>5 DEF DisableEndpoint, Finish, Chargeable, history
    <2>. QED  BY <1>5, <1>b, <2>1 DEF Steps, ProcessJob
  <1>6. ASSUME NEW d \in Deliveries, JobError(d) \/ Evict(d) \/ LoseJob(d) \/ WorkerCrash(d)
        PROVE  Faulted(e, d)
    <2>1. gaveUp' = gaveUp /\ endpoint' = endpoint /\ faults' = faults + 1
      BY <1>6 DEF JobError, Evict, LoseJob, WorkerCrash, Fault, queueVars, history
    <2>. QED  BY <1>6, <1>c, <2>1 DEF Steps
  <1>7. ASSUME NEW d \in Deliveries, Deliver(d) \/ Backoff(d) PROVE Kept(e)
    <2>1. /\ gaveUp' = gaveUp /\ endpoint' = endpoint
          /\ job[d].state \in {"waiting", "delayed"}
      BY <1>7 DEF Deliver, Backoff, queueVars, history
    <2>2. Chargeable(d)
      BY <2>1 DEF Chargeable, DeliveryInv, JobInv
    <2>. QED  BY <1>7, <1>b, <2>1, <2>2 DEF Steps
  <1>8. ASSUME \A d \in Deliveries : ~Steps(d) PROVE Kept(e)
    <2>1. /\ gaveUp' = gaveUp /\ exec' = exec /\ (job' = job \/ \E S : Enqueue(S))
      BY <1>8, Frames
    <2>2. \A c \in Deliveries : Chargeable(c)' => Chargeable(c)
      BY <2>1, EnqueueSteps DEF Chargeable
    <2>3. endpoint'[e].failures <= endpoint[e].failures
      <3>1. \/ UNCHANGED endpoint
            \/ \E f \in Endpoints : EnableEndpoint(f) \/ DeleteEndpoint(f)
        BY <1>8 DEF Next, Emit, EmitList, EmitRow, EmitEnqueue, EmitterCrash, emitterVars, Sweep, SweepList,
                    SweepEnqueue, FallDue, sweepVars, Prune, ReplayRow, ReplayEnqueue, Steps
      <3>2. ASSUME NEW f \in Endpoints, EnableEndpoint(f) \/ DeleteEndpoint(f)
            PROVE  endpoint'[e] = endpoint[e] \/ endpoint'[e].failures = 0
        BY <3>2 DEF EnableEndpoint, DeleteEndpoint
      <3>. QED  BY <3>1, <3>2
    <2>. QED  BY <1>a, <2>1, <2>2, <2>3
  <1>. QED  BY <1>1, <1>2, <1>3, <1>4, <1>5, <1>6, <1>7, <1>8 DEF Steps, ProcessJob

-----------------------------------------------------------------------------
(* The inductive invariant. *)
OutboxInv ==
  /\ TypeOK
  /\ \A ev \in Events : EmitInv(ev)
  /\ \A d \in Deliveries : DeliveryInv(d)
  /\ \A e \in Endpoints : ChargeInv(e)

(* It holds when nothing has been emitted.                                  *)
LEMMA InitInv == Init => OutboxInv
  <1>. SUFFICES ASSUME Init PROVE OutboxInv
    OBVIOUS
  <1>1. NoJob \in Jobs /\ Idle \in Executions /\ NoJob.state = "absent" /\ NoJob.made = 0 /\ Idle.at = "idle"
    BY DEF NoJob, Idle, Jobs, Executions
  <1>2. TypeOK
    BY <1>1, Types DEF Init, Distinct
  <1>3. \A ev \in Events : EmitInv(ev)
    BY DEF Init, EmitInv, Deliveries
  <1>4. \A d \in Deliveries : DeliveryInv(d)
    BY <1>1 DEF Init, DeliveryInv, JobInv, AnswerInv, AttemptInv
  <1>5. \A e \in Endpoints : ChargeInv(e)
    <2>. SUFFICES ASSUME NEW e \in Endpoints PROVE ChargeInv(e)
      OBVIOUS
    <2>1. Uncharged(e) = {} /\ GivenUp(e) = {}
      BY DEF Init, Uncharged, GivenUp
    <2>. QED  BY <2>1, FS_EmptySet DEF Init, ChargeInv
  <1>. QED  BY <1>2, <1>3, <1>4, <1>5 DEF OutboxInv

(* Every step keeps it.                                                     *)
LEMMA StepInv == OutboxInv /\ [Next]_vars => OutboxInv'
  <1>. SUFFICES ASSUME OutboxInv, [Next]_vars PROVE OutboxInv'
    OBVIOUS
  <1>1. CASE Next
    <2>1. TypeOK'
      BY <1>1, TypeStep DEF OutboxInv, DeliveryInv
    <2>2. \A ev \in Events : EmitInv(ev)'
      BY <1>1, EmitterTypes DEF OutboxInv
    <2>3. \A d \in Deliveries : DeliveryInv(d)'
      BY <1>1, DeliveryStep DEF OutboxInv
    <2>4. ASSUME NEW e \in Endpoints PROVE ChargeInv(e)'
      <3>1. \/ Kept(e)
            \/ \E d \in Deliveries : Faulted(e, d) \/ Abandoned(e, d) \/ Charged(e, d)
        BY <1>1, AccountSteps DEF OutboxInv
      <3>2. faults' \in Nat /\ faults <= faults'
        BY <1>1, Frames DEF OutboxInv
      <3>3. endpoint'[e].failures \in Nat
        BY <1>1, EndpointTypes DEF OutboxInv
      <3>. QED  BY <3>1, <3>2, <3>3, AccountBalances DEF OutboxInv
    <2>. QED  BY <2>1, <2>2, <2>3, <2>4 DEF OutboxInv
  <1>2. CASE UNCHANGED vars
    <2>1. TypeOK'
      BY <1>2 DEF vars, OutboxInv, TypeOK
    <2>2. \A ev \in Events : EmitInv(ev)'
      BY <1>2 DEF vars, OutboxInv, EmitInv
    <2>3. \A d \in Deliveries : DeliveryInv(d)'
      BY <1>2 DEF vars, OutboxInv, DeliveryInv, JobInv, AnswerInv, AttemptInv, IsFinalAttempt
    <2>4. \A e \in Endpoints : ChargeInv(e)'
      BY <1>2 DEF vars, OutboxInv, ChargeInv, GivenUp, Uncharged, Chargeable
    <2>. QED  BY <2>1, <2>2, <2>3, <2>4 DEF OutboxInv
  <1>. QED  BY <1>1, <1>2

(* The invariant of the outbox.                                             *)
THEOREM OutboxInvariant == Spec => []OutboxInv
BY InitInv, StepInv, PTL DEF Spec

(* Types; the sweeper's list holds each PENDING row at most once and no     *)
(* other; no job exceeds its attempts.                                      *)
THEOREM Typed == Spec => []TypeOK
BY OutboxInvariant, PTL DEF OutboxInv

(* A row is DELIVERED only if its receiver accepted the delivery.           *)
THEOREM OnlyReceivedIsDelivered == Spec => []DeliveredWasReceived
  <1>1. OutboxInv => DeliveredWasReceived
    BY DEF OutboxInv, DeliveryInv, AnswerInv, DeliveredWasReceived
  <1>. QED  BY <1>1, OutboxInvariant, PTL

(* A delivery is given up only when it was refused for good, or posted as   *)
(* often as the queue allows but for the attempts a fault cut short.        *)
THEOREM GivenUpLast == Spec => []GivesUpLast
  <1>1. OutboxInv => GivesUpLast
    BY DEF OutboxInv, DeliveryInv, AttemptInv, GivesUpLast, TypeOK
  <1>. QED  BY <1>1, OutboxInvariant, PTL

(* An endpoint's consecutive failures are deliveries given up, each counted *)
(* once but for one more per fault.                                         *)
THEOREM OneChargePerDelivery == Spec => []FailuresAreDeliveries
  <1>1. OutboxInv => FailuresAreDeliveries
    <2>. SUFFICES ASSUME OutboxInv, NEW e \in Endpoints
                  PROVE  endpoint[e].failures <= Cardinality({d \in gaveUp : EndpointOf(d) = e}) + faults
      BY DEF FailuresAreDeliveries
    <2>1. /\ endpoint[e].failures \in Nat /\ faults \in Nat
          /\ Uncharged(e) \subseteq Deliveries /\ GivenUp(e) \subseteq Deliveries
      BY Types DEF OutboxInv, Uncharged, GivenUp
    <2>2. Cardinality(Uncharged(e)) \in Nat /\ Cardinality(GivenUp(e)) \in Nat
      BY <2>1, FiniteDeliveries
    <2>3. endpoint[e].failures + Cardinality(Uncharged(e)) <= Cardinality(GivenUp(e)) + faults
      BY DEF OutboxInv, ChargeInv
    <2>. QED  BY <2>1, <2>2, <2>3 DEF GivenUp
  <1>. QED  BY <1>1, OutboxInvariant, PTL


-----------------------------------------------------------------------------
(* The mirror of Clerk and its keys. *)

Notices == [kind: {"user", "userGone", "org", "orgGone", "member", "memberGone"},
            org: Orgs \cup {"none"}, person: People \cup {Nobody},
            role: Roles \cup {"none"}, at: EventSteps, claimed: BOOLEAN, acked: BOOLEAN]

KeyRows == [state: {"none", "minting", "live", "revoked"}, tenant: Orgs \cup {"none"},
            by: People \cup {Nobody}, minter: People \cup {Nobody}, scopes: SUBSET Scopes]

Lists == [People -> Roles \cup {"none"}]

Nights == [at: {"idle", "orgs", "list", "members", "upsert", "stale", "revoke"},
           seen: SUBSET Orgs, orgs: SUBSET Orgs, org: Orgs \cup {"none"},
           upstream: Lists \cup {<<>>}, todo: SUBSET People, stale: SUBSET People,
           vanished: SUBSET People, person: People \cup {Nobody}]

(* An event is about what its kind says, and its handler stands at a        *)
(* statement of that kind.                                                  *)
NoticeOK(e) ==
  /\ e.kind \in {"org", "orgGone", "member", "memberGone"} => e.org \in Orgs
  /\ e.kind \in {"user", "userGone", "member", "memberGone"} => e.person \in People
  /\ e.at = "org" => e.kind \in {"org", "member"}
  /\ e.at = "user" => e.kind \in {"user", "member"}
  /\ e.at = "orgGone" => e.kind = "orgGone"
  /\ e.at = "userGone" => e.kind = "userGone"
  /\ e.at = "member" => e.kind = "member"
  /\ e.at \in {"remove", "revoke"} => e.kind = "memberGone"

ClerkInv == clerk \in [users: SUBSET People, orgs: SUBSET Orgs, role: [Orgs -> Lists]]

NoticesInv ==
  /\ events \in Seq(Notices) /\ Len(events) <= MaxChanges
  /\ \A i \in Handlers : NoticeOK(events[i])

(* A tenant is never without a row again, and a membership has its user.    *)
MirrorInv ==
  /\ tenant \in [Orgs -> {"live", "deleted"}] /\ user \subseteq People
  /\ member \in [Orgs -> Lists]
  /\ \A o \in Orgs, p \in People : member[o][p] # "none" => p \in user

(* The creator a key names is whoever minted it.                            *)
MinterInv == key \in [Keys -> KeyRows] /\ \A k \in Keys : key[k].by \in {Nobody, key[k].minter}

(* Past the list of an organization, the job works on it.                   *)
NightInv ==
  /\ nightly \in Nights
  /\ nightly.at \in {"list", "members", "upsert", "stale", "revoke"} => nightly.org \in Orgs
  /\ nightly.at \in {"members", "upsert", "stale", "revoke"} => nightly.upstream \in Lists

MirrorsInv == ClerkInv /\ NoticesInv /\ MirrorInv /\ MinterInv /\ NightInv /\ syncFaults \in 0..MaxSyncFaults

(* An event moves on.                                                       *)
LEMMA NoticeMoves ==
  ASSUME NoticesInv, NEW i \in Handlers, NEW e \in Notices, NoticeOK(e),
         events' = [events EXCEPT ![i] = e]
  PROVE  NoticesInv'
  <1>1. events' \in Seq(Notices) /\ Len(events') = Len(events)
    BY DEF NoticesInv, Handlers
  <1>2. \A n \in 1..Len(events) : events'[n] = IF n = i THEN e ELSE events[n]
    BY DEF NoticesInv, Handlers
  <1>. QED  BY <1>1, <1>2 DEF NoticesInv, Handlers

(* Another event is sent.                                                   *)
LEMMA NoticeSent ==
  ASSUME NoticesInv, Len(events) < MaxChanges, NEW e \in Notices, NoticeOK(e),
         events' = Append(events, e)
  PROVE  NoticesInv'
  <1>1. events' \in Seq(Notices) /\ Len(events') = Len(events) + 1
    BY DEF NoticesInv
  <1>2. \A n \in 1..Len(events') : events'[n] = IF n = Len(events') THEN e ELSE events[n]
    BY <1>1 DEF NoticesInv
  <1>. QED  BY <1>1, <1>2, FounderAssumption DEF NoticesInv, Handlers

(* Clerk's changes keep its lists and tell of themselves.                   *)
LEMMA ClerkStep ==
  ASSUME MirrorsInv, ClerkChanges
  PROVE  ClerkInv' /\ NoticesInv' /\ UNCHANGED <<tenant, user, member, key, nightly, syncFaults>>
  <1>1. \A r : memberRoleFromClerk(r) \in Roles
    BY DEF memberRoleFromClerk, Roles
  <1>2. ASSUME NEW kind \in {"user", "userGone", "org", "orgGone", "member", "memberGone"},
               NEW o, NEW p, NEW r \in Roles \cup {"none"}, Change, SvixSends(kind, o, p, r),
               \/ o \in Orgs /\ p \in People
               \/ o = "none" /\ p \in People /\ kind \in {"user", "userGone"}
               \/ o \in Orgs /\ p = Nobody /\ kind \in {"org", "orgGone"}
        PROVE  NoticesInv' /\ UNCHANGED <<tenant, user, member, key, nightly, syncFaults>>
    <2>. DEFINE e == [kind |-> kind, org |-> o, person |-> p, role |-> r,
                      at |-> "idle", claimed |-> FALSE, acked |-> FALSE]
    <2>1. e \in Notices
      BY <1>2 DEF Notices, EventSteps
    <2>2. NoticeOK(e)
      BY <1>2 DEF NoticeOK
    <2>3. events' = Append(events, e) /\ Len(events) < MaxChanges
      BY <1>2 DEF SvixSends, Change
    <2>4. NoticesInv'
      <3>. HIDE DEF e
      <3>. QED  BY <2>1, <2>2, <2>3, NoticeSent DEF MirrorsInv
    <2>. QED  BY <1>2, <2>4 DEF Change, mirrorVars
  <1>3. ASSUME NEW o \in Orgs, NEW p \in People, NEW r \in Roles \cup {"none"},
               clerk' = [clerk EXCEPT !.role[o][p] = r]
        PROVE  ClerkInv'
    <2>1. clerk.role \in [Orgs -> Lists] /\ clerk.role[o] \in Lists
      BY DEF MirrorsInv, ClerkInv
    <2>2. [clerk.role[o] EXCEPT ![p] = r] \in Lists
      BY <2>1 DEF Lists
    <2>3. clerk' = [clerk EXCEPT !.role = [clerk.role EXCEPT ![o] = [clerk.role[o] EXCEPT ![p] = r]]]
      BY <1>3
    <2>. QED  BY <2>1, <2>2, <2>3 DEF MirrorsInv, ClerkInv
  <1>4. ASSUME NEW p \in People, ClerkUpdatesUser(p) \/ ClerkDeletesUser(p)
        PROVE  ClerkInv' /\ NoticesInv' /\ UNCHANGED <<tenant, user, member, key, nightly, syncFaults>>
    <2>1. CASE ClerkUpdatesUser(p)
      <3>1. Change /\ SvixSends("user", "none", p, "none") /\ clerk' = clerk
        BY <2>1 DEF ClerkUpdatesUser
      <3>. QED  BY <3>1, <1>2 DEF MirrorsInv, ClerkInv
    <2>2. CASE ClerkDeletesUser(p)
      <3>. DEFINE left == [o \in Orgs |-> [clerk.role[o] EXCEPT ![p] = "none"]]
      <3>1. Change /\ SvixSends("userGone", "none", p, "none")
        BY <2>2 DEF ClerkDeletesUser
      <3>2. clerk' = [clerk EXCEPT !.users = clerk.users \ {p}, !.role = left]
        BY <2>2 DEF ClerkDeletesUser
      <3>3. left \in [Orgs -> Lists]
        BY DEF MirrorsInv, ClerkInv, Lists
      <3>4. ClerkInv'
        <4>. HIDE DEF left
        <4>. QED  BY <3>2, <3>3 DEF MirrorsInv, ClerkInv
      <3>. QED  BY <3>1, <3>4, <1>2
    <2>. QED  BY <1>4, <2>1, <2>2
  <1>5. ASSUME NEW o \in Orgs, ClerkUpdatesOrg(o) \/ ClerkDeletesOrg(o)
        PROVE  ClerkInv' /\ NoticesInv' /\ UNCHANGED <<tenant, user, member, key, nightly, syncFaults>>
    <2>1. CASE ClerkUpdatesOrg(o)
      <3>1. Change /\ SvixSends("org", o, Nobody, "none") /\ clerk' = clerk
        BY <2>1 DEF ClerkUpdatesOrg
      <3>. QED  BY <3>1, <1>2 DEF MirrorsInv, ClerkInv
    <2>2. CASE ClerkDeletesOrg(o)
      <3>. DEFINE none == [p \in People |-> "none"]
      <3>1. Change /\ SvixSends("orgGone", o, Nobody, "none")
        BY <2>2 DEF ClerkDeletesOrg
      <3>2. none \in Lists
        BY DEF Lists
      <3>3. clerk' = [clerk EXCEPT !.orgs = clerk.orgs \ {o}, !.role = [clerk.role EXCEPT ![o] = none]]
        BY <2>2 DEF ClerkDeletesOrg
      <3>4. ClerkInv'
        <4>. HIDE DEF none
        <4>. QED  BY <3>2, <3>3 DEF MirrorsInv, ClerkInv
      <3>. QED  BY <3>1, <3>4, <1>2
    <2>. QED  BY <1>5, <2>1, <2>2
  <1>6. ASSUME NEW o \in Orgs, NEW p \in People, ClerkRemovesMember(o, p)
        PROVE  ClerkInv' /\ NoticesInv' /\ UNCHANGED <<tenant, user, member, key, nightly, syncFaults>>
    <2>1. Change /\ SvixSends("memberGone", o, p, "none") /\ clerk' = [clerk EXCEPT !.role[o][p] = "none"]
      BY <1>6 DEF ClerkRemovesMember
    <2>. QED  BY <2>1, <1>2, <1>3
  <1>7. ASSUME NEW o \in Orgs, NEW p \in People, NEW r \in Roles, ClerkSetsRole(o, p, r)
        PROVE  ClerkInv' /\ NoticesInv' /\ UNCHANGED <<tenant, user, member, key, nightly, syncFaults>>
    <2>1. Change /\ SvixSends("member", o, p, r) /\ clerk' = [clerk EXCEPT !.role[o][p] = r]
      BY <1>7 DEF ClerkSetsRole
    <2>. QED  BY <2>1, <1>2, <1>3
  <1>. QED  BY <1>1, <1>4, <1>5, <1>6, <1>7 DEF ClerkChanges

(* A membership is set, or the row of its user is there by then.            *)
LEMMA MemberSet ==
  ASSUME MirrorInv, NEW o \in Orgs, NEW p \in People, NEW r \in Roles \cup {"none"},
         member' = [member EXCEPT ![o][p] = r], tenant' = tenant,
         user' \subseteq People, user \subseteq user', r # "none" => p \in user'
  PROVE  MirrorInv'
  <1>1. member \in [Orgs -> Lists] /\ member[o] \in Lists
    BY DEF MirrorInv
  <1>2. [member[o] EXCEPT ![p] = r] \in Lists
    BY <1>1 DEF Lists
  <1>3. member' = [member EXCEPT ![o] = [member[o] EXCEPT ![p] = r]]
    OBVIOUS
  <1>4. member' \in [Orgs -> Lists]
    BY <1>1, <1>2, <1>3
  <1>5. \A x \in Orgs, y \in People : member'[x][y] = IF x = o /\ y = p THEN r ELSE member[x][y]
    BY <1>1, <1>3 DEF Lists
  <1>. QED  BY <1>4, <1>5 DEF MirrorInv

(* A key loses its live state or its creator, and nothing else of it moves. *)
LEMMA KeysLose ==
  ASSUME MinterInv, key' \in [Keys -> KeyRows],
         \A k \in Keys : key'[k].minter = key[k].minter /\ key'[k].by \in {Nobody, key[k].by}
  PROVE  MinterInv'
  BY DEF MinterInv

LEMMA RevokedKeys ==
  ASSUME MinterInv, NEW o, NEW p, revokeKeysOf(o, p)
  PROVE  MinterInv'
  <1>1. \A k \in Keys : [key[k] EXCEPT !.state = "revoked"] \in KeyRows
    BY DEF MinterInv, KeyRows
  <1>2. key' \in [Keys -> KeyRows]
    BY <1>1 DEF revokeKeysOf, MinterInv
  <1>3. \A k \in Keys : key'[k].minter = key[k].minter /\ key'[k].by = key[k].by
    BY DEF revokeKeysOf, MinterInv, KeyRows
  <1>. QED  BY <1>2, <1>3, KeysLose

(* What somebody's departure adds to the rows the job will not find.        *)
LEMMA NightForgets ==
  ASSUME NightInv, NEW gone \in SUBSET People, nightly' = [nightly EXCEPT !.vanished = gone]
  PROVE  NightInv'
  <1>1. nightly' \in Nights
    BY DEF NightInv, Nights
  <1>2. nightly'.at = nightly.at /\ nightly'.org = nightly.org /\ nightly'.upstream = nightly.upstream
    BY DEF NightInv, Nights
  <1>. QED  BY <1>1, <1>2 DEF NightInv

(* Where a handler goes next.                                               *)
LEMMA HandlerGoes ==
  ASSUME NoticesInv, NEW i \in Handlers, NEW e, e.at \in EventSteps,
         e = [events[i] EXCEPT !.at = e.at, !.claimed = e.claimed, !.acked = e.acked],
         e.claimed \in BOOLEAN, e.acked \in BOOLEAN,
         NoticeOK([events[i] EXCEPT !.at = e.at]), events' = [events EXCEPT ![i] = e]
  PROVE  NoticesInv'
  <1>1. events[i] \in Notices
    BY DEF NoticesInv, Handlers
  <1>2. e \in Notices
    BY <1>1 DEF Notices
  <1>3. NoticeOK(e)
    <2>1. e.kind = events[i].kind /\ e.org = events[i].org /\ e.person = events[i].person
      BY <1>1 DEF Notices
    <2>2. /\ [events[i] EXCEPT !.at = e.at].kind = events[i].kind
          /\ [events[i] EXCEPT !.at = e.at].org = events[i].org
          /\ [events[i] EXCEPT !.at = e.at].person = events[i].person
          /\ [events[i] EXCEPT !.at = e.at].at = e.at
      BY <1>1 DEF Notices
    <2>. QED  BY <2>1, <2>2 DEF NoticeOK
  <1>. QED  BY <1>2, <1>3, NoticeMoves

(* The forms in which the handler's actions say so.                         *)
LEMMA HandlerMoves ==
  ASSUME NoticesInv, NEW i \in Handlers, NEW place \in EventSteps,
         NoticeOK([events[i] EXCEPT !.at = place]),
         NEW claimed \in BOOLEAN,
         \/ events' = [events EXCEPT ![i].at = place]
         \/ events' = [events EXCEPT ![i].at = place, ![i].acked = TRUE]
         \/ events' = [events EXCEPT ![i].at = place, ![i].claimed = claimed]
         \/ events' = [events EXCEPT ![i].claimed = claimed, ![i].at = place]
         \/ events' = [events EXCEPT ![i].acked = TRUE] /\ place = events[i].at
  PROVE  NoticesInv'
  <1>. DEFINE old == events[i]
  <1>1. old \in Notices /\ events \in Seq(Notices) /\ i \in 1..Len(events)
    BY DEF NoticesInv, Handlers
  <1>2. ASSUME NEW e, events' = [events EXCEPT ![i] = e],
               \/ e = [old EXCEPT !.at = place]
               \/ e = [old EXCEPT !.at = place, !.acked = TRUE]
               \/ e = [old EXCEPT !.at = place, !.claimed = claimed]
               \/ e = [old EXCEPT !.claimed = claimed, !.at = place]
               \/ e = [old EXCEPT !.acked = TRUE] /\ place = old.at
        PROVE  NoticesInv'
    <2>1. /\ e.at = place /\ e.claimed \in BOOLEAN /\ e.acked \in BOOLEAN
          /\ e = [old EXCEPT !.at = e.at, !.claimed = e.claimed, !.acked = e.acked]
      BY <1>1, <1>2 DEF Notices
    <2>2. NoticeOK([old EXCEPT !.at = e.at])
      BY <2>1
    <2>3. e.at \in EventSteps /\ events' = [events EXCEPT ![i] = e]
      BY <1>2, <2>1
    <2>. QED  BY <2>1, <2>2, <2>3, HandlerGoes, ZenonT(30)
  <1>3. CASE events' = [events EXCEPT ![i].at = place]
    BY <1>2, <1>3
  <1>4. CASE events' = [events EXCEPT ![i].at = place, ![i].acked = TRUE]
    <2>1. events' = [events EXCEPT ![i] = [old EXCEPT !.at = place, !.acked = TRUE]]
      BY <1>4
    <2>. QED  BY <1>2, <2>1
  <1>5. CASE events' = [events EXCEPT ![i].at = place, ![i].claimed = claimed]
    <2>1. events' = [events EXCEPT ![i] = [old EXCEPT !.at = place, !.claimed = claimed]]
      BY <1>5
    <2>. QED  BY <1>2, <2>1
  <1>6. CASE events' = [events EXCEPT ![i].claimed = claimed, ![i].at = place]
    <2>1. events' = [events EXCEPT ![i] = [old EXCEPT !.claimed = claimed, !.at = place]]
      BY <1>6
    <2>. QED  BY <1>2, <2>1
  <1>7. CASE events' = [events EXCEPT ![i].acked = TRUE] /\ place = old.at
    BY <1>2, <1>7
  <1>. QED  BY <1>3, <1>4, <1>5, <1>6, <1>7

(* A delivery is claimed, fails, is given up or answered as a duplicate.    *)
LEMMA NoticeStep ==
  ASSUME MirrorsInv, NEW i \in Handlers, ClaimDelivery(i) \/ HandlerFails(i) \/ DeliveryEnds(i)
  PROVE  MirrorsInv'
  <1>. DEFINE e == events[i]
  <1>1. e \in Notices /\ NoticeOK(e) /\ NoticesInv
    BY DEF MirrorsInv, NoticesInv, Handlers
  <1>2. NoticeOK([e EXCEPT !.at = "idle"]) /\ NoticeOK([e EXCEPT !.at = e.at]) /\ e.at \in EventSteps
    BY <1>1 DEF NoticeOK, Notices
  <1>3. CASE ClaimDelivery(i)
    <2>1. CASE e.claimed
      <3>1. events' = [events EXCEPT ![i].acked = TRUE]
        BY <1>3, <2>1 DEF ClaimDelivery
      <3>2. NoticesInv'
        BY <1>1, <1>2, <3>1, HandlerMoves
      <3>. QED  BY <1>3, <3>2 DEF ClaimDelivery, mirrorVars, MirrorsInv, ClerkInv, MirrorInv, MinterInv, NightInv
    <2>2. CASE ~e.claimed
      <3>. DEFINE place == FirstStep(e.kind)
      <3>1. place \in EventSteps /\ NoticeOK([e EXCEPT !.at = place])
        BY <1>1 DEF FirstStep, EventSteps, NoticeOK, Notices
      <3>2. events' = [events EXCEPT ![i].claimed = TRUE, ![i].at = place]
        BY <1>3, <2>2 DEF ClaimDelivery
      <3>3. NoticesInv'
        <4>. HIDE DEF place
        <4>. QED  BY <1>1, <3>1, <3>2, HandlerMoves
      <3>. QED  BY <1>3, <3>3 DEF ClaimDelivery, mirrorVars, MirrorsInv, ClerkInv, MirrorInv, MinterInv, NightInv
    <2>. QED  BY <2>1, <2>2
  <1>4. CASE HandlerFails(i)
    <2>1. PICK kept \in BOOLEAN : events' = [events EXCEPT ![i].at = "idle", ![i].claimed = kept]
      BY <1>4 DEF HandlerFails
    <2>2. NoticesInv'
      BY <1>1, <1>2, <2>1, HandlerMoves DEF EventSteps
    <2>3. syncFaults' \in 0..MaxSyncFaults
      BY <1>4, FounderAssumption DEF HandlerFails, SyncFault, MirrorsInv
    <2>. QED  BY <1>4, <2>2, <2>3 DEF HandlerFails, mirrorVars, MirrorsInv, ClerkInv, MirrorInv, MinterInv, NightInv
  <1>5. CASE DeliveryEnds(i)
    <2>1. events' = [events EXCEPT ![i].acked = TRUE]
      BY <1>5 DEF DeliveryEnds
    <2>2. NoticesInv'
      BY <1>1, <1>2, <2>1, HandlerMoves
    <2>3. syncFaults' \in 0..MaxSyncFaults
      BY <1>5, FounderAssumption DEF DeliveryEnds, SyncFault, MirrorsInv
    <2>. QED  BY <1>5, <2>2, <2>3 DEF DeliveryEnds, mirrorVars, MirrorsInv, ClerkInv, MirrorInv, MinterInv, NightInv
  <1>. QED  BY <1>3, <1>4, <1>5

(* A user goes: its memberships with it, and its keys lose their creator.   *)
LEMMA UserGone ==
  ASSUME MirrorInv, MinterInv, NEW p \in People, deleteClerkUser(p), tenant' = tenant
  PROVE  MirrorInv' /\ MinterInv'
  <1>1. member' \in [Orgs -> Lists]
    BY DEF deleteClerkUser, MirrorInv, Lists
  <1>2. \A o \in Orgs, x \in People : member'[o][x] = IF x = p THEN "none" ELSE member[o][x]
    BY DEF deleteClerkUser, MirrorInv, Lists
  <1>3. MirrorInv'
    BY <1>1, <1>2 DEF deleteClerkUser, MirrorInv
  <1>4. \A k \in Keys : [key[k] EXCEPT !.by = Nobody] \in KeyRows
    BY DEF MinterInv, KeyRows
  <1>5. key' \in [Keys -> KeyRows]
    BY <1>4 DEF deleteClerkUser, MinterInv
  <1>6. \A k \in Keys : key'[k].minter = key[k].minter /\ key'[k].by \in {Nobody, key[k].by}
    BY DEF deleteClerkUser, MinterInv, KeyRows
  <1>. QED  BY <1>3, <1>5, <1>6, KeysLose

(* A statement of a handler.                                                *)
LEMMA ApplyStep ==
  ASSUME MirrorsInv, NEW i \in Handlers, apply(i)
  PROVE  MirrorsInv'
  <1>. DEFINE e == events[i]
  <1>1. /\ e \in Notices /\ NoticeOK(e) /\ NoticesInv /\ MirrorInv /\ MinterInv /\ NightInv
        /\ \A r \in Roles : r # "none"
    BY DEF MirrorsInv, NoticesInv, Handlers, Roles
  <1>2. NoticeOK([e EXCEPT !.at = "idle"]) /\ NoticeOK([e EXCEPT !.at = "done"])
    BY <1>1 DEF NoticeOK, Notices
  <1>3. Acknowledge(i) => NoticesInv'
    <2>1. ASSUME events' = [events EXCEPT ![i].at = "done", ![i].acked = TRUE] PROVE NoticesInv'
      BY <1>1, <1>2, <2>1, HandlerMoves DEF EventSteps
    <2>. QED  BY <2>1 DEF Acknowledge
  <1>4. ASSUME NEW place \in EventSteps, NoticeOK([e EXCEPT !.at = place]), Goes(i, place)
        PROVE  NoticesInv'
    BY <1>1, <1>4, HandlerMoves DEF Goes
  <1>5. CASE ApplyOrg(i)
    <2>1. e.at = "org" /\ e.org \in Orgs
      BY <1>1, <1>5 DEF ApplyOrg, NoticeOK
    <2>2. NoticesInv'
      <3>1. CASE e.kind = "member"
        <4>1. NoticeOK([e EXCEPT !.at = "user"])
          BY <1>1, <3>1 DEF NoticeOK, Notices
        <4>. QED  BY <4>1, <3>1, <1>4, <1>5 DEF ApplyOrg, EventSteps
      <3>. QED  BY <3>1, <1>3, <1>5 DEF ApplyOrg
    <2>3. MirrorInv'
      BY <1>1, <1>5, <2>1 DEF ApplyOrg, syncClerkOrganization, MirrorInv
    <2>. QED  BY <1>5, <2>2, <2>3 DEF ApplyOrg, MirrorsInv, ClerkInv, MinterInv, NightInv
  <1>6. CASE ApplyOrgGone(i)
    <2>1. MirrorInv'
      BY <1>1, <1>6 DEF ApplyOrgGone, deleteClerkOrganization, MirrorInv
    <2>. QED  BY <1>3, <1>6, <2>1 DEF ApplyOrgGone, MirrorsInv, ClerkInv, MinterInv, NightInv
  <1>7. CASE ApplyUser(i)
    <2>1. e.at = "user" /\ e.person \in People
      BY <1>1, <1>7 DEF ApplyUser, NoticeOK
    <2>2. NoticesInv'
      <3>1. CASE e.kind = "member"
        <4>1. NoticeOK([e EXCEPT !.at = "member"])
          BY <1>1, <3>1 DEF NoticeOK, Notices
        <4>. QED  BY <4>1, <3>1, <1>4, <1>7 DEF ApplyUser, EventSteps
      <3>. QED  BY <3>1, <1>3, <1>7 DEF ApplyUser
    <2>3. MirrorInv'
      BY <1>1, <1>7, <2>1 DEF ApplyUser, syncClerkUser, MirrorInv
    <2>. QED  BY <1>7, <2>2, <2>3 DEF ApplyUser, MirrorsInv, ClerkInv, MinterInv, NightInv
  <1>8. CASE ApplyUserGone(i)
    <2>1. e.at = "userGone" /\ e.person \in People
      BY <1>1, <1>8 DEF ApplyUserGone, NoticeOK
    <2>2. deleteClerkUser(e.person) /\ tenant' = tenant /\ clerk' = clerk /\ syncFaults' = syncFaults
      BY <1>8 DEF ApplyUserGone
    <2>3. MirrorInv' /\ MinterInv'
      BY <1>1, <2>1, <2>2, UserGone
    <2>4. NightInv'
      <3>1. nightly.vanished \cup {e.person} \in SUBSET People
        BY <1>1, <2>1 DEF NightInv, Nights
      <3>2. nightly' = [nightly EXCEPT !.vanished = nightly.vanished \cup {e.person}]
        BY <2>2 DEF deleteClerkUser
      <3>. QED  BY <1>1, <3>1, <3>2, NightForgets
    <2>. QED  BY <1>3, <1>8, <2>2, <2>3, <2>4 DEF ApplyUserGone, MirrorsInv, ClerkInv
  <1>9. CASE ApplyMember(i)
    <2>1. e.at = "member" /\ e.person \in People /\ e.org \in Orgs /\ e.role \in Roles \cup {"none"}
      BY <1>1, <1>9 DEF ApplyMember, NoticeOK, Notices
    <2>2. UNCHANGED <<clerk, tenant, user, key, nightly, syncFaults>>
      BY <1>9 DEF ApplyMember
    <2>3. CASE e.person \in user /\ member' = [member EXCEPT ![e.org][e.person] = e.role] /\ Acknowledge(i)
      <3>1. MirrorInv'
        <4>1. user' \subseteq People /\ user \subseteq user'
          BY <1>1, <2>2 DEF MirrorInv
        <4>. HIDE DEF e
        <4>. QED  BY <1>1, <2>1, <2>2, <2>3, <4>1, MemberSet
      <3>. QED  BY <1>3, <2>2, <2>3, <3>1 DEF MirrorsInv, ClerkInv, MinterInv, NightInv
    <2>4. CASE events' = [events EXCEPT ![i].at = "idle", ![i].claimed = FALSE] /\ member' = member
      <3>1. NoticesInv'
        BY <1>1, <1>2, <2>4, HandlerMoves DEF EventSteps
      <3>. QED  BY <2>2, <2>4, <3>1 DEF MirrorsInv, ClerkInv, MirrorInv, MinterInv, NightInv
    <2>. QED  BY <1>9, <2>3, <2>4 DEF ApplyMember
  <1>10. CASE ApplyRemoval(i)
    <2>1. e.at = "remove" /\ e.person \in People /\ e.org \in Orgs /\ e.kind = "memberGone"
      BY <1>1, <1>10 DEF ApplyRemoval, NoticeOK, Notices
    <2>2. UNCHANGED <<clerk, tenant, user, key, syncFaults>>
      BY <1>10 DEF ApplyRemoval
    <2>3. CASE Acknowledge(i) /\ UNCHANGED <<member, nightly>>
      BY <1>3, <2>2, <2>3 DEF MirrorsInv, ClerkInv, MirrorInv, MinterInv, NightInv
    <2>4. CASE /\ member' = [member EXCEPT ![e.org][e.person] = "none"] /\ Goes(i, "revoke")
               /\ nightly' = [nightly EXCEPT !.vanished =
                                IF e.org = nightly.org THEN @ \cup {e.person} ELSE @]
      <3>1. MirrorInv'
        <4>1. user' \subseteq People /\ user \subseteq user'
          BY <1>1, <2>2 DEF MirrorInv
        <4>. HIDE DEF e
        <4>. QED  BY <1>1, <2>1, <2>2, <2>4, <4>1, MemberSet
      <3>2. NoticesInv'
        <4>1. NoticeOK([e EXCEPT !.at = "revoke"])
          BY <1>1, <2>1 DEF NoticeOK, Notices
        <4>. QED  BY <4>1, <1>4, <2>4 DEF EventSteps
      <3>3. NightInv'
        <4>. DEFINE gone == IF e.org = nightly.org THEN nightly.vanished \cup {e.person} ELSE nightly.vanished
        <4>1. gone \in SUBSET People
          BY <1>1, <2>1 DEF NightInv, Nights
        <4>2. nightly' = [nightly EXCEPT !.vanished = gone]
          BY <2>4
        <4>. HIDE DEF gone
        <4>. QED  BY <1>1, <4>1, <4>2, NightForgets
      <3>. QED  BY <2>2, <3>1, <3>2, <3>3 DEF MirrorsInv, ClerkInv, MinterInv
    <2>. QED  BY <1>10, <2>3, <2>4 DEF ApplyRemoval
  <1>11. CASE ApplyRevocation(i)
    <2>1. MinterInv'
      BY <1>1, <1>11, RevokedKeys DEF ApplyRevocation
    <2>. QED  BY <1>3, <1>11, <2>1 DEF ApplyRevocation, mirrorVars, MirrorsInv, ClerkInv, MirrorInv, NightInv
  <1>. QED  BY <1>5, <1>6, <1>7, <1>8, <1>9, <1>10, <1>11 DEF apply

(* The job wakes, works through an organization's list, or stops.           *)
LEMMA NightStep ==
  ASSUME MirrorsInv, Reconcile \/ ReconcileFails
  PROVE  MirrorsInv'
  <1>1. MirrorInv /\ MinterInv /\ NightInv /\ ClerkInv /\ NoticesInv /\ nightly \in Nights /\ \A r \in Roles : r # "none"
    BY DEF MirrorsInv, NightInv, Roles
  <1>2. Asleep \in Nights /\ Asleep.at = "idle"
    BY DEF Asleep, Nights
  <1>3. nightly' = Asleep => NightInv'
    BY <1>2 DEF NightInv
  <1>4. CASE ReconcileFails
    <2>1. syncFaults' \in 0..MaxSyncFaults
      BY <1>4, FounderAssumption DEF ReconcileFails, SyncFault, MirrorsInv
    <2>. QED  BY <1>1, <1>3, <1>4, <2>1
              DEF ReconcileFails, mirrorVars, MirrorsInv, ClerkInv, NoticesInv, MirrorInv, MinterInv, Handlers
  <1>5. CASE ReconcileStarts
    <2>1. NightInv'
      <3>1. clerk.orgs \in SUBSET Orgs
        BY <1>1 DEF ClerkInv
      <3>2. nightly' \in Nights /\ nightly'.at = "orgs"
        BY <1>2, <1>5, <3>1 DEF ReconcileStarts, Nights
      <3>. QED  BY <3>2 DEF NightInv
    <2>. QED  BY <1>1, <1>5, <2>1
              DEF ReconcileStarts, mirrorVars, MirrorsInv, ClerkInv, NoticesInv, MirrorInv, MinterInv, Handlers
  <1>6. ASSUME NEW o \in Orgs, ReconcileOrg(o) PROVE MirrorsInv'
    <2>1. NightInv'
      <3>1. nightly' \in Nights /\ nightly'.at = "list" /\ nightly'.org = o
        BY <1>1, <1>6 DEF ReconcileOrg, Nights
      <3>. QED  BY <3>1 DEF NightInv
    <2>2. MirrorInv'
      BY <1>1, <1>6 DEF ReconcileOrg, MirrorInv
    <2>. QED  BY <1>1, <1>6, <2>1, <2>2
              DEF ReconcileOrg, MirrorsInv, ClerkInv, NoticesInv, MinterInv, Handlers
  <1>7. CASE ReconcileList
    <2>. DEFINE o == nightly.org
                todo == {p \in People : clerk.role[o][p] # "none"}
    <2>1. NightInv'
      <3>1. CASE o \in clerk.orgs
        <4>1. o \in Orgs /\ clerk.role[o] \in Lists /\ todo \in SUBSET People
          BY <1>1, <3>1 DEF ClerkInv
        <4>2. nightly' = [nightly EXCEPT !.at = "members", !.upstream = clerk.role[o], !.todo = todo]
          BY <1>7, <3>1 DEF ReconcileList
        <4>3. nightly' \in Nights /\ nightly'.at = "members" /\ nightly'.org = o /\ nightly'.upstream = clerk.role[o]
          <5>. HIDE DEF todo
          <5>. QED  BY <1>1, <4>1, <4>2 DEF Nights
        <4>. QED  BY <4>1, <4>3 DEF NightInv
      <3>. QED  BY <1>3, <1>7, <3>1 DEF ReconcileList
    <2>. QED  BY <1>1, <1>7, <2>1
              DEF ReconcileList, mirrorVars, MirrorsInv, ClerkInv, NoticesInv, MirrorInv, MinterInv, Handlers
  <1>8. ASSUME NEW p \in People, reconcileMember(p) PROVE MirrorsInv'
    <2>1. MirrorInv'
      BY <1>1, <1>8 DEF reconcileMember, syncClerkUser, MirrorInv
    <2>2. NightInv'
      <3>1. nightly.at = "members" /\ nightly.org \in Orgs /\ nightly.upstream \in Lists
        BY <1>1, <1>8 DEF reconcileMember, NightInv
      <3>2. \/ nightly' = [nightly EXCEPT !.todo = @ \ {p}]
            \/ nightly' = [nightly EXCEPT !.at = "upsert", !.person = p, !.todo = @ \ {p}]
        BY <1>8 DEF reconcileMember
      <3>3. /\ nightly' \in Nights /\ nightly'.at \in {"members", "upsert"} /\ nightly'.org = nightly.org
            /\ nightly'.upstream = nightly.upstream
        <4>1. nightly \in Nights
          BY <1>1
        <4>2. CASE nightly' = [nightly EXCEPT !.todo = @ \ {p}]
          BY <3>1, <4>1, <4>2 DEF Nights
        <4>3. CASE nightly' = [nightly EXCEPT !.at = "upsert", !.person = p, !.todo = @ \ {p}]
          BY <3>1, <4>1, <4>3 DEF Nights
        <4>. QED  BY <3>2, <4>2, <4>3
      <3>. QED  BY <3>1, <3>3 DEF NightInv
    <2>. QED  BY <1>1, <1>8, <2>1, <2>2
              DEF reconcileMember, MirrorsInv, ClerkInv, NoticesInv, MinterInv, Handlers
  <1>14. CASE reconcileUpsert
    <2>1. nightly.at = "upsert" /\ nightly.org \in Orgs /\ nightly.upstream \in Lists
          /\ UNCHANGED <<clerk, events, tenant, user, key, syncFaults>>
      BY <1>1, <1>14 DEF reconcileUpsert, NightInv
    <2>2. CASE nightly' = Asleep /\ member' = member
      BY <1>1, <1>3, <2>1, <2>2 DEF MirrorsInv, ClerkInv, NoticesInv, MirrorInv, MinterInv, Handlers
    <2>3. CASE /\ nightly.person \in user
               /\ member' = [member EXCEPT ![nightly.org][nightly.person] = nightly.upstream[nightly.person]]
               /\ nightly' = [nightly EXCEPT !.at = "members", !.person = Nobody]
      <3>1. PICK p \in People : p = nightly.person /\ p \in user
        BY <1>1, <2>3 DEF MirrorInv
      <3>2. nightly.upstream[p] \in Roles \cup {"none"}
        BY <2>1 DEF Lists
      <3>3. MirrorInv'
        <4>1. user' \subseteq People /\ user \subseteq user' /\ p \in user' /\ tenant' = tenant
          BY <1>1, <2>1, <3>1 DEF MirrorInv
        <4>2. member' = [member EXCEPT ![nightly.org][p] = nightly.upstream[p]]
          BY <2>3, <3>1
        <4>. QED  BY <1>1, <2>1, <3>2, <4>1, <4>2, MemberSet
      <3>4. NightInv'
        <4>1. /\ nightly' \in Nights /\ nightly'.at = "members" /\ nightly'.org = nightly.org
              /\ nightly'.upstream = nightly.upstream
          BY <1>1, <2>1, <2>3 DEF Nights
        <4>. QED  BY <2>1, <4>1 DEF NightInv
      <3>. QED  BY <1>1, <2>1, <3>3, <3>4 DEF MirrorsInv, ClerkInv, NoticesInv, MinterInv, Handlers
    <2>. QED  BY <1>14, <2>2, <2>3 DEF reconcileUpsert
  <1>9. CASE reconcileLocals
    <2>. DEFINE stale == {p \in People : member[nightly.org][p] # "none" /\ nightly.upstream[p] = "none"}
    <2>1. nightly.at = "members" /\ nightly' = [nightly EXCEPT !.at = "stale", !.stale = stale, !.vanished = {}]
      BY <1>9 DEF reconcileLocals
    <2>2. stale \in SUBSET People
      OBVIOUS
    <2>3. NightInv'
      <3>. HIDE DEF stale
      <3>1. /\ nightly' \in Nights /\ nightly'.at = "stale" /\ nightly'.org = nightly.org
            /\ nightly'.upstream = nightly.upstream
        BY <1>1, <2>1, <2>2 DEF Nights
      <3>. QED  BY <1>1, <2>1, <3>1 DEF NightInv
    <2>. QED  BY <1>1, <1>9, <2>3
              DEF reconcileLocals, mirrorVars, MirrorsInv, ClerkInv, NoticesInv, MirrorInv, MinterInv, Handlers
  <1>10. ASSUME NEW p \in People, reconcileDelete(p) PROVE MirrorsInv'
    <2>1. nightly.at = "stale" /\ nightly.org \in Orgs /\ p \in nightly.stale
          /\ UNCHANGED <<clerk, events, tenant, user, key, syncFaults>>
      BY <1>1, <1>10 DEF reconcileDelete, NightInv
    <2>2. CASE nightly' = Asleep /\ member' = member
      BY <1>1, <1>3, <2>1, <2>2 DEF MirrorsInv, ClerkInv, NoticesInv, MirrorInv, MinterInv, Handlers
    <2>3. CASE /\ member' = [member EXCEPT ![nightly.org][p] = "none"]
               /\ nightly' = [nightly EXCEPT !.at = "revoke", !.person = p, !.stale = @ \ {p}]
      <3>1. MirrorInv'
        <4>1. user' \subseteq People /\ user \subseteq user' /\ tenant' = tenant
          BY <1>1, <2>1 DEF MirrorInv
        <4>. QED  BY <1>1, <2>1, <2>3, <4>1, MemberSet
      <3>2. NightInv'
        <4>1. /\ nightly' \in Nights /\ nightly'.at = "revoke" /\ nightly'.org = nightly.org
              /\ nightly'.upstream = nightly.upstream
          BY <1>1, <2>1, <2>3 DEF Nights
        <4>. QED  BY <1>1, <2>1, <4>1 DEF NightInv
      <3>. QED  BY <1>1, <2>1, <3>1, <3>2 DEF MirrorsInv, ClerkInv, NoticesInv, MinterInv, Handlers
    <2>. QED  BY <1>10, <2>2, <2>3 DEF reconcileDelete
  <1>11. CASE reconcileRevoke
    <2>1. MinterInv'
      BY <1>1, <1>11, RevokedKeys DEF reconcileRevoke
    <2>2. NightInv'
      <3>1. /\ nightly.at = "revoke" /\ nightly' \in Nights /\ nightly'.at = "stale" /\ nightly'.org = nightly.org
            /\ nightly'.upstream = nightly.upstream
        BY <1>1, <1>11 DEF reconcileRevoke, Nights
      <3>. QED  BY <1>1, <3>1 DEF NightInv
    <2>. QED  BY <1>1, <1>11, <2>1, <2>2
              DEF reconcileRevoke, mirrorVars, MirrorsInv, ClerkInv, NoticesInv, MirrorInv, Handlers
  <1>12. CASE ReconcileNextOrg
    <2>1. NightInv'
      <3>1. nightly' \in Nights /\ nightly'.at = "orgs"
        BY <1>1, <1>12 DEF ReconcileNextOrg, Nights
      <3>. QED  BY <3>1 DEF NightInv
    <2>. QED  BY <1>1, <1>12, <2>1
              DEF ReconcileNextOrg, mirrorVars, MirrorsInv, ClerkInv, NoticesInv, MirrorInv, MinterInv, Handlers
  <1>13. CASE ReconcileOrphans
    <2>1. MirrorInv'
      BY <1>1, <1>13 DEF ReconcileOrphans, MirrorInv
    <2>. QED  BY <1>1, <1>3, <1>13, <2>1
              DEF ReconcileOrphans, MirrorsInv, ClerkInv, NoticesInv, MinterInv, Handlers
  <1>. QED  BY <1>4, <1>5, <1>6, <1>7, <1>8, <1>9, <1>10, <1>11, <1>12, <1>13, <1>14
            DEF Reconcile, reconcileMemberships

(* Whoever a request is from acts as a person or a workspace, with scopes   *)
(* this build knows.                                                        *)
LEMMA Actors ==
  ASSUME MirrorsInv, NEW actor \in authenticate
  PROVE  actor.tenant \in Orgs \cup {"none"} /\ actor.user \in People \cup {Nobody} /\ actor.scopes \subseteq Scopes
  <1>1. ASSUME NEW k \in Keys, NEW wanted, actor \in authenticateApiKey(k, wanted)
        PROVE  actor.tenant \in Orgs \cup {"none"} /\ actor.user \in People \cup {Nobody} /\ actor.scopes \subseteq Scopes
    <2>1. actor = keyActor(k) /\ key[k] \in KeyRows
      BY <1>1 DEF authenticateApiKey, MirrorsInv, MinterInv
    <2>. QED  BY <2>1 DEF keyActor, KeyRows
  <1>2. ASSUME NEW p \in People, NEW scopes \in {Scopes, DefaultScopes}, NEW wanted,
               actor \in authenticateClerk(p, scopes, wanted)
        PROVE  actor.tenant \in Orgs \cup {"none"} /\ actor.user \in People \cup {Nobody} /\ actor.scopes \subseteq Scopes
    <2>1. PICK o \in Orgs : actor = sessionActor(p, o, scopes)
      BY <1>2 DEF authenticateClerk, resolveMembership
    <2>. QED  BY <2>1 DEF sessionActor, parseScopeList
  <1>3. \/ \E w \in Keys \X (Orgs \cup {"any"}) : actor \in authenticateApiKey(w[1], w[2])
        \/ \E w \in People \X {Scopes, DefaultScopes} \X (Orgs \cup {"any"}) :
              actor \in authenticateClerk(w[1], w[2], w[3])
    BY DEF authenticate
  <1>4. CASE \E w \in Keys \X (Orgs \cup {"any"}) : actor \in authenticateApiKey(w[1], w[2])
    <2>1. PICK w \in Keys \X (Orgs \cup {"any"}) : actor \in authenticateApiKey(w[1], w[2])
      BY <1>4
    <2>2. w[1] \in Keys
      OBVIOUS
    <2>. QED  BY <1>1, <2>1, <2>2
  <1>5. CASE \E w \in People \X {Scopes, DefaultScopes} \X (Orgs \cup {"any"}) :
               actor \in authenticateClerk(w[1], w[2], w[3])
    <2>1. PICK w \in People \X {Scopes, DefaultScopes} \X (Orgs \cup {"any"}) :
            actor \in authenticateClerk(w[1], w[2], w[3])
      BY <1>5
    <2>2. w[1] \in People /\ w[2] \in {Scopes, DefaultScopes}
      OBVIOUS
    <2>. QED  BY <1>2, <2>1, <2>2
  <1>. QED  BY <1>3, <1>4, <1>5

(* Keys are minted by whoever acts, inserted, bootstrapped and revoked.     *)
LEMMA KeyStep ==
  ASSUME MirrorsInv, NEW k \in Keys, MintKey(k) \/ createApiKey(k) \/ BootstrapKey(k) \/ revokeApiKey(k)
  PROVE  MirrorsInv'
  <1>1. MinterInv /\ key[k] \in KeyRows /\ NoKey \in KeyRows /\ NoKey.by = Nobody
    BY DEF MirrorsInv, MinterInv, NoKey, KeyRows
  <1>2. ASSUME NEW new \in KeyRows, new.by \in {Nobody, new.minter}, key' = [key EXCEPT ![k] = new]
        PROVE  MinterInv'
    BY <1>1, <1>2 DEF MinterInv
  <1>3. UNCHANGED <<clerk, events, nightly, syncFaults, tenant, user, member>>
    <2>1. CASE MintKey(k)
      BY <2>1 DEF MintKey, mirrorVars
    <2>2. CASE createApiKey(k)
      BY <2>2 DEF createApiKey, mirrorVars
    <2>3. CASE BootstrapKey(k)
      BY <2>3, Zenon DEF BootstrapKey, mirrorVars
    <2>4. CASE revokeApiKey(k)
      BY <2>4 DEF revokeApiKey, mirrorVars
    <2>. QED  BY <2>1, <2>2, <2>3, <2>4
  <1>4. MinterInv'
    <2>1. CASE MintKey(k)
      <3>1. PICK actor \in authenticate, requested \in {Scopes, DefaultScopes} :
              key' = [key EXCEPT ![k] =
                        [state |-> "minting", tenant |-> actor.tenant, by |-> actor.user,
                         minter |-> actor.user, scopes |-> grantableScopes(actor.scopes, requested)]]
        BY <2>1 DEF MintKey
      <3>. DEFINE new == [state |-> "minting", tenant |-> actor.tenant, by |-> actor.user,
                          minter |-> actor.user, scopes |-> grantableScopes(actor.scopes, requested)]
      <3>2. new \in KeyRows /\ new.by = new.minter
        BY Actors DEF KeyRows, grantableScopes
      <3>. HIDE DEF new
      <3>. QED  BY <1>2, <3>1, <3>2 DEF new
    <2>2. CASE createApiKey(k)
      <3>1. key' = [key EXCEPT ![k] = [key[k] EXCEPT !.state = "live"]] \/ key' = [key EXCEPT ![k] = NoKey]
        BY <2>2 DEF createApiKey
      <3>2. [key[k] EXCEPT !.state = "live"] \in KeyRows /\ [key[k] EXCEPT !.state = "live"].by \in {Nobody, [key[k] EXCEPT !.state = "live"].minter}
        BY <1>1 DEF KeyRows, MinterInv
      <3>. QED  BY <1>1, <1>2, <3>1, <3>2
    <2>3. CASE BootstrapKey(k)
      <3>1. PICK o \in Orgs : key' = [key EXCEPT ![k] = [NoKey EXCEPT !.state = "live", !.tenant = o, !.scopes = Scopes]]
        BY <2>3, Zenon DEF BootstrapKey
      <3>. DEFINE new == [NoKey EXCEPT !.state = "live", !.tenant = o, !.scopes = Scopes]
      <3>2. new \in KeyRows /\ new.by = Nobody
        BY DEF KeyRows, NoKey
      <3>3. key' = [key EXCEPT ![k] = new]
        BY <3>1
      <3>. HIDE DEF new
      <3>. QED  BY <1>2, <3>2, <3>3
    <2>4. CASE revokeApiKey(k)
      <3>1. key' = [key EXCEPT ![k] = [key[k] EXCEPT !.state = "revoked"]]
        BY <2>4 DEF revokeApiKey
      <3>2. [key[k] EXCEPT !.state = "revoked"] \in KeyRows /\ [key[k] EXCEPT !.state = "revoked"].by \in {Nobody, [key[k] EXCEPT !.state = "revoked"].minter}
        BY <1>1 DEF KeyRows, MinterInv
      <3>. QED  BY <1>2, <3>1, <3>2
    <2>. QED  BY <2>1, <2>2, <2>3, <2>4
  <1>. QED  BY <1>3, <1>4 DEF MirrorsInv, ClerkInv, NoticesInv, MirrorInv, NightInv, Handlers

LEMMA MirrorStart == IdentityInit => MirrorsInv
  <1>. SUFFICES ASSUME IdentityInit PROVE MirrorsInv
    OBVIOUS
  <1>1. ClerkInv
    <2>. DEFINE role == [o \in Orgs |-> [p \in People |-> IF p = Founder THEN "admin" ELSE "none"]]
    <2>1. role \in [Orgs -> Lists]
      BY DEF Lists, Roles
    <2>2. clerk = [users |-> People, orgs |-> Orgs, role |-> role]
      BY DEF IdentityInit
    <2>. HIDE DEF role
    <2>. QED  BY <2>1, <2>2 DEF ClerkInv
  <1>2. NoticesInv
    BY FounderAssumption DEF IdentityInit, NoticesInv, Handlers
  <1>3. MirrorInv
    <2>1. member \in [Orgs -> Lists]
      BY <1>1 DEF IdentityInit, ClerkInv
    <2>2. \A o \in Orgs, p \in People : member[o][p] # "none" => p = Founder
      BY DEF IdentityInit
    <2>. QED  BY <2>1, <2>2, FounderAssumption DEF IdentityInit, MirrorInv
  <1>4. MinterInv
    BY DEF IdentityInit, MinterInv, NoKey, KeyRows
  <1>5. NightInv
    BY DEF IdentityInit, NightInv, Asleep, Nights
  <1>. QED  BY <1>1, <1>2, <1>3, <1>4, <1>5, FounderAssumption DEF IdentityInit, MirrorsInv

LEMMA MirrorStep == MirrorsInv /\ [IdentityNext]_identityVars => MirrorsInv'
  <1>. SUFFICES ASSUME MirrorsInv, [IdentityNext]_identityVars PROVE MirrorsInv'
    OBVIOUS
  <1>1. CASE ClerkChanges
    <2>1. ClerkInv' /\ NoticesInv' /\ UNCHANGED <<tenant, user, member, key, nightly, syncFaults>>
      BY <1>1, ClerkStep
    <2>. QED  BY <2>1 DEF MirrorsInv, MirrorInv, MinterInv, NightInv
  <1>2. CASE UNCHANGED identityVars
    BY <1>2 DEF identityVars, MirrorsInv, ClerkInv, NoticesInv, MirrorInv, MinterInv, NightInv, Handlers
  <1>. QED  BY <1>1, <1>2, NoticeStep, ApplyStep, NightStep, KeyStep DEF IdentityNext

(* The mirror and its keys, whatever order Clerk's events are applied in,   *)
(* and whatever fails between two statements.                               *)
THEOREM MirrorInvariant == IdentitySpec => []MirrorsInv
  <1>. QED  BY MirrorStart, MirrorStep, PTL DEF IdentitySpec

(* Types, and that a membership has its two rows (db/src/tenancy.ts).       *)
THEOREM IdentityTyped == IdentitySpec => []IdentityTypeOK
  <1>1. MirrorsInv => IdentityTypeOK
    <2>. SUFFICES ASSUME MirrorsInv PROVE IdentityTypeOK
      OBVIOUS
    <2>1. \A i \in Handlers : events[i] \in Notices
      BY DEF MirrorsInv, NoticesInv, Handlers
    <2>2. \A k \in Keys : key[k] \in KeyRows
      BY DEF MirrorsInv, MinterInv
    <2>3. nightly.at \in {"idle", "orgs", "list", "members", "upsert", "stale", "revoke"}
      BY DEF MirrorsInv, NightInv, Nights
    <2>4. \A o \in Orgs : tenant[o] # "none"
      BY DEF MirrorsInv, MirrorInv
    <2>5. tenant \in [Orgs -> {"none", "live", "deleted"}]
      BY DEF MirrorsInv, MirrorInv
    <2>. QED  BY <2>1, <2>2, <2>3, <2>4, <2>5
              DEF IdentityTypeOK, MirrorsInv, ClerkInv, NoticesInv, MirrorInv, Lists, Notices, KeyRows
  <1>. QED  BY <1>1, MirrorInvariant, PTL

(* What scopes a caller has more, it may do more.                           *)
LEMMA ScopesOnlyAdd ==
  ASSUME NEW actor, NEW other, NEW q, actor.role = other.role, actor.scopes \subseteq other.scopes,
         allows(actor, q)
  PROVE  allows(other, q)
  BY DEF allows, can

(* A key lets do no more than whoever minted it may do now, while the       *)
(* person is the creator it names (db/src/auth.ts, verifyApiKey).           *)
THEOREM KeysObeyTheirMinter == IdentitySpec => []KeysFollowTheirMinter
  <1>1. MirrorsInv => KeysFollowTheirMinter
    <2>. SUFFICES ASSUME MirrorsInv, NEW k \in Keys, key[k].by # Nobody, NEW q \in Power(keyActor(k))
                  PROVE  q \in Power(sessionActor(key[k].minter, key[k].tenant, Scopes))
      BY DEF KeysFollowTheirMinter
    <2>1. key[k].by = key[k].minter /\ key[k].scopes \subseteq Scopes
      BY DEF MirrorsInv, MinterInv, KeyRows
    <2>2. /\ keyActor(k).role = sessionActor(key[k].minter, key[k].tenant, Scopes).role
          /\ keyActor(k).scopes \subseteq sessionActor(key[k].minter, key[k].tenant, Scopes).scopes
      BY <2>1 DEF keyActor, sessionActor, parseScopeList
    <2>3. q \in Permissions /\ allows(keyActor(k), q)
      BY DEF Power
    <2>4. allows(sessionActor(key[k].minter, key[k].tenant, Scopes), q)
      BY <2>2, <2>3, ScopesOnlyAdd
    <2>. QED  BY <2>3, <2>4 DEF Power
  <1>. QED  BY <1>1, MirrorInvariant, PTL

-----------------------------------------------------------------------------
(* The published API. *)

(* A schema: an object whose required properties it has.                    *)
SchemaRecs ==
  {x \in [properties: UNION {[D -> Properties] : D \in SUBSET Fields}, required: SUBSET Fields] :
     x.required \subseteq DOMAIN x.properties}

OperationRecs ==
  [parameters: UNION {[P -> ParameterShapes] : P \in SUBSET Parameters}, responses: SUBSET Codes]

EventRecs == UNION {[E -> SUBSET Fields] : E \in SUBSET Webhooks}

Documents ==
  [operations: UNION {[O -> OperationRecs] : O \in SUBSET Operations},
   webhooks: EventRecs, schemas: [Schemas -> SchemaRecs]]

(* The only property there is that refers to another schema.                *)
Refers(s, f) == s = "CancelResult" /\ f \in Documented

(* A document of the routes, whatever changes it went through.              *)
Published(doc) ==
  /\ doc \in Documents
  /\ \A s \in Schemas : \A f \in DOMAIN doc.schemas[s].properties :
       doc.schemas[s].properties[f].type = "ref" <=> Refers(s, f)

(* A schema, by its fields.                                                 *)
LEMMA SchemaParts ==
  ASSUME NEW x \in SchemaRecs
  PROVE  /\ DOMAIN x.properties \subseteq Fields /\ x.required \subseteq DOMAIN x.properties
         /\ \A f \in DOMAIN x.properties : x.properties[f] \in Properties
         /\ x.properties \in [DOMAIN x.properties -> Properties]
         /\ x = [properties |-> x.properties, required |-> x.required]
  <1>1. PICK D \in SUBSET Fields : x.properties \in [D -> Properties]
    BY DEF SchemaRecs
  <1>2. x.required \subseteq DOMAIN x.properties /\ x = [properties |-> x.properties, required |-> x.required]
    BY DEF SchemaRecs
  <1>. QED  BY <1>1, <1>2

(* A property, by its fields.                                               *)
LEMMA PropertyParts ==
  ASSUME NEW leaf \in Properties
  PROVE  /\ leaf.type \in {"string", "array", "number", "ref"} /\ leaf.enum \in SUBSET Enumerable
         /\ leaf.enum # {} => leaf.type \in {"string", "array"}
         /\ leaf = [type |-> leaf.type, enum |-> leaf.enum]
  BY DEF Properties

(* A document, by its fields.                                               *)
LEMMA PublishedParts ==
  ASSUME NEW doc, Published(doc)
  PROVE  /\ DOMAIN doc.operations \subseteq Operations
         /\ \A o \in DOMAIN doc.operations : doc.operations[o] \in OperationRecs
         /\ DOMAIN doc.webhooks \subseteq Webhooks
         /\ \A e \in DOMAIN doc.webhooks : doc.webhooks[e] \in SUBSET Fields
         /\ \A s \in Schemas : doc.schemas[s] \in SchemaRecs
  <1>1. PICK O \in SUBSET Operations : doc.operations \in [O -> OperationRecs]
    BY DEF Published, Documents
  <1>2. doc.webhooks \in EventRecs /\ doc.schemas \in [Schemas -> SchemaRecs]
    BY DEF Published, Documents
  <1>3. PICK E \in SUBSET Webhooks : doc.webhooks \in [E -> SUBSET Fields]
    BY <1>2 DEF EventRecs
  <1>. QED  BY <1>1, <1>2, <1>3

(* An operation, by its fields.                                             *)
LEMMA OperationParts ==
  ASSUME NEW op \in OperationRecs
  PROVE  /\ DOMAIN op.parameters \subseteq Parameters
         /\ \A p \in DOMAIN op.parameters : op.parameters[p] \in ParameterShapes
         /\ op.responses \subseteq Codes
  <1>1. PICK P \in SUBSET Parameters : op.parameters \in [P -> ParameterShapes]
    BY DEF OperationRecs
  <1>2. op.responses \subseteq Codes
    BY DEF OperationRecs
  <1>. QED  BY <1>1, <1>2

(* DocumentOK, of what can be published.                                    *)
LEMMA DocumentsAreOK ==
  ASSUME NEW doc, Published(doc)
  PROVE  DocumentOK(doc)
  <1>1. \A o \in DOMAIN doc.operations :
       /\ doc.operations[o].responses \subseteq Codes
       /\ DOMAIN doc.operations[o].parameters \subseteq Parameters
       /\ Range(doc.operations[o].parameters) \subseteq ParameterShapes
    BY PublishedParts, OperationParts DEF Range
  <1>2. \A s \in Schemas :
       /\ DOMAIN doc.schemas[s].properties \subseteq Fields
       /\ Range(doc.schemas[s].properties) \subseteq Properties
       /\ doc.schemas[s].required \subseteq DOMAIN doc.schemas[s].properties
    BY PublishedParts, SchemaParts DEF Range
  <1>3. DOMAIN doc.webhooks \subseteq Webhooks /\ Range(doc.webhooks) \subseteq SUBSET Fields
    BY PublishedParts DEF Range
  <1>. QED  BY <1>1, <1>2, <1>3, PublishedParts DEF DocumentOK

-----------------------------------------------------------------------------
(* Directions. *)

(* Requests carry CreateRun, responses the two others.                      *)
LEMMA Directions ==
  ASSUME NEW doc, Published(doc)
  PROVE  /\ Requests(doc) \subseteq {"CreateRun"} /\ Responses(doc) \subseteq {"CancelResult", "Run"}
         /\ Requests(doc) \subseteq Schemas /\ Responses(doc) \subseteq Schemas
  <1>1. ~(Ref \in Range(doc.schemas["CreateRun"].properties))
    <2>1. SUFFICES ASSUME Ref \in Range(doc.schemas["CreateRun"].properties) PROVE FALSE
      OBVIOUS
    <2>2. PICK f \in DOMAIN doc.schemas["CreateRun"].properties : doc.schemas["CreateRun"].properties[f] = Ref
      BY <2>1 DEF Range
    <2>3. "CreateRun" \in Schemas /\ Ref.type = "ref"
      BY DEF Schemas, Ref
    <2>. QED  BY <2>2, <2>3 DEF Published, Refers
  <1>2. collectRefs(doc, {"CreateRun"}) = {"CreateRun"}
    BY <1>1 DEF collectRefs
  <1>3. collectRefs(doc, {"CancelResult"}) \subseteq {"CancelResult", "Run"}
    BY DEF collectRefs
  <1>. QED  BY <1>2, <1>3 DEF Requests, Responses, Schemas

(* What the classification says of either.                                  *)
LEMMA Sides ==
  ASSUME NEW doc, Published(doc), NEW s \in Schemas
  PROVE  /\ s \in Requests(doc) => classifySchemas(doc)[s] = {"request"}
         /\ s \in Responses(doc) => classifySchemas(doc)[s] = {"response"}
  <1>. DEFINE sides == {d \in {"request", "response"} :
                          s \in IF d = "request" THEN Requests(doc) ELSE Responses(doc)}
  <1>1. classifySchemas(doc)[s] = IF sides = {} THEN {"request", "response"} ELSE sides
    BY DEF classifySchemas
  <1>2. ~(s \in Requests(doc) /\ s \in Responses(doc))
    BY Directions
  <1>3. s \in Requests(doc) => sides = {"request"}
    BY <1>2
  <1>4. s \in Responses(doc) => sides = {"response"}
    BY <1>2
  <1>. HIDE DEF sides
  <1>. QED  BY <1>1, <1>3, <1>4

-----------------------------------------------------------------------------
(* What the gate lets through. *)

(* An enum that lists nothing never comes to list something.                *)
StaysFree(old, new) ==
  \A s \in Schemas :
    \A f \in DOMAIN old.schemas[s].properties \cap DOMAIN new.schemas[s].properties :
      old.schemas[s].properties[f].enum = {} => new.schemas[s].properties[f].enum = {}

(* A comparison without a finding has none at any place.                    *)
LEMMA NothingFound ==
  ASSUME NEW old, NEW new, compare(old, new) = {}
  PROVE  /\ DOMAIN old.operations \subseteq DOMAIN new.operations
         /\ DOMAIN old.webhooks \subseteq DOMAIN new.webhooks
         /\ \A o \in DOMAIN old.operations \cap DOMAIN new.operations :
              compareOperation(o, old.operations[o], new.operations[o]) = {}
         /\ \A s \in Schemas, f \in Fields :
              f \notin compareSchema(old.schemas[s], new.schemas[s], classifySchemas(new)[s])
  <1>1. comparePaths(old, new) = {} /\ compareWebhooks(old, new) = {} /\ compareSchemas(old, new) = {}
    BY DEF compare
  <1>2. DOMAIN old.operations \subseteq DOMAIN new.operations
    <2>1. {<<o>> : o \in DOMAIN old.operations \ DOMAIN new.operations} = {}
      BY <1>1 DEF comparePaths
    <2>. QED  BY <2>1
  <1>3. DOMAIN old.webhooks \subseteq DOMAIN new.webhooks
    <2>1. {<<e>> : e \in DOMAIN old.webhooks \ DOMAIN new.webhooks} = {}
      BY <1>1 DEF compareWebhooks
    <2>. QED  BY <2>1
  <1>4. ASSUME NEW o \in DOMAIN old.operations \cap DOMAIN new.operations
        PROVE  compareOperation(o, old.operations[o], new.operations[o]) = {}
    <2>1. UNION {compareOperation(x, old.operations[x], new.operations[x]) :
                   x \in DOMAIN old.operations \cap DOMAIN new.operations} = {}
      BY <1>1 DEF comparePaths
    <2>. QED  BY <2>1
  <1>5. ASSUME NEW s \in Schemas, NEW f \in Fields,
               f \in compareSchema(old.schemas[s], new.schemas[s], classifySchemas(new)[s])
        PROVE  FALSE
    <2>1. <<s, f>> \in compareSchemas(old, new)
      BY <1>5 DEF compareSchemas
    <2>. QED  BY <1>1, <2>1
  <1>. QED  BY <1>2, <1>3, <1>4, <1>5

(* A property without a finding keeps its type, and what it may be sent.    *)
LEMMA PropertiesCompare ==
  ASSUME NEW was \in Properties, NEW now \in Properties, NEW sides,
         ~compareProperty(was, now, sides)
  PROVE  /\ was.type = "ref" \/ was.type = now.type
         /\ "request" \in sides /\ was.type \notin {"array"} /\ now.type # "array" /\ was.enum # {} /\ now.enum # {} =>
              was.enum \subseteq now.enum
  BY DEF compareProperty

(* A request schema without a finding takes what its predecessor took.      *)
LEMMA RequestsWiden ==
  ASSUME NEW old, NEW new, Published(old), Published(new), StaysFree(old, new),
         ~ElementsChanged(old, new), NEW s \in Schemas, NEW sides, "request" \in sides,
         \A f \in Fields : f \notin compareSchema(old.schemas[s], new.schemas[s], sides)
  PROVE  ~RequestNarrowed(old.schemas[s], new.schemas[s])
  <1>. DEFINE was == old.schemas[s]
              now == new.schemas[s]
  <1>1. was \in SchemaRecs /\ now \in SchemaRecs
    BY PublishedParts
  <1>2. \A f \in Fields : f \notin compareSchema(was, now, sides)
    OBVIOUS
  <1>3. \A f \in DOMAIN was.properties : was.properties[f].type = "ref" <=> Refers(s, f)
    BY DEF Published
  <1>4. \A f \in DOMAIN now.properties : now.properties[f].type = "ref" <=> Refers(s, f)
    BY DEF Published
  <1>5. \A f \in DOMAIN was.properties \cap DOMAIN now.properties :
          /\ was.properties[f].enum = {} => now.properties[f].enum = {}
          /\ was.properties[f].type = "array" /\ now.properties[f].type = "array" =>
               was.properties[f] = now.properties[f]
    BY DEF StaysFree, ElementsChanged
  <1>. HIDE DEF was, now
  <1>6. /\ DOMAIN was.properties \subseteq Fields /\ was.required \subseteq DOMAIN was.properties
        /\ \A f \in DOMAIN was.properties : was.properties[f] \in Properties
    BY <1>1, SchemaParts
  <1>7. /\ DOMAIN now.properties \subseteq Fields /\ now.required \subseteq DOMAIN now.properties
        /\ \A f \in DOMAIN now.properties : now.properties[f] \in Properties
    BY <1>1, SchemaParts
  <1>8. now.required \subseteq was.required
    <2>1. ASSUME NEW f \in now.required, f \notin was.required PROVE FALSE
      <3>1. f \in Fields /\ f \notin compareSchema(was, now, sides)
        BY <1>2, <1>7
      <3>. QED  BY <1>7, <2>1, <3>1 DEF compareSchema
    <2>. QED  BY <2>1
  <1>9. ASSUME NEW f \in DOMAIN was.properties \cap DOMAIN now.properties, NEW x,
               AllowsValue(was.properties[f], x)
        PROVE  AllowsValue(now.properties[f], x)
    <2>. DEFINE p == was.properties[f]
                q == now.properties[f]
    <2>1. ~compareProperty(p, q, sides)
      <3>1. f \in Fields /\ f \notin compareSchema(was, now, sides)
        BY <1>2, <1>7
      <3>. QED  BY <3>1 DEF compareSchema
    <2>2. p \in Properties /\ q \in Properties /\ (p.type = "ref" <=> q.type = "ref")
          /\ (p.enum = {} => q.enum = {}) /\ (p.type = "array" /\ q.type = "array" => p = q)
      BY <1>3, <1>4, <1>5, <1>6, <1>7
    <2>3. AllowsValue(p, x)
      BY <1>9
    <2>. HIDE DEF p, q
    <2>4. p.type = q.type
      BY <2>1, <2>2, PropertiesCompare
    <2>5. ASSUME p.type = "array" PROVE AllowsValue(q, x)
      BY <2>2, <2>3, <2>4, <2>5
    <2>6. ASSUME p.type # "array" PROVE AllowsValue(q, x)
      <3>1. q.enum # {} => p.enum # {} /\ p.enum \subseteq q.enum
        BY <2>1, <2>2, <2>4, <2>6, PropertiesCompare
      <3>. QED  BY <2>3, <2>4, <3>1 DEF AllowsValue
    <2>7. AllowsValue(q, x)
      BY <2>5, <2>6
    <2>. QED  BY <2>7 DEF q
  <1>10. ASSUME NEW x \in Objects, DOMAIN x \subseteq DOMAIN was.properties, Valid(was, x)
         PROVE  Valid(now, x)
    BY <1>8, <1>9, <1>10 DEF Valid
  <1>11. ~RequestNarrowed(was, now)
    BY <1>10 DEF RequestNarrowed
  <1>. QED  BY <1>11 DEF was, now

(* A response schema without a finding can be read as its predecessor was.  *)
LEMMA ResponsesStayReadable ==
  ASSUME NEW old, NEW new, Published(old), Published(new), NEW s \in Schemas, NEW sides, "response" \in sides,
         \A f \in Fields : f \notin compareSchema(old.schemas[s], new.schemas[s], sides)
  PROVE  ~Unreadable(old.schemas[s], new.schemas[s])
  <1>. DEFINE was == old.schemas[s]
              now == new.schemas[s]
  <1>1. was \in SchemaRecs /\ now \in SchemaRecs
    BY PublishedParts
  <1>2. \A f \in Fields : f \notin compareSchema(was, now, sides)
    OBVIOUS
  <1>3. \A f \in DOMAIN was.properties : was.properties[f].type = "ref" <=> Refers(s, f)
    BY DEF Published
  <1>4. \A f \in DOMAIN now.properties : now.properties[f].type = "ref" <=> Refers(s, f)
    BY DEF Published
  <1>. HIDE DEF was, now
  <1>6. /\ DOMAIN was.properties \subseteq Fields /\ was.required \subseteq DOMAIN was.properties
        /\ \A f \in DOMAIN was.properties : was.properties[f] \in Properties
    BY <1>1, SchemaParts
  <1>7. /\ DOMAIN now.properties \subseteq Fields /\ now.required \subseteq DOMAIN now.properties
        /\ \A f \in DOMAIN now.properties : now.properties[f] \in Properties
    BY <1>1, SchemaParts
  <1>8. DOMAIN was.properties \subseteq DOMAIN now.properties
    BY <1>2, <1>6 DEF compareSchema
  <1>9. was.required \subseteq now.required
    <2>1. ASSUME NEW f \in was.required, f \notin now.required PROVE FALSE
      <3>1. f \in Fields /\ f \notin compareSchema(was, now, sides)
        BY <1>2, <1>6
      <3>. QED  BY <1>6, <1>8, <2>1, <3>1 DEF compareSchema
    <2>. QED  BY <2>1
  <1>10. ASSUME NEW f \in DOMAIN was.properties PROVE was.properties[f].type = now.properties[f].type
    <2>1. f \in DOMAIN now.properties /\ f \in Fields
      BY <1>6, <1>8
    <2>2. ~compareProperty(was.properties[f], now.properties[f], sides)
      BY <1>2, <2>1 DEF compareSchema
    <2>. QED  BY <1>3, <1>4, <2>1, <2>2 DEF compareProperty
  <1>11. ASSUME NEW x \in Objects, DOMAIN x \subseteq DOMAIN now.properties, Valid(now, x)
         PROVE  /\ was.required \subseteq DOMAIN x
                /\ \A f \in DOMAIN x \cap DOMAIN was.properties : x[f].type = was.properties[f].type
    BY <1>8, <1>9, <1>10, <1>11 DEF Valid, AllowsValue
  <1>12. ~Unreadable(was, now)
    BY <1>8, <1>11 DEF Unreadable
  <1>. QED  BY <1>12 DEF was, now

(* compare finds everything that breaks a caller, but for the elements of   *)
(* arrays.                                                                  *)
LEMMA GateFindsAll ==
  ASSUME NEW old, NEW new, Published(old), Published(new), StaysFree(old, new),
         compare(old, new) = {}, BreaksShape(old, new)
  PROVE  ElementsChanged(old, new)
  <1>. SUFFICES ASSUME ~ElementsChanged(old, new) PROVE FALSE
    OBVIOUS
  <1>1. ASSUME NEW o \in DOMAIN old.operations \cap DOMAIN new.operations
        PROVE  /\ old.operations[o].responses \subseteq new.operations[o].responses
               /\ \A p \in DOMAIN new.operations[o].parameters :
                    new.operations[o].parameters[p].required =>
                      /\ p \in DOMAIN old.operations[o].parameters
                      /\ old.operations[o].parameters[p].required
    <2>. DEFINE was == old.operations[o]
                now == new.operations[o]
    <2>1. compareOperation(o, was, now) = {}
      BY NothingFound
    <2>. HIDE DEF was, now
    <2>2. {<<o, c>> : c \in was.responses \ now.responses} = {}
      BY <2>1 DEF compareOperation
    <2>3. {<<o, p>> : p \in {y \in DOMAIN now.parameters :
             now.parameters[y].required /\ (y \in DOMAIN was.parameters => ~was.parameters[y].required)}} = {}
      BY <2>1 DEF compareOperation
    <2>4. was.responses \subseteq now.responses
      BY <2>2
    <2>5. ASSUME NEW p \in DOMAIN now.parameters, now.parameters[p].required
          PROVE  p \in DOMAIN was.parameters /\ was.parameters[p].required
      <3>1. p \notin {y \in DOMAIN now.parameters :
             now.parameters[y].required /\ (y \in DOMAIN was.parameters => ~was.parameters[y].required)}
        BY <2>3
      <3>. QED  BY <2>5, <3>1
    <2>. QED  BY <2>4, <2>5 DEF was, now
  <1>2. ASSUME NEW s \in Requests(old) \cap Requests(new) PROVE ~RequestNarrowed(old.schemas[s], new.schemas[s])
    <2>1. s \in Schemas
      BY Directions
    <2>2. "request" \in classifySchemas(new)[s]
      BY <2>1, Sides
    <2>3. \A f \in Fields : f \notin compareSchema(old.schemas[s], new.schemas[s], classifySchemas(new)[s])
      BY <2>1, NothingFound
    <2>. QED  BY <2>1, <2>2, <2>3, RequestsWiden
  <1>3. ASSUME NEW s \in Responses(old) \cap Responses(new) PROVE ~Unreadable(old.schemas[s], new.schemas[s])
    <2>1. s \in Schemas
      BY Directions
    <2>2. "response" \in classifySchemas(new)[s]
      BY <2>1, Sides
    <2>3. \A f \in Fields : f \notin compareSchema(old.schemas[s], new.schemas[s], classifySchemas(new)[s])
      BY <2>1, NothingFound
    <2>. QED  BY <2>1, <2>2, <2>3, ResponsesStayReadable
  <1>4. DOMAIN old.operations \subseteq DOMAIN new.operations /\ DOMAIN old.webhooks \subseteq DOMAIN new.webhooks
    BY NothingFound
  <1>. QED  BY <1>1, <1>2, <1>3, <1>4 DEF BreaksShape

-----------------------------------------------------------------------------
(* What it stops. *)

(* A value a property allows.                                               *)
sample(leaf) ==
  [type |-> leaf.type, text |-> IF leaf.enum = {} THEN Other ELSE CHOOSE t \in leaf.enum : TRUE]

(* The value is one, and of the property's type.                            *)
LEMMA SampleAllowed ==
  ASSUME NEW leaf \in Properties
  PROVE  sample(leaf) \in Atoms /\ AllowsValue(leaf, sample(leaf)) /\ sample(leaf).type = leaf.type
  <1>1. PICK t : t = IF leaf.enum = {} THEN Other ELSE CHOOSE x \in leaf.enum : TRUE
    OBVIOUS
  <1>2. sample(leaf) = [type |-> leaf.type, text |-> t]
    BY <1>1 DEF sample
  <1>3. leaf.enum = {} => t = Other
    BY <1>1
  <1>4. leaf.enum # {} => t \in leaf.enum
    BY <1>1
  <1>5. /\ leaf.type \in {"string", "array", "number", "ref"} /\ leaf.enum \in SUBSET Enumerable
        /\ leaf.enum # {} => leaf.type \in {"string", "array"}
    BY PropertyParts
  <1>6. [type |-> leaf.type, text |-> t] \in Atoms
    BY <1>3, <1>4, <1>5 DEF Atoms
  <1>. QED  BY <1>2, <1>4, <1>6 DEF AllowsValue

(* A value of the schema with the properties named and one value given.     *)
LEMMA SampleObject ==
  ASSUME NEW x \in SchemaRecs, NEW D \in SUBSET DOMAIN x.properties, x.required \subseteq D,
         NEW f, NEW v \in Atoms, f \in D => AllowsValue(x.properties[f], v)
  PROVE  \E object \in Objects : /\ DOMAIN object = D /\ Valid(x, object)
                                 /\ f \in D => object[f] = v
  <1>. DEFINE object == [g \in D |-> IF g = f THEN v ELSE sample(x.properties[g])]
  <1>1. /\ DOMAIN x.properties \subseteq Fields
        /\ \A g \in DOMAIN x.properties : x.properties[g] \in Properties
    BY SchemaParts
  <1>2. \A g \in D : object[g] \in Atoms /\ AllowsValue(x.properties[g], object[g])
    BY <1>1, SampleAllowed
  <1>3. DOMAIN object = D /\ (f \in D => object[f] = v)
    OBVIOUS
  <1>4. object \in [D -> Atoms]
    BY <1>2
  <1>. HIDE DEF object
  <1>5. object \in Objects
    BY <1>1, <1>4 DEF Objects
  <1>6. Valid(x, object)
    BY <1>2, <1>3 DEF Valid
  <1>. QED  BY <1>3, <1>5, <1>6

(* A finding in a schema that is sent refuses a caller.                     *)
LEMMA RequestFindingBreaks ==
  ASSUME NEW was \in SchemaRecs, NEW now \in SchemaRecs, NEW f \in compareSchema(was, now, {"request"})
  PROVE  RequestNarrowed(was, now)
  <1>1. /\ \A g \in DOMAIN was.properties : was.properties[g] \in Properties
        /\ \A g \in DOMAIN now.properties : now.properties[g] \in Properties
        /\ was.required \subseteq DOMAIN was.properties /\ now.required \subseteq DOMAIN now.properties
    BY SchemaParts
  <1>2. CASE f \in now.required /\ f \notin was.required
    <2>1. PICK v : v \in Atoms
      BY <1>1, <1>2, SampleAllowed
    <2>2. PICK x \in Objects : DOMAIN x = was.required /\ Valid(was, x)
      BY <1>1, <1>2, <2>1, SampleObject
    <2>3. ~Valid(now, x)
      BY <1>2, <2>2 DEF Valid
    <2>. QED  BY <1>1, <2>2, <2>3 DEF RequestNarrowed
  <1>3. ASSUME f \in DOMAIN was.properties \cap DOMAIN now.properties,
               NEW v \in Atoms, AllowsValue(was.properties[f], v), ~AllowsValue(now.properties[f], v)
        PROVE  RequestNarrowed(was, now)
    <2>. DEFINE D == was.required \cup {f}
    <2>1. D \in SUBSET DOMAIN was.properties /\ was.required \subseteq D /\ f \in D
      BY <1>1, <1>3
    <2>. HIDE DEF D
    <2>2. PICK x \in Objects : DOMAIN x = D /\ Valid(was, x) /\ x[f] = v
      BY <1>3, <2>1, SampleObject
    <2>3. ~Valid(now, x)
      BY <1>3, <2>1, <2>2 DEF Valid
    <2>. QED  BY <2>1, <2>2, <2>3 DEF RequestNarrowed
  <1>4. CASE /\ f \in DOMAIN was.properties \cap DOMAIN now.properties
             /\ compareProperty(was.properties[f], now.properties[f], {"request"})
    <2>. DEFINE p == was.properties[f]
                q == now.properties[f]
    <2>1. p \in Properties /\ q \in Properties /\ compareProperty(p, q, {"request"})
      BY <1>1, <1>4
    <2>. HIDE DEF p, q
    <2>2. \E v \in Atoms : AllowsValue(p, v) /\ ~AllowsValue(q, v)
      <3>1. CASE p.type # q.type
        <4>1. sample(p) \in Atoms /\ AllowsValue(p, sample(p)) /\ sample(p).type = p.type
          BY <2>1, SampleAllowed
        <4>. QED  BY <3>1, <4>1 DEF AllowsValue
      <3>2. CASE p.type = q.type
        <4>1. p.enum # {} /\ q.enum # {} /\ ~(p.enum \subseteq q.enum)
          BY <2>1, <3>2 DEF compareProperty
        <4>2. PICK e \in p.enum : e \notin q.enum
          BY <4>1
        <4>3. e \in Enumerable /\ p.type \in {"string", "array"}
          BY <2>1, <4>1, PropertyParts
        <4>4. PICK v : v = [type |-> p.type, text |-> e]
          OBVIOUS
        <4>5. v \in Atoms /\ v.type = p.type /\ v.text = e
          BY <4>3, <4>4 DEF Atoms
        <4>6. AllowsValue(p, v) /\ ~AllowsValue(q, v)
          BY <4>1, <4>2, <4>5 DEF AllowsValue
        <4>. QED  BY <4>5, <4>6
      <3>. QED  BY <3>1, <3>2
    <2>3. PICK v \in Atoms : AllowsValue(was.properties[f], v) /\ ~AllowsValue(now.properties[f], v)
      BY <2>2 DEF p, q
    <2>. QED  BY <1>3, <1>4, <2>3
  <1>. QED  BY <1>1, <1>2, <1>4 DEF compareSchema

(* A finding in a schema that is answered fails a reader.                   *)
LEMMA ResponseFindingBreaks ==
  ASSUME NEW was \in SchemaRecs, NEW now \in SchemaRecs, NEW f \in compareSchema(was, now, {"response"})
  PROVE  Unreadable(was, now)
  <1>1. /\ \A g \in DOMAIN was.properties : was.properties[g] \in Properties
        /\ \A g \in DOMAIN now.properties : now.properties[g] \in Properties
        /\ was.required \subseteq DOMAIN was.properties /\ now.required \subseteq DOMAIN now.properties
    BY SchemaParts
  <1>2. CASE f \notin DOMAIN now.properties
    BY <1>2 DEF compareSchema, Unreadable
  <1>3. CASE f \in DOMAIN now.properties /\ f \in was.required /\ f \notin now.required
    <2>1. PICK v : v \in Atoms
      BY <1>1, <1>3, SampleAllowed
    <2>2. PICK x \in Objects : DOMAIN x = now.required /\ Valid(now, x)
      BY <1>1, <1>3, <2>1, SampleObject
    <2>. QED  BY <1>1, <1>3, <2>2 DEF Unreadable
  <1>4. CASE /\ f \in DOMAIN was.properties \cap DOMAIN now.properties
             /\ compareProperty(was.properties[f], now.properties[f], {"response"})
    <2>. DEFINE D == now.required \cup {f}
                v == sample(now.properties[f])
    <2>1. D \in SUBSET DOMAIN now.properties /\ now.required \subseteq D /\ f \in D
      BY <1>1, <1>4
    <2>2. v \in Atoms /\ AllowsValue(now.properties[f], v) /\ v.type = now.properties[f].type
      BY <1>1, <1>4, SampleAllowed
    <2>3. was.properties[f].type # now.properties[f].type
      BY <1>4 DEF compareProperty
    <2>. HIDE DEF D, v
    <2>4. PICK x \in Objects : DOMAIN x = D /\ Valid(now, x) /\ x[f] = v
      BY <2>1, <2>2, SampleObject
    <2>5. f \in DOMAIN x \cap DOMAIN was.properties /\ x[f].type # was.properties[f].type
      BY <1>4, <2>1, <2>2, <2>3, <2>4
    <2>. QED  BY <2>1, <2>4, <2>5 DEF Unreadable
  <1>. QED  BY <1>1, <1>2, <1>3, <1>4 DEF compareSchema

(* A schema is no finding against itself.                                   *)
LEMMA SameSchemaIsFine ==
  ASSUME NEW x \in SchemaRecs, NEW sides
  PROVE  compareSchema(x, x, sides) = {}
  <1>1. x.required \subseteq DOMAIN x.properties
    BY SchemaParts
  <1>. QED  BY <1>1 DEF compareSchema, compareProperty

(* Whatever compare finds breaks a caller, unless it is in a schema nobody  *)
(* refers to.                                                               *)
LEMMA GateFindsOnly ==
  ASSUME NEW old, NEW new, Published(old), Published(new), compare(old, new) # {},
         \A doc \in {old, new} : \A s \in Schemas \ (Requests(doc) \cup Responses(doc)) :
           old.schemas[s] = new.schemas[s]
  PROVE  BreaksShape(old, new)
  <1>1. CASE comparePaths(old, new) # {}
    <2>1. CASE ~(DOMAIN old.operations \subseteq DOMAIN new.operations)
      BY <2>1 DEF BreaksShape
    <2>2. CASE DOMAIN old.operations \subseteq DOMAIN new.operations
      <3>1. {<<o>> : o \in DOMAIN old.operations \ DOMAIN new.operations} = {}
        BY <2>2
      <3>2. PICK o \in DOMAIN old.operations \cap DOMAIN new.operations :
              compareOperation(o, old.operations[o], new.operations[o]) # {}
        BY <1>1, <3>1 DEF comparePaths
      <3>. DEFINE was == old.operations[o]
                  now == new.operations[o]
      <3>3. compareOperation(o, was, now) # {}
        BY <3>2
      <3>. HIDE DEF was, now
      <3>4. \/ ~(was.responses \subseteq now.responses)
            \/ \E p \in DOMAIN now.parameters :
                 now.parameters[p].required /\ ~(p \in DOMAIN was.parameters /\ was.parameters[p].required)
        BY <3>3 DEF compareOperation
      <3>. QED  BY <3>4 DEF BreaksShape, was, now
    <2>. QED  BY <2>1, <2>2
  <1>2. CASE compareWebhooks(old, new) # {}
    BY <1>2 DEF compareWebhooks, BreaksShape
  <1>3. CASE compareSchemas(old, new) # {}
    <2>0. PICK s \in Schemas : compareSchema(old.schemas[s], new.schemas[s], classifySchemas(new)[s]) # {}
      BY <1>3 DEF compareSchemas
    <2>1. PICK f : f \in compareSchema(old.schemas[s], new.schemas[s], classifySchemas(new)[s])
      BY <2>0
    <2>2. old.schemas[s] \in SchemaRecs /\ new.schemas[s] \in SchemaRecs
      BY PublishedParts
    <2>3. old.schemas[s] # new.schemas[s]
      BY <2>1, <2>2, SameSchemaIsFine
    <2>4. s \in Requests(old) \cup Responses(old) /\ s \in Requests(new) \cup Responses(new)
      BY <2>3
    <2>5. \/ s \in Requests(old) \cap Requests(new)
          \/ s \in Responses(old) \cap Responses(new)
      BY <2>4, Directions
    <2>6. CASE s \in Requests(old) \cap Requests(new)
      <3>1. classifySchemas(new)[s] = {"request"}
        BY <2>6, Sides
      <3>2. RequestNarrowed(old.schemas[s], new.schemas[s])
        BY <2>1, <2>2, <3>1, RequestFindingBreaks
      <3>. QED  BY <2>6, <3>2 DEF BreaksShape
    <2>7. CASE s \in Responses(old) \cap Responses(new)
      <3>1. classifySchemas(new)[s] = {"response"}
        BY <2>7, Sides
      <3>2. Unreadable(old.schemas[s], new.schemas[s])
        BY <2>1, <2>2, <3>1, ResponseFindingBreaks
      <3>. QED  BY <2>7, <3>2 DEF BreaksShape
    <2>. QED  BY <2>5, <2>6, <2>7
  <1>. QED  BY <1>1, <1>2, <1>3 DEF compare

-----------------------------------------------------------------------------
(* What the routes may become. *)

(* The schemas of the first document, and which of them refer to another.   *)
LEMMA OriginalSchemas ==
  ASSUME NEW s \in Schemas
  PROVE  /\ Original.schemas[s].required \subseteq Documented
         /\ DOMAIN Original.schemas[s].properties = Documented
         /\ \A f \in Documented :
              /\ Original.schemas[s].properties[f] \in Properties
              /\ Original.schemas[s].properties[f] = Ref <=> Refers(s, f)
              /\ Original.schemas[s].properties[f].type = "ref" <=> Refers(s, f)
  <1>. DEFINE array == [type |-> "array", enum |-> Enumerable]
              string == [type |-> "string", enum |-> Enumerable]
  <1>1. array \in Properties /\ string \in Properties /\ Ref \in Properties
    BY DEF Properties, Ref
  <1>2. array # Ref /\ string # Ref /\ array.type # "ref" /\ string.type # "ref" /\ Ref.type = "ref"
    BY DEF Ref
  <1>3. Original.schemas["CreateRun"] = [properties |-> [f \in Documented |-> array], required |-> {}]
    BY DEF Original
  <1>4. Original.schemas["CancelResult"] = [properties |-> [f \in Documented |-> Ref], required |-> Documented]
    BY DEF Original
  <1>5. Original.schemas["Run"] = [properties |-> [f \in Documented |-> string], required |-> {}]
    BY DEF Original
  <1>. HIDE DEF array, string
  <1>6. CASE s = "CreateRun"
    BY <1>1, <1>2, <1>3, <1>6 DEF Refers
  <1>7. CASE s = "CancelResult"
    BY <1>1, <1>2, <1>4, <1>7 DEF Refers
  <1>8. CASE s = "Run"
    BY <1>1, <1>2, <1>5, <1>8 DEF Refers
  <1>. QED  BY <1>6, <1>7, <1>8 DEF Schemas

(* A new parameter is one.                                                  *)
LEMMA NewParameterFits == NewParameter \in ParameterShapes
  BY DEF NewParameter, ParameterShapes, Properties

(* And the operations of the first document.                                *)
LEMMA OriginalOperations ==
  ASSUME NEW o \in Operations
  PROVE  Original.operations[o] \in OperationRecs
  <1>. DEFINE ps == [p \in Parameters |-> NewParameter]
  <1>1. ps \in [Parameters -> ParameterShapes]
    BY NewParameterFits
  <1>2. Original.operations[o] = [parameters |-> ps, responses |-> Codes]
    BY DEF Original
  <1>. HIDE DEF ps
  <1>. QED  BY <1>1, <1>2 DEF OperationRecs

(* The first document is one.                                               *)
LEMMA OriginalPublished == Published(Original)
  <1>1. ASSUME NEW s \in Schemas PROVE Original.schemas[s] \in SchemaRecs
    <2>1. /\ Original.schemas[s].required \subseteq Documented
          /\ DOMAIN Original.schemas[s].properties = Documented
          /\ \A f \in Documented : Original.schemas[s].properties[f] \in Properties
      BY OriginalSchemas
    <2>2. PICK p, r : Original.schemas[s] = [properties |-> p, required |-> r] /\ p = [f \in Documented |-> p[f]]
      <3>. DEFINE Uniform(x) == \E leaf, r : x = [properties |-> [f \in Documented |-> leaf], required |-> r]
      <3>1. Uniform(Original.schemas["CreateRun"])
        BY DEF Original
      <3>2. Uniform(Original.schemas["CancelResult"])
        BY DEF Original
      <3>3. Uniform(Original.schemas["Run"])
        BY DEF Original
      <3>4. s = "CreateRun" \/ s = "CancelResult" \/ s = "Run"
        BY DEF Schemas
      <3>5. Uniform(Original.schemas[s])
        <4>. HIDE DEF Uniform
        <4>. QED  BY <3>1, <3>2, <3>3, <3>4
      <3>6. PICK leaf, r : Original.schemas[s] = [properties |-> [f \in Documented |-> leaf], required |-> r]
        BY <3>5
      <3>7. PICK p : p = [f \in Documented |-> leaf]
        OBVIOUS
      <3>8. p = [f \in Documented |-> p[f]]
        BY <3>7
      <3>. QED  BY <3>6, <3>7, <3>8
    <2>3. p \in [Documented -> Properties] /\ r \subseteq Documented /\ DOMAIN p = Documented
      BY <2>1, <2>2
    <2>. QED  BY <2>2, <2>3, ApiAssumption DEF SchemaRecs
  <1>2. Original.schemas \in [Schemas -> SchemaRecs]
    <2>1. DOMAIN Original.schemas = Schemas /\ Original.schemas = [s \in Schemas |-> Original.schemas[s]]
      BY DEF Original, Schemas
    <2>. QED  BY <1>1, <2>1
  <1>3. Original.operations \in [Operations -> OperationRecs]
    BY OriginalOperations DEF Original
  <1>4. Original = [operations |-> Original.operations, webhooks |-> Original.webhooks,
                    schemas |-> Original.schemas]
    BY DEF Original
  <1>5. Original.webhooks \in [Webhooks -> SUBSET Fields]
    BY ApiAssumption DEF Original
  <1>6. Original \in Documents
    BY <1>2, <1>3, <1>4, <1>5 DEF Documents, EventRecs
  <1>. QED  BY <1>6, OriginalSchemas DEF Published

(* A property added is text, or the reference there was.                    *)
LEMMA AddedFits ==
  ASSUME NEW s \in Schemas, NEW f
  PROVE  /\ Added(s, f) \in Properties /\ Added(s, f).enum = {}
         /\ Added(s, f).type = "ref" <=> Refers(s, f)
  <1>1. Refers(s, f) => f \in Documented
    BY DEF Refers
  <1>2. f \in Documented => (Original.schemas[s].properties[f] = Ref <=> Refers(s, f))
    BY OriginalSchemas
  <1>3. Added(s, f) = IF Refers(s, f) THEN Ref ELSE Text
    BY <1>1, <1>2 DEF Added
  <1>. QED  BY <1>3 DEF Ref, Text, Properties

(* What a property may be changed to.                                       *)
LEMMA PropertyEdits ==
  ASSUME NEW leaf \in Properties, NEW new \in EditedProperties(leaf)
  PROVE  /\ new \in Properties /\ (new.type = "ref" <=> leaf.type = "ref")
         /\ leaf.enum = {} => new.enum = {}
  BY DEF EditedProperties

(* A change of a schema leaves its references what they are, and gives no   *)
(* enum to a property without one.                                          *)
Follows(s, x, y) ==
  /\ y \in SchemaRecs
  /\ \A f \in DOMAIN y.properties :
       /\ y.properties[f].type = "ref" <=> Refers(s, f)
       /\ f \notin DOMAIN x.properties \/ x.properties[f].enum = {} => y.properties[f].enum = {}

(* A schema with one property replaced or added.                            *)
LEMMA WithFollows ==
  ASSUME NEW s \in Schemas, NEW x \in SchemaRecs, NEW f \in Fields, NEW leaf \in Properties, NEW r,
         \A g \in DOMAIN x.properties : x.properties[g].type = "ref" <=> Refers(s, g),
         leaf.type = "ref" <=> Refers(s, f),
         f \notin DOMAIN x.properties \/ x.properties[f].enum = {} => leaf.enum = {},
         r \subseteq DOMAIN x.properties \cup {f}
  PROVE  Follows(s, x, [properties |-> With(x.properties, f, leaf), required |-> r])
  <1>. DEFINE p == With(x.properties, f, leaf)
              D == DOMAIN x.properties \cup {f}
  <1>1. /\ DOMAIN x.properties \subseteq Fields
        /\ \A g \in DOMAIN x.properties : x.properties[g] \in Properties
    BY SchemaParts
  <1>2. DOMAIN p = D /\ \A g \in D : p[g] = IF g = f THEN leaf ELSE x.properties[g]
    BY DEF With
  <1>3. p \in [D -> Properties]
    BY <1>1 DEF With
  <1>4. D \subseteq Fields
    BY <1>1
  <1>. HIDE DEF p
  <1>5. [properties |-> p, required |-> r] \in SchemaRecs
    <2>1. p \in UNION {[C -> Properties] : C \in SUBSET Fields} /\ r \in SUBSET Fields /\ r \subseteq DOMAIN p
      BY <1>2, <1>3, <1>4
    <2>. QED  BY <2>1 DEF SchemaRecs
  <1>6. PICK y : y = [properties |-> p, required |-> r]
    OBVIOUS
  <1>7. y.properties = p /\ y \in SchemaRecs
    BY <1>5, <1>6
  <1>8. \A g \in D : /\ p[g].type = "ref" <=> Refers(s, g)
                     /\ g \notin DOMAIN x.properties \/ x.properties[g].enum = {} => p[g].enum = {}
    BY <1>2
  <1>9. Follows(s, x, y)
    BY <1>2, <1>7, <1>8 DEF Follows
  <1>. QED  BY <1>6, <1>9 DEF p

(* Whatever is done to a schema, it follows on from what it was.            *)
LEMMA SchemaEdits ==
  ASSUME NEW s \in Schemas, NEW x \in SchemaRecs, NEW y \in EditedSchemas(s, x),
         \A g \in DOMAIN x.properties : x.properties[g].type = "ref" <=> Refers(s, g)
  PROVE  Follows(s, x, y)
  <1>. DEFINE P == x.properties
              Replaced(f) == {[x EXCEPT !.properties[f] = new] :
                                new \in IF f \in DOMAIN P THEN EditedProperties(P[f]) ELSE {}}
              Toggled(f) == {[x EXCEPT !.required = IF f \in @ THEN @ \ {f} ELSE @ \cup {f}] :
                               z \in {z \in {f} : "required" \in Edits /\ f \in DOMAIN P}}
              Dropped(f) == [properties |-> Without(P, f), required |-> x.required \ {f}]
              Fresh(f) == {[properties |-> With(P, f, Added(s, f)), required |-> r] :
                             r \in {x.required, x.required \cup {f}}}
  <1>1. /\ DOMAIN P \subseteq Fields /\ x.required \subseteq DOMAIN P
        /\ \A f \in DOMAIN P : P[f] \in Properties
        /\ P \in [DOMAIN P -> Properties]
        /\ x = [properties |-> P, required |-> x.required]
    BY SchemaParts
  <1>2. PICK f \in Fields :
          \/ y \in Replaced(f)
          \/ y \in Toggled(f)
          \/ f \in DOMAIN P /\ y = Dropped(f)
          \/ f \notin DOMAIN P /\ y \in Fresh(f)
    BY DEF EditedSchemas
  <1>3. CASE y \in Replaced(f)
    <2>1. PICK new : f \in DOMAIN P /\ new \in EditedProperties(P[f]) /\ y = [x EXCEPT !.properties[f] = new]
      BY <1>3
    <2>2. new \in Properties /\ (new.type = "ref" <=> P[f].type = "ref") /\ (P[f].enum = {} => new.enum = {})
      BY <1>1, <2>1, PropertyEdits
    <2>3. DOMAIN P \cup {f} = DOMAIN P
      BY <2>1
    <2>4. y = [properties |-> [P EXCEPT ![f] = new], required |-> x.required]
      BY <1>1, <2>1
    <2>5. [P EXCEPT ![f] = new] = With(P, f, new)
      BY <1>1, <2>1, <2>3 DEF With
    <2>6. x.required \subseteq DOMAIN P \cup {f}
      BY <1>1
    <2>7. /\ new.type = "ref" <=> Refers(s, f)
          /\ f \notin DOMAIN P \/ P[f].enum = {} => new.enum = {}
      BY <2>1, <2>2
    <2>8. y = [properties |-> With(P, f, new), required |-> x.required]
      BY <2>4, <2>5
    <2>9. Follows(s, x, [properties |-> With(P, f, new), required |-> x.required])
      BY <2>2, <2>6, <2>7, WithFollows
    <2>. QED  BY <2>8, <2>9
  <1>4. CASE y \in Toggled(f)
    <2>1. f \in DOMAIN P
      BY <1>4
    <2>2. PICK r : y = [properties |-> P, required |-> r] /\ r \subseteq DOMAIN P
      <3>1. y = [x EXCEPT !.required = IF f \in @ THEN @ \ {f} ELSE @ \cup {f}]
        BY <1>4
      <3>2. y = [properties |-> P, required |-> IF f \in x.required THEN x.required \ {f} ELSE x.required \cup {f}]
        BY <1>1, <3>1
      <3>. QED  BY <1>1, <2>1, <3>2
    <2>3. With(P, f, P[f]) = P
      BY <1>1, <2>1 DEF With
    <2>. QED  BY <1>1, <2>1, <2>2, <2>3, WithFollows
  <1>5. CASE f \in DOMAIN P /\ y = Dropped(f)
    <2>. DEFINE D == DOMAIN P \ {f}
                p == Without(P, f)
    <2>1. DOMAIN p = D /\ \A g \in D : p[g] = P[g]
      BY DEF Without, Restrict
    <2>2. p \in [D -> Properties]
      BY <1>1 DEF Without, Restrict
    <2>. HIDE DEF p
    <2>3. y = [properties |-> p, required |-> x.required \ {f}]
      BY <1>5 DEF p
    <2>4. y \in SchemaRecs
      BY <1>1, <2>1, <2>2, <2>3 DEF SchemaRecs
    <2>5. y.properties = p
      BY <2>3
    <2>. QED  BY <2>1, <2>4, <2>5 DEF Follows
  <1>6. CASE f \notin DOMAIN P /\ y \in Fresh(f)
    <2>1. PICK r : y = [properties |-> With(P, f, Added(s, f)), required |-> r] /\ r \subseteq DOMAIN P \cup {f}
      BY <1>1, <1>6
    <2>2. Added(s, f) \in Properties /\ Added(s, f).enum = {} /\ (Added(s, f).type = "ref" <=> Refers(s, f))
      BY AddedFits
    <2>. QED  BY <2>1, <2>2, WithFollows
  <1>. QED  BY <1>2, <1>3, <1>4, <1>5, <1>6

(* A parameter stays one.                                                   *)
LEMMA ParameterEdits ==
  ASSUME NEW op \in OperationRecs, NEW p \in Parameters, NEW new \in EditedParameters(op, p)
  PROVE  new \in ParameterShapes
  <1>1. ASSUME NEW was \in ParameterShapes, NEW b \in BOOLEAN, new = [was EXCEPT !.required = b]
        PROVE  new \in ParameterShapes
    BY <1>1 DEF ParameterShapes
  <1>2. ASSUME NEW was \in ParameterShapes, NEW leaf \in Properties, new = [was EXCEPT !.schema = leaf]
        PROVE  new \in ParameterShapes
    BY <1>2 DEF ParameterShapes
  <1>3. CASE p \notin DOMAIN op.parameters
    <2>1. PICK b \in BOOLEAN : new = [NewParameter EXCEPT !.required = b]
      BY <1>3 DEF EditedParameters
    <2>. QED  BY <1>1, <2>1, NewParameterFits
  <1>4. CASE p \in DOMAIN op.parameters
    <2>. DEFINE was == op.parameters[p]
    <2>1. was \in ParameterShapes
      BY <1>4, OperationParts
    <2>2. was.required \in BOOLEAN /\ was.schema \in Properties
      BY <2>1 DEF ParameterShapes
    <2>3. \/ new = [was EXCEPT !.required = ~was.required]
          \/ \E leaf \in EditedProperties(was.schema) : new = [was EXCEPT !.schema = leaf]
      BY <1>4 DEF EditedParameters
    <2>. HIDE DEF was
    <2>4. (~was.required) \in BOOLEAN
      BY <2>2
    <2>5. \A leaf \in EditedProperties(was.schema) : leaf \in Properties
      BY DEF EditedProperties
    <2>. QED  BY <1>1, <1>2, <2>1, <2>3, <2>4, <2>5
  <1>. QED  BY <1>3, <1>4

(* And the events, whatever one of them comes to carry.                     *)
LEMMA EventEdits ==
  ASSUME NEW hooks \in EventRecs, NEW new \in EditedWebhooks(hooks)
  PROVE  new \in EventRecs
  <1>1. PICK E \in SUBSET Webhooks : hooks \in [E -> SUBSET Fields]
    BY DEF EventRecs
  <1>2. PICK e \in Webhooks : \/ new = Without(hooks, e)
                              \/ new = With(hooks, e, Documented)
                              \/ \E fs \in SUBSET Fields : new = With(hooks, e, fs)
    BY DEF EditedWebhooks
  <1>3. CASE new = Without(hooks, e)
    <2>1. new \in [E \ {e} -> SUBSET Fields]
      BY <1>1, <1>3 DEF Without, Restrict
    <2>. QED  BY <1>1, <2>1 DEF EventRecs
  <1>4. CASE \E fs \in SUBSET Fields : new = With(hooks, e, fs)
    <2>1. PICK fs \in SUBSET Fields : new = With(hooks, e, fs)
      BY <1>4
    <2>2. new \in [E \cup {e} -> SUBSET Fields] /\ E \cup {e} \in SUBSET Webhooks
      BY <1>1, <1>2, <2>1 DEF With
    <2>. QED  BY <2>2 DEF EventRecs
  <1>. QED  BY <1>2, <1>3, <1>4, ApiAssumption

(* An operation stays one.                                                  *)
LEMMA OperationEdits ==
  ASSUME NEW op \in OperationRecs, NEW new \in EditedOperations(op)
  PROVE  new \in OperationRecs
  <1>1. PICK P \in SUBSET Parameters : op.parameters \in [P -> ParameterShapes]
    BY DEF OperationRecs
  <1>2. op.responses \in SUBSET Codes /\ op = [parameters |-> op.parameters, responses |-> op.responses]
    BY DEF OperationRecs
  <1>3. \/ \E r \in SUBSET Codes : new = [op EXCEPT !.responses = r]
        \/ \E p \in Parameters : new = [op EXCEPT !.parameters = Without(op.parameters, p)]
        \/ \E p \in Parameters : \E b \in EditedParameters(op, p) :
             new = [op EXCEPT !.parameters = With(op.parameters, p, b)]
    BY DEF EditedOperations
  <1>4. ASSUME NEW r \in SUBSET Codes, new = [op EXCEPT !.responses = r] PROVE new \in OperationRecs
    BY <1>1, <1>2, <1>4 DEF OperationRecs
  <1>5. ASSUME NEW D \in SUBSET Parameters, NEW ps \in [D -> ParameterShapes], new = [op EXCEPT !.parameters = ps]
        PROVE  new \in OperationRecs
    BY <1>2, <1>5 DEF OperationRecs
  <1>6. ASSUME NEW p \in Parameters, new = [op EXCEPT !.parameters = Without(op.parameters, p)]
        PROVE  new \in OperationRecs
    <2>1. Without(op.parameters, p) \in [P \ {p} -> ParameterShapes]
      BY <1>1 DEF Without, Restrict
    <2>2. P \ {p} \in SUBSET Parameters
      BY <1>1
    <2>. QED  BY <1>5, <1>6, <2>1, <2>2
  <1>7. ASSUME NEW p \in Parameters, NEW b \in EditedParameters(op, p),
               new = [op EXCEPT !.parameters = With(op.parameters, p, b)]
        PROVE  new \in OperationRecs
    <2>0. b \in ParameterShapes
      BY ParameterEdits
    <2>1. With(op.parameters, p, b) \in [P \cup {p} -> ParameterShapes]
      BY <1>1, <2>0 DEF With
    <2>2. P \cup {p} \in SUBSET Parameters
      BY <1>1
    <2>. QED  BY <1>5, <1>7, <2>1, <2>2
  <1>. QED  BY <1>3, <1>4, <1>6, <1>7

(* A commit leaves a document that can be published, and no property of it  *)
(* has an enum that had none.                                               *)
LEMMA EditsPublish ==
  ASSUME NEW doc, Published(doc), NEW new \in Edited(doc)
  PROVE  /\ Published(new)
         /\ \A s \in Schemas : new.schemas[s] = doc.schemas[s] \/ Follows(s, doc.schemas[s], new.schemas[s])
  <1>1. PICK O \in SUBSET Operations : doc.operations \in [O -> OperationRecs]
    BY DEF Published, Documents
  <1>2. /\ doc.webhooks \in EventRecs /\ doc.schemas \in [Schemas -> SchemaRecs]
        /\ doc = [operations |-> doc.operations, webhooks |-> doc.webhooks, schemas |-> doc.schemas]
    BY DEF Published, Documents
  <1>3. \/ \E o \in Operations : new = [doc EXCEPT !.operations = IF o \in DOMAIN @ THEN Without(@, o)
                                                               ELSE With(@, o, Original.operations[o])]
        \/ \E es \in EditedWebhooks(doc.webhooks) : new = [doc EXCEPT !.webhooks = es]
        \/ \E o \in DOMAIN doc.operations : \E op \in EditedOperations(doc.operations[o]) :
             new = [doc EXCEPT !.operations[o] = op]
        \/ \E s \in Schemas : \E x \in EditedSchemas(s, doc.schemas[s]) : new = [doc EXCEPT !.schemas[s] = x]
    <2>. DEFINE Turned == {[doc EXCEPT !.operations = IF o \in DOMAIN @ THEN Without(@, o)
                                                        ELSE With(@, o, Original.operations[o])] :
                              o \in {o \in Operations : "operation" \in Edits}}
                Heard == {[doc EXCEPT !.webhooks = es] : es \in EditedWebhooks(doc.webhooks)}
                Operated == UNION {{[doc EXCEPT !.operations[o] = op] : op \in EditedOperations(doc.operations[o])} :
                                     o \in DOMAIN doc.operations}
                Shaped == UNION {{[doc EXCEPT !.schemas[s] = x] : x \in EditedSchemas(s, doc.schemas[s])} :
                                   s \in Schemas}
    <2>1. new \in Turned \/ new \in Heard \/ new \in Operated \/ new \in Shaped
      <3>1. Edited(doc) = Turned \cup Heard \cup Operated \cup Shaped
        BY DEF Edited
      <3>. HIDE DEF Turned, Heard, Operated, Shaped
      <3>. QED  BY <3>1
    <2>2. new \in Turned => \E o \in Operations : new = [doc EXCEPT !.operations = IF o \in DOMAIN @ THEN Without(@, o)
                                                                          ELSE With(@, o, Original.operations[o])]
      OBVIOUS
    <2>3. new \in Heard => \E es \in EditedWebhooks(doc.webhooks) : new = [doc EXCEPT !.webhooks = es]
      OBVIOUS
    <2>4. new \in Operated => \E o \in DOMAIN doc.operations : \E op \in EditedOperations(doc.operations[o]) :
                               new = [doc EXCEPT !.operations[o] = op]
      OBVIOUS
    <2>5. new \in Shaped => \E s \in Schemas : \E x \in EditedSchemas(s, doc.schemas[s]) :
                             new = [doc EXCEPT !.schemas[s] = x]
      OBVIOUS
    <2>. HIDE DEF Turned, Heard, Operated, Shaped
    <2>. QED  BY <2>1, <2>2, <2>3, <2>4, <2>5
  <1>4. ASSUME NEW D \in SUBSET Operations, NEW ops \in [D -> OperationRecs], NEW es \in EventRecs,
               new = [operations |-> ops, webhooks |-> es, schemas |-> doc.schemas]
        PROVE  Published(new) /\ new.schemas = doc.schemas
    <2>1. new \in Documents
      BY <1>2, <1>4 DEF Documents
    <2>2. new.schemas = doc.schemas
      BY <1>4
    <2>. QED  BY <2>1, <2>2 DEF Published
  <1>5. ASSUME NEW o \in Operations, new = [doc EXCEPT !.operations = IF o \in DOMAIN @ THEN Without(@, o)
                                                               ELSE With(@, o, Original.operations[o])]
        PROVE  Published(new) /\ new.schemas = doc.schemas
    <2>. DEFINE gone == Without(doc.operations, o)
                come == With(doc.operations, o, Original.operations[o])
    <2>1. Original.operations[o] \in OperationRecs
      BY OriginalOperations
    <2>2. gone \in [O \ {o} -> OperationRecs] /\ O \ {o} \in SUBSET Operations
      BY <1>1 DEF Without, Restrict
    <2>3. come \in [O \cup {o} -> OperationRecs] /\ O \cup {o} \in SUBSET Operations
      BY <1>1, <2>1 DEF With
    <2>. HIDE DEF gone, come
    <2>4. \/ new = [operations |-> gone, webhooks |-> doc.webhooks, schemas |-> doc.schemas]
          \/ new = [operations |-> come, webhooks |-> doc.webhooks, schemas |-> doc.schemas]
      BY <1>2, <1>5 DEF gone, come
    <2>. QED  BY <1>2, <1>4, <2>2, <2>3, <2>4
  <1>6. ASSUME NEW es \in EditedWebhooks(doc.webhooks), new = [doc EXCEPT !.webhooks = es]
        PROVE  Published(new) /\ new.schemas = doc.schemas
    <2>0. es \in EventRecs
      BY <1>2, EventEdits
    <2>1. new = [operations |-> doc.operations, webhooks |-> es, schemas |-> doc.schemas]
      BY <1>2, <1>6
    <2>. QED  BY <1>1, <1>4, <2>0, <2>1
  <1>7. ASSUME NEW o \in DOMAIN doc.operations, NEW op \in EditedOperations(doc.operations[o]),
               new = [doc EXCEPT !.operations[o] = op]
        PROVE  Published(new) /\ new.schemas = doc.schemas
    <2>1. op \in OperationRecs
      BY <1>1, OperationEdits
    <2>2. [doc.operations EXCEPT ![o] = op] \in [O -> OperationRecs]
      BY <1>1, <2>1
    <2>3. new = [operations |-> [doc.operations EXCEPT ![o] = op], webhooks |-> doc.webhooks, schemas |-> doc.schemas]
      BY <1>2, <1>7
    <2>. QED  BY <1>1, <1>2, <1>4, <2>2, <2>3
  <1>8. ASSUME NEW s \in Schemas, NEW x \in EditedSchemas(s, doc.schemas[s]), new = [doc EXCEPT !.schemas[s] = x]
        PROVE  /\ Published(new)
               /\ \A t \in Schemas : new.schemas[t] = doc.schemas[t] \/ Follows(t, doc.schemas[t], new.schemas[t])
    <2>1. doc.schemas[s] \in SchemaRecs
      BY <1>2
    <2>2. Follows(s, doc.schemas[s], x)
      BY <2>1, SchemaEdits DEF Published
    <2>3. x \in SchemaRecs /\ \A f \in DOMAIN x.properties : x.properties[f].type = "ref" <=> Refers(s, f)
      BY <2>2 DEF Follows
    <2>. DEFINE all == [doc.schemas EXCEPT ![s] = x]
    <2>4. all \in [Schemas -> SchemaRecs] /\ \A t \in Schemas : all[t] = IF t = s THEN x ELSE doc.schemas[t]
      BY <1>2, <2>3
    <2>5. new = [operations |-> doc.operations, webhooks |-> doc.webhooks, schemas |-> all]
      BY <1>2, <1>8
    <2>. HIDE DEF all
    <2>6. new \in Documents
      BY <1>1, <1>2, <2>4, <2>5 DEF Documents
    <2>7. new.schemas = all
      BY <2>5
    <2>8. Published(new)
      BY <2>3, <2>4, <2>6, <2>7 DEF Published
    <2>. QED  BY <2>2, <2>4, <2>7, <2>8
  <1>. QED  BY <1>3, <1>5, <1>6, <1>7, <1>8

-----------------------------------------------------------------------------
(* The gate, through commits and merges. *)

JudgedInv ==
  /\ verdict \in {"passes", "breaking", "allowed"} => committed = generated
  /\ verdict = "passes" => \A base \in onMain : compare(base, generated) = {}
  /\ verdict \in {"breaking", "allowed"} => \E base \in onMain : compare(base, generated) # {}

GateInv ==
  /\ \A doc \in onMain \cup {generated, committed} : Published(doc)
  /\ \A base \in onMain : StaysFree(base, generated)
  /\ verdict \in {"none", "passes", "stale", "breaking", "allowed"} /\ edits \in 0..MaxEdits
  /\ JudgedInv

(* Nothing is judged yet.                                                   *)
LEMMA ApiStarts == ApiInit => GateInv
  <1>1. StaysFree(Original, Original)
    BY DEF StaysFree
  <1>. QED  BY <1>1, OriginalPublished, ApiAssumption DEF ApiInit, GateInv, JudgedInv

(* A verdict holds until the routes, the file or the base changes.          *)
LEMMA ApiSteps == GateInv /\ [ApiNext]_apiVars => GateInv'
  <1>. SUFFICES ASSUME GateInv, [ApiNext]_apiVars PROVE GateInv'
    OBVIOUS
  <1>1. CASE ChangeRoutes
    <2>1. /\ edits < MaxEdits /\ edits' = edits + 1 /\ generated' \in Edited(generated)
          /\ verdict' = "none" /\ onMain' = onMain /\ committed' = committed
      BY <1>1 DEF ChangeRoutes
    <2>2. /\ Published(generated')
          /\ \A s \in Schemas : \/ generated'.schemas[s] = generated.schemas[s]
                               \/ Follows(s, generated.schemas[s], generated'.schemas[s])
      BY <2>1, EditsPublish DEF GateInv
    <2>3. ASSUME NEW base \in onMain PROVE StaysFree(base, generated')
      <3>1. ASSUME NEW s \in Schemas,
                   NEW f \in DOMAIN base.schemas[s].properties \cap DOMAIN generated'.schemas[s].properties,
                   base.schemas[s].properties[f].enum = {}
            PROVE  generated'.schemas[s].properties[f].enum = {}
        <4>1. f \in DOMAIN generated.schemas[s].properties => generated.schemas[s].properties[f].enum = {}
          BY <3>1 DEF GateInv, StaysFree
        <4>. QED  BY <2>2, <3>1, <4>1 DEF Follows
      <3>. QED  BY <3>1 DEF StaysFree
    <2>4. edits' \in 0..MaxEdits
      BY <2>1, ApiAssumption DEF GateInv
    <2>. QED  BY <2>1, <2>2, <2>3, <2>4 DEF GateInv, JudgedInv
  <1>2. CASE writeSpec
    BY <1>2 DEF writeSpec, GateInv, JudgedInv
  <1>3. CASE check
    <2>1. verdict' \in
           IF committed # generated THEN {"stale"}
           ELSE IF \A base \in onMain : compare(base, generated) = {} THEN {"passes"}
           ELSE {"breaking", "allowed"}
      BY <1>3 DEF check
    <2>2. UNCHANGED <<onMain, generated, committed, edits>>
      BY <1>3 DEF check
    <2>3. JudgedInv'
      BY <2>1, <2>2 DEF JudgedInv
    <2>. QED  BY <2>1, <2>2, <2>3 DEF GateInv
  <1>4. CASE Merge
    <2>1. onMain' = {committed} /\ verdict' = "none" /\ UNCHANGED <<generated, committed, edits>>
      BY <1>4 DEF Merge
    <2>2. committed = generated
      BY <1>4 DEF Merge, GateInv, JudgedInv
    <2>3. StaysFree(generated, generated)
      BY DEF StaysFree
    <2>. QED  BY <2>1, <2>2, <2>3 DEF GateInv, JudgedInv
  <1>5. CASE UNCHANGED apiVars
    BY <1>5 DEF apiVars, GateInv, JudgedInv
  <1>. QED  BY <1>1, <1>2, <1>3, <1>4, <1>5 DEF ApiNext

(* The documents, whatever the routes went through, and the verdict on      *)
(* them.                                                                    *)
THEOREM GateInvariant == ApiSpec => []GateInv
  BY ApiStarts, ApiSteps, PTL DEF ApiSpec

(* Types (ApiTypeOK).                                                       *)
THEOREM ApiTyped == ApiSpec => []ApiTypeOK
  <1>1. GateInv => ApiTypeOK
    BY DocumentsAreOK DEF GateInv, ApiTypeOK
  <1>. QED  BY <1>1, GateInvariant, PTL

(* The gate stops exactly what changes a shape of the published document,   *)
(* but for the elements of arrays and schemas nobody refers to, for any     *)
(* operations, properties and enums and any sequence of commits and merges: *)
(* a narrower parameter schema, a payload cut under the oneOf and a value   *)
(* gone from a response are no part of it (GateIsExact).                    *)
THEOREM GateExact == ApiSpec => []GateIsExact
  <1>1. GateInv => GateIsExact
    <2>. SUFFICES ASSUME GateInv PROVE GateIsExact
      OBVIOUS
    <2>1. ASSUME verdict = "passes", NEW base \in onMain, BreaksShape(base, generated)
          PROVE  ElementsChanged(base, generated)
      BY <2>1, GateFindsAll DEF GateInv, JudgedInv
    <2>2. ASSUME verdict \in {"breaking", "allowed"}
          PROVE  \E base \in onMain :
                   \/ BreaksShape(base, generated)
                   \/ \E doc \in {base, generated} : \E s \in Schemas \ (Requests(doc) \cup Responses(doc)) :
                        base.schemas[s] # generated.schemas[s]
      <3>1. PICK base \in onMain : compare(base, generated) # {}
        BY <2>2 DEF GateInv, JudgedInv
      <3>2. Published(base) /\ Published(generated)
        BY DEF GateInv
      <3>. QED  BY <3>1, <3>2, GateFindsOnly
    <2>3. ASSUME verdict = "passes", NEW base \in onMain, Breaks(base, generated)
          PROVE  Overlooked(base, generated)
      BY <2>1, <2>3 DEF Breaks, Overlooked
    <2>. QED  BY <2>1, <2>2, <2>3 DEF GateIsExact
  <1>. QED  BY <1>1, GateInvariant, PTL
===============================================================================
