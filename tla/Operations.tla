------------------------------ MODULE Operations ------------------------------
(***************************************************************************)
(* What operators do to the fleet and its queue: workers that are stopped  *)
(* by a signal and drain, jobs whose attempts are used up and that wait in *)
(* the failed set, operators who list, replay and purge them from the      *)
(* console or the command line.                                            *)
(*                                                                         *)
(* A job is that of one candidate: what it does to the run is in           *)
(* RunLifecycle; here it asks its model once and settles the row. BullMQ,  *)
(* which is external, hands a job to one worker at a time: that a worker   *)
(* that lives loses the lock of its job is left out.                       *)
(***************************************************************************)
EXTENDS Integers, Sequences, SequencesExt, FiniteSets

CONSTANTS
  Fleet,         \* the worker processes
  Jobs,
  QUEUE_MAX_ATTEMPTS, QUEUE_KEEP_FAILED,
  Operators,
  MaxReplays     \* bound on the jobs put back

ASSUME OperationsAssumption ==
  QUEUE_MAX_ATTEMPTS \in Nat \ {0} /\ QUEUE_KEEP_FAILED \in Nat /\ MaxReplays \in Nat

VARIABLES
  process,     \* the workers: whether they serve, and how they exited
  execution,   \* the job a worker has, and how far it is
  job,         \* the queue's state of a job, and its attempts
  failedSet,   \* the dead letters, oldest first
  candidate,   \* the rows of the candidates
  listed,      \* the letters an operator has read and not acted on
  replays

opsVars == <<process, execution, job, failedSet, candidate, listed, replays>>
queueVars == <<job, failedSet>>

-----------------------------------------------------------------------------
(* The queue, external. *)

NoJob == "none"

Free == [job |-> NoJob, step |-> "idle"]

Takes(w, j) ==
  /\ process[w] = "serving" /\ execution[w] = Free /\ job[j].at = "waiting"
  /\ execution' = [execution EXCEPT ![w] = [job |-> j, step |-> "load"]]
  /\ job' = [job EXCEPT ![j].at = "active"]
  /\ UNCHANGED <<process, failedSet, candidate, listed, replays>>

(* A job whose attempts are used up goes to the failed set, which keeps so  *)
(* many.                                                                    *)
Failed(j) ==
  LET letters == Append(failedSet, j)
      over == Len(letters) > QUEUE_KEEP_FAILED
  IN /\ failedSet' = IF over THEN Tail(letters) ELSE letters
     /\ job' = [k \in Jobs |->
          IF over /\ k = Head(letters) THEN [job[k] EXCEPT !.at = "gone"]
          ELSE IF k = j THEN [at |-> "failed", attempts |-> job[j].attempts + 1] ELSE job[k]]

AttemptFails(j) ==
  IF job[j].attempts + 1 < QUEUE_MAX_ATTEMPTS
  THEN job' = [job EXCEPT ![j] = [at |-> "waiting", attempts |-> @.attempts + 1]] /\ UNCHANGED failedSet
  ELSE Failed(j)

-----------------------------------------------------------------------------
(* processCandidateJob, as the queue sees it. *)

Leaves(w) == execution' = [execution EXCEPT ![w] = Free]

opsRest == <<process, listed, replays>>

alreadySettled(j) == candidate[j] # "PENDING"

Step(w, step) == execution' = [execution EXCEPT ![w].step = step]

(* Variant: the row is not looked at.                                       *)
LoadsUnread(w) ==
  /\ execution[w].step = "load"
  /\ Step(w, "call")
  /\ UNCHANGED <<candidate, queueVars>> /\ UNCHANGED opsRest

(* A job that was delivered before may find its row settled.                *)
Loads(w) ==
  /\ execution[w].step = "load" /\ ~alreadySettled(execution[w].job)
  /\ Step(w, "call")
  /\ UNCHANGED <<candidate, queueVars>> /\ UNCHANGED opsRest

(* The row is written, with what the call came to, or with the stop that    *)
(* was found before it, or once more, because of an error of ours after the *)
(* answer was saved.                                                        *)
Settles(w) ==
  LET j == execution[w].job
  IN /\ \E result \in {"OK", "ERROR"} :
          /\ \/ execution[w].step = "call"
             \/ execution[w].step = "load" /\ ~alreadySettled(j) /\ result = "ERROR"
             \/ execution[w].step = "settled" /\ candidate[j] = "OK" /\ result = "ERROR"
          /\ candidate' = [candidate EXCEPT ![j] = result]
     /\ Step(w, "settled")
     /\ UNCHANGED queueVars /\ UNCHANGED opsRest

(* The processor returns: a model's error is a result, and there is nothing *)
(* to do where the row is settled or the run is gone or over.               *)
Completes(w) ==
  /\ execution[w].step \in {"load", "settled"}
  /\ Leaves(w) /\ job' = [job EXCEPT ![execution[w].job].at = "completed"]
  /\ UNCHANGED <<candidate, failedSet>> /\ UNCHANGED opsRest

(* The database, Redis or an event fails, or a retryable error is thrown,   *)
(* whether the row is written by then or not.                               *)
Throws(w) ==
  /\ execution[w] # Free /\ Leaves(w) /\ AttemptFails(execution[w].job)
  /\ UNCHANGED candidate /\ UNCHANGED opsRest

-----------------------------------------------------------------------------
(* The worker process. *)

(* A second signal joins the first.                                         *)
Signalled(w) ==
  /\ process[w] = "serving"
  /\ process' = [process EXCEPT ![w] = "draining"]
  /\ UNCHANGED <<execution, candidate, listed, replays>> /\ UNCHANGED queueVars

(* shutdown: no new job is taken, and the one under way is finished.        *)
Drained(w) ==
  /\ process[w] = "draining" /\ execution[w] = Free
  /\ process' = [process EXCEPT ![w] = "drained"]
  /\ UNCHANGED <<execution, candidate, listed, replays>> /\ UNCHANGED queueVars

(* SHUTDOWN_TIMEOUT_MS, or a shutdown that throws, or a process that dies:  *)
(* the lock of its job expires and the job is handed out again.             *)
Killed(w) ==
  /\ process[w] \in {"serving", "draining"}
  /\ process' = [process EXCEPT ![w] = "killed"]
  /\ IF execution[w] = Free THEN UNCHANGED queueVars
     ELSE \/ job' = [job EXCEPT ![execution[w].job].at = "waiting"] /\ UNCHANGED failedSet
          \/ Failed(execution[w].job)
  /\ Leaves(w)
  /\ UNCHANGED <<candidate, listed, replays>>

Starts(w) ==
  /\ process[w] \in {"drained", "killed"}
  /\ process' = [process EXCEPT ![w] = "serving"]
  /\ UNCHANGED <<execution, candidate, listed, replays>> /\ UNCHANGED queueVars

-----------------------------------------------------------------------------
(* The dead letters. *)

listDeadLetters(o) ==
  /\ listed' = [listed EXCEPT ![o] = ToSet(failedSet)]
  /\ UNCHANGED <<process, execution, candidate, replays>> /\ UNCHANGED queueVars

(* Of what was listed, from the console, from the CLI or all of them at     *)
(* once: a job that is gone is not replayed, and one that is no longer      *)
(* failed is refused by the queue.                                          *)
replayDeadLetter(o, j) ==
  /\ j \in listed[o] /\ replays < MaxReplays /\ replays' = replays + 1
  /\ listed' = [listed EXCEPT ![o] = @ \ {j}]
  /\ IF job[j].at # "failed" THEN UNCHANGED queueVars
     ELSE /\ job' = [job EXCEPT ![j] = [at |-> "waiting", attempts |-> 0]]
          /\ \E i \in DOMAIN failedSet : failedSet[i] = j /\ failedSet' = RemoveAt(failedSet, i)
  /\ UNCHANGED <<process, execution, candidate>>

(* The oldest ones, as many as are older than the date.                     *)
purgeDeadLetters ==
  /\ \E n \in 1..Len(failedSet) :
       /\ failedSet' = SubSeq(failedSet, n + 1, Len(failedSet))
       /\ job' = [j \in Jobs |-> IF j \in ToSet(SubSeq(failedSet, 1, n)) THEN [job[j] EXCEPT !.at = "gone"]
                                 ELSE job[j]]
  /\ UNCHANGED <<process, execution, candidate, listed, replays>>

-----------------------------------------------------------------------------
OpsInit ==
  /\ process = [w \in Fleet |-> "serving"] /\ execution = [w \in Fleet |-> Free]
  /\ job = [j \in Jobs |-> [at |-> "waiting", attempts |-> 0]] /\ failedSet = <<>>
  /\ candidate = [j \in Jobs |-> "PENDING"]
  /\ listed = [o \in Operators |-> {}] /\ replays = 0

OpsNext ==
  \/ \E w \in Fleet :
       \/ \E j \in Jobs : Takes(w, j)
       \/ Loads(w) \/ Settles(w) \/ Completes(w) \/ Throws(w)
       \/ Signalled(w) \/ Drained(w) \/ Killed(w) \/ Starts(w)
  \/ purgeDeadLetters
  \/ \E o \in Operators :
       \/ listDeadLetters(o)
       \/ \E j \in Jobs : replayDeadLetter(o, j)

OpsSpec == OpsInit /\ [][OpsNext]_opsVars

OpsTypeOK ==
  /\ process \in [Fleet -> {"serving", "draining", "drained", "killed"}]
  /\ execution \in [Fleet -> [job : Jobs \cup {NoJob}, step : {"idle", "load", "call", "settled"}]]
  /\ job \in [Jobs -> [at : {"waiting", "active", "failed", "completed", "gone"}, attempts : 0..QUEUE_MAX_ATTEMPTS]]
  /\ Len(failedSet) <= QUEUE_KEEP_FAILED
  /\ candidate \in [Jobs -> {"PENDING", "OK", "ERROR"}]
  /\ listed \in [Operators -> SUBSET Jobs] /\ replays \in 0..MaxReplays

(* However often and by however many operators a dead letter is replayed,   *)
(* and whatever became of it since it was listed, a candidate that is       *)
(* settled is not asked again, though the job whose row was written may     *)
(* have failed afterwards (server/src/admin/routes.ts: "a double replay     *)
(* cannot double-charge").                                                  *)
AnsweredIsNotAsked ==
  \A w \in Fleet : execution[w].step = "call" => candidate[execution[w].job] = "PENDING"

(* The failed set is what failed, and no job is active that no worker has:  *)
(* drained workers left nothing behind (worker/src/index.ts, shutdown: a    *)
(* rolling deploy does not orphan runs).                                    *)
NothingIsOrphaned ==
  /\ \A j \in Jobs : job[j].at = "failed" <=> j \in ToSet(failedSet)
  /\ \A j \in Jobs : job[j].at = "active" =>
       \E w \in Fleet : execution[w].job = j /\ process[w] \in {"serving", "draining"}

(* The queue after a failure (queue/src/dlq.ts, worker/src/index.ts): a job  *)
(* is a dead letter exactly when it failed for good and active only while a *)
(* live worker has it, and no replay calls a model for an answered row.     *)
ReplaysAreSafe == NothingIsOrphaned /\ AnsweredIsNotAsked
=============================================================================
