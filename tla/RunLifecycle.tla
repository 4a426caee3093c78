---------------------------- MODULE RunLifecycle ----------------------------
(***************************************************************************)
(* One run, from POST /runs to its conclusion, with every process that     *)
(* writes its rows: the API request that starts it, the queue that         *)
(* delivers its jobs, the workers that execute them, the API request that  *)
(* cancels it, and the deadline reaper.                                    *)
(*                                                                         *)
(* A step of this module is what happens between two awaits of one         *)
(* process: one round trip to the database or to Redis.  Everything a      *)
(* process remembers across an await is in its part of exec, api,          *)
(* canceler or reaper; everything else is re-read, as the code re-reads    *)
(* it.                                                                     *)
(*                                                                         *)
(* Left out: the text of answers, prices, tags and the tenant filter (one  *)
(* run, one tenant), progress events that are not terminal (ProgressBus    *)
(* models the log), and DELETE /runs/:id.                                  *)
(***************************************************************************)
EXTENDS Naturals, FiniteSets

CONSTANTS
  Candidates,     \* the panel members of the run
  Synthesis,      \* the job that compares their answers
  MaxAttempts,    \* QUEUE_MAX_ATTEMPTS, the attempts of one job
  MaxStalls,      \* deliveries of one job BullMQ recovers from a dead worker
  Ceilings,       \* which stops an operator or a limit may impose: a subset
                  \* of {"halted", "budget"}
  MaxFaults       \* bound on crashes and infrastructure errors in a behaviour

ASSUME RunAssumption ==
  /\ Synthesis \notin Candidates
  /\ IsFiniteSet(Candidates)
  /\ MaxAttempts \in Nat \ {0}
  /\ MaxStalls \in Nat
  /\ MaxFaults \in Nat
  /\ Ceilings \subseteq {"halted", "budget"}

Jobs == Candidates \cup {Synthesis}

Live     == {"PENDING", "QUEUED", "FANNING_OUT", "SYNTHESIZING"}
Terminal == {"COMPLETE", "FAILED", "CANCELED"}
Settled  == {"OK", "ERROR", "SKIPPED", "CANCELED"}

VARIABLES
  run,        \* the Run row: status, whether canceledAt is set, and whether
              \* its Synthesis row exists
  cand,       \* the Candidate rows: status and the durable attempt count
  job,        \* what the queue holds of each job
  exec,       \* the delivery of each job being executed, if any
  signal,     \* the cancellation channel and AbortSignal of each execution
  api,        \* where the request that starts the run has got to
  canceler,   \* where the request that cancels it has got to
  reaper,     \* where the reaper has got to with this run
  overdue,    \* the clock has passed the run's deadlineAt
  told,       \* the terminal events published on the progress bus
  announced,  \* the statuses handed to the webhook outbox
  faults      \* crashes and infrastructure errors so far

vars == <<run, cand, job, exec, signal, api, canceler, reaper, overdue,
          told, announced, faults>>

-----------------------------------------------------------------------------
(* What the processors keep in memory. *)

CandidateSteps == {"load", "check", "fanout", "start", "watch", "reread",
                   "call", "answered", "report", "settle", "settled"}
SynthesisSteps == {"load", "check", "void", "begin", "watch", "reread",
                   "call", "save", "complete", "publish", "announce",
                   "fail", "publishFailed"}

(* An execution: the step it does next, the outcome it is about to write on *)
(* its candidate, the candidates it saw answered, and whether it was        *)
(* delivered after the cancellation had committed (history, never read).    *)
Execution == [at: {"idle"} \cup CandidateSteps \cup SynthesisSteps,
              outcome: {"none", "ERROR", "SKIPPED", "CANCELED"},
              answered: SUBSET Candidates,
              late: BOOLEAN]

Idle == [at |-> "idle", outcome |-> "none", answered |-> {}, late |-> FALSE]

Executing(j) == exec[j].at # "idle"

Goto(j, step) == exec' = [exec EXCEPT ![j].at = step]

SettleAs(c, outcome) ==
  exec' = [exec EXCEPT ![c].at = "settle", ![c].outcome = outcome]

(* Variant: the comparison is strict. *)
IsFinalAttemptStrict(j) == job[j].made + 1 > MaxAttempts

(* meta.isFinalAttempt of the delivery in progress. *)
IsFinalAttempt(j) == job[j].made + 1 >= MaxAttempts

(* The queue's verdict on a delivery that returned, and on one that threw.  *)
Returned(j) == job' = [job EXCEPT ![j].state = "completed"]
Threw(j) ==
  job' = [job EXCEPT ![j].made = @ + 1,
                     ![j].state = IF IsFinalAttempt(j) THEN "failed" ELSE "waiting"]

(* The finally blocks: the execution is over and its channel is closed.     *)
Leave(j) ==
  /\ exec' = [exec EXCEPT ![j] = Idle]
  /\ signal' = [signal EXCEPT ![j] = "off"]

Finish(j) == Returned(j) /\ Leave(j)
Throw(j)  == Threw(j) /\ Leave(j)

Aborted(j) == signal[j] = "aborted"

-----------------------------------------------------------------------------
(* The writes of packages/db. Only the ones with a status filter have a     *)
(* guard.                                                                   *)

setRunStatus(status) == run' = [run EXCEPT !.status = status]
completeRun == run' = [run EXCEPT !.status = "COMPLETE"]
failRun     == run' = [run EXCEPT !.status = "FAILED"]
saveSynthesis == run' = [run EXCEPT !.synthesis = TRUE]

markRunQueued ==
  run' = IF run.status = "PENDING" THEN [run EXCEPT !.status = "QUEUED"] ELSE run

setCandidateRunning(c) ==
  cand' = [cand EXCEPT ![c] = [status |-> "RUNNING", attempts |-> @.attempts + 1]]

settleCandidate(c, status) == cand' = [cand EXCEPT ![c].status = status]

cancelPendingCandidates ==
  cand' = [c \in Candidates |->
             IF cand[c].status \in {"PENDING", "RUNNING"}
               THEN [cand[c] EXCEPT !.status = "CANCELED"]
               ELSE cand[c]]

(* Variant: canceledAt is not looked at, only the status is. *)
checkStopNoCancel ==
  (Ceilings \cap {"halted"}) \cup
  CASE run.status \in Terminal -> {"finished"}
    [] run.status \notin Terminal /\ overdue -> {"deadline"}
    [] OTHER -> {"none"} \cup (Ceilings \cap {"budget"})

(* checkStop: the reasons it may return now.  The kill switch is read first,*)
(* then the row: canceledAt, the status, the deadline, and last the spend.  *)
checkStop ==
  (Ceilings \cap {"halted"}) \cup
  CASE run.canceled -> {"canceled"}
    [] ~run.canceled /\ run.status \in Terminal -> {"finished"}
    [] ~run.canceled /\ run.status \notin Terminal /\ overdue -> {"deadline"}
    [] OTHER -> {"none"} \cup (Ceilings \cap {"budget"})

-----------------------------------------------------------------------------
(* POST /runs.                                                              *)

apiVars == <<cand, job, exec, signal, canceler, reaper, overdue, announced>>

(* createRun seeds the candidates of unavailable providers as SKIPPED. With *)
(* nobody to ask, the run is failed; otherwise its jobs are to be enqueued. *)
CreateRun ==
  /\ api = "new"
  /\ \E runnable \in SUBSET Candidates :
       /\ cand' = [c \in Candidates |->
                     [status |-> IF c \in runnable THEN "PENDING" ELSE "SKIPPED",
                      attempts |-> 0]]
       /\ api' = IF runnable = {} THEN "failing" ELSE "enqueue"
  /\ run' = [run EXCEPT !.status = "PENDING"]
  /\ UNCHANGED <<job, exec, signal, canceler, reaper, overdue, told, announced, faults>>

(* One flow: the candidates' jobs, and the synthesis that waits for them.   *)
AddFlow ==
  job' = [j \in Jobs |->
            IF j = Synthesis \/ cand[j].status # "SKIPPED"
              THEN [job[j] EXCEPT !.state = "waiting"] ELSE job[j]]

EnqueueRun ==
  /\ api = "enqueue"
  /\ AddFlow
  /\ api' = "mark"
  /\ UNCHANGED <<run, cand, exec, signal, canceler, reaper, overdue, told, announced, faults>>

(* enqueueRun threw: Redis did not answer, and may or may not have the jobs.*)
EnqueueFails ==
  /\ api = "enqueue"
  /\ faults < MaxFaults /\ faults' = faults + 1
  /\ (AddFlow \/ UNCHANGED job)
  /\ api' = "failing"
  /\ UNCHANGED <<run, cand, exec, signal, canceler, reaper, overdue, told, announced>>

StartFails ==
  /\ api = "failing"
  /\ failRun
  /\ api' = "failed"
  /\ UNCHANGED <<told, faults>> /\ UNCHANGED apiVars

StartFailedPublish ==
  /\ api = "failed"
  /\ told' = told \cup {"run.failed"}
  /\ api' = "done"
  /\ UNCHANGED <<run, faults>> /\ UNCHANGED apiVars

MarkQueued ==
  /\ api = "mark"
  /\ markRunQueued
  /\ api' = "done"
  /\ UNCHANGED <<told, faults>> /\ UNCHANGED apiVars

-----------------------------------------------------------------------------
(* POST /runs/:id/cancel.                                                   *)

(* The update is filtered on the status, so the database arbitrates.        *)
CancelRow ==
  /\ canceler = "idle"
  /\ run.status \in Live
  /\ run' = [run EXCEPT !.status = "CANCELED", !.canceled = TRUE]
  /\ canceler' = "candidates"
  /\ UNCHANGED <<cand, job, exec, signal, api, reaper, overdue, told, announced, faults>>

CancelCandidates ==
  /\ canceler = "candidates"
  /\ cancelPendingCandidates
  /\ canceler' = "request"
  /\ UNCHANGED <<run, job, exec, signal, api, reaper, overdue, told, announced, faults>>

(* Redis hands the message to whoever is subscribed at this moment.         *)
CancelRequest ==
  /\ canceler = "request"
  /\ signal' = [j \in Jobs |-> IF signal[j] = "watching" THEN "sent" ELSE signal[j]]
  /\ canceler' = "publish"
  /\ UNCHANGED <<run, cand, job, exec, api, reaper, overdue, told, announced, faults>>

CancelPublish ==
  /\ canceler \in {"publish", "unheard"}
  /\ told' = told \cup {"run.canceled"}
  /\ canceler' = IF canceler = "publish" THEN "done" ELSE "gaveUp"
  /\ UNCHANGED <<run, cand, job, exec, signal, api, reaper, overdue, announced, faults>>

(* A request that could not be published is logged and passed over.         *)
CancelRequestLost ==
  /\ canceler = "request"
  /\ faults < MaxFaults /\ faults' = faults + 1
  /\ canceler' = "unheard"
  /\ UNCHANGED <<run, cand, job, exec, signal, api, reaper, overdue, told, announced>>

(* The subscriber's connection delivers the message to the execution.       *)
DeliverCancel(j) ==
  /\ signal[j] = "sent"
  /\ signal' = [signal EXCEPT ![j] = "aborted"]
  /\ UNCHANGED <<run, cand, job, exec, api, canceler, reaper, overdue, told, announced, faults>>

-----------------------------------------------------------------------------
(* The reaper: list, then per run close the candidates, fail it, say so.    *)

reaperVars == <<job, exec, signal, api, canceler, overdue, announced, faults>>

(* Variant: a run that was never enqueued is not looked for. *)
ReaperFindsQueued ==
  /\ reaper = "idle"
  /\ overdue /\ run.status \in Live \ {"PENDING"}
  /\ reaper' = "candidates"
  /\ UNCHANGED <<run, cand, told>> /\ UNCHANGED reaperVars

ReaperFinds ==
  /\ reaper = "idle"
  /\ overdue /\ run.status \in Live
  /\ reaper' = "candidates"
  /\ UNCHANGED <<run, cand, told>> /\ UNCHANGED reaperVars

ReaperCandidates ==
  /\ reaper = "candidates"
  /\ cancelPendingCandidates
  /\ reaper' = "fail"
  /\ UNCHANGED <<run, told>> /\ UNCHANGED reaperVars

ReaperFails ==
  /\ reaper = "fail"
  /\ failRun
  /\ reaper' = "publish"
  /\ UNCHANGED <<cand, told>> /\ UNCHANGED reaperVars

ReaperPublishes ==
  /\ reaper = "publish"
  /\ told' = told \cup {"run.failed"}
  /\ reaper' = "idle"
  /\ UNCHANGED <<run, cand>> /\ UNCHANGED reaperVars

Deadline ==
  /\ api # "new" /\ ~overdue
  /\ overdue' = TRUE
  /\ UNCHANGED <<run, cand, job, exec, signal, api, canceler, reaper, told, announced, faults>>

-----------------------------------------------------------------------------
(* The queue. *)

(* Variant: the synthesis is enqueued beside the candidates, not as parent. *)
DeliverEager(j) ==
  /\ job[j].state = "waiting"
  /\ job' = [job EXCEPT ![j].state = "active"]
  /\ exec' = [exec EXCEPT ![j] = [Idle EXCEPT !.at = "load", !.late = run.canceled]]
  /\ UNCHANGED <<run, cand, signal, api, canceler, reaper, overdue, told, announced, faults>>

(* A worker takes a waiting job. A flow's parent waits for its children,    *)
(* failed ones included (ignoreDependencyOnFailure).                        *)
Deliver(j) ==
  /\ job[j].state = "waiting"
  /\ j = Synthesis => \A c \in Candidates : job[c].state \in {"absent", "completed", "failed"}
  /\ job' = [job EXCEPT ![j].state = "active"]
  /\ exec' = [exec EXCEPT ![j] = [Idle EXCEPT !.at = "load", !.late = run.canceled]]
  /\ UNCHANGED <<run, cand, signal, api, canceler, reaper, overdue, told, announced, faults>>

(* A worker dies. BullMQ finds the job stalled and redelivers it without    *)
(* counting an attempt, MaxStalls times; then it fails the job.             *)
WorkerCrash(j) ==
  /\ Executing(j)
  /\ faults < MaxFaults /\ faults' = faults + 1
  /\ job' = [job EXCEPT ![j].stalls = @ + 1,
                        ![j].state = IF job[j].stalls >= MaxStalls THEN "failed" ELSE "waiting"]
  /\ Leave(j)
  /\ UNCHANGED <<run, cand, api, canceler, reaper, overdue, told, announced>>

(* A database or Redis round trip threw where no try block catches it: any  *)
(* step of a candidate (handleFailure itself records the provider outcome   *)
(* unguarded), and the synthesis steps outside its own try.                 *)
JobError(j) ==
  /\ exec[j].at \in IF j = Synthesis THEN {"load", "check", "void", "begin", "publishFailed"}
                                    ELSE CandidateSteps
  /\ faults < MaxFaults /\ faults' = faults + 1
  /\ Throw(j)
  /\ UNCHANGED <<run, cand, api, canceler, reaper, overdue, told, announced>>

-----------------------------------------------------------------------------
(* The candidate processor.                                                 *)

candVars == <<api, canceler, reaper, overdue, told, announced>>

(* Variant: a redelivered job does not look whether it was settled. *)
LoadCandidateUnread(c) ==
  /\ exec[c].at = "load"
  /\ Goto(c, "check") /\ UNCHANGED <<job, signal>>
  /\ UNCHANGED <<run, cand, faults>> /\ UNCHANGED candVars

(* getRun, and the return for a candidate that is already settled.          *)
LoadCandidate(c) ==
  /\ exec[c].at = "load"
  /\ IF cand[c].status \in Settled
       THEN Finish(c)
       ELSE Goto(c, "check") /\ UNCHANGED <<job, signal>>
  /\ UNCHANGED <<run, cand, faults>> /\ UNCHANGED candVars

(* checkStop, then the provider and its breaker: either may decline the     *)
(* call, which is recorded as SKIPPED.                                      *)
CheckCandidate(c) ==
  /\ exec[c].at = "check"
  /\ \E stop \in checkStop :
       \/ stop = "finished" /\ Finish(c)
       \/ /\ stop # "finished"
          /\ \/ stop = "canceled" /\ SettleAs(c, "CANCELED")
             \/ stop \in {"deadline", "budget", "halted", "none"} /\ SettleAs(c, "SKIPPED")
             \/ stop = "none" /\ Goto(c, "fanout")
          /\ UNCHANGED <<job, signal>>
  /\ UNCHANGED <<run, cand, faults>> /\ UNCHANGED candVars

FanOut(c) ==
  /\ exec[c].at = "fanout"
  /\ setRunStatus("FANNING_OUT")
  /\ Goto(c, "start")
  /\ UNCHANGED <<cand, job, signal, faults>> /\ UNCHANGED candVars

StartCandidate(c) ==
  /\ exec[c].at = "start"
  /\ setCandidateRunning(c)
  /\ Goto(c, "watch")
  /\ UNCHANGED <<run, job, signal, faults>> /\ UNCHANGED candVars

(* Variant: only the channel is trusted. *)
RereadNothing(j) ==
  /\ exec[j].at = "reread"
  /\ Goto(j, "call")
  /\ UNCHANGED <<run, cand, job, signal, faults>> /\ UNCHANGED candVars

(* cancellationSignal, for both processors: subscribe, then read the row.   *)
Watch(j) ==
  /\ exec[j].at = "watch"
  /\ signal' = [signal EXCEPT ![j] = "watching"]
  /\ Goto(j, "reread")
  /\ UNCHANGED <<run, cand, job, faults>> /\ UNCHANGED candVars

Reread(j) ==
  /\ exec[j].at = "reread"
  /\ signal' = [signal EXCEPT ![j] = IF run.canceled THEN "aborted" ELSE @]
  /\ Goto(j, "call")
  /\ UNCHANGED <<run, cand, job, faults>> /\ UNCHANGED candVars

(* The stream ended with an answer before anything aborted it.              *)
Answered(c) ==
  /\ exec[c].at = "call" /\ ~Aborted(c)
  /\ Goto(c, "answered")
  /\ UNCHANGED <<run, cand, job, signal, faults>> /\ UNCHANGED candVars

(* handleFailure: rethrow a retryable failure while attempts remain, record *)
(* every other one.                                                         *)
handleFailure(c, retryable) ==
  IF retryable /\ ~Aborted(c) /\ ~IsFinalAttempt(c)
    THEN Throw(c)
    ELSE /\ SettleAs(c, IF Aborted(c) THEN "CANCELED" ELSE "ERROR")
         /\ UNCHANGED <<job, signal>>

(* The provider failed, the call timed out, was empty, or was aborted.      *)
CallFails(c) ==
  /\ exec[c].at = "call"
  /\ \E retryable \in BOOLEAN : handleFailure(c, retryable)
  /\ UNCHANGED <<run, cand, faults>> /\ UNCHANGED candVars

SettleAnswer(c) ==
  /\ exec[c].at = "answered"
  /\ settleCandidate(c, "OK")
  /\ Goto(c, "report")
  /\ UNCHANGED <<run, job, signal, faults>> /\ UNCHANGED candVars

(* recordProviderOutcome, meter and the candidate.settled event.            *)
Report(c) ==
  /\ exec[c].at = "report"
  /\ Finish(c)
  /\ UNCHANGED <<run, cand, faults>> /\ UNCHANGED candVars

(* A write that throws after the answer is in: the same catch handles it.   *)
ReportError(c) ==
  /\ exec[c].at \in {"answered", "report"}
  /\ faults < MaxFaults /\ faults' = faults + 1
  /\ \E retryable \in BOOLEAN : handleFailure(c, retryable)
  /\ UNCHANGED <<run, cand>> /\ UNCHANGED candVars

SettleCandidate(c) ==
  /\ exec[c].at = "settle"
  /\ settleCandidate(c, exec[c].outcome)
  /\ Goto(c, "settled")
  /\ UNCHANGED <<run, job, signal, faults>> /\ UNCHANGED candVars

(* The candidate.settled event of a candidate without an answer.            *)
EmitSettled(c) ==
  /\ exec[c].at = "settled"
  /\ Finish(c)
  /\ UNCHANGED <<run, cand, faults>> /\ UNCHANGED candVars

-----------------------------------------------------------------------------
(* The synthesis processor.                                                 *)

synthVars == <<api, canceler, reaper, overdue>>

LoadRun ==
  /\ exec[Synthesis].at = "load"
  /\ IF run.status \in Terminal
       THEN Finish(Synthesis)
       ELSE /\ exec' = [exec EXCEPT ![Synthesis].at = "check",
                          ![Synthesis].answered = {c \in Candidates : cand[c].status = "OK"}]
            /\ UNCHANGED <<job, signal>>
  /\ UNCHANGED <<run, cand, told, announced, faults>> /\ UNCHANGED synthVars

(* Variant: nobody counts the answers. *)
CheckRunUncounted ==
  /\ exec[Synthesis].at = "check"
  /\ \E stop \in checkStop :
       \/ stop = "finished" /\ Finish(Synthesis)
       \/ /\ stop # "finished"
          /\ Goto(Synthesis, CASE stop = "canceled" -> "void"
                               [] stop = "none" -> "begin"
                               [] OTHER -> "fail")
          /\ UNCHANGED <<job, signal>>
  /\ UNCHANGED <<run, cand, told, announced, faults>> /\ UNCHANGED synthVars

CheckRun ==
  /\ exec[Synthesis].at = "check"
  /\ \E stop \in checkStop :
       \/ stop = "finished" /\ Finish(Synthesis)
       \/ /\ stop # "finished"
          /\ Goto(Synthesis, CASE stop = "canceled" -> "void"
                               [] stop = "none" /\ exec[Synthesis].answered # {} -> "begin"
                               [] OTHER -> "fail")
          /\ UNCHANGED <<job, signal>>
  /\ UNCHANGED <<run, cand, told, announced, faults>> /\ UNCHANGED synthVars

(* The canceled branch: close the candidates and publish the event again.   *)
VoidRun ==
  /\ exec[Synthesis].at = "void"
  /\ cancelPendingCandidates
  /\ told' = told \cup {"run.canceled"}
  /\ Finish(Synthesis)
  /\ UNCHANGED <<run, announced, faults>> /\ UNCHANGED synthVars

BeginSynthesis ==
  /\ exec[Synthesis].at = "begin"
  /\ setRunStatus("SYNTHESIZING")
  /\ Goto(Synthesis, "watch")
  /\ UNCHANGED <<cand, job, signal, told, announced, faults>> /\ UNCHANGED synthVars

EvaluatorAnswers ==
  /\ exec[Synthesis].at = "call" /\ ~Aborted(Synthesis)
  /\ Goto(Synthesis, "save")
  /\ UNCHANGED <<run, cand, job, signal, told, announced, faults>> /\ UNCHANGED synthVars

(* RetrySynthesis: a retryable failure goes back to the queue while         *)
(* attempts remain; any other, and a cancellation, concludes the run.       *)
evaluatorFailure(retryable) ==
  IF retryable /\ ~Aborted(Synthesis) /\ ~IsFinalAttempt(Synthesis)
    THEN Throw(Synthesis)
    ELSE Goto(Synthesis, "fail") /\ UNCHANGED <<job, signal>>

EvaluatorFails ==
  /\ exec[Synthesis].at = "call"
  /\ \E retryable \in BOOLEAN : evaluatorFailure(retryable)
  /\ UNCHANGED <<run, cand, told, announced, faults>> /\ UNCHANGED synthVars

SaveSynthesis ==
  /\ exec[Synthesis].at = "save"
  /\ saveSynthesis
  /\ Goto(Synthesis, "complete")
  /\ UNCHANGED <<cand, job, signal, told, announced, faults>> /\ UNCHANGED synthVars

CompleteRun ==
  /\ exec[Synthesis].at = "complete"
  /\ completeRun
  /\ Goto(Synthesis, "publish")
  /\ UNCHANGED <<cand, job, signal, told, announced, faults>> /\ UNCHANGED synthVars

PublishCompleted ==
  /\ exec[Synthesis].at = "publish"
  /\ told' = told \cup {"run.completed"}
  /\ Goto(Synthesis, "announce")
  /\ UNCHANGED <<run, cand, job, signal, announced, faults>> /\ UNCHANGED synthVars

(* A write of the try block that throws: inside synthesize it is classified *)
(* like an evaluator failure, after it the run is concluded as failed.      *)
SynthesisError ==
  /\ faults < MaxFaults /\ faults' = faults + 1
  /\ \/ /\ exec[Synthesis].at = "save"
        /\ \E retryable \in BOOLEAN : evaluatorFailure(retryable)
     \/ /\ exec[Synthesis].at \in {"watch", "reread", "complete", "publish"}
        /\ Goto(Synthesis, "fail") /\ UNCHANGED <<job, signal>>
  /\ UNCHANGED <<run, cand, told, announced>> /\ UNCHANGED synthVars

(* concludeFailed: a failRun that throws is logged, and the rest goes on.   *)
ConcludeFailed ==
  /\ exec[Synthesis].at = "fail"
  /\ \/ failRun /\ UNCHANGED faults
     \/ faults < MaxFaults /\ faults' = faults + 1 /\ UNCHANGED run
  /\ Goto(Synthesis, "publishFailed")
  /\ UNCHANGED <<cand, job, signal, told, announced>> /\ UNCHANGED synthVars

PublishFailed ==
  /\ exec[Synthesis].at = "publishFailed"
  /\ told' = told \cup {"run.failed"}
  /\ Goto(Synthesis, "announce")
  /\ UNCHANGED <<run, cand, job, signal, announced, faults>> /\ UNCHANGED synthVars

(* announce: the run is read again and only COMPLETE and FAILED are sent.   *)
Announce ==
  /\ exec[Synthesis].at = "announce"
  /\ announced' = announced \cup ({run.status} \cap {"COMPLETE", "FAILED"})
  /\ Finish(Synthesis)
  /\ UNCHANGED <<run, cand, told, faults>> /\ UNCHANGED synthVars

(* announce swallows its errors: the run concludes without its webhook.     *)
AnnounceError ==
  /\ exec[Synthesis].at = "announce"
  /\ faults < MaxFaults /\ faults' = faults + 1
  /\ Finish(Synthesis)
  /\ UNCHANGED <<run, cand, told, announced>> /\ UNCHANGED synthVars

-----------------------------------------------------------------------------
(* The API and the reaper may die or fail between two of their steps.       *)
ApiCrash ==
  /\ faults < MaxFaults /\ faults' = faults + 1
  /\ \/ api \in {"enqueue", "failing", "failed", "mark"} /\ api' = "done" /\ UNCHANGED canceler
     \/ /\ canceler \in {"candidates", "request", "publish", "unheard"}
        /\ canceler' = IF canceler = "publish" THEN "done" ELSE "gaveUp"
        /\ UNCHANGED api
  /\ UNCHANGED <<run, cand, job, exec, signal, reaper, overdue, told, announced>>

ReaperError ==
  /\ reaper # "idle"
  /\ faults < MaxFaults /\ faults' = faults + 1
  /\ reaper' = "idle"
  /\ UNCHANGED <<run, cand, job, exec, signal, api, canceler, overdue, told, announced>>

-----------------------------------------------------------------------------
Init ==
  /\ run = [status |-> "none", canceled |-> FALSE, synthesis |-> FALSE]
  /\ cand = [c \in Candidates |-> [status |-> "PENDING", attempts |-> 0]]
  /\ job = [j \in Jobs |-> [state |-> "absent", made |-> 0, stalls |-> 0]]
  /\ exec = [j \in Jobs |-> Idle]
  /\ signal = [j \in Jobs |-> "off"]
  /\ api = "new" /\ canceler = "idle" /\ reaper = "idle"
  /\ overdue = FALSE
  /\ told = {} /\ announced = {}
  /\ faults = 0

StartRun == CreateRun \/ EnqueueRun \/ EnqueueFails \/ StartFails \/ StartFailedPublish \/ MarkQueued

CancelRun == CancelRow \/ CancelCandidates \/ CancelRequest \/ CancelRequestLost \/ CancelPublish

Reap == ReaperFinds \/ ReaperCandidates \/ ReaperFails \/ ReaperPublishes

ProcessCandidate(c) ==
  \/ LoadCandidate(c) \/ CheckCandidate(c) \/ FanOut(c) \/ StartCandidate(c)
  \/ Watch(c) \/ Reread(c) \/ Answered(c) \/ CallFails(c)
  \/ SettleAnswer(c) \/ Report(c) \/ ReportError(c) \/ SettleCandidate(c) \/ EmitSettled(c)

ProcessSynthesis ==
  \/ LoadRun \/ CheckRun \/ VoidRun \/ BeginSynthesis \/ Watch(Synthesis) \/ Reread(Synthesis)
  \/ EvaluatorAnswers \/ EvaluatorFails \/ SaveSynthesis \/ CompleteRun \/ PublishCompleted
  \/ SynthesisError \/ ConcludeFailed \/ PublishFailed \/ Announce \/ AnnounceError

Next ==
  \/ StartRun \/ CancelRun \/ Reap \/ Deadline \/ ApiCrash \/ ReaperError
  \/ \E c \in Candidates : ProcessCandidate(c)
  \/ ProcessSynthesis
  \/ \E j \in Jobs : Deliver(j) \/ DeliverCancel(j) \/ WorkerCrash(j) \/ JobError(j)

Spec == Init /\ [][Next]_vars

(* Workers, the queue, the reaper's timer and the clock go on; nothing      *)
(* obliges a caller to cancel, or a fault to happen.                        *)
Fairness ==
  /\ WF_vars(StartRun)
  /\ WF_vars(CancelCandidates \/ CancelRequest \/ CancelPublish)
  /\ WF_vars(Reap)
  /\ WF_vars(Deadline)
  /\ \A c \in Candidates : WF_vars(ProcessCandidate(c))
  /\ WF_vars(ProcessSynthesis)
  /\ \A j \in Jobs : WF_vars(Deliver(j)) /\ WF_vars(DeliverCancel(j))

FairSpec == Spec /\ Fairness

-----------------------------------------------------------------------------
(* Type correctness of the rows, of the queue and of what every process     *)
(* remembers. A job never makes more attempts than jobOptions allows.       *)
TypeOK ==
  /\ run \in [status: {"none"} \cup Live \cup Terminal, canceled: BOOLEAN, synthesis: BOOLEAN]
  /\ cand \in [Candidates -> [status: {"PENDING", "RUNNING"} \cup Settled, attempts: Nat]]
  /\ job \in [Jobs -> [state: {"absent", "waiting", "active", "completed", "failed"},
                       made: 0..MaxAttempts, stalls: 0..(MaxStalls + 1)]]
  /\ exec \in [Jobs -> Execution]
  /\ signal \in [Jobs -> {"off", "watching", "sent", "aborted"}]
  /\ api \in {"new", "enqueue", "failing", "failed", "mark", "done"}
  /\ canceler \in {"idle", "candidates", "request", "publish", "unheard", "done", "gaveUp"}
  /\ reaper \in {"idle", "candidates", "fail", "publish"}
  /\ overdue \in BOOLEAN
  /\ told \subseteq {"run.completed", "run.failed", "run.canceled"}
  /\ announced \subseteq {"COMPLETE", "FAILED"}
  /\ faults \in 0..MaxFaults

(* Whatever crashes or fails, a run that is COMPLETE on its row, on the bus *)
(* or in a webhook has a synthesis, and that synthesis compared at least    *)
(* one answer that the panel still shows.                                   *)
CompleteMeansAnswered ==
  \/ run.status = "COMPLETE" \/ "run.completed" \in told \/ "COMPLETE" \in announced
  => run.synthesis /\ \E c \in Candidates : cand[c].status = "OK"

(* The candidates the synthesis processor read before its first await are   *)
(* still the answered ones when the evaluator compares them and when its    *)
(* verdict is saved: no candidate job runs beside it.                       *)
SnapshotCurrent ==
  exec[Synthesis].answered \subseteq {c \in Candidates : cand[c].status = "OK"}

(* A worker that starts a job after the cancellation has committed never    *)
(* begins a model call (queue/src/cancellation.ts), though the run's status *)
(* may by then have been overwritten by another candidate.                  *)
LateDeliveryMakesNoCall ==
  \A j \in Jobs :
    exec[j].late => exec[j].at \notin {"fanout", "start", "begin", "watch", "reread", "call"}

(* Once the cancellation was published, no call is in flight that will not  *)
(* hear of it: subscribing before reading the row closes the window.        *)
CancelReachesCalls ==
  canceler \in {"publish", "done"} =>
    \A j \in Jobs : exec[j].at = "call" => signal[j] \in {"sent", "aborted"}

(* The durable attempt count stays within the deliveries the queue made.    *)
AttemptsBounded ==
  \A c \in Candidates :
    cand[c].attempts <= job[c].made + job[c].stalls
                          + (IF job[c].state \in {"absent", "waiting"} THEN 0 ELSE 1)

(* A run that completes in the same instant is never rewritten from         *)
(* COMPLETE (or FAILED) to CANCELED (db/src/repository.ts, cancelRun).      *)
CancelNeverRewritesOutcome ==
  [][run.status \in {"COMPLETE", "FAILED"} => run'.status # "CANCELED"]_run

(* A candidate that has its answer is never called again, whatever the      *)
(* queue redelivers.                                                        *)
AnswerNotPaidTwice ==
  [][\A c \in Candidates :
       cand[c].status = "OK" => cand'[c].attempts = cand[c].attempts]_cand

(* Every run that was created ends up in a terminal status for good, even   *)
(* if the API died before enqueueing it or its workers died: the reaper is  *)
(* the backstop.                                                            *)
RunConcludes == <>[](api # "new" => run.status \in Terminal)

(* As long as no worker, database or Redis fails, a cancellation closes the *)
(* whole panel for good, the candidate that was revived by a worker already *)
(* past its checks included.                                                *)
CanceledPanelSettles ==
  <>[](run.canceled /\ faults = 0 => \A c \in Candidates : cand[c].status \in Settled)

(* As long as nothing fails, whatever ends a run also tells its stream: the *)
(* event that closes a reader's connection is published, whoever of the     *)
(* synthesis, the API, a cancellation and the reaper came first.            *)
EndIsTold == <>[](run.status \in Terminal /\ faults = 0 => told # {})

(* Every run, its panel and its stream come to an end (worker/src/reaper.ts,*)
(* db/src/repository.ts: cancelRun, worker/src/synthesis.ts).               *)
LifecycleConcludes == RunConcludes /\ CanceledPanelSettles /\ EndIsTold

-----------------------------------------------------------------------------
(* What the repository says and the code does not do; the property of a run *)
(* that is expected to violate it.                                          *)

(* worker/src/candidate.ts:125: "The update is status-filtered, so several  *)
(* candidates racing here is harmless."                                     *)
FanOutIsStatusFiltered == [][run.status \in Terminal => run'.status # "FANNING_OUT"]_run
=============================================================================
