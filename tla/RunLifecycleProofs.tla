------------------------- MODULE RunLifecycleProofs -------------------------
(***************************************************************************)
(* The safety properties of RunLifecycle, for every panel, every attempt   *)
(* limit and any number of crashes and errors.                             *)
(*                                                                         *)
(* The argument has layers, each inductive relative to the ones before it: *)
(* what the rows and the queue may hold (TypeInv), the flow (FlowInv:      *)
(* nothing writes a candidate once the synthesis was delivered), the       *)
(* answers (AnswerInv) and the cancellation (CancelInv); beside them, what *)
(* was paid for (PaidInv) and how deliveries are counted (CountInv).       *)
(***************************************************************************)
EXTENDS RunLifecycle, TLAPS

Finished == {"absent", "completed", "failed"}

(* The queue and the executions: an execution is a job the queue holds as   *)
(* active; a job that can still be delivered has attempts and recoveries    *)
(* left; and an execution about to settle its candidate knows how.          *)
QueueInv ==
  /\ job \in [Jobs -> [state: {"absent", "waiting", "active", "completed", "failed"},
                       made: 0..MaxAttempts, stalls: 0..(MaxStalls + 1)]]
  /\ exec \in [Jobs -> Execution]
  /\ signal \in [Jobs -> {"off", "watching", "sent", "aborted"}]
  /\ \A j \in Jobs :
       /\ Executing(j) <=> job[j].state = "active"
       /\ job[j].state \in {"absent", "waiting", "active"} =>
            job[j].made < MaxAttempts /\ job[j].stalls <= MaxStalls
       /\ exec[j].at = "settle" => exec[j].outcome # "none"

(* Nothing is enqueued before the request got there.                        *)
StartInv == api \in {"new", "enqueue"} => \A j \in Jobs : job[j].state = "absent"

TypeInv == TypeOK /\ QueueInv /\ StartInv

(* From the first delivery of the synthesis on, every candidate job is      *)
(* finished.                                                                *)
FlowInv ==
  /\ run.synthesis => job[Synthesis].state # "absent"
  /\ run.synthesis \/ job[Synthesis].state \notin {"absent", "waiting"} =>
       \A c \in Candidates : job[c].state \in Finished

(* What the synthesis processor knows at each of its steps.                 *)
AnswerInv ==
  /\ SnapshotCurrent
  /\ exec[Synthesis].at = "idle" => exec[Synthesis].answered = {}
  /\ exec[Synthesis].at \in {"begin", "watch", "reread", "call", "save"} =>
       exec[Synthesis].answered # {}
  /\ exec[Synthesis].at \in {"complete", "publish"} => run.synthesis
  /\ run.synthesis => \E c \in Candidates : cand[c].status = "OK"
  /\ run.status = "COMPLETE" \/ "run.completed" \in told \/ "COMPLETE" \in announced
       => run.synthesis

(* A candidate with an answer is not on its way to another call.            *)
PaidInv ==
  \A c \in Candidates :
    cand[c].status = "OK" =>
      api # "new" /\ exec[c].at \in {"idle", "load", "report", "settle"}

(* An execution that has not reached the call has not used its attempt.     *)
CountInv ==
  /\ AttemptsBounded
  /\ \A c \in Candidates : exec[c].at \in {"load", "check", "fanout", "start"} =>
       cand[c].attempts <= job[c].made + job[c].stalls

(* Whoever is past the first step of a cancellation finds canceledAt set; a *)
(* call is made with its channel open.                                      *)
CancelInv ==
  /\ canceler # "idle" => run.canceled
  /\ \A j \in Jobs :
       /\ exec[j].late => run.canceled
       /\ exec[j].at \in {"reread", "call"} => signal[j] # "off"
  /\ CancelReachesCalls
  /\ LateDeliveryMakesNoCall
-----------------------------------------------------------------------------
(* The ways an execution ends leave the queue consistent.                   *)
LEMMA Leaving ==
  ASSUME QueueInv, NEW j \in Jobs, Executing(j),
         Leave(j),
         \/ Returned(j)
         \/ Threw(j)
         \/ job' = [job EXCEPT ![j].stalls = @ + 1,
                      ![j].state = IF job[j].stalls >= MaxStalls THEN "failed" ELSE "waiting"]
  PROVE  QueueInv'
<1>. DEFINE J == [state: {"absent", "waiting", "active", "completed", "failed"},
                  made: 0..MaxAttempts, stalls: 0..(MaxStalls + 1)]
<1>1. job[j] \in J /\ job[j].state = "active" /\ job[j].made < MaxAttempts /\ job[j].stalls <= MaxStalls
  BY DEF QueueInv
<1>2. /\ job' = [job EXCEPT ![j] = job'[j]]
      /\ job'[j] \in J
      /\ job'[j].state \notin {"absent", "active"}
      /\ job'[j].state = "waiting" => job'[j].made < MaxAttempts /\ job'[j].stalls <= MaxStalls
  <2>1. CASE Returned(j)
    BY <1>1, <2>1, RunAssumption DEF Returned, QueueInv
  <2>2. CASE Threw(j)
    BY <1>1, <2>2, RunAssumption DEF Threw, IsFinalAttempt, QueueInv
  <2>3. CASE job' = [job EXCEPT ![j].stalls = @ + 1,
                       ![j].state = IF job[j].stalls >= MaxStalls THEN "failed" ELSE "waiting"]
    BY <1>1, <2>3, RunAssumption DEF QueueInv
  <2>. QED  BY <2>1, <2>2, <2>3
<1>3. Idle \in Execution
  BY DEF Idle, Execution
<1>. HIDE DEF J
<1>4. job' \in [Jobs -> J]
  BY <1>2 DEF QueueInv, J
<1>5. exec' = [exec EXCEPT ![j] = Idle] /\ signal' = [signal EXCEPT ![j] = "off"]
  BY DEF Leave
<1>6. exec' \in [Jobs -> Execution] /\ signal' \in [Jobs -> {"off", "watching", "sent", "aborted"}]
  BY <1>3, <1>5 DEF QueueInv
<1>7. ASSUME NEW k \in Jobs
      PROVE  /\ exec'[k].at # "idle" <=> job'[k].state = "active"
             /\ job'[k].state \in {"absent", "waiting", "active"} =>
                  job'[k].made < MaxAttempts /\ job'[k].stalls <= MaxStalls
             /\ exec'[k].at = "settle" => exec'[k].outcome # "none"
  <2>1. CASE k = j
    <3>1. exec'[j] = Idle
      BY <1>5 DEF QueueInv
    <3>2. exec'[j].at = "idle"
      BY <3>1 DEF Idle
    <3>. QED  BY <1>2, <2>1, <3>2 DEF J
  <2>2. CASE k # j
    BY <1>2, <1>5, <2>2 DEF QueueInv, Executing
  <2>. QED  BY <2>1, <2>2
<1>. QED  BY <1>4, <1>6, <1>7 DEF QueueInv, Executing, J

(* A step of an execution that goes on.                                     *)
LEMMA GoingOn ==
  ASSUME QueueInv, NEW j \in Jobs, Executing(j), UNCHANGED job,
         exec' = [exec EXCEPT ![j] = exec'[j]],
         exec'[j] \in Execution,
         exec'[j].at # "idle",
         exec'[j].at = "settle" => exec'[j].outcome # "none",
         signal' \in [Jobs -> {"off", "watching", "sent", "aborted"}]
  PROVE  QueueInv'
<1>1. exec' \in [Jobs -> Execution]
  BY DEF QueueInv
<1>. QED  BY <1>1 DEF QueueInv, Executing

(* What an execution does to its job keeps queue and executions in         *)
(* agreement.                                                              *)
LEMMA ExecutionSteps ==
  ASSUME QueueInv, NEW j \in Jobs, Executing(j)
  PROVE  /\ Finish(j) => QueueInv'
         /\ Throw(j) => QueueInv'
         /\ \A step \in (CandidateSteps \cup SynthesisSteps) \ {"settle"} :
              /\ Goto(j, step) /\ UNCHANGED job
              /\ signal' \in [Jobs -> {"off", "watching", "sent", "aborted"}]
              => QueueInv'
         /\ \A outcome \in {"ERROR", "SKIPPED", "CANCELED"} :
              SettleAs(j, outcome) /\ UNCHANGED <<job, signal>> => QueueInv'
<1>1. Finish(j) => QueueInv'
  BY Leaving DEF Finish
<1>2. Throw(j) => QueueInv'
  BY Leaving DEF Throw
<1>. exec[j] \in Execution
  BY DEF QueueInv
<1>3. ASSUME NEW step \in (CandidateSteps \cup SynthesisSteps) \ {"settle"},
             Goto(j, step), UNCHANGED job,
             signal' \in [Jobs -> {"off", "watching", "sent", "aborted"}]
      PROVE  QueueInv'
  <2>1. exec'[j] = [exec[j] EXCEPT !.at = step]
    BY <1>3 DEF Goto, QueueInv
  <2>2. exec'[j] \in Execution /\ exec'[j].at = step
    BY <2>1 DEF Execution
  <2>3. step # "idle" /\ step # "settle"
    BY DEF CandidateSteps, SynthesisSteps
  <2>4. exec' = [exec EXCEPT ![j] = exec'[j]]
    BY <1>3, <2>1 DEF Goto
  <2>. QED  BY <1>3, <2>2, <2>3, <2>4, GoingOn
<1>4. ASSUME NEW outcome \in {"ERROR", "SKIPPED", "CANCELED"},
             SettleAs(j, outcome), UNCHANGED <<job, signal>>
      PROVE  QueueInv'
  <2>1. exec'[j] = [exec[j] EXCEPT !.at = "settle", !.outcome = outcome]
    BY <1>4 DEF SettleAs, QueueInv
  <2>2. exec'[j] \in Execution /\ exec'[j].at = "settle" /\ exec'[j].outcome = outcome
    BY <2>1 DEF Execution, CandidateSteps
  <2>3. exec' = [exec EXCEPT ![j] = exec'[j]]
    BY <1>4, <2>1 DEF SettleAs
  <2>4. signal' \in [Jobs -> {"off", "watching", "sent", "aborted"}]
    BY <1>4 DEF QueueInv
  <2>. QED  BY <1>4, <2>2, <2>3, <2>4, GoingOn
<1>. QED  BY <1>1, <1>2, <1>3, <1>4

(* Every step keeps them so: a job is executed exactly while it is active. *)
LEMMA QueueStep ==
  ASSUME QueueInv, StartInv, run.canceled \in BOOLEAN, [Next]_vars
  PROVE  QueueInv'
<1>1. CASE UNCHANGED <<job, exec, signal>>
  BY <1>1 DEF QueueInv, Executing
<1>2. CASE AddFlow /\ UNCHANGED <<exec, signal>> /\ \A j \in Jobs : job[j].state = "absent"
  BY <1>2 DEF AddFlow, QueueInv, Executing
<1>3. CASE CancelRequest
  BY <1>3 DEF CancelRequest, QueueInv, Executing
<1>4. ASSUME NEW c \in Candidates, ProcessCandidate(c)
      PROVE  QueueInv'
  <2>. c \in Jobs
    BY DEF Jobs
  <2>. USE <1>4
  <2>1. CASE LoadCandidate(c)
    BY <2>1, ExecutionSteps DEF LoadCandidate, Executing, CandidateSteps, QueueInv
  <2>2. CASE CheckCandidate(c)
    BY <2>2, ExecutionSteps DEF CheckCandidate, Executing, CandidateSteps, QueueInv
  <2>3. CASE FanOut(c)
    BY <2>3, ExecutionSteps DEF FanOut, Executing, CandidateSteps, QueueInv
  <2>4. CASE StartCandidate(c)
    BY <2>4, ExecutionSteps DEF StartCandidate, Executing, CandidateSteps, QueueInv
  <2>5. CASE Watch(c)
    BY <2>5, ExecutionSteps DEF Watch, Executing, CandidateSteps, QueueInv
  <2>6. CASE Reread(c)
    BY <2>6, ExecutionSteps DEF Reread, Executing, CandidateSteps, QueueInv
  <2>7. CASE Answered(c)
    BY <2>7, ExecutionSteps DEF Answered, Executing, CandidateSteps, QueueInv
  <2>8. CASE CallFails(c)
    BY <2>8, ExecutionSteps DEF CallFails, handleFailure, Executing
  <2>9. CASE SettleAnswer(c)
    BY <2>9, ExecutionSteps DEF SettleAnswer, Executing, CandidateSteps, QueueInv
  <2>10. CASE Report(c)
    BY <2>10, ExecutionSteps DEF Report, Executing
  <2>11. CASE ReportError(c)
    BY <2>11, ExecutionSteps DEF ReportError, handleFailure, Executing
  <2>12. CASE SettleCandidate(c)
    BY <2>12, ExecutionSteps DEF SettleCandidate, Executing, CandidateSteps, QueueInv
  <2>13. CASE EmitSettled(c)
    BY <2>13, ExecutionSteps DEF EmitSettled, Executing
  <2>. QED  BY <2>1, <2>2, <2>3, <2>4, <2>5, <2>6, <2>7, <2>8, <2>9, <2>10, <2>11, <2>12,
               <2>13 DEF ProcessCandidate
<1>5. ASSUME ProcessSynthesis
      PROVE  QueueInv'
  <2>. Synthesis \in Jobs
    BY DEF Jobs
  <2>. USE <1>5
  <2>1. CASE LoadRun
    <3>1. CASE Finish(Synthesis)
      BY <2>1, <3>1, ExecutionSteps DEF LoadRun, Executing
    <3>2. CASE /\ exec' = [exec EXCEPT ![Synthesis].at = "check",
                             ![Synthesis].answered = {c \in Candidates : cand[c].status = "OK"}]
               /\ UNCHANGED <<job, signal>>
      <4>. DEFINE A == {c \in Candidates : cand[c].status = "OK"}
      <4>1. Executing(Synthesis) /\ exec[Synthesis] \in Execution /\ A \in SUBSET Candidates
        BY <2>1 DEF LoadRun, Executing, QueueInv
      <4>. HIDE DEF A
      <4>2. exec'[Synthesis] = [exec[Synthesis] EXCEPT !.at = "check", !.answered = A]
        BY <3>2 DEF QueueInv, A
      <4>3. exec'[Synthesis] \in Execution /\ exec'[Synthesis].at = "check"
        BY ONLY <4>1, <4>2 DEF Execution, CandidateSteps, SynthesisSteps
      <4>4. exec' = [exec EXCEPT ![Synthesis] = exec'[Synthesis]]
        BY <3>2, <4>2 DEF A
      <4>5. UNCHANGED job /\ signal' \in [Jobs -> {"off", "watching", "sent", "aborted"}]
        BY <3>2 DEF QueueInv
      <4>6. exec'[Synthesis].at # "idle" /\ exec'[Synthesis].at # "settle"
        BY <4>3
      <4>. QED  BY ONLY QueueInv, Synthesis \in Jobs, <4>1, <4>3, <4>4, <4>5, <4>6, GoingOn
    <3>. QED  BY <2>1, <3>1, <3>2 DEF LoadRun
  <2>2. CASE CheckRun
    BY <2>2, ExecutionSteps DEF CheckRun, Executing, SynthesisSteps, QueueInv
  <2>3. CASE VoidRun
    BY <2>3, ExecutionSteps DEF VoidRun, Executing
  <2>4. CASE BeginSynthesis
    BY <2>4, ExecutionSteps DEF BeginSynthesis, Executing, SynthesisSteps, QueueInv
  <2>5. CASE Watch(Synthesis)
    BY <2>5, ExecutionSteps DEF Watch, Executing, SynthesisSteps, QueueInv
  <2>6. CASE Reread(Synthesis)
    BY <2>6, ExecutionSteps DEF Reread, Executing, SynthesisSteps, QueueInv
  <2>7. CASE EvaluatorAnswers
    BY <2>7, ExecutionSteps DEF EvaluatorAnswers, Executing, SynthesisSteps, QueueInv
  <2>8. CASE EvaluatorFails
    BY <2>8, ExecutionSteps DEF EvaluatorFails, evaluatorFailure, Executing, SynthesisSteps, QueueInv
  <2>9. CASE SaveSynthesis
    BY <2>9, ExecutionSteps DEF SaveSynthesis, Executing, SynthesisSteps, QueueInv
  <2>10. CASE CompleteRun
    BY <2>10, ExecutionSteps DEF CompleteRun, Executing, SynthesisSteps, QueueInv
  <2>11. CASE PublishCompleted
    BY <2>11, ExecutionSteps DEF PublishCompleted, Executing, SynthesisSteps, QueueInv
  <2>12. CASE SynthesisError
    BY <2>12, ExecutionSteps DEF SynthesisError, evaluatorFailure, Executing, SynthesisSteps, QueueInv
  <2>13. CASE ConcludeFailed
    BY <2>13, ExecutionSteps DEF ConcludeFailed, Executing, SynthesisSteps, QueueInv
  <2>14. CASE PublishFailed
    BY <2>14, ExecutionSteps DEF PublishFailed, Executing, SynthesisSteps, QueueInv
  <2>15. CASE Announce
    BY <2>15, ExecutionSteps DEF Announce, Executing
  <2>16. CASE AnnounceError
    BY <2>16, ExecutionSteps DEF AnnounceError, Executing
  <2>. QED  BY <2>1, <2>2, <2>3, <2>4, <2>5, <2>6, <2>7, <2>8, <2>9, <2>10, <2>11, <2>12,
               <2>13, <2>14, <2>15, <2>16 DEF ProcessSynthesis
<1>6. ASSUME NEW j \in Jobs, Deliver(j)
      PROVE  QueueInv'
  <2>1. [Idle EXCEPT !.at = "load", !.late = run.canceled] \in Execution
    BY DEF Idle, Execution, CandidateSteps
  <2>2. [Idle EXCEPT !.at = "load", !.late = run.canceled].at = "load"
    BY DEF Idle
  <2>3. exec' = [exec EXCEPT ![j] = exec'[j]] /\ exec'[j] \in Execution /\ exec'[j].at = "load"
    BY <1>6, <2>1, <2>2 DEF Deliver, QueueInv
  <2>4. exec' \in [Jobs -> Execution] /\ job' = [job EXCEPT ![j].state = "active"]
    BY <1>6, <2>3 DEF Deliver, QueueInv
  <2>. QED  BY <1>6, <2>3, <2>4 DEF Deliver, QueueInv, Executing
<1>7. ASSUME NEW j \in Jobs, DeliverCancel(j)
      PROVE  QueueInv'
  BY <1>7 DEF DeliverCancel, QueueInv, Executing
<1>8. ASSUME NEW j \in Jobs, WorkerCrash(j)
      PROVE  QueueInv'
  BY <1>8, Leaving DEF WorkerCrash
<1>9. ASSUME NEW j \in Jobs, JobError(j)
      PROVE  QueueInv'
  BY <1>9, ExecutionSteps DEF JobError, Executing, CandidateSteps
<1>10. CASE EnqueueRun \/ EnqueueFails
  BY <1>1, <1>2, <1>10 DEF EnqueueRun, EnqueueFails, StartInv
<1>. QED
  BY <1>1, <1>2, <1>3, <1>4, <1>5, <1>6, <1>7, <1>8, <1>9, <1>10
  DEF Next, vars, StartRun, CancelRun, Reap, CreateRun, StartFails,
      StartFailedPublish, MarkQueued, apiVars, CancelRow, CancelCandidates, CancelRequestLost,
      CancelPublish, ReaperFinds, ReaperCandidates, ReaperFails, ReaperPublishes, reaperVars,
      Deadline, ApiCrash, ReaperError

(* Nothing is in the queue before the API put it there (startRun).         *)
LEMMA StartStep ==
  ASSUME TypeInv, [Next]_vars
  PROVE  StartInv'
<1>. SUFFICES ASSUME api' \in {"new", "enqueue"}
              PROVE  \A j \in Jobs : job'[j].state = "absent"
  BY DEF StartInv
<1>1. api \in {"new", "enqueue"}
  BY ZenonT(40) DEF TypeInv, TypeOK, Next, vars, StartRun, CancelRun, Reap, ProcessCandidate,
      ProcessSynthesis, CreateRun, EnqueueRun, EnqueueFails, StartFails, StartFailedPublish,
      MarkQueued, CancelRow, CancelCandidates, CancelRequest, CancelRequestLost,
      CancelPublish, ReaperFinds, ReaperCandidates, ReaperFails, ReaperPublishes, reaperVars,
      Deadline, ApiCrash, ReaperError, candVars, synthVars, LoadCandidate, CheckCandidate,
      FanOut, StartCandidate, Watch, Reread, Answered, CallFails, SettleAnswer, Report,
      ReportError, SettleCandidate, EmitSettled, LoadRun, CheckRun, VoidRun, BeginSynthesis,
      EvaluatorAnswers, EvaluatorFails, SaveSynthesis, CompleteRun, PublishCompleted,
      SynthesisError, ConcludeFailed, PublishFailed, Announce, AnnounceError, Deliver,
      DeliverCancel, WorkerCrash, JobError
<1>2. \A j \in Jobs : job[j].state = "absent" /\ exec[j].at = "idle"
  BY <1>1 DEF TypeInv, StartInv, QueueInv, Executing
<1>3. \A c \in Candidates : ~ProcessCandidate(c)
  BY <1>2 DEF ProcessCandidate, Jobs, LoadCandidate, CheckCandidate, FanOut, StartCandidate,
      Watch, Reread, Answered, CallFails, SettleAnswer, Report, ReportError, SettleCandidate,
      EmitSettled
<1>4. ~ProcessSynthesis
  BY <1>2 DEF ProcessSynthesis, Jobs, Watch, Reread, LoadRun, CheckRun, VoidRun,
      BeginSynthesis, EvaluatorAnswers, EvaluatorFails, SaveSynthesis, CompleteRun,
      PublishCompleted, SynthesisError, ConcludeFailed, PublishFailed, Announce, AnnounceError
<1>5. \A j \in Jobs : ~Deliver(j) /\ ~WorkerCrash(j) /\ ~JobError(j)
  BY <1>2 DEF Deliver, WorkerCrash, Executing, JobError, CandidateSteps
<1>6. UNCHANGED job
  BY <1>3, <1>4, <1>5 DEF Next, vars, StartRun, CancelRun, Reap, CreateRun, EnqueueRun,
      EnqueueFails, StartFails, StartFailedPublish, MarkQueued, apiVars, CancelRow,
      CancelCandidates, CancelRequest, CancelRequestLost, CancelPublish, ReaperFinds,
      ReaperCandidates, ReaperFails, ReaperPublishes, reaperVars, Deadline, ApiCrash,
      ReaperError, DeliverCancel
<1>. QED  BY <1>2, <1>6

-----------------------------------------------------------------------------
(* What a step may do to the two tables.                                    *)
LEMMA RunWrites ==
  ASSUME [Next]_vars
  PROVE  \/ UNCHANGED run
         \/ CreateRun \/ CancelRow \/ SaveSynthesis \/ CompleteRun
         \/ \E status \in {"QUEUED", "FANNING_OUT", "SYNTHESIZING", "FAILED"} : setRunStatus(status)
BY DEF Next, vars, StartRun, CancelRun, Reap, ProcessCandidate, ProcessSynthesis,
    EnqueueRun, EnqueueFails, StartFails, StartFailedPublish, MarkQueued, CancelCandidates,
    CancelRequest, CancelRequestLost, CancelPublish, ReaperFinds, ReaperCandidates,
    ReaperFails, ReaperPublishes, Deadline, ApiCrash, ReaperError, LoadCandidate,
    CheckCandidate, FanOut, StartCandidate, Watch, Reread, Answered, CallFails, SettleAnswer,
    Report, ReportError, SettleCandidate, EmitSettled, LoadRun, CheckRun, VoidRun,
    BeginSynthesis, EvaluatorAnswers, EvaluatorFails, PublishCompleted, SynthesisError,
    ConcludeFailed, PublishFailed, Announce, AnnounceError, Deliver, DeliverCancel,
    WorkerCrash, JobError, setRunStatus, failRun, markRunQueued

(* Who writes a candidate's row, and in which way.                         *)
LEMMA CandWrites ==
  ASSUME [Next]_vars
  PROVE  \/ UNCHANGED cand
         \/ CreateRun \/ cancelPendingCandidates
         \/ \E c \in Candidates : StartCandidate(c) \/ SettleAnswer(c) \/ SettleCandidate(c)
BY DEF Next, vars, StartRun, CancelRun, Reap, ProcessCandidate, ProcessSynthesis, apiVars,
    EnqueueRun, EnqueueFails, StartFails, StartFailedPublish, MarkQueued, CancelRow,
    CancelCandidates, CancelRequest, CancelRequestLost, CancelPublish, ReaperFinds,
    ReaperCandidates, ReaperFails, ReaperPublishes, Deadline, ApiCrash, ReaperError,
    LoadCandidate, CheckCandidate, FanOut, Watch, Reread, Answered, CallFails, Report,
    ReportError, EmitSettled, LoadRun, CheckRun, VoidRun, BeginSynthesis, EvaluatorAnswers,
    EvaluatorFails, SaveSynthesis, CompleteRun, PublishCompleted, SynthesisError,
    ConcludeFailed, PublishFailed, Announce, AnnounceError, Deliver, DeliverCancel,
    WorkerCrash, JobError

(* The rows keep their types, whoever writes them.                         *)
LEMMA RowsStep ==
  ASSUME TypeInv, [Next]_vars, QueueInv'
  PROVE  TypeOK'
<1>1. run' \in [status: {"none"} \cup Live \cup Terminal, canceled: BOOLEAN, synthesis: BOOLEAN]
  <2>. run \in [status: {"none"} \cup Live \cup Terminal, canceled: BOOLEAN, synthesis: BOOLEAN]
    BY DEF TypeInv, TypeOK
  <2>1. CASE UNCHANGED run
    BY <2>1
  <2>2. CASE CreateRun \/ CancelRow
    BY <2>2 DEF CreateRun, CancelRow, Live, Terminal
  <2>3. CASE SaveSynthesis \/ CompleteRun
    BY <2>3 DEF SaveSynthesis, saveSynthesis, CompleteRun, completeRun, Terminal
  <2>4. CASE \E status \in {"QUEUED", "FANNING_OUT", "SYNTHESIZING", "FAILED"} : setRunStatus(status)
    BY <2>4 DEF setRunStatus, Live, Terminal
  <2>. QED  BY <2>1, <2>2, <2>3, <2>4, RunWrites
<1>2. cand' \in [Candidates -> [status: {"PENDING", "RUNNING"} \cup Settled, attempts: Nat]]
  <2>1. CASE UNCHANGED cand
    BY <2>1 DEF TypeInv, TypeOK
  <2>2. CASE CreateRun
    BY <2>2 DEF CreateRun, Settled
  <2>3. CASE cancelPendingCandidates
    BY <2>3 DEF cancelPendingCandidates, TypeInv, TypeOK, Settled
  <2>4. ASSUME NEW c \in Candidates, StartCandidate(c)
        PROVE  cand' \in [Candidates -> [status: {"PENDING", "RUNNING"} \cup Settled, attempts: Nat]]
    BY <2>4 DEF StartCandidate, setCandidateRunning, TypeInv, TypeOK, Settled
  <2>5. ASSUME NEW c \in Candidates, SettleAnswer(c)
        PROVE  cand' \in [Candidates -> [status: {"PENDING", "RUNNING"} \cup Settled, attempts: Nat]]
    BY <2>5 DEF SettleAnswer, settleCandidate, TypeInv, TypeOK, Settled
  <2>6. ASSUME NEW c \in Candidates, SettleCandidate(c)
        PROVE  cand' \in [Candidates -> [status: {"PENDING", "RUNNING"} \cup Settled, attempts: Nat]]
    <3>1. exec[c].outcome \in Settled
      BY <2>6 DEF SettleCandidate, TypeInv, QueueInv, Execution, Jobs, Settled
    <3>. QED  BY <2>6, <3>1 DEF SettleCandidate, settleCandidate, TypeInv, TypeOK
  <2>. QED  BY <2>1, <2>2, <2>3, <2>4, <2>5, <2>6, CandWrites
<1>3. /\ api' \in {"new", "enqueue", "failing", "failed", "mark", "done"}
      /\ canceler' \in {"idle", "candidates", "request", "publish", "unheard", "done", "gaveUp"}
      /\ reaper' \in {"idle", "candidates", "fail", "publish"}
      /\ overdue' \in BOOLEAN
      /\ told' \subseteq {"run.completed", "run.failed", "run.canceled"}
      /\ announced' \subseteq {"COMPLETE", "FAILED"}
      /\ faults' \in 0..MaxFaults
  <2>. USE DEF TypeInv, TypeOK, Next, vars, StartRun, CancelRun, Reap, ProcessCandidate, ProcessSynthesis,
         CreateRun, EnqueueRun, EnqueueFails, StartFails, StartFailedPublish, MarkQueued, apiVars,
         CancelRow, CancelCandidates, CancelRequest, CancelRequestLost, CancelPublish,
         ReaperFinds, ReaperCandidates, ReaperFails, ReaperPublishes, reaperVars, Deadline,
         ApiCrash, ReaperError, candVars, synthVars, LoadCandidate, CheckCandidate, FanOut,
         StartCandidate, Watch, Reread, Answered, CallFails, SettleAnswer, Report, ReportError,
         SettleCandidate, EmitSettled, LoadRun, CheckRun, VoidRun, BeginSynthesis,
         EvaluatorAnswers, EvaluatorFails, SaveSynthesis, CompleteRun, PublishCompleted,
         SynthesisError, ConcludeFailed, PublishFailed, Announce, AnnounceError, Deliver,
         DeliverCancel, WorkerCrash, JobError
  <2>1. api' \in {"new", "enqueue", "failing", "failed", "mark", "done"}
    BY ZenonT(40)
  <2>2. canceler' \in {"idle", "candidates", "request", "publish", "unheard", "done", "gaveUp"}
    BY ZenonT(40)
  <2>3. reaper' \in {"idle", "candidates", "fail", "publish"}
    BY ZenonT(40)
  <2>4. overdue' \in BOOLEAN
    BY ZenonT(40)
  <2>5. told' \subseteq {"run.completed", "run.failed", "run.canceled"}
    BY ZenonT(40)
  <2>6. announced' \subseteq {"COMPLETE", "FAILED"}
    BY ZenonT(40)
  <2>7. faults' = faults \/ (faults < MaxFaults /\ faults' = faults + 1)
    BY ZenonT(40)
  <2>8. faults' \in 0..MaxFaults
    BY <2>7, RunAssumption
  <2>. QED  BY <2>1, <2>2, <2>3, <2>4, <2>5, <2>6, <2>8
<1>. QED  BY <1>1, <1>2, <1>3 DEF QueueInv, TypeOK

(* The layer as a whole.                                                    *)
LEMMA TypeInvariant == Spec => []TypeInv
<1>1. Init => TypeInv
  <2>. SUFFICES ASSUME Init PROVE TypeInv
    OBVIOUS
  <2>1. Idle \in Execution /\ Idle.at = "idle"
    BY DEF Idle, Execution
  <2>2. QueueInv
    BY <2>1, RunAssumption DEF Init, QueueInv, Executing
  <2>3. run \in [status: {"none"} \cup Live \cup Terminal, canceled: BOOLEAN, synthesis: BOOLEAN]
    BY DEF Init
  <2>4. cand \in [Candidates -> [status: {"PENDING", "RUNNING"} \cup Settled, attempts: Nat]]
    BY DEF Init
  <2>5. StartInv
    BY DEF Init, StartInv
  <2>6. 0 \in 0..MaxFaults
    BY RunAssumption
  <2>7. TypeOK
    BY <2>2, <2>3, <2>4, <2>6 DEF Init, QueueInv, TypeOK
  <2>. QED  BY <2>2, <2>5, <2>7 DEF TypeInv
<1>2. TypeInv /\ [Next]_vars => TypeInv'
  BY QueueStep, StartStep, RowsStep DEF TypeInv, TypeOK
<1>. QED  BY <1>1, <1>2, PTL DEF Spec

(* Type correctness of the rows, the queue and every process, for every     *)
(* panel, attempt limit and number of faults; no job exceeds its attempts.  *)
THEOREM Typing == Spec => []TypeOK
<1>1. TypeInv => TypeOK
  BY DEF TypeInv
<1>. QED  BY <1>1, TypeInvariant, PTL

(* A cancellation that arrives as the run concludes never takes a COMPLETE  *)
(* or FAILED away: the one status filter of the module.                     *)
THEOREM CancelIsArbitrated == Spec => CancelNeverRewritesOutcome
<1>1. TypeInv /\ [Next]_vars =>
        [run.status \in {"COMPLETE", "FAILED"} => run'.status # "CANCELED"]_run
  <2>. SUFFICES ASSUME TypeInv, [Next]_vars, run.status \in {"COMPLETE", "FAILED"}
                PROVE  run'.status # "CANCELED"
    OBVIOUS
  <2>. QED
    BY RunWrites DEF CreateRun, CancelRow, SaveSynthesis, saveSynthesis, CompleteRun,
        completeRun, setRunStatus, Live, TypeInv, TypeOK
<1>. QED  BY <1>1, TypeInvariant, PTL DEF Spec, CancelNeverRewritesOutcome

-----------------------------------------------------------------------------
(* Who moves a job, and in which way.                                      *)
LEMMA JobWrites ==
  ASSUME TypeInv, [Next]_vars
  PROVE  \/ UNCHANGED job
         \/ api = "enqueue" /\ AddFlow
         \/ \E j \in Jobs : Deliver(j)
         \/ \E j \in Jobs : /\ Executing(j)
                            /\ \A k \in Jobs : k # j => job'[k] = job[k]
                            /\ job'[j].state \in {"waiting", "completed", "failed"}
<1>1. \A j \in Jobs :
        Executing(j) /\ (Finish(j) \/ Throw(j) \/ WorkerCrash(j)) =>
          /\ \A k \in Jobs : k # j => job'[k] = job[k]
          /\ job'[j].state \in {"waiting", "completed", "failed"}
  BY DEF Finish, Returned, Throw, Threw, WorkerCrash, TypeInv, QueueInv
<1>2. ASSUME NEW c \in Candidates, ProcessCandidate(c)
      PROVE  UNCHANGED job \/ (c \in Jobs /\ Executing(c) /\ (Finish(c) \/ Throw(c)))
  BY <1>2 DEF ProcessCandidate, Jobs, LoadCandidate, CheckCandidate, FanOut, StartCandidate,
      Watch, Reread, Answered, CallFails, SettleAnswer, Report, ReportError, SettleCandidate,
      EmitSettled, handleFailure, Executing
<1>3. ASSUME ProcessSynthesis
      PROVE  UNCHANGED job \/ (Synthesis \in Jobs /\ Executing(Synthesis) /\ (Finish(Synthesis) \/ Throw(Synthesis)))
  BY <1>3 DEF ProcessSynthesis, Jobs, Watch, Reread, LoadRun, CheckRun, VoidRun,
      BeginSynthesis, EvaluatorAnswers, EvaluatorFails, SaveSynthesis, CompleteRun,
      PublishCompleted, SynthesisError, ConcludeFailed, PublishFailed, Announce,
      AnnounceError, evaluatorFailure, Executing
<1>4. ASSUME NEW j \in Jobs, WorkerCrash(j) \/ JobError(j)
      PROVE  Executing(j) /\ (WorkerCrash(j) \/ Throw(j))
  BY <1>4 DEF WorkerCrash, JobError, Executing, CandidateSteps
<1>. QED
  BY <1>1, <1>2, <1>3, <1>4 DEF Next, vars, StartRun, CancelRun, Reap, CreateRun, EnqueueRun,
      EnqueueFails, StartFails, StartFailedPublish, MarkQueued, apiVars, CancelRow,
      CancelCandidates, CancelRequest, CancelRequestLost, CancelPublish, ReaperFinds,
      ReaperCandidates, ReaperFails, ReaperPublishes, reaperVars, Deadline, ApiCrash,
      ReaperError, DeliverCancel

(* The synthesis job runs only when every candidate job has finished (the  *)
(* flow of queue/src/queues.ts).                                           *)
LEMMA FlowStep ==
  ASSUME TypeInv, FlowInv, [Next]_vars
  PROVE  FlowInv'
<1>. Synthesis \in Jobs /\ Candidates \subseteq Jobs
  BY DEF Jobs
<1>1. run'.synthesis => run.synthesis \/ Executing(Synthesis)
  BY RunWrites DEF CreateRun, CancelRow, SaveSynthesis, CompleteRun, completeRun, setRunStatus,
      Executing, TypeInv, TypeOK
<1>2. run'.synthesis => run.synthesis \/ job[Synthesis].state = "active"
  BY <1>1 DEF TypeInv, QueueInv
<1>3. CASE UNCHANGED job
  BY <1>2, <1>3 DEF FlowInv
<1>4. CASE api = "enqueue" /\ AddFlow
  <2>1. \A j \in Jobs : job[j].state = "absent"
    BY <1>4 DEF TypeInv, StartInv
  <2>2. ~run'.synthesis
    BY <1>2, <2>1 DEF FlowInv
  <2>3. job'[Synthesis].state = "waiting"
    BY <1>4 DEF AddFlow, TypeInv, QueueInv
  <2>. QED  BY <2>2, <2>3 DEF FlowInv
<1>5. ASSUME NEW j \in Jobs, Deliver(j)
      PROVE  FlowInv'
  <2>1. job[j].state = "waiting" /\ job'[j].state = "active" /\ \A k \in Jobs : k # j => job'[k] = job[k]
    BY <1>5 DEF Deliver, TypeInv, QueueInv
  <2>2. CASE j = Synthesis
    BY <1>2, <1>5, <2>1, <2>2, RunAssumption DEF FlowInv, Deliver, Finished
  <2>3. CASE j # Synthesis
    BY <1>2, <2>1, <2>3 DEF FlowInv, Finished, Jobs
  <2>. QED  BY <2>2, <2>3
<1>6. ASSUME NEW j \in Jobs, Executing(j),
             \A k \in Jobs : k # j => job'[k] = job[k],
             job'[j].state \in {"waiting", "completed", "failed"}
      PROVE  FlowInv'
  <2>1. job[j].state = "active"
    BY <1>6 DEF TypeInv, QueueInv
  <2>2. CASE j = Synthesis
    BY <1>2, <1>6, <2>1, <2>2, RunAssumption DEF FlowInv, Finished
  <2>3. CASE j # Synthesis
    BY <1>2, <1>6, <2>1, <2>3 DEF FlowInv, Finished, Jobs
  <2>. QED  BY <2>2, <2>3
<1>. QED  BY <1>3, <1>4, <1>5, <1>6, JobWrites

-----------------------------------------------------------------------------
(* Once the synthesis is being executed, or has been saved, no step takes   *)
(* an answer away: nobody executes a candidate any more.                    *)
LEMMA AnswersKept ==
  ASSUME TypeInv, FlowInv, [Next]_vars,
         Executing(Synthesis) \/ run.synthesis,
         NEW c \in Candidates, cand[c].status = "OK"
  PROVE  cand'[c].status = "OK"
<1>. Synthesis \in Jobs /\ Candidates \subseteq Jobs
  BY DEF Jobs
<1>1. \A d \in Candidates : job[d].state \in Finished
  BY DEF FlowInv, TypeInv, QueueInv
<1>2. \A d \in Candidates : exec[d].at = "idle"
  BY <1>1 DEF TypeInv, QueueInv, Finished, Executing
<1>3. job[Synthesis].state # "absent"
  BY DEF FlowInv, TypeInv, QueueInv
<1>4. ~CreateRun
  BY <1>3 DEF CreateRun, TypeInv, StartInv
<1>5. CASE UNCHANGED cand
  BY <1>5
<1>6. CASE cancelPendingCandidates
  BY <1>6 DEF cancelPendingCandidates
<1>. QED  BY <1>2, <1>4, <1>5, <1>6, CandWrites DEF StartCandidate, SettleAnswer, SettleCandidate

(* The synthesis row, like canceledAt, is never taken back.                 *)
LEMMA RunKeeps ==
  ASSUME TypeInv, [Next]_vars
  PROVE  /\ run.synthesis => run'.synthesis
         /\ run.canceled => run'.canceled
         /\ run'.status = "COMPLETE" => run.status = "COMPLETE" \/ CompleteRun
BY RunWrites DEF CreateRun, CancelRow, SaveSynthesis, saveSynthesis, CompleteRun, completeRun,
    setRunStatus, TypeInv, TypeOK

(* What a step may do to the synthesis processor's memory.                  *)
LEMMA SynthesisMoves ==
  ASSUME TypeInv, [Next]_vars
  PROVE  \/ UNCHANGED exec[Synthesis]
         \/ exec'[Synthesis].at \in {"idle", "load"} /\ exec'[Synthesis].answered = {}
         \/ LoadRun
         \/ /\ exec[Synthesis].at # "idle"
            /\ exec'[Synthesis].answered = exec[Synthesis].answered
            /\ ProcessSynthesis
<1>. Synthesis \in Jobs /\ Candidates \subseteq Jobs /\ Synthesis \notin Candidates
  BY RunAssumption DEF Jobs
<1>1. ASSUME NEW j \in Jobs, Leave(j)
      PROVE  \/ UNCHANGED exec[Synthesis]
             \/ exec'[Synthesis].at = "idle" /\ exec'[Synthesis].answered = {}
  BY <1>1 DEF Leave, Idle, TypeInv, QueueInv
<1>2. ASSUME NEW c \in Candidates, ProcessCandidate(c)
      PROVE  UNCHANGED exec[Synthesis]
  BY <1>2 DEF ProcessCandidate, LoadCandidate, CheckCandidate, FanOut, StartCandidate, Watch,
      Reread, Answered, CallFails, SettleAnswer, Report, ReportError, SettleCandidate,
      EmitSettled, handleFailure, Finish, Throw, Leave, Goto, SettleAs, TypeInv, QueueInv
<1>3. ASSUME ProcessSynthesis, ~LoadRun
      PROVE  \/ Leave(Synthesis)
             \/ /\ exec[Synthesis].at # "idle"
                /\ \E step \in SynthesisSteps : Goto(Synthesis, step)
  BY <1>3 DEF ProcessSynthesis, CheckRun, VoidRun, BeginSynthesis, Watch, Reread,
      EvaluatorAnswers, EvaluatorFails, SaveSynthesis, CompleteRun, PublishCompleted,
      SynthesisError, ConcludeFailed, PublishFailed, Announce, AnnounceError,
      evaluatorFailure, Finish, Throw, SynthesisSteps
<1>4. ASSUME NEW step, Goto(Synthesis, step)
      PROVE  exec'[Synthesis].answered = exec[Synthesis].answered
  BY <1>4 DEF Goto, TypeInv, QueueInv, Execution
<1>5. ASSUME NEW j \in Jobs, Deliver(j)
      PROVE  \/ UNCHANGED exec[Synthesis]
             \/ exec'[Synthesis].at = "load" /\ exec'[Synthesis].answered = {}
  <2>1. [Idle EXCEPT !.at = "load", !.late = run.canceled].at = "load"
    BY DEF Idle
  <2>2. [Idle EXCEPT !.at = "load", !.late = run.canceled].answered = {}
    BY DEF Idle
  <2>. QED  BY <1>5, <2>1, <2>2 DEF Deliver, TypeInv, QueueInv
<1>6. ASSUME NEW j \in Jobs, WorkerCrash(j) \/ JobError(j)
      PROVE  Leave(j)
  BY <1>6 DEF WorkerCrash, JobError, Throw
<1>7. CASE ~ProcessSynthesis
  BY <1>1, <1>2, <1>5, <1>6, <1>7 DEF Next, vars, StartRun, CancelRun, Reap, CreateRun,
      EnqueueRun, EnqueueFails, StartFails, StartFailedPublish, MarkQueued, apiVars,
      CancelRow, CancelCandidates, CancelRequest, CancelRequestLost, CancelPublish,
      ReaperFinds, ReaperCandidates, ReaperFails, ReaperPublishes, reaperVars, Deadline,
      ApiCrash, ReaperError, DeliverCancel
<1>. QED  BY <1>1, <1>3, <1>4, <1>7

(* While it runs, the answers it read first are still answers, and what it *)
(* saves is backed by them.                                                *)
LEMMA AnswerStep ==
  ASSUME TypeInv, FlowInv, AnswerInv, [Next]_vars
  PROVE  AnswerInv'
<1>. Synthesis \in Jobs /\ Candidates \subseteq Jobs
  BY DEF Jobs
<1>1. exec'[Synthesis].answered \subseteq {c \in Candidates : cand'[c].status = "OK"}
      /\ (exec'[Synthesis].at = "idle" => exec'[Synthesis].answered = {})
  <2>1. CASE UNCHANGED exec[Synthesis]
    BY <2>1, AnswersKept DEF AnswerInv, SnapshotCurrent, Executing
  <2>2. CASE LoadRun
    <3>1. UNCHANGED cand
      BY <2>2 DEF LoadRun
    <3>2. CASE Finish(Synthesis)
      BY <3>2 DEF Finish, Leave, Idle, TypeInv, QueueInv
    <3>3. CASE exec' = [exec EXCEPT ![Synthesis].at = "check",
                          ![Synthesis].answered = {c \in Candidates : cand[c].status = "OK"}]
      BY <3>1, <3>3 DEF TypeInv, QueueInv, Execution
    <3>. QED  BY <2>2, <3>2, <3>3 DEF LoadRun
  <2>3. CASE /\ exec[Synthesis].at # "idle"
             /\ exec'[Synthesis].answered = exec[Synthesis].answered
             /\ ProcessSynthesis
    <3>1. exec'[Synthesis].answered \subseteq {c \in Candidates : cand'[c].status = "OK"}
      BY <2>3, AnswersKept DEF AnswerInv, SnapshotCurrent, Executing
    <3>2. exec'[Synthesis].at = "idle" => exec'[Synthesis].answered = {}
      BY <2>3 DEF ProcessSynthesis, CheckRun, VoidRun, BeginSynthesis, Watch, Reread,
          EvaluatorAnswers, EvaluatorFails, SaveSynthesis, CompleteRun, PublishCompleted,
          SynthesisError, ConcludeFailed, PublishFailed, Announce, AnnounceError, LoadRun,
          evaluatorFailure, Finish, Throw, Leave, Goto, Idle, TypeInv, QueueInv, Execution
    <3>. QED  BY <3>1, <3>2
  <2>. QED  BY <2>1, <2>2, <2>3, SynthesisMoves
<1>2. /\ exec'[Synthesis].at \in {"begin", "watch", "reread", "call", "save"} =>
           exec'[Synthesis].answered # {}
      /\ exec'[Synthesis].at \in {"complete", "publish"} => run'.synthesis
  <2>1. CASE UNCHANGED exec[Synthesis]
    BY <2>1, RunKeeps DEF AnswerInv
  <2>2. CASE exec'[Synthesis].at \in {"idle", "load"}
    BY <2>2
  <2>3. CASE LoadRun
    BY <2>3 DEF LoadRun, Finish, Leave, Idle, TypeInv, QueueInv, Execution
  <2>4. CASE /\ exec'[Synthesis].answered = exec[Synthesis].answered
             /\ ProcessSynthesis
    <3>. exec \in [Jobs -> Execution]
      BY DEF TypeInv, QueueInv
    <3>. USE DEF Goto, Execution
    <3>1. CASE CheckRun
      BY <2>4, <3>1 DEF CheckRun, Finish, Leave, Idle
    <3>2. CASE SaveSynthesis
      BY <2>4, <3>2 DEF SaveSynthesis, saveSynthesis, TypeInv, TypeOK
    <3>3. CASE CompleteRun
      BY <2>4, <3>3 DEF CompleteRun, completeRun, AnswerInv, TypeInv, TypeOK
    <3>4. CASE Watch(Synthesis) \/ Reread(Synthesis) \/ BeginSynthesis \/ EvaluatorAnswers
      BY <2>4, <3>4, RunKeeps DEF Watch, Reread, BeginSynthesis, EvaluatorAnswers, AnswerInv
    <3>5. CASE VoidRun \/ EvaluatorFails \/ PublishCompleted \/ SynthesisError \/ ConcludeFailed
               \/ PublishFailed \/ Announce \/ AnnounceError
      BY <2>4, <3>5 DEF VoidRun, EvaluatorFails, PublishCompleted, SynthesisError,
          ConcludeFailed, PublishFailed, Announce, AnnounceError, evaluatorFailure, Finish,
          Throw, Leave, Idle
    <3>. QED  BY <2>3, <2>4, <3>1, <3>2, <3>3, <3>4, <3>5 DEF ProcessSynthesis
  <2>. QED  BY <2>1, <2>2, <2>3, <2>4, SynthesisMoves
<1>3. run'.synthesis => \E c \in Candidates : cand'[c].status = "OK"
  <2>1. CASE run.synthesis
    BY <2>1, AnswersKept DEF AnswerInv
  <2>2. CASE ~run.synthesis /\ run'.synthesis
    <3>1. SaveSynthesis
      BY <2>2, RunWrites DEF CreateRun, CancelRow, CompleteRun, completeRun, setRunStatus,
          TypeInv, TypeOK
    <3>. QED  BY <3>1 DEF SaveSynthesis, AnswerInv, SnapshotCurrent
  <2>. QED  BY <2>1, <2>2
<1>4. run'.status = "COMPLETE" => run'.synthesis
  BY RunKeeps DEF CompleteRun, completeRun, AnswerInv, TypeInv, TypeOK
<1>5. /\ "run.completed" \in told' => "run.completed" \in told \/ exec[Synthesis].at = "publish"
      /\ "COMPLETE" \in announced' => "COMPLETE" \in announced \/ run.status = "COMPLETE"
  <2>. USE DEF Next, vars, StartRun, CancelRun, Reap, ProcessCandidate, ProcessSynthesis, CreateRun,
           EnqueueRun, EnqueueFails, StartFails, StartFailedPublish, MarkQueued, apiVars, CancelRow,
           CancelCandidates, CancelRequest, CancelRequestLost, CancelPublish, ReaperFinds,
           ReaperCandidates, ReaperFails, ReaperPublishes, reaperVars, Deadline, ApiCrash,
           ReaperError, candVars, synthVars, LoadCandidate, CheckCandidate, FanOut, StartCandidate,
           Watch, Reread, Answered, CallFails, SettleAnswer, Report, ReportError, SettleCandidate,
           EmitSettled, LoadRun, CheckRun, VoidRun, BeginSynthesis, EvaluatorAnswers,
           EvaluatorFails, SaveSynthesis, CompleteRun, PublishCompleted, SynthesisError, ConcludeFailed,
           PublishFailed, Announce, AnnounceError, Deliver, DeliverCancel, WorkerCrash, JobError
  <2>1. \/ UNCHANGED told
        \/ told' = told \cup {"run.failed"} \/ told' = told \cup {"run.canceled"}
        \/ exec[Synthesis].at = "publish"
    OBVIOUS
  <2>2. UNCHANGED announced \/ announced' = announced \cup ({run.status} \cap {"COMPLETE", "FAILED"})
    OBVIOUS
  <2>. QED  BY ONLY <2>1, <2>2
<1>6. "run.completed" \in told' \/ "COMPLETE" \in announced' => run'.synthesis
  BY <1>5, RunKeeps DEF AnswerInv
<1>. QED  BY <1>1, <1>2, <1>3, <1>4, <1>6 DEF AnswerInv, SnapshotCurrent

(* So it is in every reachable state.                                      *)
LEMMA AnswersInvariant == Spec => [](FlowInv /\ AnswerInv)
<1>1. Init => FlowInv /\ AnswerInv
  BY DEF Init, FlowInv, AnswerInv, SnapshotCurrent, Idle, Jobs
<1>2. TypeInv /\ (FlowInv /\ AnswerInv) /\ [Next]_vars => (FlowInv /\ AnswerInv)'
  BY FlowStep, AnswerStep
<1>. QED  BY <1>1, <1>2, TypeInvariant, PTL DEF Spec

(* COMPLETE, on the row, on the bus or in a webhook, means a synthesis of   *)
(* at least one answer the panel still shows, whatever crashed on the way.  *)
THEOREM CompleteIsBacked == Spec => []CompleteMeansAnswered
<1>1. AnswerInv => CompleteMeansAnswered
  BY DEF AnswerInv, CompleteMeansAnswered
<1>. QED  BY <1>1, AnswersInvariant, PTL

(* What the synthesis processor read before its first await is still so     *)
(* when it uses it.                                                         *)
THEOREM SnapshotHolds == Spec => []SnapshotCurrent
<1>1. AnswerInv => SnapshotCurrent
  BY DEF AnswerInv
<1>. QED  BY <1>1, AnswersInvariant, PTL

-----------------------------------------------------------------------------
(* What a step may do to one execution and to its channel.                  *)
LEMMA ExecutionMoves ==
  ASSUME TypeInv, [Next]_vars, NEW j \in Jobs
  PROVE  \/ UNCHANGED exec[j]
         \/ exec'[j] = Idle
         \/ Deliver(j)
         \/ j \in Candidates /\ ProcessCandidate(j)
         \/ j = Synthesis /\ ProcessSynthesis
<1>. Synthesis \in Jobs /\ Candidates \subseteq Jobs /\ Synthesis \notin Candidates
  BY RunAssumption DEF Jobs
<1>1. ASSUME NEW k \in Jobs, Leave(k)
      PROVE  UNCHANGED exec[j] \/ exec'[j] = Idle
  BY <1>1 DEF Leave, TypeInv, QueueInv
<1>2. ASSUME NEW c \in Candidates, c # j, ProcessCandidate(c)
      PROVE  UNCHANGED exec[j]
  BY <1>2 DEF ProcessCandidate, LoadCandidate, CheckCandidate, FanOut, StartCandidate, Watch,
      Reread, Answered, CallFails, SettleAnswer, Report, ReportError, SettleCandidate,
      EmitSettled, handleFailure, Finish, Throw, Leave, Goto, SettleAs, TypeInv, QueueInv
<1>3. ASSUME j # Synthesis, ProcessSynthesis
      PROVE  UNCHANGED exec[j]
  BY <1>3 DEF ProcessSynthesis, LoadRun, CheckRun, VoidRun, BeginSynthesis, Watch, Reread,
      EvaluatorAnswers, EvaluatorFails, SaveSynthesis, CompleteRun, PublishCompleted,
      SynthesisError, ConcludeFailed, PublishFailed, Announce, AnnounceError,
      evaluatorFailure, Finish, Throw, Leave, Goto, TypeInv, QueueInv
<1>4. ASSUME NEW k \in Jobs, k # j, Deliver(k)
      PROVE  UNCHANGED exec[j]
  BY <1>4 DEF Deliver, TypeInv, QueueInv
<1>5. ASSUME NEW k \in Jobs, WorkerCrash(k) \/ JobError(k)
      PROVE  Leave(k)
  BY <1>5 DEF WorkerCrash, JobError, Throw
<1>6. CASE ~(\E c \in Candidates : ProcessCandidate(c)) /\ ~ProcessSynthesis
  BY <1>1, <1>4, <1>5, <1>6 DEF Next, vars, StartRun, CancelRun, Reap, CreateRun,
      EnqueueRun, EnqueueFails, StartFails, StartFailedPublish, MarkQueued, apiVars,
      CancelRow, CancelCandidates, CancelRequest, CancelRequestLost, CancelPublish,
      ReaperFinds, ReaperCandidates, ReaperFails, ReaperPublishes, reaperVars, Deadline,
      ApiCrash, ReaperError, DeliverCancel
<1>. QED  BY <1>2, <1>3, <1>6

(* A processor remembers how it was delivered.                              *)
LEMMA LateIsKept ==
  ASSUME TypeInv, NEW j \in Jobs,
         (j \in Candidates /\ ProcessCandidate(j)) \/ (j = Synthesis /\ ProcessSynthesis)
  PROVE  exec'[j] = Idle \/ exec'[j].late = exec[j].late
<1>1. ASSUME Leave(j)
      PROVE  exec'[j] = Idle
  BY <1>1 DEF Leave, TypeInv, QueueInv
<1>2. ASSUME NEW step, Goto(j, step)
      PROVE  exec'[j].late = exec[j].late
  BY <1>2 DEF Goto, TypeInv, QueueInv, Execution
<1>3. ASSUME NEW outcome, SettleAs(j, outcome)
      PROVE  exec'[j].late = exec[j].late
  BY <1>3 DEF SettleAs, TypeInv, QueueInv, Execution
<1>4. ASSUME j = Synthesis, LoadRun
      PROVE  exec'[j] = Idle \/ exec'[j].late = exec[j].late
  BY <1>1, <1>4 DEF LoadRun, Finish, TypeInv, QueueInv, Execution
<1>5. CASE j \in Candidates /\ ProcessCandidate(j)
  BY <1>1, <1>2, <1>3, <1>5 DEF ProcessCandidate, LoadCandidate, CheckCandidate, FanOut,
      StartCandidate, Watch, Reread, Answered, CallFails, SettleAnswer, Report, ReportError,
      SettleCandidate, EmitSettled, handleFailure, Finish, Throw
<1>6. CASE j = Synthesis /\ ProcessSynthesis
  BY <1>1, <1>2, <1>4, <1>6 DEF ProcessSynthesis, CheckRun, VoidRun, BeginSynthesis, Watch,
      Reread, EvaluatorAnswers, EvaluatorFails, SaveSynthesis, CompleteRun, PublishCompleted,
      SynthesisError, ConcludeFailed, PublishFailed, Announce, AnnounceError,
      evaluatorFailure, Finish, Throw
<1>. QED  BY <1>5, <1>6

(* How an execution's abort signal moves: it ends, or subscribes, or the   *)
(* cancellation is sent or arrives.                                        *)
LEMMA SignalMoves ==
  ASSUME TypeInv, [Next]_vars, NEW j \in Jobs
  PROVE  \/ UNCHANGED signal[j]
         \/ exec'[j] = Idle
         \/ CancelRequest \/ DeliverCancel(j)
         \/ exec[j].at = "watch" /\ Watch(j)
         \/ exec[j].at = "reread" /\ Reread(j)
<1>. Synthesis \in Jobs /\ Candidates \subseteq Jobs /\ Synthesis \notin Candidates
  BY RunAssumption DEF Jobs
<1>1. ASSUME NEW k \in Jobs, Leave(k)
      PROVE  UNCHANGED signal[j] \/ exec'[j] = Idle
  BY <1>1 DEF Leave, TypeInv, QueueInv
<1>2. ASSUME NEW k \in Jobs, Watch(k)
      PROVE  UNCHANGED signal[j] \/ (exec[j].at = "watch" /\ Watch(j))
  BY <1>2 DEF Watch, TypeInv, QueueInv
<1>3. ASSUME NEW k \in Jobs, Reread(k)
      PROVE  UNCHANGED signal[j] \/ (exec[j].at = "reread" /\ Reread(j))
  BY <1>3 DEF Reread, TypeInv, QueueInv
<1>4. ASSUME NEW k \in Jobs, DeliverCancel(k)
      PROVE  UNCHANGED signal[j] \/ DeliverCancel(j)
  BY <1>4 DEF DeliverCancel, TypeInv, QueueInv
<1>5. ASSUME NEW k \in Jobs, WorkerCrash(k) \/ JobError(k)
      PROVE  Leave(k)
  BY <1>5 DEF WorkerCrash, JobError, Throw
<1>6. ASSUME NEW c \in Candidates, ProcessCandidate(c)
      PROVE  UNCHANGED signal \/ Leave(c) \/ Watch(c) \/ Reread(c)
  BY <1>6 DEF ProcessCandidate, LoadCandidate, CheckCandidate, FanOut, StartCandidate,
      Answered, CallFails, SettleAnswer, Report, ReportError, SettleCandidate,
      EmitSettled, handleFailure, Finish, Throw
<1>7. ASSUME ProcessSynthesis
      PROVE  UNCHANGED signal \/ Leave(Synthesis) \/ Watch(Synthesis) \/ Reread(Synthesis)
  BY <1>7 DEF ProcessSynthesis, LoadRun, CheckRun, VoidRun, BeginSynthesis,
      EvaluatorAnswers, EvaluatorFails, SaveSynthesis, CompleteRun, PublishCompleted,
      SynthesisError, ConcludeFailed, PublishFailed, Announce, AnnounceError,
      evaluatorFailure, Finish, Throw
<1>. QED
  BY <1>1, <1>2, <1>3, <1>4, <1>5, <1>6, <1>7 DEF Next, vars, StartRun, CancelRun, Reap, CreateRun,
      EnqueueRun, EnqueueFails, StartFails, StartFailedPublish, MarkQueued, apiVars,
      CancelRow, CancelCandidates, CancelRequestLost, CancelPublish,
      ReaperFinds, ReaperCandidates, ReaperFails, ReaperPublishes, reaperVars, Deadline,
      ApiCrash, ReaperError, Deliver

-----------------------------------------------------------------------------
(* With canceledAt set, checkStop never lets a job go on.                   *)
LEMMA CanceledStops ==
  ASSUME run.canceled
  PROVE  "none" \notin checkStop
BY RunAssumption DEF checkStop

(* Every step keeps whoever passed a stop check in sight of the            *)
(* cancellation.                                                           *)
LEMMA CancelStep ==
  ASSUME TypeInv, CancelInv, [Next]_vars
  PROVE  CancelInv'
<1>. Synthesis \in Jobs /\ Candidates \subseteq Jobs /\ Synthesis \notin Candidates
  BY RunAssumption DEF Jobs
<1>. exec \in [Jobs -> Execution] /\ signal \in [Jobs -> {"off", "watching", "sent", "aborted"}]
  BY DEF TypeInv, QueueInv
<1>1. canceler' # canceler =>
        \/ CancelRow \/ CancelCandidates \/ CancelRequest \/ CancelRequestLost \/ CancelPublish
        \/ ApiCrash
  BY DEF Next, vars, StartRun, CancelRun, Reap, ProcessCandidate, ProcessSynthesis,
      CreateRun, EnqueueRun, EnqueueFails, StartFails, StartFailedPublish, MarkQueued, apiVars,
      ReaperFinds, ReaperCandidates, ReaperFails, ReaperPublishes, reaperVars, Deadline,
      ReaperError, candVars, synthVars, LoadCandidate, CheckCandidate, FanOut,
      StartCandidate, Watch, Reread, Answered, CallFails, SettleAnswer, Report, ReportError,
      SettleCandidate, EmitSettled, LoadRun, CheckRun, VoidRun, BeginSynthesis,
      EvaluatorAnswers, EvaluatorFails, SaveSynthesis, CompleteRun, PublishCompleted,
      SynthesisError, ConcludeFailed, PublishFailed, Announce, AnnounceError, Deliver,
      DeliverCancel, WorkerCrash, JobError
<1>2. canceler' # "idle" => run'.canceled
  <2>1. CASE UNCHANGED canceler
    BY <2>1, RunKeeps DEF CancelInv
  <2>2. CASE CancelRow
    BY <2>2 DEF CancelRow, TypeInv, TypeOK
  <2>3. CASE CancelCandidates \/ CancelRequest \/ CancelRequestLost \/ CancelPublish \/ ApiCrash
    BY <2>3, RunKeeps DEF CancelInv, CancelCandidates, CancelRequest, CancelRequestLost,
        CancelPublish, ApiCrash
  <2>. QED  BY <1>1, <2>1, <2>2, <2>3
<1>3. canceler' \in {"publish", "done"} => canceler \in {"publish", "done"} \/ CancelRequest
  BY <1>1 DEF CancelRow, CancelCandidates, CancelRequestLost, CancelPublish, ApiCrash
<1>4. ASSUME NEW j \in Jobs
      PROVE  /\ exec'[j].late => run'.canceled
             /\ exec'[j].late =>
                  exec'[j].at \notin {"fanout", "start", "begin", "watch", "reread", "call"}
  <2>1. CASE UNCHANGED exec[j]
    BY <2>1, RunKeeps DEF CancelInv, LateDeliveryMakesNoCall
  <2>2. CASE exec'[j] = Idle
    BY <2>2 DEF Idle
  <2>3. CASE Deliver(j)
    <3>1. exec'[j] = [Idle EXCEPT !.at = "load", !.late = run.canceled]
      BY <2>3 DEF Deliver
    <3>2. exec'[j].at = "load" /\ exec'[j].late = run.canceled
      BY <3>1 DEF Idle
    <3>. QED  BY <3>2, RunKeeps
  <2>4. CASE j \in Candidates /\ ProcessCandidate(j)
    <3>. SUFFICES ASSUME exec'[j] # Idle, exec'[j].late
                  PROVE  /\ run'.canceled
                         /\ exec'[j].at \notin {"fanout", "start", "begin", "watch", "reread", "call"}
      BY DEF Idle
    <3>1. exec[j].late /\ run.canceled
      BY <2>4, LateIsKept DEF CancelInv
    <3>2. ~Finish(j) /\ ~Throw(j)
      BY DEF Finish, Throw, Leave
    <3>3. exec[j].at \notin {"fanout", "start", "begin", "watch", "reread", "call"}
      BY <3>1 DEF CancelInv, LateDeliveryMakesNoCall
    <3>4. exec'[j].at \in {"check", "report", "settle", "settled"}
      BY <2>4, <3>1, <3>2, <3>3, CanceledStops DEF ProcessCandidate, LoadCandidate,
          CheckCandidate, FanOut, StartCandidate, Watch, Reread, Answered, CallFails,
          SettleAnswer, Report, ReportError, SettleCandidate, EmitSettled, handleFailure, Goto,
          SettleAs, Execution
    <3>. QED  BY <3>1, <3>4, RunKeeps
  <2>5. CASE j = Synthesis /\ ProcessSynthesis
    <3>. SUFFICES ASSUME exec'[j] # Idle, exec'[j].late
                  PROVE  /\ run'.canceled
                         /\ exec'[j].at \notin {"fanout", "start", "begin", "watch", "reread", "call"}
      BY DEF Idle
    <3>1. exec[j].late /\ run.canceled
      BY <2>5, LateIsKept DEF CancelInv
    <3>2. ~Finish(j) /\ ~Throw(j)
      BY DEF Finish, Throw, Leave
    <3>3. exec[j].at \notin {"fanout", "start", "begin", "watch", "reread", "call"}
      BY <3>1 DEF CancelInv, LateDeliveryMakesNoCall
    <3>4. exec'[j].at \in {"check", "void", "fail", "complete", "publish", "announce", "publishFailed"}
      BY <2>5, <3>1, <3>2, <3>3, CanceledStops DEF ProcessSynthesis, LoadRun, CheckRun, VoidRun,
          BeginSynthesis, Watch, Reread, EvaluatorAnswers, EvaluatorFails, SaveSynthesis,
          CompleteRun, PublishCompleted, SynthesisError, ConcludeFailed, PublishFailed,
          Announce, AnnounceError, evaluatorFailure, Goto, Execution
    <3>. QED  BY <3>1, <3>4, RunKeeps
  <2>. QED  BY <2>1, <2>2, <2>3, <2>4, <2>5, ExecutionMoves
<1>5. ASSUME NEW j \in Jobs, exec'[j].at \in {"reread", "call"}
      PROVE  \/ UNCHANGED exec[j]
             \/ exec[j].at = "watch" /\ Watch(j) /\ exec'[j].at = "reread"
             \/ exec[j].at = "reread" /\ Reread(j) /\ exec'[j].at = "call"
  <2>1. exec'[j] # Idle
    BY <1>5 DEF Idle
  <2>2. ~Deliver(j)
    <3>1. [Idle EXCEPT !.at = "load", !.late = run.canceled].at = "load"
      BY DEF Idle
    <3>. QED  BY <1>5, <3>1 DEF Deliver
  <2>3. ~Finish(j) /\ ~Throw(j)
    BY <2>1 DEF Finish, Throw, Leave
  <2>4. ASSUME j \in Candidates, ProcessCandidate(j)
        PROVE  Watch(j) \/ Reread(j)
    BY <1>5, <2>3, <2>4 DEF ProcessCandidate, LoadCandidate, CheckCandidate, FanOut,
        StartCandidate, Answered, CallFails, SettleAnswer, Report, ReportError,
        SettleCandidate, EmitSettled, handleFailure, Goto, SettleAs, Execution
  <2>5. ASSUME j = Synthesis, ProcessSynthesis
        PROVE  Watch(j) \/ Reread(j)
    BY <1>5, <2>3, <2>5 DEF ProcessSynthesis, LoadRun, CheckRun, VoidRun, BeginSynthesis,
        EvaluatorAnswers, EvaluatorFails, SaveSynthesis, CompleteRun, PublishCompleted,
        SynthesisError, ConcludeFailed, PublishFailed, Announce, AnnounceError,
        evaluatorFailure, Goto, Execution
  <2>6. Watch(j) => exec[j].at = "watch" /\ exec'[j].at = "reread"
    BY DEF Watch, Goto, Execution
  <2>7. Reread(j) => exec[j].at = "reread" /\ exec'[j].at = "call"
    BY DEF Reread, Goto, Execution
  <2>. QED  BY <2>1, <2>2, <2>4, <2>5, <2>6, <2>7, ExecutionMoves
<1>6. ASSUME NEW j \in Jobs, exec'[j].at \in {"reread", "call"}
      PROVE  signal'[j] # "off"
  <2>1. CASE UNCHANGED exec[j]
    <3>1. signal[j] # "off"
      BY <1>6, <2>1 DEF CancelInv
    <3>2. exec'[j] # Idle
      BY <1>6 DEF Idle
    <3>3. CASE Reread(j)
      BY <3>1, <3>3 DEF Reread
    <3>. QED  BY <2>1, <1>6, <3>1, <3>2, <3>3, SignalMoves DEF CancelRequest, DeliverCancel
  <2>2. CASE Watch(j)
    BY <2>2 DEF Watch
  <2>3. CASE exec[j].at = "reread" /\ Reread(j)
    BY <2>3 DEF Reread, CancelInv
  <2>. QED  BY <1>5, <1>6, <2>1, <2>2, <2>3
<1>7. ASSUME canceler' \in {"publish", "done"}, NEW j \in Jobs, exec'[j].at = "call"
      PROVE  signal'[j] \in {"sent", "aborted"}
  <2>1. CASE CancelRequest
    BY <2>1, <1>6, <1>7 DEF CancelRequest
  <2>2. CASE canceler \in {"publish", "done"} /\ UNCHANGED exec[j]
    <3>1. signal[j] \in {"sent", "aborted"}
      BY <1>7, <2>2 DEF CancelInv, CancelReachesCalls
    <3>2. exec'[j] # Idle
      BY <1>7 DEF Idle
    <3>. QED  BY <1>7, <2>2, <3>1, <3>2, SignalMoves DEF CancelRequest, DeliverCancel
  <2>3. CASE canceler \in {"publish", "done"} /\ Reread(j)
    <3>1. run.canceled
      BY <2>3 DEF CancelInv
    <3>. QED  BY <2>3, <3>1 DEF Reread
  <2>. QED  BY <1>3, <1>5, <1>7, <2>1, <2>2, <2>3
<1>. QED  BY <1>2, <1>4, <1>6, <1>7 DEF CancelInv, CancelReachesCalls, LateDeliveryMakesNoCall

(* So it is in every reachable state.                                      *)
LEMMA CancelInvariant == Spec => []CancelInv
<1>1. Init => CancelInv
  BY DEF Init, CancelInv, CancelReachesCalls, LateDeliveryMakesNoCall, Idle
<1>2. TypeInv /\ CancelInv /\ [Next]_vars => CancelInv'
  BY CancelStep
<1>. QED  BY <1>1, <1>2, TypeInvariant, PTL DEF Spec

(* Subscribing before re-reading the row closes the window: when the        *)
(* cancellation has been published, every call in flight has been or will   *)
(* be aborted, for every panel and any number of crashes.                   *)
THEOREM CancelIsHeard == Spec => []CancelReachesCalls
<1>1. CancelInv => CancelReachesCalls
  BY DEF CancelInv
<1>. QED  BY <1>1, CancelInvariant, PTL

(* A job delivered after the cancellation committed never reaches a model   *)
(* call, even though fanning out may have rewritten the run's status.       *)
THEOREM LateDeliveryIsStopped == Spec => []LateDeliveryMakesNoCall
<1>1. CancelInv => LateDeliveryMakesNoCall
  BY DEF CancelInv
<1>. QED  BY <1>1, CancelInvariant, PTL

-----------------------------------------------------------------------------
(* An answer appears only where a call succeeded, and an attempt is counted *)
(* only where one starts.                                                   *)
LEMMA CandidateMoves ==
  ASSUME TypeInv, [Next]_vars, NEW c \in Candidates
  PROVE  /\ cand'[c].status = "OK" => cand[c].status = "OK" \/ SettleAnswer(c)
         /\ SettleCandidate(c) => cand'[c].status # "OK"
         /\ \/ cand'[c].attempts = cand[c].attempts
            \/ CreateRun /\ cand'[c].attempts = 0
            \/ StartCandidate(c) /\ cand'[c].attempts = cand[c].attempts + 1
<1>. c \in Jobs
  BY DEF Jobs
<1>. cand \in [Candidates -> [status: {"PENDING", "RUNNING"} \cup Settled, attempts: Nat]]
  BY DEF TypeInv, TypeOK
<1>. \A d \in Candidates : exec[d].outcome # "OK"
  BY DEF TypeInv, QueueInv, Execution, Jobs
<1>1. SettleCandidate(c) => cand'[c].status # "OK"
  BY DEF SettleCandidate, settleCandidate
<1>2. CASE UNCHANGED cand
  BY <1>1, <1>2
<1>3. CASE CreateRun
  <2>1. PICK runnable \in SUBSET Candidates :
          cand' = [d \in Candidates |->
                     [status |-> IF d \in runnable THEN "PENDING" ELSE "SKIPPED",
                      attempts |-> 0]]
    BY <1>3 DEF CreateRun
  <2>2. cand'[c].status # "OK" /\ cand'[c].attempts = 0
    BY <2>1
  <2>. QED  BY <1>3, <2>2
<1>4. CASE cancelPendingCandidates
  BY <1>1, <1>4 DEF cancelPendingCandidates
<1>5. ASSUME NEW d \in Candidates, StartCandidate(d)
      PROVE  /\ cand'[c].status = "OK" => cand[c].status = "OK"
             /\ \/ cand'[c].attempts = cand[c].attempts
                \/ StartCandidate(c) /\ cand'[c].attempts = cand[c].attempts + 1
  <2>1. CASE d = c
    <3>1. cand'[c] = [status |-> "RUNNING", attempts |-> cand[c].attempts + 1]
      BY <1>5, <2>1 DEF StartCandidate, setCandidateRunning
    <3>. QED  BY <1>5, <2>1, <3>1
  <2>2. CASE d # c
    BY <1>5, <2>2 DEF StartCandidate, setCandidateRunning
  <2>. QED  BY <2>1, <2>2
<1>6. ASSUME NEW d \in Candidates, SettleAnswer(d)
      PROVE  /\ cand'[c].status = "OK" => cand[c].status = "OK" \/ SettleAnswer(c)
             /\ cand'[c].attempts = cand[c].attempts
  <2>1. d # c => cand'[c].status = cand[c].status
    BY <1>6 DEF SettleAnswer, settleCandidate
  <2>2. cand'[c].attempts = cand[c].attempts
    BY <1>6 DEF SettleAnswer, settleCandidate
  <2>. QED  BY <1>6, <2>1, <2>2
<1>7. ASSUME NEW d \in Candidates, SettleCandidate(d)
      PROVE  /\ cand'[c].status = "OK" => cand[c].status = "OK"
             /\ cand'[c].attempts = cand[c].attempts
  BY <1>7 DEF SettleCandidate, settleCandidate
<1>. QED  BY <1>1, <1>2, <1>3, <1>4, <1>5, <1>6, <1>7, CandWrites

(* Nobody has an answer before the run exists.                              *)
LEMMA NewIsUnanswered ==
  ASSUME TypeInv, PaidInv, [Next]_vars
  PROVE  api' = "new" => api = "new" /\ \A c \in Candidates : ~SettleAnswer(c)
<1>1. api' = "new" => api = "new"
  BY DEF TypeInv, TypeOK, Next, vars, StartRun, CancelRun, Reap, ProcessCandidate,
      ProcessSynthesis, CreateRun, EnqueueRun, EnqueueFails, StartFails, StartFailedPublish,
      MarkQueued, CancelRow, CancelCandidates, CancelRequest, CancelRequestLost,
      CancelPublish, ReaperFinds, ReaperCandidates, ReaperFails, ReaperPublishes, reaperVars,
      Deadline, ApiCrash, ReaperError, candVars, synthVars, LoadCandidate, CheckCandidate,
      FanOut, StartCandidate, Watch, Reread, Answered, CallFails, SettleAnswer, Report,
      ReportError, SettleCandidate, EmitSettled, LoadRun, CheckRun, VoidRun, BeginSynthesis,
      EvaluatorAnswers, EvaluatorFails, SaveSynthesis, CompleteRun, PublishCompleted,
      SynthesisError, ConcludeFailed, PublishFailed, Announce, AnnounceError, Deliver,
      DeliverCancel, WorkerCrash, JobError
<1>2. api = "new" => \A c \in Candidates : ~SettleAnswer(c)
  BY DEF SettleAnswer, TypeInv, StartInv, QueueInv, Executing, Jobs
<1>. QED  BY <1>1, <1>2

(* An execution past its load works on a candidate that had no answer;     *)
(* every step keeps it so.                                                 *)
LEMMA PaidStep ==
  ASSUME TypeInv, PaidInv, [Next]_vars
  PROVE  PaidInv'
<1>1. ASSUME api' = "new", NEW c \in Candidates
      PROVE  cand'[c].status # "OK"
  BY <1>1, NewIsUnanswered, CandidateMoves DEF PaidInv
<1>2. ASSUME NEW c \in Candidates, cand'[c].status = "OK"
      PROVE  exec'[c].at \in {"idle", "load", "report", "settle"}
  <2>. c \in Jobs /\ c # Synthesis
    BY RunAssumption DEF Jobs
  <2>. exec \in [Jobs -> Execution]
    BY DEF TypeInv, QueueInv
  <2>1. CASE SettleAnswer(c)
    BY <2>1 DEF SettleAnswer, Goto, Execution
  <2>2. CASE cand[c].status = "OK" /\ ~SettleCandidate(c) /\ ~SettleAnswer(c)
    <3>1. exec[c].at \in {"idle", "load", "report", "settle"}
      BY <2>2 DEF PaidInv
    <3>2. CASE UNCHANGED exec[c] \/ exec'[c] = Idle
      BY <3>1, <3>2 DEF Idle
    <3>3. CASE Deliver(c)
      <4>1. [Idle EXCEPT !.at = "load", !.late = run.canceled].at = "load"
        BY DEF Idle
      <4>. QED  BY <3>3, <4>1 DEF Deliver
    <3>4. CASE ProcessCandidate(c)
      <4>1. LoadCandidate(c) \/ Report(c) \/ ReportError(c)
        BY <2>2, <3>1, <3>4 DEF ProcessCandidate, CheckCandidate, FanOut, StartCandidate, Watch,
            Reread, Answered, CallFails, SettleAnswer, EmitSettled
      <4>2. Finish(c) \/ Throw(c) \/ SettleAs(c, "CANCELED") \/ SettleAs(c, "ERROR")
        BY <2>2, <4>1 DEF LoadCandidate, Report, ReportError, handleFailure, Settled
      <4>3. Finish(c) \/ Throw(c) => exec'[c] = Idle
        BY DEF Finish, Throw, Leave
      <4>. QED  BY <4>2, <4>3 DEF SettleAs, Idle, Execution
    <3>. QED  BY <3>2, <3>3, <3>4, ExecutionMoves
  <2>. QED  BY <1>2, <2>1, <2>2, CandidateMoves
<1>. QED  BY <1>1, <1>2 DEF PaidInv

(* So it is in every reachable state.                                      *)
LEMMA PaidInvariant == Spec => []PaidInv
<1>1. Init => PaidInv
  BY DEF Init, PaidInv
<1>2. TypeInv /\ PaidInv /\ [Next]_vars => PaidInv'
  BY PaidStep
<1>. QED  BY <1>1, <1>2, TypeInvariant, PTL DEF Spec

(* A candidate that has its answer never starts another attempt, whatever   *)
(* the queue redelivers and wherever the worker died.                       *)
THEOREM AnswerIsPaidOnce == Spec => AnswerNotPaidTwice
<1>1. TypeInv /\ PaidInv /\ [Next]_vars =>
        [\A c \in Candidates :
           cand[c].status = "OK" => cand'[c].attempts = cand[c].attempts]_cand
  <2>. SUFFICES ASSUME TypeInv, PaidInv, [Next]_vars, NEW c \in Candidates, cand[c].status = "OK"
                PROVE  cand'[c].attempts = cand[c].attempts
    OBVIOUS
  <2>1. ~CreateRun
    BY DEF CreateRun, PaidInv
  <2>2. ~StartCandidate(c)
    BY DEF StartCandidate, PaidInv
  <2>. QED  BY <2>1, <2>2, CandidateMoves
<1>. QED  BY <1>1, TypeInvariant, PaidInvariant, PTL DEF Spec, AnswerNotPaidTwice

-----------------------------------------------------------------------------
(* What a step may do to the job of a candidate, as far as counting goes:   *)
(* it is enqueued, delivered, or its execution ends, counted or finished.   *)
LEMMA CandidateJobMoves ==
  ASSUME TypeInv, [Next]_vars, NEW c \in Candidates
  PROVE  \/ UNCHANGED job[c]
         \/ /\ job[c].state = "absent" /\ job'[c] = [job[c] EXCEPT !.state = "waiting"]
            /\ UNCHANGED exec
         \/ Deliver(c)
         \/ /\ job[c].state = "active" /\ Leave(c)
            /\ \/ job'[c] = [job[c] EXCEPT !.state = "completed"]
               \/ \E state \in {"waiting", "failed"} :
                    \/ job'[c] = [job[c] EXCEPT !.state = state, !.made = @ + 1]
                    \/ job'[c] = [job[c] EXCEPT !.state = state, !.stalls = @ + 1]
<1>. Synthesis \in Jobs /\ Candidates \subseteq Jobs /\ Synthesis \notin Candidates
  BY RunAssumption DEF Jobs
<1>1. ASSUME AddFlow, api = "enqueue"
      PROVE  job[c].state = "absent" /\ (UNCHANGED job[c] \/ job'[c] = [job[c] EXCEPT !.state = "waiting"])
  BY <1>1 DEF AddFlow, TypeInv, StartInv, QueueInv
<1>2. ASSUME NEW j \in Jobs, Finish(j) \/ Throw(j) \/ WorkerCrash(j), Executing(j)
      PROVE  \/ UNCHANGED job[c]
             \/ /\ job[c].state = "active" /\ Leave(c)
                /\ \/ job'[c] = [job[c] EXCEPT !.state = "completed"]
                   \/ \E state \in {"waiting", "failed"} :
                        \/ job'[c] = [job[c] EXCEPT !.state = state, !.made = @ + 1]
                        \/ job'[c] = [job[c] EXCEPT !.state = state, !.stalls = @ + 1]
  <2>1. CASE j # c
    BY <1>2, <2>1 DEF Finish, Returned, Throw, Threw, WorkerCrash, TypeInv, QueueInv
  <2>2. CASE j = c
    <3>1. job[c].state = "active"
      BY <1>2, <2>2 DEF TypeInv, QueueInv
    <3>2. CASE Finish(c)
      BY <3>1, <3>2 DEF Finish, Returned, TypeInv, QueueInv
    <3>3. CASE Throw(c)
      <4>1. job'[c] = [job[c] EXCEPT !.state = IF IsFinalAttempt(c) THEN "failed" ELSE "waiting",
                                     !.made = @ + 1]
        BY <3>3 DEF Throw, Threw, TypeInv, QueueInv
      <4>. QED  BY <3>1, <3>3, <4>1 DEF Throw
    <3>4. CASE WorkerCrash(c)
      <4>1. job'[c] = [job[c] EXCEPT !.state = IF job[c].stalls >= MaxStalls THEN "failed" ELSE "waiting",
                                     !.stalls = @ + 1]
        BY <3>4 DEF WorkerCrash, TypeInv, QueueInv
      <4>. QED  BY <3>1, <3>4, <4>1 DEF WorkerCrash
    <3>. QED  BY <1>2, <2>2, <3>2, <3>3, <3>4
  <2>. QED  BY <2>1, <2>2
<1>3. ASSUME NEW d \in Candidates, ProcessCandidate(d)
      PROVE  UNCHANGED job \/ (Executing(d) /\ (Finish(d) \/ Throw(d)))
  BY <1>3 DEF ProcessCandidate, LoadCandidate, CheckCandidate, FanOut, StartCandidate,
      Watch, Reread, Answered, CallFails, SettleAnswer, Report, ReportError, SettleCandidate,
      EmitSettled, handleFailure, Executing
<1>4. ASSUME ProcessSynthesis
      PROVE  UNCHANGED job \/ (Executing(Synthesis) /\ (Finish(Synthesis) \/ Throw(Synthesis)))
  BY <1>4 DEF ProcessSynthesis, Watch, Reread, LoadRun, CheckRun, VoidRun,
      BeginSynthesis, EvaluatorAnswers, EvaluatorFails, SaveSynthesis, CompleteRun,
      PublishCompleted, SynthesisError, ConcludeFailed, PublishFailed, Announce,
      AnnounceError, evaluatorFailure, Executing
<1>5. ASSUME NEW j \in Jobs, WorkerCrash(j) \/ JobError(j)
      PROVE  Executing(j) /\ (WorkerCrash(j) \/ Throw(j))
  BY <1>5 DEF WorkerCrash, JobError, Executing, CandidateSteps
<1>6. ASSUME NEW j \in Jobs, Deliver(j)
      PROVE  UNCHANGED job[c] \/ Deliver(c)
  <2>1. job' = [job EXCEPT ![j].state = "active"]
    BY <1>6 DEF Deliver
  <2>2. j # c => UNCHANGED job[c]
    BY <2>1 DEF TypeInv, QueueInv
  <2>. QED  BY <1>6, <2>2
<1>7. CASE EnqueueRun \/ EnqueueFails
  BY <1>1, <1>7 DEF EnqueueRun, EnqueueFails
<1>. QED
  BY <1>2, <1>3, <1>4, <1>5, <1>6, <1>7 DEF Next, vars, StartRun, CancelRun, Reap, CreateRun,
      StartFails, StartFailedPublish, MarkQueued, apiVars, CancelRow,
      CancelCandidates, CancelRequest, CancelRequestLost, CancelPublish, ReaperFinds,
      ReaperCandidates, ReaperFails, ReaperPublishes, reaperVars, Deadline, ApiCrash,
      ReaperError, DeliverCancel

(* The same, in numbers: how many deliveries the queue counts or has under  *)
(* way, and whether the execution may still start an attempt.               *)
LEMMA CountMoves ==
  ASSUME TypeInv, [Next]_vars, NEW c \in Candidates
  PROVE  LET used  == job[c].made + job[c].stalls
             used2 == job'[c].made + job'[c].stalls
             early == {"load", "check", "fanout", "start"}
             queued == {"absent", "waiting"}
         IN  /\ used \in Nat /\ used2 \in Nat
             /\ \/ used2 = used /\ (job'[c].state \in queued <=> job[c].state \in queued)
                \/ used2 = used /\ job'[c].state \notin queued
                \/ used2 = used + 1 /\ job[c].state \notin queued
             /\ exec'[c].at \in early =>
                  \/ used2 = used /\ exec[c].at \in early /\ ~StartCandidate(c)
                  \/ used2 = used /\ job[c].state \in queued
             /\ StartCandidate(c) =>
                  used2 = used /\ exec[c].at \in early /\ job'[c].state \notin queued
<1>. c \in Jobs /\ c # Synthesis
  BY RunAssumption DEF Jobs
<1>. exec \in [Jobs -> Execution]
  BY DEF TypeInv, QueueInv
<1>. job \in [Jobs -> [state: {"absent", "waiting", "active", "completed", "failed"},
                       made: 0..MaxAttempts, stalls: 0..(MaxStalls + 1)]]
  BY DEF TypeInv, QueueInv
<1>. MaxAttempts \in Nat /\ MaxStalls \in Nat
  BY RunAssumption
<1>1. job[c].made \in Nat /\ job[c].stalls \in Nat
  OBVIOUS
<1>2. Leave(c) => exec'[c].at = "idle"
  BY DEF Leave, Idle
<1>3. StartCandidate(c) =>
        /\ UNCHANGED job /\ exec[c].at = "start" /\ exec'[c].at = "watch"
        /\ job[c].state = "active"
  BY DEF StartCandidate, Goto, Execution, TypeInv, QueueInv, Executing
<1>4. ASSUME ProcessCandidate(c), exec'[c].at \in {"load", "check", "fanout", "start"}
      PROVE  UNCHANGED job /\ exec[c].at \in {"load", "check", "fanout", "start"} /\ ~StartCandidate(c)
  <2>1. ~Finish(c) /\ ~Throw(c)
    BY <1>2, <1>4 DEF Finish, Throw
  <2>2. ~StartCandidate(c)
    BY <1>3, <1>4
  <2>. QED
    BY <1>4, <2>1, <2>2 DEF ProcessCandidate, LoadCandidate, CheckCandidate, FanOut, Watch, Reread,
        Answered, CallFails, SettleAnswer, Report, ReportError, SettleCandidate, EmitSettled,
        handleFailure, Goto, SettleAs, Execution
<1>5. CASE UNCHANGED job[c]
  <2>1. ~Deliver(c)
    BY <1>5 DEF Deliver
  <2>2. exec'[c].at \in {"load", "check", "fanout", "start"} =>
          exec[c].at \in {"load", "check", "fanout", "start"} /\ ~StartCandidate(c)
    BY <1>3, <1>4, <2>1, ExecutionMoves DEF Idle
  <2>. QED  BY <1>1, <1>3, <1>5, <2>2
<1>6. CASE /\ job[c].state = "absent" /\ job'[c] = [job[c] EXCEPT !.state = "waiting"]
           /\ UNCHANGED exec
  <2>1. exec[c].at = "idle"
    BY <1>6 DEF TypeInv, QueueInv, Executing
  <2>2. /\ job'[c].made = job[c].made /\ job'[c].stalls = job[c].stalls
        /\ job'[c].state = "waiting"
    BY <1>6
  <2>. QED  BY <1>1, <1>3, <1>6, <2>1, <2>2
<1>7. CASE Deliver(c)
  <2>1. /\ job'[c].made = job[c].made /\ job'[c].stalls = job[c].stalls
        /\ job'[c].state = "active" /\ job[c].state = "waiting"
    BY <1>7 DEF Deliver
  <2>. QED  BY <1>1, <1>3, <2>1
<1>8. CASE /\ job[c].state = "active" /\ Leave(c)
           /\ \/ job'[c] = [job[c] EXCEPT !.state = "completed"]
              \/ \E state \in {"waiting", "failed"} :
                   \/ job'[c] = [job[c] EXCEPT !.state = state, !.made = @ + 1]
                   \/ job'[c] = [job[c] EXCEPT !.state = state, !.stalls = @ + 1]
  <2>1. \/ /\ job'[c].made = job[c].made /\ job'[c].stalls = job[c].stalls
           /\ job'[c].state = "completed"
        \/ job'[c].made = job[c].made + 1 /\ job'[c].stalls = job[c].stalls
        \/ job'[c].made = job[c].made /\ job'[c].stalls = job[c].stalls + 1
    BY <1>8
  <2>2. exec'[c].at = "idle" /\ ~StartCandidate(c)
    BY <1>2, <1>3, <1>8
  <2>. QED  BY <1>1, <1>8, <2>1, <2>2
<1>9. \/ UNCHANGED job[c]
      \/ job[c].state = "absent" /\ job'[c] = [job[c] EXCEPT !.state = "waiting"] /\ UNCHANGED exec
      \/ Deliver(c)
      \/ /\ job[c].state = "active" /\ Leave(c)
         /\ \/ job'[c] = [job[c] EXCEPT !.state = "completed"]
            \/ \E state \in {"waiting", "failed"} :
                 \/ job'[c] = [job[c] EXCEPT !.state = state, !.made = @ + 1]
                 \/ job'[c] = [job[c] EXCEPT !.state = state, !.stalls = @ + 1]
  BY CandidateJobMoves, Zenon
<1>. QED  BY ONLY <1>5, <1>6, <1>7, <1>8, <1>9

(* A step counts an attempt once for the delivery it belongs to, or not at *)
(* all.                                                                    *)
LEMMA CountStep ==
  ASSUME TypeInv, CountInv, [Next]_vars
  PROVE  CountInv'
<1>. SUFFICES ASSUME NEW c \in Candidates
              PROVE  /\ cand'[c].attempts <=
                          job'[c].made + job'[c].stalls
                            + (IF job'[c].state \in {"absent", "waiting"} THEN 0 ELSE 1)
                     /\ exec'[c].at \in {"load", "check", "fanout", "start"} =>
                          cand'[c].attempts <= job'[c].made + job'[c].stalls
  BY DEF CountInv, AttemptsBounded
<1>. DEFINE used   == job[c].made + job[c].stalls
            used2  == job'[c].made + job'[c].stalls
            early  == exec[c].at \in {"load", "check", "fanout", "start"}
            early2 == exec'[c].at \in {"load", "check", "fanout", "start"}
            queued  == job[c].state \in {"absent", "waiting"}
            queued2 == job'[c].state \in {"absent", "waiting"}
            n  == cand[c].attempts
            n2 == cand'[c].attempts
<1>1. /\ n <= used + (IF queued THEN 0 ELSE 1)
      /\ early => n <= used
  BY DEF CountInv, AttemptsBounded
<1>2. n \in Nat
  BY DEF TypeInv, TypeOK
<1>3. /\ used \in Nat /\ used2 \in Nat
      /\ \/ used2 = used /\ (queued2 <=> queued)
         \/ used2 = used /\ ~queued2
         \/ used2 = used + 1 /\ ~queued
      /\ early2 => (used2 = used /\ early /\ ~StartCandidate(c)) \/ (used2 = used /\ queued)
      /\ StartCandidate(c) => used2 = used /\ early /\ ~queued2
  BY CountMoves, Zenon
<1>4. n2 = n \/ n2 = 0 \/ (StartCandidate(c) /\ n2 = n + 1)
  BY CandidateMoves
<1>5. StartCandidate(c) => ~early2
  BY DEF StartCandidate, Goto, Execution, TypeInv, QueueInv, Jobs
<1>6. n2 <= used2 + (IF queued2 THEN 0 ELSE 1)
  <2>. HIDE DEF used, used2, early, early2, queued, queued2, n, n2
  <2>. QED  BY <1>1, <1>2, <1>3, <1>4
<1>7. early2 => n2 <= used2
  <2>. HIDE DEF used, used2, early, early2, queued, queued2, n, n2
  <2>. QED  BY <1>1, <1>2, <1>3, <1>4, <1>5
<1>. QED  BY <1>6, <1>7

(* The durable attempt count of a candidate never exceeds the deliveries    *)
(* the queue made of its job, recovered stalls included.                    *)
THEOREM AttemptsAreDeliveries == Spec => []AttemptsBounded
<1>1. Init => CountInv
  BY RunAssumption DEF Init, CountInv, AttemptsBounded, Idle, Jobs
<1>2. TypeInv /\ CountInv /\ [Next]_vars => CountInv'
  BY CountStep
<1>3. CountInv => AttemptsBounded
  BY DEF CountInv
<1>. QED  BY <1>1, <1>2, <1>3, TypeInvariant, PTL DEF Spec
=============================================================================
