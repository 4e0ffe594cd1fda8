---------------------------- MODULE Orchestrator ----------------------------
(***************************************************************************)
(* PipelineOrchestrator.run together with the part of generation_cli that  *)
(* starts and resumes it.  One process at a time works on a triplet.  Its  *)
(* memory (mem, stage, checkpoints) and the directory it leaves behind     *)
(* (disk = pipeline_state.json, artifact = the canonical stage files) are  *)
(* separate state, because the process may be killed between any two       *)
(* writes and a later process only finds the directory.                    *)
(***************************************************************************)
EXTENDS RollbackPolicy, FiniteSets

CONSTANTS
    MaxRuns,        \* bound: processes started on this triplet
    UntilStages     \* the values of --until-stage the user passes

ASSUME MaxRunsAssumption == MaxRuns \in Nat
ASSUME UntilStagesAssumption == UntilStages \subseteq Stages

VARIABLES
    disk,         \* pipeline_state.json; status "absent" before it exists
    artifact,     \* per stage: what the file of that stage is worth
    mem,          \* the PipelineState object of the running process
    pc,           \* the phase of run() the process is in, "idle" without a process
    stage,        \* run()'s local `stage'
    until,        \* --until-stage of the process
    checkpoints,  \* the stages in run()'s `checkpoints' (and `outputs')
    runs          \* processes started so far

vars == <<disk, artifact, mem, pc, stage, until, checkpoints, runs>>

(* PipelineState as a new process creates it.  attempts is the dictionary   *)
(* attempts_by_level with 0 for a missing key.                              *)
Fresh ==
    [stage |-> 1, attempt |-> 1, level |-> NoLevel, status |-> "running",
     attempts |-> [l \in Levels |-> 0], history |-> <<>>]

Statuses == {"absent", "running", "paused", "completed", "failed"}

PipelineStates ==
    [stage : Stages, attempt : Nat \ {0}, level : Levels \cup {NoLevel},
     status : Statuses, attempts : [Levels -> Nat], history : Seq(Events)]

(* worth: "absent", "written" (nobody accepted it) or "accepted" by the     *)
(* stage's validator; current: made from what the stage below holds now.    *)
Artifacts == [worth : {"absent", "written", "accepted"}, current : BOOLEAN]

Phases ==
    {"idle", "top", "run", "validate", "rejected", "checkpoint", "finish", "failing"}

TypeOK ==
    /\ disk \in PipelineStates
    /\ artifact \in [Stages -> Artifacts]
    /\ mem \in PipelineStates
    /\ pc \in Phases
    /\ stage \in Stages
    /\ until \in Stages
    /\ checkpoints \subseteq Stages
    /\ runs \in 0..MaxRuns

Init ==
    /\ disk = [Fresh EXCEPT !.status = "absent"]
    /\ artifact = [s \in Stages |-> [worth |-> "absent", current |-> FALSE]]
    /\ mem = [Fresh EXCEPT !.status = "absent"]
    /\ pc = "idle"
    /\ stage = 1
    /\ until = 4
    /\ checkpoints = {}
    /\ runs = 0

-----------------------------------------------------------------------------
(* Starting a process.                                                     *)

Launch(state, first, last) ==
    /\ pc = "idle"
    /\ runs < MaxRuns
    /\ first <= last
    /\ mem' = state
    /\ stage' = first
    /\ until' = last
    /\ checkpoints' = 1..(first - 1)
    /\ pc' = "top"
    /\ runs' = runs + 1
    /\ UNCHANGED <<disk, artifact>>

(* Without --resume a new PipelineState replaces whatever the file holds. *)
StartFresh(last) == Launch(Fresh, 1, last)

(* Mutant: an interrupted stage is taken for a finished one. *)
ResumeStage_SkipsInterrupted == disk.stage + 1

(* The stage --resume continues with. *)
ResumeStage ==
    IF disk.status \in {"paused", "completed"} THEN disk.stage + 1 ELSE disk.stage

(* Mutant: load() does not restore attempts_by_level. *)
Resume_ForgetsAttempts(last) ==
    /\ disk.status \in {"running", "paused", "completed"}
    /\ \A s \in 1..(ResumeStage - 1) : artifact[s].worth # "absent"
    /\ Launch([disk EXCEPT !.status = "running", !.attempts = [l \in Levels |-> 0]],
              ResumeStage, last)

(* --resume refuses a missing or a failed state and a checkpoint whose file *)
(* is gone, and has nothing to do when the requested stage is reached.      *)
Resume(last) ==
    /\ disk.status \in {"running", "paused", "completed"}
    /\ \A s \in 1..(ResumeStage - 1) : artifact[s].worth # "absent"
    /\ Launch([disk EXCEPT !.status = "running"], ResumeStage, last)

-----------------------------------------------------------------------------
(* One pass of the loop.                                                   *)

Save(state) ==
    /\ mem' = state
    /\ disk' = state

Overwrite(s) ==
    [t \in Stages |->
        IF t = s THEN [worth |-> "written", current |-> TRUE]
        ELSE [artifact[t] EXCEPT !.current = @ /\ t # s + 1]]

(* Mutant: stage_started is saved without the new current_stage. *)
BeginStage_KeepsStage ==
    /\ pc = "top"
    /\ Save(mem)
    /\ pc' = "run"
    /\ UNCHANGED <<artifact, stage, until, checkpoints, runs>>

(* The top of the loop: stage_started is recorded and saved. *)
BeginStage ==
    /\ pc = "top"
    /\ Save([mem EXCEPT !.stage = stage])
    /\ pc' = "run"
    /\ UNCHANGED <<artifact, stage, until, checkpoints, runs>>

(* What _retry_context tells the stage that is about to run: it reads the   *)
(* file, not the process's memory.                                          *)
RetryContext ==
    IF mem.level = NoLevel THEN NoRollback
    ELSE LatestUnresolvedRollback(disk.history)

(* handler.run and handler.persist: the stage's file is replaced before     *)
(* anybody validates it.                                                    *)
RunStage ==
    /\ pc = "run"
    /\ artifact' = Overwrite(stage)
    /\ pc' = "validate"
    /\ UNCHANGED <<disk, mem, stage, until, checkpoints, runs>>

(* Any exception of the run (a model error, an exhausted request budget, an *)
(* I/O error before or after the file was replaced) becomes a failure.      *)
RunRaises ==
    /\ pc = "run"
    /\ artifact' \in {artifact, Overwrite(stage)}
    /\ pc' = "failing"
    /\ UNCHANGED <<disk, mem, stage, until, checkpoints, runs>>

(* validation.accepted; stage_validated is recorded and saved. *)
ValidateAccepts ==
    /\ pc = "validate"
    /\ artifact' = [artifact EXCEPT ![stage].worth = "accepted"]
    /\ Save(mem)
    /\ pc' = "checkpoint"
    /\ UNCHANGED <<stage, until, checkpoints, runs>>

(* A verdict that is not accepted is recorded and saved too, and handled    *)
(* while the exception handler of the pass is still in force.               *)
ValidateRejects ==
    /\ pc = "validate"
    /\ Save(mem)
    /\ pc' = "rejected"
    /\ UNCHANGED <<artifact, stage, until, checkpoints, runs>>

(* A validator that raises, or whose verdict cannot be saved. *)
ValidateRaises ==
    /\ pc = "validate"
    /\ pc' = "failing"
    /\ UNCHANGED <<disk, artifact, mem, stage, until, checkpoints, runs>>

(* handler.checkpoint is the identity except for Stage 4, where publishing  *)
(* the harness may raise.                                                   *)
CheckpointRaises ==
    /\ pc = "checkpoint"
    /\ stage = 4
    /\ pc' = "failing"
    /\ UNCHANGED <<disk, artifact, mem, stage, until, checkpoints, runs>>

(* checkpoint_created is recorded and saved; the loop goes on to the next   *)
(* stage, or to the closing save when this was the last requested one.      *)
Checkpoint ==
    /\ pc = "checkpoint"
    /\ checkpoints' = checkpoints \cup {stage}
    /\ Save([mem EXCEPT !.history = Append(@, CheckpointCreated(stage))])
    /\ \/ /\ stage = until
          /\ pc' = "finish"
          /\ UNCHANGED stage
       \/ /\ stage # until
          /\ pc' = "top"
          /\ stage' = stage + 1
    /\ UNCHANGED <<artifact, until, runs>>

(* Mutant: reaching --until-stage counts as completing the pipeline. *)
Finish_AlwaysCompleted ==
    /\ pc = "finish"
    /\ Save([mem EXCEPT !.status = "completed"])
    /\ pc' = "idle"
    /\ UNCHANGED <<artifact, stage, until, checkpoints, runs>>

(* The closing save: completed after Stage 4, paused before. *)
Finish ==
    /\ pc = "finish"
    /\ Save([mem EXCEPT !.status = IF stage = 4 THEN "completed" ELSE "paused"])
    /\ pc' = "idle"
    /\ UNCHANGED <<artifact, stage, until, checkpoints, runs>>

-----------------------------------------------------------------------------
(* _handle_failure.                                                        *)

Decision == AfterFailure(stage, mem.level, mem.attempt)

Handling == pc \in {"rejected", "failing"}

(* The state once the decision is recorded in it. *)
Charged ==
    [mem EXCEPT
        !.level    = Decision.level,
        !.attempt  = Decision.attempt,
        !.attempts = [@ EXCEPT ![Decision.level] = Decision.attempt],
        !.stage    = Decision.restart,
        !.history  = Append(@, Rollback(stage, Decision.restart))]

(* Mutant: exhaustion is recorded but the loop is not left. *)
GiveUp_KeepsLooping ==
    /\ Handling
    /\ Decision.exhausted
    /\ Save([mem EXCEPT !.status = "failed"])
    /\ pc' = "top"
    /\ UNCHANGED <<artifact, stage, until, checkpoints, runs>>

(* Exhausted: pipeline_failed is recorded and run() returns. *)
GiveUp ==
    /\ Handling
    /\ Decision.exhausted
    /\ Save([mem EXCEPT !.status = "failed"])
    /\ pc' = "idle"
    /\ UNCHANGED <<artifact, stage, until, checkpoints, runs>>

(* Mutant: the checkpoints above the decision's level survive it. *)
RollBack_KeepsCheckpoints ==
    /\ Handling
    /\ ~Decision.exhausted
    /\ Save(Charged)
    /\ stage' = Decision.restart
    /\ pc' = "top"
    /\ UNCHANGED <<artifact, checkpoints, until, runs>>

(* Otherwise the checkpoints above the chosen level are dropped, the        *)
(* decision is recorded and saved, and the loop restarts where it says.     *)
RollBack ==
    /\ Handling
    /\ ~Decision.exhausted
    /\ checkpoints' = {s \in checkpoints : s <= Decision.level}
    /\ Save(Charged)
    /\ stage' = Decision.restart
    /\ pc' = "top"
    /\ UNCHANGED <<artifact, until, runs>>

(* The save of a rejection's rollback raises: memory keeps the charge, and  *)
(* the exception handler charges the same failure a second time.            *)
LoseRollback ==
    /\ pc = "rejected"
    /\ ~Decision.exhausted
    /\ checkpoints' = {s \in checkpoints : s <= Decision.level}
    /\ mem' = Charged
    /\ pc' = "failing"
    /\ UNCHANGED <<disk, artifact, stage, until, runs>>

(* The process is killed, or an exception escapes run() (a failing save     *)
(* outside the try block): its memory is gone.                              *)
Crash ==
    /\ pc # "idle"
    /\ pc' = "idle"
    /\ UNCHANGED <<disk, artifact, mem, stage, until, checkpoints, runs>>

-----------------------------------------------------------------------------
Step ==
    \/ BeginStage
    \/ RunStage \/ RunRaises
    \/ ValidateAccepts \/ ValidateRejects \/ ValidateRaises
    \/ Checkpoint \/ CheckpointRaises
    \/ Finish
    \/ RollBack \/ LoseRollback \/ GiveUp

Next ==
    \/ \E last \in UntilStages : StartFresh(last) \/ Resume(last)
    \/ Step
    \/ Crash

Spec == Init /\ [][Next]_vars

(* A process that is not killed keeps executing: every model request and    *)
(* every validator subprocess has a timeout.  Starting, resuming and        *)
(* killing a process are the user's business.                               *)
FairSpec == Spec /\ WF_vars(Step)
=============================================================================
