--------------------------- MODULE RollbackPolicy ---------------------------
(***************************************************************************)
(* The two pure pieces of orchestrator.py: the decision table of           *)
(* StagedRollbackStrategy, and the backward scan that finds the rollback   *)
(* a regenerated stage has to answer for (latest_unresolved_rollback).     *)
(***************************************************************************)
EXTENDS Integers, Sequences, SequencesExt

CONSTANT MaxRegen   \* --max-regen-per-level: regenerations before one more stage is undone

ASSUME MaxRegenAssumption == MaxRegen \in Nat \ {0}

Stages == 1..4      \* STAGE_1_DOCS .. STAGE_4_HARNESS
Levels == 0..3      \* a checkpoint level: 0 is ROOT_INPUT, l is the checkpoint of stage l
NoLevel == -1       \* rollback_level is None: nothing has failed yet

-----------------------------------------------------------------------------
(* RollbackDecision: the next level to go back to, or exhaustion. *)

RestartFrom(level, attempt) ==
    [exhausted |-> FALSE, level |-> level, restart |-> level + 1, attempt |-> attempt]

Exhausted(attempt) ==
    [exhausted |-> TRUE, level |-> NoLevel, restart |-> 0, attempt |-> attempt]

(* StagedRollbackStrategy.after_failure: the first failure goes back to the *)
(* stage that failed; a level gets MaxRegen regenerations; then the next    *)
(* lower checkpoint is tried; below ROOT_INPUT there is nothing left.       *)
AfterFailure(failed, level, attempt) ==
    IF level = NoLevel             THEN RestartFrom(failed - 1, 1)
    ELSE IF attempt < MaxRegen     THEN RestartFrom(level, attempt + 1)
    ELSE IF level = 0              THEN Exhausted(attempt)
    ELSE                                RestartFrom(level - 1, 1)

-----------------------------------------------------------------------------
(* The history of a run, reduced to the events latest_unresolved_rollback  *)
(* looks at; every other kind of event is skipped by the scan.             *)

Rollback(failed, restart) ==
    [event |-> "rollback", stage |-> failed, restart |-> restart]

CheckpointCreated(stage) ==
    [event |-> "checkpoint_created", stage |-> stage, restart |-> stage]

Events == [event : {"rollback", "checkpoint_created"}, stage : Stages, restart : Stages]

NoRollback == [event |-> "none", stage |-> 0, restart |-> 0]

(* One step of the loop over reversed(history): a checkpoint retires its    *)
(* stage, a rollback of a stage that is not retired ends the scan.          *)
ScanStep(event, scan) ==
    CASE scan.found # NoRollback                -> scan
      [] scan.found = NoRollback /\ event.event = "checkpoint_created"
                                                -> [scan EXCEPT !.retired = @ \cup {event.stage}]
      [] scan.found = NoRollback /\ event.event = "rollback"
                                                -> IF event.stage \in scan.retired
                                                   THEN scan
                                                   ELSE [scan EXCEPT !.found = event]

(* Mutant: the newest rollback, retired or not. *)
LatestUnresolvedRollback_IgnoresCheckpoints(history) ==
    LET rollbacks == {i \in DOMAIN history : history[i].event = "rollback"}
    IN  IF rollbacks = {} THEN NoRollback
        ELSE history[CHOOSE i \in rollbacks : \A k \in rollbacks : k <= i]

LatestUnresolvedRollback(history) ==
    FoldRight(ScanStep, history, [retired |-> {}, found |-> NoRollback]).found

-----------------------------------------------------------------------------
(* What the scan is meant to compute: the rollbacks whose failed stage has  *)
(* not been checkpointed since, and the newest of them.                     *)

Retires(history, j, i) ==
    /\ i < j
    /\ history[j].event = "checkpoint_created"
    /\ history[j].stage = history[i].stage

Unresolved(history) ==
    {i \in DOMAIN history :
        /\ history[i].event = "rollback"
        /\ \A j \in DOMAIN history : ~Retires(history, j, i)}

NewestUnresolved(history) ==
    IF Unresolved(history) = {}
    THEN NoRollback
    ELSE history[CHOOSE i \in Unresolved(history) :
                    \A k \in Unresolved(history) : k <= i]
=============================================================================
