-------------------------- MODULE OrchestratorProps --------------------------
(***************************************************************************)
(* What the staged pipeline must guarantee, and the abstract pipeline it   *)
(* implements.                                                             *)
(***************************************************************************)
EXTENDS Orchestrator

(* The number of stages the state file claims are settled. *)
Frontier ==
    IF disk.status \in {"paused", "completed"} THEN disk.stage ELSE disk.stage - 1

Sound(s) == artifact[s].worth = "accepted" /\ artifact[s].current

(* Whatever pipeline_state.json claims is settled is backed by files: each  *)
(* settled stage's file was accepted by its validator and was generated     *)
(* from the file the stage below holds now.  A crash, a rollback, a resume  *)
(* or a fresh run over an old directory never leaves a claim without it.    *)
SettledPrefixSound == \A s \in 1..Frontier : Sound(s)

(* A stage runs with exactly the checkpoints of the stages below it.        *)
CheckpointsArePrefix ==
    /\ pc \in {"top", "run", "validate", "rejected", "checkpoint"}
            => checkpoints = 1..(stage - 1)
    /\ pc = "finish" => checkpoints = 1..stage

SpentBy(state) ==
    state.attempts[0] + state.attempts[1] + state.attempts[2] + state.attempts[3]

RollbacksIn(state) ==
    Cardinality({i \in DOMAIN state.history : state.history[i].event = "rollback"})

(* attempts_by_level and the history tell the same story across crashes and *)
(* resumes: every rollback is charged once, to the level it went back to,   *)
(* and no level is charged more than MaxRegen times.                        *)
RollbacksAccounted ==
    \A state \in {disk, mem} :
        /\ RollbacksIn(state) = SpentBy(state)
        /\ \A l \in Levels : state.attempts[l] <= MaxRegen

(* A stage that is about to run is told about the newest rollback that no   *)
(* later checkpoint has retired, that rollback covers the stage, and it is  *)
(* told nothing only when nothing is outstanding.                           *)
RetryContextAnswers ==
    pc = "run" =>
        /\ RetryContext = NewestUnresolved(mem.history)
        /\ RetryContext # NoRollback =>
               RetryContext.restart <= stage /\ stage <= RetryContext.stage

(* No rollback outstanding when a stage runs belongs to a stage below it:   *)
(* a stage never regenerates against a failure that has been answered.      *)
OutstandingRollbacksAhead ==
    pc = "run" =>
        \A i \in Unresolved(disk.history) : disk.history[i].stage >= stage

(* Failures are charged once each, and each is told to the stages that have *)
(* to answer it, and to no stage above them.                                *)
RollbacksAnswered == RollbacksAccounted /\ RetryContextAnswers /\ OutstandingRollbacksAhead

(* The state file is a journal: until a fresh run replaces it, its history  *)
(* only grows, the rollback level only falls and a level's attempts only    *)
(* rise.                                                                    *)
Extends(old, new) ==
    /\ \A i \in DOMAIN old.history :
          i \in DOMAIN new.history /\ new.history[i] = old.history[i]
    /\ old.level # NoLevel => new.level <= old.level /\ new.level # NoLevel
    /\ \A l \in Levels : old.attempts[l] <= new.attempts[l]

JournalStep ==
    \/ disk'.history = <<>> /\ disk'.level = NoLevel
    \/ Extends(disk, disk')

JournalOnlyGrows == [][JournalStep]_disk

(* The pipeline as BoundedPipeline describes it, read off the state file.   *)
Abstract == INSTANCE BoundedPipeline WITH
    verdict  <- IF disk.status = "running" THEN "open" ELSE disk.status,
    frontier <- Frontier,
    spent    <- SpentBy(disk)

(* The code implements the abstract pipeline: no step of any process, no    *)
(* crash and no resume shows in the state file as anything but a step of it.*)
ImplementsBoundedPipeline == Abstract!Spec

(* A process that is not killed ends: the regenerations are bounded, so the *)
(* loop `while True' is left.                                               *)
RunEnds == pc # "idle" ~> pc = "idle"
-----------------------------------------------------------------------------
(* The inductive strengthening behind the theorems of OrchestratorProofs.  *)

(* attempt and attempts_by_level follow the rollback level downwards.       *)
LedgerInv(state) ==
    /\ state.attempt <= MaxRegen
    /\ \A l \in Levels : state.attempts[l] <= MaxRegen
    /\ state.level = NoLevel => \A l \in Levels : state.attempts[l] = 0
    /\ state.level # NoLevel =>
           /\ state.attempt = state.attempts[state.level]
           /\ \A l \in Levels : l < state.level => state.attempts[l] = 0

(* The failure in hand has been charged once, in memory only.               *)
ChargedOnce ==
    /\ disk.status = "running" /\ disk.stage = stage
    /\ mem.level # NoLevel /\ mem.stage = mem.level + 1
    /\ SpentBy(mem) = SpentBy(disk) + 1
    /\ checkpoints = 1..mem.level

(* How the process's memory relates to the file at each phase.              *)
MemoryInv ==
    /\ pc # "idle" => stage <= until /\ mem.status = "running" /\ mem.level < stage
    /\ pc = "top" =>
           \/ mem = Fresh /\ stage = 1
           \/ /\ disk.status \in {"running", "paused"}
              /\ mem = [disk EXCEPT !.status = "running"]
              /\ stage = disk.stage + 1 \/ (stage = disk.stage /\ disk.status = "running")
    /\ pc \notin {"idle", "top", "failing"} => mem = disk /\ mem.stage = stage
    /\ pc = "failing" =>
           \/ mem = disk /\ mem.stage = stage /\ checkpoints = 1..(stage - 1)
           \/ ChargedOnce
    /\ pc = "finish" => stage = until

DiskInv ==
    /\ disk.status \in {"running", "paused", "completed"} => disk.level < disk.stage
    /\ disk.status = "completed" => disk.stage = 4
    /\ disk.status = "paused" => disk.stage < 4
    /\ disk.status = "absent" => disk = [Fresh EXCEPT !.status = "absent"]

(* The files below the stage in hand are sound, and so is its own once the  *)
(* validator has accepted it.                                               *)
ArtifactInv ==
    /\ SettledPrefixSound
    /\ pc # "idle" => \A s \in Stages : s < stage => Sound(s)
    /\ pc = "validate" => artifact[stage].current
    /\ pc \in {"checkpoint", "finish"} => Sound(stage)

OutstandingAbove(state, s) ==
    \A i \in Unresolved(state.history) : state.history[i].stage > s

HistoryInv ==
    /\ disk.status \in {"running", "paused"} => OutstandingAbove(disk, Frontier)
    /\ pc # "idle" => OutstandingAbove(mem, stage - 1)
    /\ pc = "finish" => OutstandingAbove(mem, stage)

IInv ==
    /\ TypeOK
    /\ LedgerInv(disk) /\ LedgerInv(mem)
    /\ MemoryInv
    /\ DiskInv
    /\ ArtifactInv
    /\ CheckpointsArePrefix
    /\ HistoryInv

(* For the journal: what a process has not saved yet only adds to the file. *)
JournalInv == pc = "failing" => Extends(disk, mem)

(* For the answers: of the rollbacks outstanding in a history, each goes    *)
(* back no further than s, or a newer one covers the gap up to its stage.   *)
Covered(history, s) ==
    \A i \in Unresolved(history) :
        \/ history[i].restart <= s
        \/ \E j \in Unresolved(history) :
              i < j /\ history[i].restart <= history[j].stage

CoverInv ==
    /\ disk.status \in {"running", "paused"} => Covered(disk.history, disk.stage)
    /\ pc # "idle" => Covered(mem.history, stage)
=============================================================================
