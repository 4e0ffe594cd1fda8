------------------------- MODULE OrchestratorProofs -------------------------
(***************************************************************************)
(* Proofs about the staged pipeline, for every MaxRegen and MaxRuns.       *)
(***************************************************************************)
EXTENDS OrchestratorProps, FoldLemmas

(* What a decision must look like when the level lies below the failed      *)
(* stage: exhausted exactly at ROOT_INPUT with no regeneration left, and    *)
(* otherwise a level below the failed stage, never above the current one,   *)
(* whose attempt count goes up by one or starts at one.                     *)
DecisionOK(d, failed, level, attempt) ==
    \/ /\ d.exhausted = TRUE
       /\ level = 0
       /\ attempt = MaxRegen
    \/ /\ d.exhausted = FALSE
       /\ d.level \in Levels
       /\ d.level < failed
       /\ d.restart = d.level + 1
       /\ d.attempt \in 1..MaxRegen
       /\ \/ level = NoLevel /\ d.attempt = 1
          \/ level # NoLevel /\ d.level = level /\ d.attempt = attempt + 1
          \/ level # NoLevel /\ d.level = level - 1 /\ d.attempt = 1

LEMMA DecisionFacts ==
    ASSUME NEW failed \in Stages,
           NEW level \in Levels \cup {NoLevel},
           NEW attempt \in 1..MaxRegen,
           level < failed
    PROVE  DecisionOK(AfterFailure(failed, level, attempt), failed, level, attempt)
  <1> USE MaxRegenAssumption DEF Stages, Levels, NoLevel
  <1>1. CASE level = NoLevel
    <2>1. AfterFailure(failed, level, attempt) = RestartFrom(failed - 1, 1)
      BY <1>1 DEF AfterFailure
    <2>2. DecisionOK(RestartFrom(failed - 1, 1), failed, level, attempt)
      BY <1>1 DEF RestartFrom, DecisionOK
    <2>3. QED
      BY <2>1, <2>2
  <1>2. CASE level # NoLevel /\ attempt < MaxRegen
    <2>1. AfterFailure(failed, level, attempt) = RestartFrom(level, attempt + 1)
      BY <1>2 DEF AfterFailure
    <2>2. DecisionOK(RestartFrom(level, attempt + 1), failed, level, attempt)
      BY <1>2 DEF RestartFrom, DecisionOK
    <2>3. QED
      BY <2>1, <2>2
  <1>3. CASE level = 0 /\ ~(attempt < MaxRegen)
    <2>1. AfterFailure(failed, level, attempt) = Exhausted(attempt)
      BY <1>3 DEF AfterFailure
    <2>2. DecisionOK(Exhausted(attempt), failed, level, attempt)
      BY <1>3 DEF Exhausted, DecisionOK
    <2>3. QED
      BY <2>1, <2>2
  <1>4. CASE level \in 1..3 /\ ~(attempt < MaxRegen)
    <2>1. AfterFailure(failed, level, attempt) = RestartFrom(level - 1, 1)
      BY <1>4 DEF AfterFailure
    <2>2. DecisionOK(RestartFrom(level - 1, 1), failed, level, attempt)
      BY <1>4 DEF RestartFrom, DecisionOK
    <2>3. QED
      BY <2>1, <2>2
  <1>5. QED
    BY <1>1, <1>2, <1>3, <1>4

(* Event i was outstanding in h and is the same event in the longer g.      *)
Kept(g, h, i) == i \in Unresolved(h) /\ g[i] = h[i]

(* Recording a checkpoint retires the rollbacks of its stage and adds none. *)
LEMMA UnresolvedAfterCheckpoint ==
    ASSUME NEW h \in Seq(Events), NEW s \in Stages,
           NEW i \in Unresolved(Append(h, CheckpointCreated(s)))
    PROVE  Kept(Append(h, CheckpointCreated(s)), h, i) /\ h[i].stage # s
  <1> DEFINE e == CheckpointCreated(s)
             g == Append(h, e)
  <1>1. /\ e \in Events
        /\ e.event = "checkpoint_created" /\ e.stage = s
    BY DEF CheckpointCreated, Events
  <1>2. /\ DOMAIN h = 1..Len(h) /\ DOMAIN g = 1..(Len(h) + 1)
        /\ g[Len(h) + 1] = e
        /\ \A k \in 1..Len(h) : g[k] = h[k]
        /\ Len(h) \in Nat
    BY <1>1
  <1>3. i \in DOMAIN g /\ g[i].event = "rollback" /\ \A j \in DOMAIN g : ~Retires(g, j, i)
    BY DEF Unresolved
  <1>4. i \in 1..Len(h) /\ g[i] = h[i]
    BY <1>1, <1>2, <1>3
  <1>5. \A j \in DOMAIN h : ~Retires(h, j, i)
    BY <1>2, <1>3, <1>4 DEF Retires
  <1>6. h[i].stage # s
    <2>1. ~Retires(g, Len(h) + 1, i)
      BY <1>2, <1>3
    <2>2. QED
      BY <1>1, <1>2, <1>4, <2>1 DEF Retires
  <1>7. QED
    BY <1>2, <1>3, <1>4, <1>5, <1>6 DEF Unresolved, Kept

(* Recording a rollback adds only that rollback to the outstanding ones.    *)
LEMMA UnresolvedAfterRollback ==
    ASSUME NEW h \in Seq(Events), NEW s \in Stages, NEW r \in Stages,
           NEW i \in Unresolved(Append(h, Rollback(s, r)))
    PROVE  \/ Kept(Append(h, Rollback(s, r)), h, i)
           \/ Append(h, Rollback(s, r))[i].stage = s
  <1> DEFINE e == Rollback(s, r)
             g == Append(h, e)
  <1>1. e \in Events /\ e.stage = s
    BY DEF Rollback, Events
  <1>2. /\ DOMAIN h = 1..Len(h) /\ DOMAIN g = 1..(Len(h) + 1)
        /\ g[Len(h) + 1] = e
        /\ \A k \in 1..Len(h) : g[k] = h[k]
        /\ Len(h) \in Nat
    BY <1>1
  <1>3. i \in DOMAIN g /\ g[i].event = "rollback" /\ \A j \in DOMAIN g : ~Retires(g, j, i)
    BY DEF Unresolved
  <1>4. CASE i = Len(h) + 1
    BY <1>1, <1>2, <1>4
  <1>5. CASE i \in 1..Len(h)
    <2>1. \A j \in DOMAIN h : ~Retires(h, j, i)
      BY <1>2, <1>3, <1>5 DEF Retires
    <2>2. QED
      BY <1>2, <1>3, <1>5, <2>1 DEF Unresolved, Kept
  <1>6. QED
    BY <1>2, <1>3, <1>4, <1>5

-----------------------------------------------------------------------------
(* IInv holds initially and every action preserves it.                     *)

LEMMA FreshIsPipelineState ==
    /\ Fresh \in PipelineStates
    /\ LedgerInv(Fresh)
    /\ Unresolved(Fresh.history) = {}
  BY MaxRegenAssumption
     DEF Fresh, PipelineStates, Statuses, Stages, Levels, NoLevel, LedgerInv, Unresolved

LEMMA InitIInv == Init => IInv
  <1> SUFFICES ASSUME Init PROVE IInv
    OBVIOUS
  <1> USE DEF Init
  <1>1. disk \in PipelineStates /\ mem \in PipelineStates
    BY FreshIsPipelineState DEF PipelineStates, Statuses
  <1>2. TypeOK
    BY <1>1, MaxRunsAssumption DEF TypeOK, Artifacts, Phases, Stages
  <1>3. LedgerInv(disk) /\ LedgerInv(mem)
    BY MaxRegenAssumption DEF Fresh, LedgerInv, NoLevel
  <1>4. MemoryInv /\ DiskInv
    BY DEF MemoryInv, DiskInv, Fresh
  <1>5. ArtifactInv
    BY DEF ArtifactInv, SettledPrefixSound, Frontier, Fresh
  <1>6. CheckpointsArePrefix /\ HistoryInv
    BY DEF CheckpointsArePrefix, HistoryInv, Fresh
  <1>7. QED
    BY <1>2, <1>3, <1>4, <1>5, <1>6 DEF IInv

LEMMA StartFreshIInv ==
    ASSUME IInv, NEW last \in Stages, StartFresh(last) PROVE IInv'
  <1> USE DEF IInv, StartFresh, Launch
  <1>1. TypeOK'
    BY FreshIsPipelineState, MaxRunsAssumption DEF TypeOK, Phases, Stages
  <1>2. LedgerInv(disk)' /\ LedgerInv(mem)'
    BY FreshIsPipelineState DEF LedgerInv
  <1>3. MemoryInv' /\ DiskInv'
    BY DEF MemoryInv, DiskInv, Fresh, NoLevel, Stages
  <1>4. ArtifactInv'
    BY DEF ArtifactInv, SettledPrefixSound, Frontier, Sound, Stages
  <1>5. CheckpointsArePrefix'
    BY DEF CheckpointsArePrefix
  <1>6. HistoryInv'
    BY FreshIsPipelineState DEF HistoryInv, OutstandingAbove, Frontier
  <1>7. QED
    BY <1>1, <1>2, <1>3, <1>4, <1>5, <1>6 DEF IInv

LEMMA ResumeIInv ==
    ASSUME IInv, NEW last \in Stages, Resume(last) PROVE IInv'
  <1> USE DEF IInv, Resume, Launch
  <1>0. disk.status # "completed"
    BY DEF DiskInv, ResumeStage, Stages
  <1>a. ResumeStage = Frontier + 1 /\ ResumeStage \in Stages /\ Frontier \in 0..3
    BY SMTT(30), <1>0 DEF ResumeStage, Frontier, TypeOK, PipelineStates, Stages
  <1>b. [disk EXCEPT !.status = "running"] \in PipelineStates
    BY DEF TypeOK, PipelineStates, Statuses
  <1>1. TypeOK'
    BY <1>a, <1>b, MaxRunsAssumption DEF TypeOK, Phases, Stages
  <1>2. LedgerInv(disk)' /\ LedgerInv(mem)'
    BY DEF LedgerInv, TypeOK, PipelineStates
  <1>3. MemoryInv' /\ DiskInv'
    BY SMTT(30), <1>0 DEF MemoryInv, DiskInv, ResumeStage, TypeOK, PipelineStates, Stages, Levels, NoLevel
  <1>4. ArtifactInv'
    <2>1. Frontier' = Frontier /\ Frontier \in 0..4 /\ stage' = Frontier + 1 /\ pc' = "top"
      BY <1>a DEF Frontier, Stages
    <2>2. \A s \in Stages : Sound(s)' = Sound(s)
      BY DEF Sound
    <2>3. \A s \in 1..Frontier : Sound(s)
      BY DEF ArtifactInv, SettledPrefixSound
    <2>4. QED
      BY <2>1, <2>2, <2>3 DEF ArtifactInv, SettledPrefixSound, Stages
  <1>5. CheckpointsArePrefix'
    BY DEF CheckpointsArePrefix
  <1>6. HistoryInv'
    BY SMTT(30), <1>0, <1>a DEF HistoryInv, OutstandingAbove, Frontier, TypeOK, PipelineStates, Stages
  <1>7. QED
    BY <1>1, <1>2, <1>3, <1>4, <1>5, <1>6 DEF IInv

LEMMA BeginStageIInv ==
    ASSUME IInv, BeginStage PROVE IInv'
  <1> USE DEF IInv, BeginStage, Save
  <1>1. TypeOK'
    BY DEF TypeOK, PipelineStates, Phases, Stages
  <1>2. LedgerInv(disk)' /\ LedgerInv(mem)'
    BY DEF LedgerInv, TypeOK, PipelineStates
  <1>3. MemoryInv' /\ DiskInv'
    BY DEF MemoryInv, DiskInv, TypeOK, PipelineStates
  <1>4. ArtifactInv'
    BY SMTT(30) DEF ArtifactInv, SettledPrefixSound, Frontier, Sound, MemoryInv, TypeOK, PipelineStates, Stages
  <1>5. CheckpointsArePrefix'
    BY DEF CheckpointsArePrefix
  <1>6. HistoryInv'
    BY DEF HistoryInv, OutstandingAbove, Frontier, MemoryInv, TypeOK, PipelineStates, Stages
  <1>7. QED
    BY <1>1, <1>2, <1>3, <1>4, <1>5, <1>6 DEF IInv

(* Steps that leave both state records alone keep everything said of them.  *)
LEMMA StatesUnchanged ==
    ASSUME IInv, disk' = disk, mem' = mem
    PROVE  /\ disk' \in PipelineStates /\ mem' \in PipelineStates
           /\ LedgerInv(disk)' /\ LedgerInv(mem)'
           /\ DiskInv'
           /\ Frontier' = Frontier
           /\ Frontier \in 0..4
           /\ disk.status \in {"running", "paused"} => OutstandingAbove(disk, Frontier)'
  BY DEF IInv, TypeOK, PipelineStates, LedgerInv, DiskInv, Frontier, HistoryInv,
         OutstandingAbove, Stages

LEMMA OverwriteKeepsBelow ==
    ASSUME TypeOK, artifact' = Overwrite(stage)
    PROVE  /\ artifact' \in [Stages -> Artifacts]
           /\ artifact'[stage].current
           /\ \A s \in Stages : s < stage =>
                  /\ artifact'[s].worth = artifact[s].worth
                  /\ artifact'[s].current = artifact[s].current
  <1> USE DEF TypeOK, Artifacts
  <1>1. artifact'[stage] = [worth |-> "written", current |-> TRUE]
    BY DEF Overwrite
  <1>2. ASSUME NEW s \in Stages, s # stage
        PROVE  /\ artifact'[s].worth = artifact[s].worth
               /\ artifact'[s].current = (artifact[s].current /\ s # stage + 1)
               /\ artifact'[s] \in Artifacts
    BY <1>2 DEF Overwrite
  <1>3. ASSUME NEW s \in Stages, s < stage
        PROVE  /\ artifact'[s].worth = artifact[s].worth
               /\ artifact'[s].current = artifact[s].current
    <2>1. s # stage /\ s # stage + 1
      BY <1>3 DEF Stages
    <2>2. artifact[s].current \in BOOLEAN
      OBVIOUS
    <2>3. QED
      BY <1>2, <2>1, <2>2
  <1>4. \A s \in Stages : artifact'[s] \in Artifacts
    <2>1. artifact'[stage] \in Artifacts
      BY <1>1
    <2>2. ASSUME NEW s \in Stages PROVE artifact'[s] \in Artifacts
      <3>1. CASE s = stage
        BY <2>1, <3>1
      <3>2. CASE s # stage
        BY <1>2, <3>2
      <3>3. QED
        BY <3>1, <3>2
    <2>3. QED
      BY <2>2
  <1>5. artifact' \in [Stages -> Artifacts]
    <2>1. artifact' = [s \in Stages |-> artifact'[s]]
      BY DEF Overwrite
    <2>2. QED
      BY <1>4, <2>1 DEF Stages
  <1>6. QED
    BY <1>1, <1>3, <1>5

LEMMA RunStageIInv ==
    ASSUME IInv, RunStage \/ RunRaises PROVE IInv'
  <1> USE DEF IInv, RunStage, RunRaises
  <1>1. disk' = mem' /\ mem.stage = stage /\ Frontier = stage - 1 /\ stage \in Stages
    BY DEF MemoryInv, Frontier, TypeOK
  <1>2. TypeOK'
    BY StatesUnchanged, OverwriteKeepsBelow DEF TypeOK, Phases
  <1>3. MemoryInv'
    BY DEF MemoryInv, CheckpointsArePrefix
  <1>4. \A s \in Stages : s < stage => Sound(s)'
    <2>1. \A s \in Stages : s < stage =>
              /\ artifact'[s].worth = artifact[s].worth
              /\ artifact'[s].current = artifact[s].current
      BY OverwriteKeepsBelow
    <2>2. \A s \in Stages : s < stage => Sound(s)
      BY DEF ArtifactInv
    <2>3. QED
      BY <2>1, <2>2 DEF Sound
  <1>5. ArtifactInv'
    <2>1. Frontier' = stage - 1 /\ stage' = stage
      BY <1>1, StatesUnchanged
    <2>2. pc' = "validate" => artifact'[stage'].current
      BY OverwriteKeepsBelow
    <2>3. QED
      BY <1>1, <1>4, <2>1, <2>2 DEF ArtifactInv, SettledPrefixSound, Stages
  <1>6. CheckpointsArePrefix'
    BY DEF CheckpointsArePrefix
  <1>7. HistoryInv'
    BY StatesUnchanged DEF HistoryInv, OutstandingAbove
  <1>8. QED
    BY StatesUnchanged, <1>2, <1>3, <1>5, <1>6, <1>7

LEMMA ValidateAcceptsIInv ==
    ASSUME IInv, ValidateAccepts PROVE IInv'
  <1> USE DEF IInv, ValidateAccepts, Save
  <1>1. disk = mem /\ mem.status = "running" /\ mem.stage = stage /\ stage \in Stages
    BY DEF MemoryInv, TypeOK
  <1>2. TypeOK'
    BY DEF TypeOK, Phases, Artifacts
  <1>3. MemoryInv'
    BY <1>1 DEF MemoryInv
  <1>4. \A s \in Stages : s <= stage => Sound(s)'
    BY <1>1 DEF ArtifactInv, Sound, TypeOK, Artifacts, Stages
  <1>5. ArtifactInv'
    <2>1. Frontier' = stage - 1 /\ stage' = stage /\ pc' = "checkpoint"
      BY <1>1 DEF Frontier
    <2>2. QED
      BY <1>1, <1>4, <2>1 DEF ArtifactInv, SettledPrefixSound, Stages
  <1>6. CheckpointsArePrefix'
    BY DEF CheckpointsArePrefix
  <1>7. HistoryInv'
    BY <1>1, StatesUnchanged DEF HistoryInv, OutstandingAbove
  <1>8. QED
    BY <1>1, StatesUnchanged, <1>2, <1>3, <1>5, <1>6, <1>7

(* A failing validator or publication changes nothing but the phase.        *)
LEMMA FailingIInv ==
    ASSUME IInv, ValidateRejects \/ ValidateRaises \/ CheckpointRaises PROVE IInv'
  <1> USE DEF IInv, ValidateRejects, ValidateRaises, CheckpointRaises
  <1>1. /\ disk' = disk /\ mem' = mem /\ artifact' = artifact /\ stage' = stage
        /\ until' = until /\ checkpoints' = checkpoints /\ runs' = runs
        /\ pc \in {"validate", "checkpoint"} /\ pc' \in {"rejected", "failing"}
    BY DEF MemoryInv, Save
  <1>2. TypeOK' /\ MemoryInv' /\ CheckpointsArePrefix'
    BY <1>1 DEF TypeOK, Phases, MemoryInv, CheckpointsArePrefix
  <1>3. ArtifactInv'
    BY <1>1, StatesUnchanged DEF ArtifactInv, SettledPrefixSound, Sound
  <1>4. HistoryInv'
    BY <1>1, StatesUnchanged DEF HistoryInv, OutstandingAbove
  <1>5. QED
    BY <1>1, StatesUnchanged, <1>2, <1>3, <1>4

LEMMA CrashIInv ==
    ASSUME IInv, Crash PROVE IInv'
  <1> USE DEF IInv, Crash
  <1>1. TypeOK' /\ MemoryInv' /\ CheckpointsArePrefix'
    BY DEF TypeOK, Phases, MemoryInv, CheckpointsArePrefix
  <1>2. ArtifactInv'
    BY StatesUnchanged DEF ArtifactInv, SettledPrefixSound, Sound
  <1>3. HistoryInv'
    BY StatesUnchanged DEF HistoryInv, OutstandingAbove
  <1>4. QED
    BY StatesUnchanged, <1>1, <1>2, <1>3

LEMMA CheckpointIInv ==
    ASSUME IInv, Checkpoint PROVE IInv'
  <1> DEFINE h == Append(mem.history, CheckpointCreated(stage))
             state == [mem EXCEPT !.history = h]
  <1>1. /\ TypeOK /\ mem \in PipelineStates /\ mem.history \in Seq(Events)
        /\ disk = mem /\ mem.status = "running" /\ mem.stage = stage
        /\ stage \in Stages /\ until \in Stages /\ stage <= until
        /\ mem.level < stage /\ mem.level \in Levels \cup {NoLevel}
    BY DEF IInv, Checkpoint, MemoryInv, TypeOK, PipelineStates
  <1>2. h \in Seq(Events)
    BY <1>1 DEF CheckpointCreated, Events
  <1>3. /\ disk' = state /\ mem' = state
        /\ artifact' = artifact /\ until' = until /\ runs' = runs
        /\ checkpoints' = checkpoints \cup {stage}
    BY DEF Checkpoint, Save
  <1>4. state \in PipelineStates
    BY <1>1, <1>2 DEF PipelineStates
  <1>5. /\ state.status = "running" /\ state.stage = stage /\ state.history = h
        /\ state.level = mem.level /\ state.attempt = mem.attempt
        /\ state.attempts = mem.attempts
        /\ [state EXCEPT !.status = "running"] = state
    BY <1>1, <1>4 DEF PipelineStates
  <1>6. \/ pc' = "finish" /\ stage = until /\ stage' = stage
        \/ pc' = "top" /\ stage # until /\ stage' = stage + 1
    BY DEF Checkpoint
  <1> HIDE DEF h, state
  <1>7. stage' \in Stages /\ stage' <= until /\ stage' \in {stage, stage + 1}
    BY <1>1, <1>6 DEF Stages
  <1>8. TypeOK'
    BY <1>1, <1>3, <1>4, <1>6, <1>7 DEF TypeOK, Phases
  <1>9. LedgerInv(disk)' /\ LedgerInv(mem)'
    BY <1>3, <1>5 DEF LedgerInv, IInv
  <1>10. MemoryInv'
    <2>1. mem.level < stage'
      BY <1>1, <1>7 DEF Stages, Levels, NoLevel
    <2>2. QED
      BY <1>1, <1>3, <1>5, <1>6, <1>7, <2>1 DEF MemoryInv
  <1>11. DiskInv'
    BY <1>1, <1>3, <1>5 DEF DiskInv
  <1>12. \A s \in Stages : s <= stage => Sound(s)'
    BY <1>1, <1>3 DEF IInv, ArtifactInv, Sound, Stages, Checkpoint
  <1>13. Frontier' = stage - 1
    BY <1>3, <1>5 DEF Frontier
  <1>14. ArtifactInv'
    <2>1. \A s \in Stages : s < stage' => Sound(s)'
      BY <1>1, <1>7, <1>12 DEF Stages
    <2>2. \A s \in 1..(stage - 1) : s \in Stages /\ s <= stage
      BY <1>1 DEF Stages
    <2>3. SettledPrefixSound'
      BY <1>12, <1>13, <2>2 DEF SettledPrefixSound
    <2>4. pc' = "finish" => artifact'[stage'].worth = "accepted" /\ artifact'[stage'].current
      <3>1. artifact[stage].worth = "accepted" /\ artifact[stage].current
        BY DEF IInv, ArtifactInv, Sound, Checkpoint
      <3>2. QED
        BY <1>3, <1>6, <3>1
    <2>5. QED
      BY <1>6, <2>1, <2>3, <2>4 DEF ArtifactInv, Sound
  <1>15. CheckpointsArePrefix'
    <2>1. checkpoints = 1..(stage - 1)
      BY DEF IInv, Checkpoint, CheckpointsArePrefix
    <2>2. (1..(stage - 1)) \cup {stage} = 1..stage
      BY <1>1 DEF Stages
    <2>3. checkpoints' = 1..stage
      BY <1>3, <2>1, <2>2
    <2>4. (stage + 1) - 1 = stage
      BY <1>1 DEF Stages
    <2>5. QED
      BY <1>6, <2>3, <2>4 DEF CheckpointsArePrefix
  <1>16. ASSUME NEW i \in Unresolved(h)
         PROVE  h[i].stage > stage /\ h[i].stage \in Stages
    <2>a. mem.history \in Seq(Events) /\ stage \in Stages
      BY <1>1
    <2>b. i \in Unresolved(Append(mem.history, CheckpointCreated(stage)))
      BY <1>16 DEF h
    <2>c. Kept(h, mem.history, i) /\ mem.history[i].stage # stage
      BY ONLY <2>a, <2>b, UnresolvedAfterCheckpoint, Zenon DEF h
    <2>1. i \in Unresolved(mem.history) /\ h[i] = mem.history[i] /\ mem.history[i].stage # stage
      BY <2>c DEF Kept
    <2>2. mem.history[i].stage > stage - 1
      BY <2>1 DEF IInv, Checkpoint, HistoryInv, OutstandingAbove
    <2>3. mem.history[i].stage \in Stages
      <3>1. i \in DOMAIN mem.history
        BY <2>1 DEF Unresolved
      <3>2. mem.history[i] \in Events
        BY <1>1, <3>1
      <3>3. QED
        BY <3>2 DEF Events
    <2>4. QED
      BY <1>1, <2>1, <2>2, <2>3 DEF Stages
  <1>17. HistoryInv'
    <2>1. \A i \in Unresolved(h) : h[i].stage > stage' - 1 /\ h[i].stage > stage - 1
      BY <1>1, <1>7, <1>16 DEF Stages
    <2>2. QED
      BY <1>3, <1>5, <1>6, <1>13, <1>16, <2>1 DEF HistoryInv, OutstandingAbove
  <1>18. QED
    BY <1>8, <1>9, <1>10, <1>11, <1>14, <1>15, <1>17 DEF IInv

LEMMA FinishIInv ==
    ASSUME IInv, Finish PROVE IInv'
  <1> DEFINE closing == IF stage = 4 THEN "completed" ELSE "paused"
             state == [mem EXCEPT !.status = closing]
  <1> USE DEF IInv, Finish, Save
  <1>1. disk = mem /\ mem.status = "running" /\ mem.stage = stage /\ stage \in Stages
    BY DEF MemoryInv, TypeOK
  <1>2. /\ disk' = state /\ mem' = state
        /\ state \in PipelineStates
        /\ state.status = closing /\ state.stage = stage /\ state.history = mem.history
        /\ state.level = mem.level /\ state.attempt = mem.attempt
        /\ state.attempts = mem.attempts
    <2>1. state \in PipelineStates
      BY DEF TypeOK, PipelineStates, Statuses
    <2>2. QED
      BY <1>1, <2>1 DEF TypeOK, PipelineStates
  <1>3. TypeOK'
    BY <1>1, <1>2 DEF TypeOK, Phases
  <1>4. LedgerInv(disk)' /\ LedgerInv(mem)'
    BY <1>2 DEF LedgerInv
  <1>5. MemoryInv' /\ DiskInv'
    BY <1>1, <1>2 DEF MemoryInv, DiskInv, Stages
  <1>6. Frontier' = stage
    BY <1>2 DEF Frontier
  <1>7. ArtifactInv'
    <2>1. \A s \in 1..stage : Sound(s)
      BY <1>1 DEF ArtifactInv, Stages
    <2>2. QED
      BY <1>6, <2>1 DEF ArtifactInv, SettledPrefixSound, Sound
  <1>8. CheckpointsArePrefix'
    BY DEF CheckpointsArePrefix
  <1>9. HistoryInv'
    BY <1>2, <1>6 DEF HistoryInv, OutstandingAbove
  <1>10. QED
    BY <1>3, <1>4, <1>5, <1>7, <1>8, <1>9

(* The decision taken while a failure is handled is a good one.             *)
LEMMA FailingDecision ==
    ASSUME IInv, Handling
    PROVE  /\ mem.status = "running" /\ mem \in PipelineStates
           /\ disk.status = "running" /\ disk.stage = stage
           /\ stage \in Stages /\ until \in Stages /\ stage <= until
           /\ mem.level \in Levels \cup {NoLevel}
           /\ mem.attempt \in 1..MaxRegen
           /\ DecisionOK(Decision, stage, mem.level, mem.attempt)
           /\ \/ mem = disk /\ mem.stage = stage /\ checkpoints = 1..(stage - 1)
              \/ ChargedOnce /\ pc = "failing"
  <1>1. /\ mem.status = "running" /\ mem \in PipelineStates
        /\ stage \in Stages /\ until \in Stages /\ stage <= until
        /\ mem.level \in Levels \cup {NoLevel}
        /\ mem.level < stage
    BY DEF IInv, MemoryInv, TypeOK, PipelineStates, Handling
  <1>2. mem.attempt \in 1..MaxRegen
    BY MaxRegenAssumption DEF IInv, TypeOK, PipelineStates, LedgerInv
  <1>3. \/ mem = disk /\ mem.stage = stage /\ checkpoints = 1..(stage - 1)
        \/ ChargedOnce /\ pc = "failing"
    BY DEF IInv, MemoryInv, CheckpointsArePrefix, Handling
  <1>4. disk.status = "running" /\ disk.stage = stage
    BY <1>1, <1>3 DEF ChargedOnce
  <1>5. QED
    BY <1>1, <1>2, <1>3, <1>4, DecisionFacts DEF Decision

LEMMA GiveUpIInv ==
    ASSUME IInv, GiveUp PROVE IInv'
  <1> DEFINE state == [mem EXCEPT !.status = "failed"]
  <1> USE DEF IInv, GiveUp, Save
  <1>1. /\ disk.status = "running" /\ disk.stage = stage /\ stage \in Stages
        /\ mem.stage \in Stages /\ mem.stage <= stage
    <2>1. mem.stage = stage \/ mem.stage = mem.level + 1
      BY FailingDecision DEF ChargedOnce
    <2>2. mem.level < stage /\ mem.level \in Levels \cup {NoLevel} /\ mem.stage \in Stages
      BY DEF MemoryInv, TypeOK, PipelineStates, Handling
    <2>3. QED
      BY <2>1, <2>2, FailingDecision DEF Stages, Levels, NoLevel
  <1>2. /\ disk' = state /\ mem' = state
        /\ state \in PipelineStates
        /\ state.status = "failed" /\ state.stage = mem.stage /\ state.history = mem.history
        /\ state.level = mem.level /\ state.attempt = mem.attempt
        /\ state.attempts = mem.attempts
    <2>1. state \in PipelineStates
      BY DEF TypeOK, PipelineStates, Statuses
    <2>2. QED
      BY <1>1, <2>1 DEF TypeOK, PipelineStates
  <1>3. TypeOK'
    BY <1>2 DEF TypeOK, Phases
  <1>4. LedgerInv(disk)' /\ LedgerInv(mem)'
    BY <1>2 DEF LedgerInv
  <1>5. MemoryInv' /\ DiskInv'
    BY <1>2 DEF MemoryInv, DiskInv
  <1>6. Frontier' = mem.stage - 1 /\ Frontier = stage - 1
    BY <1>1, <1>2 DEF Frontier
  <1>7. ArtifactInv'
    BY <1>1, <1>2, <1>6 DEF ArtifactInv, SettledPrefixSound, Sound, Stages
  <1>8. CheckpointsArePrefix' /\ HistoryInv'
    BY <1>2 DEF CheckpointsArePrefix, HistoryInv
  <1>9. QED
    BY <1>2, <1>3, <1>4, <1>5, <1>7, <1>8

(* Charging a good decision to the ledger keeps the ledger in order.        *)
LEMMA LedgerAfterRollback ==
    ASSUME NEW m \in PipelineStates, LedgerInv(m),
           NEW d, NEW failed \in Stages,
           DecisionOK(d, failed, m.level, m.attempt), d.exhausted = FALSE,
           NEW m2, m2.level = d.level, m2.attempt = d.attempt,
           m2.attempts = [m.attempts EXCEPT ![d.level] = d.attempt]
    PROVE  LedgerInv(m2)
  <1> USE MaxRegenAssumption
  <1>1. /\ d.level \in Levels /\ d.attempt \in 1..MaxRegen
        /\ m.attempts \in [Levels -> Nat] /\ m.level \in Levels \cup {NoLevel}
    BY DEF DecisionOK, PipelineStates
  <1>2. /\ m2.attempts[d.level] = d.attempt
        /\ \A l \in Levels : l # d.level => m2.attempts[l] = m.attempts[l]
    BY <1>1
  <1>3. \A l \in Levels : m.attempts[l] <= MaxRegen
    BY DEF LedgerInv
  <1>4. \A l \in Levels : m2.attempts[l] <= MaxRegen
    BY <1>1, <1>2, <1>3
  <1>5. \A l \in Levels : l < d.level => m2.attempts[l] = 0
    <2>1. CASE m.level = NoLevel
      BY <1>1, <1>2, <2>1 DEF LedgerInv, Levels
    <2>2. CASE m.level # NoLevel
      <3>1. d.level <= m.level
        BY <1>1, <2>2 DEF DecisionOK, Levels, NoLevel
      <3>2. \A l \in Levels : l < m.level => m.attempts[l] = 0
        BY <2>2 DEF LedgerInv
      <3>3. QED
        BY <1>1, <1>2, <2>2, <3>1, <3>2 DEF Levels, NoLevel
    <2>3. QED
      BY <2>1, <2>2
  <1>6. QED
    BY <1>1, <1>2, <1>4, <1>5 DEF LedgerInv, Levels, NoLevel

(* What the state record is once a rollback is recorded in it.              *)
LEMMA ChargedFacts ==
    ASSUME IInv, Handling, ~Decision.exhausted
    PROVE  /\ Decision.exhausted = FALSE
           /\ Decision.level \in Levels /\ Decision.level < stage
           /\ Decision.restart = Decision.level + 1
           /\ Decision.restart \in Stages /\ Decision.restart <= stage
           /\ Charged \in PipelineStates
           /\ Charged.status = "running"
           /\ Charged.stage = Decision.level + 1
           /\ Charged.level = Decision.level /\ Charged.attempt = Decision.attempt
           /\ Charged.attempts = [mem.attempts EXCEPT ![Decision.level] = Decision.attempt]
           /\ Charged.history = Append(mem.history, Rollback(stage, Decision.restart))
           /\ LedgerInv(Charged)
  <1>2. /\ mem.status = "running" /\ stage \in Stages
        /\ DecisionOK(Decision, stage, mem.level, mem.attempt)
        /\ mem \in PipelineStates
    BY FailingDecision
  <1> HIDE DEF Decision
  <1>3. /\ Decision.exhausted = FALSE
        /\ Decision.level \in Levels /\ Decision.level < stage
        /\ Decision.restart = Decision.level + 1
        /\ Decision.attempt \in 1..MaxRegen
    BY <1>2 DEF DecisionOK
  <1>4. Decision.restart \in Stages /\ Decision.restart <= stage
    BY <1>2, <1>3 DEF Stages, Levels
  <1>5. Append(mem.history, Rollback(stage, Decision.restart)) \in Seq(Events)
    BY <1>2, <1>4 DEF Rollback, Events, PipelineStates
  <1>6. [mem.attempts EXCEPT ![Decision.level] = Decision.attempt] \in [Levels -> Nat]
    BY <1>2, <1>3, MaxRegenAssumption DEF PipelineStates
  <1>7. Decision.attempt \in Nat \ {0}
    BY <1>3, MaxRegenAssumption
  <1>8. Charged \in PipelineStates
    BY <1>2, <1>3, <1>4, <1>5, <1>6, <1>7 DEF Charged, PipelineStates
  <1>9. /\ Charged.status = "running"
        /\ Charged.stage = Decision.restart
        /\ Charged.level = Decision.level /\ Charged.attempt = Decision.attempt
        /\ Charged.attempts = [mem.attempts EXCEPT ![Decision.level] = Decision.attempt]
        /\ Charged.history = Append(mem.history, Rollback(stage, Decision.restart))
    BY <1>2 DEF Charged, PipelineStates
  <1>10. LedgerInv(Charged)
    <2>1. LedgerInv(mem)
      BY DEF IInv
    <2> HIDE DEF Charged
    <2>2. QED
      BY <1>2, <1>3, <1>9, <2>1, LedgerAfterRollback
  <1>11. QED
    BY <1>3, <1>4, <1>8, <1>9, <1>10

(* Every rollback outstanding in it belongs to the failed stage or above.   *)
LEMMA ChargedOutstanding ==
    ASSUME IInv, Handling, ~Decision.exhausted
    PROVE  OutstandingAbove(Charged, stage - 1)
  <1> DEFINE h == Append(mem.history, Rollback(stage, Decision.restart))
  <1>1. /\ mem.history \in Seq(Events) /\ stage \in Stages /\ Decision.restart \in Stages
        /\ Charged.history = h
        /\ pc \notin {"idle", "finish"}
    BY FailingDecision, ChargedFacts DEF PipelineStates, Handling
  <1> HIDE DEF Charged, Decision
  <1>2. ASSUME NEW i \in Unresolved(h) PROVE h[i].stage > stage - 1
    <2>1. Kept(h, mem.history, i) \/ h[i].stage = stage
      BY ONLY <1>1, <1>2, UnresolvedAfterRollback, Zenon
    <2>2. CASE h[i].stage = stage
      BY <1>1, <2>2 DEF Stages
    <2>3. CASE Kept(h, mem.history, i)
      BY <1>1, <2>3 DEF Kept, IInv, HistoryInv, OutstandingAbove
    <2>4. QED
      BY <2>1, <2>2, <2>3
  <1>3. QED
    BY <1>1, <1>2 DEF OutstandingAbove

(* The part of a lower level's prefix the rollback leaves.                  *)
LEMMA CheckpointsBelow ==
    ASSUME IInv, Handling, ~Decision.exhausted
    PROVE  {s \in checkpoints : s <= Decision.level} = 1..Decision.level
  <1>1. /\ Decision.level \in Levels /\ Decision.level < stage /\ stage \in Stages
        /\ DecisionOK(Decision, stage, mem.level, mem.attempt)
        /\ mem.level \in Levels \cup {NoLevel}
        /\ Decision.exhausted = FALSE
    BY ChargedFacts, FailingDecision
  <1> HIDE DEF Decision
  <1>2. CASE checkpoints = 1..(stage - 1)
    BY <1>1, <1>2 DEF Stages, Levels
  <1>3. CASE ChargedOnce
    <2>1. checkpoints = 1..mem.level /\ mem.level \in Levels
      BY <1>1, <1>3 DEF ChargedOnce
    <2>2. Decision.level <= mem.level
      BY <1>1, <1>3, <2>1 DEF ChargedOnce, DecisionOK, Levels, NoLevel
    <2>3. QED
      BY <1>1, <2>1, <2>2 DEF Levels
  <1>4. QED
    BY <1>2, <1>3, FailingDecision

LEMMA RollBackIInv ==
    ASSUME IInv, RollBack PROVE IInv'
  <1> DEFINE back == Decision.level
  <1>1. /\ Handling /\ ~Decision.exhausted
        /\ disk' = Charged /\ mem' = Charged
        /\ stage' = Decision.restart /\ pc' = "top"
        /\ artifact' = artifact /\ until' = until /\ runs' = runs
        /\ checkpoints' = {s \in checkpoints : s <= Decision.level}
    BY DEF RollBack, Save
  <1>2. /\ back \in Levels /\ back < stage /\ stage' = back + 1
        /\ stage' \in Stages /\ stage' <= stage
        /\ Charged \in PipelineStates /\ LedgerInv(Charged)
        /\ Charged.status = "running" /\ Charged.stage = back + 1 /\ Charged.level = back
        /\ checkpoints' = 1..back
        /\ stage \in Stages /\ until \in Stages /\ stage <= until
        /\ OutstandingAbove(Charged, stage - 1)
    BY <1>1, ChargedFacts, CheckpointsBelow, FailingDecision, ChargedOutstanding
  <1> HIDE DEF back, Charged, Decision
  <1>3. LedgerInv(disk)' /\ LedgerInv(mem)'
    BY <1>1, <1>2 DEF LedgerInv
  <1>4. TypeOK'
    <2>1. 1..back \subseteq Stages
      BY <1>2 DEF Levels, Stages
    <2>2. QED
      BY <1>1, <1>2, <2>1 DEF IInv, TypeOK, Phases
  <1>5. MemoryInv'
    <2>1. stage' <= until' /\ back < stage'
      BY <1>1, <1>2 DEF Stages, Levels
    <2>2. [Charged EXCEPT !.status = "running"] = Charged
      BY <1>2 DEF PipelineStates
    <2>3. QED
      BY <1>1, <1>2, <2>1, <2>2 DEF MemoryInv
  <1>6. DiskInv'
    BY <1>1, <1>2 DEF DiskInv, Levels
  <1>7. Frontier' = back
    BY <1>1, <1>2 DEF Frontier, Levels
  <1>8. ArtifactInv'
    <2>1. \A s \in Stages : s < stage => Sound(s)'
      BY <1>1 DEF IInv, ArtifactInv, Sound, Handling
    <2>2. \A s \in 1..back : s \in Stages /\ s < stage
      BY <1>2 DEF Stages, Levels
    <2>3. \A s \in Stages : s < stage' => s < stage
      BY <1>2 DEF Stages
    <2>4. QED
      BY <1>1, <1>7, <2>1, <2>2, <2>3 DEF ArtifactInv, SettledPrefixSound
  <1>9. CheckpointsArePrefix'
    <2>1. (back + 1) - 1 = back
      BY <1>2 DEF Levels
    <2>2. QED
      BY <1>1, <1>2, <2>1 DEF CheckpointsArePrefix
  <1>10. HistoryInv'
    <2>1. \A i \in Unresolved(Charged.history) :
              Charged.history[i].stage > stage - 1
      BY <1>2 DEF OutstandingAbove
    <2>2. \A i \in Unresolved(Charged.history) : Charged.history[i].stage \in Stages
      <3>1. \A i \in DOMAIN Charged.history : Charged.history[i] \in Events
        BY <1>2 DEF PipelineStates
      <3>2. QED
        BY <3>1 DEF Unresolved, Events
    <2>3. \A i \in Unresolved(Charged.history) : Charged.history[i].stage > back
      BY <1>2, <2>1, <2>2 DEF Stages, Levels
    <2>4. stage' - 1 = back
      BY <1>2 DEF Levels
    <2>5. QED
      BY <1>1, <1>7, <2>3, <2>4 DEF HistoryInv, OutstandingAbove
  <1>11. QED
    BY <1>3, <1>4, <1>5, <1>6, <1>8, <1>9, <1>10 DEF IInv

(* A rollback costs one unit of the ledger it is charged to, and the ledger *)
(* has room for it.                                                         *)
LEMMA ChargedSpends ==
    ASSUME IInv, Handling, ~Decision.exhausted
    PROVE  /\ SpentBy(mem) \in Nat
           /\ SpentBy(Charged) = SpentBy(mem) + 1
           /\ SpentBy(Charged) <= 4 * MaxRegen
  <1> DEFINE back == Decision.level
             a == mem.attempts
             b == Charged.attempts
  <1>1. /\ mem \in PipelineStates
        /\ mem.level \in Levels \cup {NoLevel}
        /\ DecisionOK(Decision, stage, mem.level, mem.attempt)
        /\ LedgerInv(mem)
    BY FailingDecision DEF IInv
  <1>2. /\ Decision.exhausted = FALSE /\ back \in Levels
        /\ b = [a EXCEPT ![back] = Decision.attempt]
        /\ Charged \in PipelineStates /\ LedgerInv(Charged)
    BY ChargedFacts
  <1> HIDE DEF Charged, Decision
  <1>3. a \in [Levels -> Nat] /\ b \in [Levels -> Nat]
    BY <1>1, <1>2 DEF PipelineStates
  <1>4. Decision.attempt = a[back] + 1
    <2>1. CASE mem.level = NoLevel
      BY <1>1, <1>2, <1>3, <2>1 DEF DecisionOK, LedgerInv
    <2>2. CASE mem.level # NoLevel /\ back = mem.level /\ Decision.attempt = mem.attempt + 1
      BY <1>1, <2>2 DEF LedgerInv
    <2>3. CASE mem.level # NoLevel /\ back = mem.level - 1 /\ Decision.attempt = 1
      <3>1. a[back] = 0
        BY <1>1, <1>2, <2>3 DEF LedgerInv, Levels, NoLevel
      <3>2. QED
        BY <2>3, <3>1
    <2>4. QED
      BY <1>1, <1>2, <2>1, <2>2, <2>3 DEF DecisionOK
  <1>5. \A l \in Levels : b[l] <= MaxRegen
    BY <1>2 DEF LedgerInv
  <1>6. \A l \in Levels : b[l] = IF l = back THEN a[l] + 1 ELSE a[l]
    BY <1>2, <1>3, <1>4
  <1> HIDE DEF a, b, back
  <1>7. /\ a[0] \in Nat /\ a[1] \in Nat /\ a[2] \in Nat /\ a[3] \in Nat
        /\ b[0] \in Nat /\ b[1] \in Nat /\ b[2] \in Nat /\ b[3] \in Nat
        /\ b[0] <= MaxRegen /\ b[1] <= MaxRegen /\ b[2] <= MaxRegen /\ b[3] <= MaxRegen
    BY <1>3, <1>5 DEF Levels
  <1>8. b[0] + b[1] + b[2] + b[3] = (a[0] + a[1] + a[2] + a[3]) + 1
    <2>1. /\ b[0] = IF back = 0 THEN a[0] + 1 ELSE a[0]
          /\ b[1] = IF back = 1 THEN a[1] + 1 ELSE a[1]
          /\ b[2] = IF back = 2 THEN a[2] + 1 ELSE a[2]
          /\ b[3] = IF back = 3 THEN a[3] + 1 ELSE a[3]
      BY <1>6 DEF Levels
    <2>2. back = 0 \/ back = 1 \/ back = 2 \/ back = 3
      BY <1>2 DEF Levels
    <2>3. QED
      BY <1>7, <2>1, <2>2
  <1>9. b[0] + b[1] + b[2] + b[3] <= 4 * MaxRegen
    BY <1>7, MaxRegenAssumption
  <1>10. QED
    BY <1>7, <1>8, <1>9 DEF a, b, SpentBy

(* A rollback that could not be saved stays in memory, and its failure is   *)
(* handled again.                                                           *)
LEMMA LoseRollbackIInv ==
    ASSUME IInv, LoseRollback PROVE IInv'
  <1> DEFINE back == Decision.level
  <1>1. /\ Handling /\ ~Decision.exhausted
        /\ disk' = disk /\ mem' = Charged
        /\ pc = "rejected" /\ pc' = "failing" /\ stage' = stage
        /\ artifact' = artifact /\ until' = until /\ runs' = runs
        /\ checkpoints' = {s \in checkpoints : s <= Decision.level}
    BY DEF LoseRollback, Handling
  <1>2. /\ back \in Levels /\ back < stage
        /\ Charged \in PipelineStates /\ LedgerInv(Charged)
        /\ Charged.status = "running" /\ Charged.stage = back + 1 /\ Charged.level = back
        /\ checkpoints' = 1..back
        /\ disk.status = "running" /\ disk.stage = stage /\ mem = disk
        /\ stage \in Stages /\ until \in Stages /\ stage <= until
        /\ OutstandingAbove(Charged, stage - 1)
        /\ SpentBy(Charged) = SpentBy(mem) + 1
    BY <1>1, ChargedFacts, CheckpointsBelow, FailingDecision, ChargedOutstanding, ChargedSpends
  <1> HIDE DEF back, Charged, Decision
  <1>3. LedgerInv(disk)' /\ LedgerInv(mem)'
    BY <1>1, <1>2 DEF IInv, LedgerInv
  <1>4. TypeOK'
    <2>1. 1..back \subseteq Stages
      BY <1>2 DEF Levels, Stages
    <2>2. QED
      BY <1>1, <1>2, <2>1 DEF IInv, TypeOK, Phases
  <1>5. MemoryInv'
    <2>1. ChargedOnce'
      BY <1>1, <1>2 DEF ChargedOnce, SpentBy, Levels, NoLevel
    <2>2. QED
      BY <1>1, <1>2, <2>1 DEF MemoryInv
  <1>6. DiskInv' /\ Frontier' = Frontier
    BY <1>1 DEF IInv, DiskInv, Frontier
  <1>7. ArtifactInv'
    BY <1>1, <1>6 DEF IInv, ArtifactInv, SettledPrefixSound, Sound
  <1>8. CheckpointsArePrefix'
    BY <1>1 DEF CheckpointsArePrefix
  <1>9. HistoryInv'
    BY <1>1, <1>2, <1>6 DEF IInv, HistoryInv, OutstandingAbove
  <1>10. QED
    BY <1>3, <1>4, <1>5, <1>6, <1>7, <1>8, <1>9 DEF IInv

-----------------------------------------------------------------------------
LEMMA StutterIInv ==
    ASSUME IInv, UNCHANGED vars PROVE IInv'
  BY DEF vars, IInv, TypeOK, LedgerInv, MemoryInv, DiskInv, ArtifactInv, SettledPrefixSound,
         Sound, Frontier, CheckpointsArePrefix, HistoryInv, OutstandingAbove, ChargedOnce, SpentBy

LEMMA NextIInv == IInv /\ [Next]_vars => IInv'
  <1> SUFFICES ASSUME IInv, [Next]_vars PROVE IInv'
    OBVIOUS
  <1>1. ASSUME NEW last \in UntilStages, StartFresh(last) PROVE IInv'
    BY <1>1, StartFreshIInv, UntilStagesAssumption
  <1>2. ASSUME NEW last \in UntilStages, Resume(last) PROVE IInv'
    BY <1>2, ResumeIInv, UntilStagesAssumption
  <1>3. CASE BeginStage
    BY <1>3, BeginStageIInv
  <1>4. CASE RunStage \/ RunRaises
    BY <1>4, RunStageIInv
  <1>5. CASE ValidateAccepts
    BY <1>5, ValidateAcceptsIInv
  <1>6. CASE ValidateRejects \/ ValidateRaises \/ CheckpointRaises
    BY <1>6, FailingIInv
  <1>7. CASE Checkpoint
    BY <1>7, CheckpointIInv
  <1>8. CASE Finish
    BY <1>8, FinishIInv
  <1>9. CASE RollBack
    BY <1>9, RollBackIInv
  <1>10. CASE GiveUp
    BY <1>10, GiveUpIInv
  <1>11. CASE Crash
    BY <1>11, CrashIInv
  <1>12. CASE UNCHANGED vars
    BY <1>12, StutterIInv
  <1>13. CASE LoseRollback
    BY <1>13, LoseRollbackIInv
  <1>14. QED
    BY <1>1, <1>2, <1>3, <1>4, <1>5, <1>6, <1>7, <1>8, <1>9, <1>10, <1>11, <1>12, <1>13
       DEF Next, Step

(* The strengthened invariant holds in every reachable state.               *)
THEOREM Invariance == Spec => []IInv
  BY InitIInv, NextIInv, PTL DEF Spec

-----------------------------------------------------------------------------
(* The theorems.                                                           *)

(* Every variable of the pipeline keeps its type: in particular the stage   *)
(* in hand never leaves 1..4 and a decision never yields a foreign level.   *)
THEOREM TypeCorrect == Spec => []TypeOK
  BY Invariance, PTL DEF IInv

(* Whatever pipeline_state.json claims is settled is backed by accepted     *)
(* files that were generated from each other, for any number of runs,       *)
(* crashes and resumes and any regeneration budget.                         *)
THEOREM SettledPrefix == Spec => []SettledPrefixSound
  <1>1. IInv => SettledPrefixSound
    BY DEF IInv, ArtifactInv
  <1>2. QED
    BY <1>1, Invariance, PTL

(* A stage runs with exactly the checkpoints of the stages below it.        *)
THEOREM CheckpointPrefix == Spec => []CheckpointsArePrefix
  <1>1. IInv => CheckpointsArePrefix
    BY DEF IInv
  <1>2. QED
    BY <1>1, Invariance, PTL

(* When a stage runs, no failure of a stage below it is still outstanding.  *)
THEOREM OutstandingAhead == Spec => []OutstandingRollbacksAhead
  <1>1. ASSUME IInv, pc = "run", NEW i \in Unresolved(disk.history)
        PROVE  disk.history[i].stage >= stage
    <2>1. disk = mem /\ stage \in Stages /\ disk.history \in Seq(Events)
      BY <1>1 DEF IInv, MemoryInv, TypeOK, PipelineStates
    <2>2. mem.history[i].stage > stage - 1
      BY <1>1, <2>1 DEF IInv, HistoryInv, OutstandingAbove
    <2>3. i \in DOMAIN disk.history
      BY <1>1 DEF Unresolved
    <2>4. disk.history[i] \in Events
      BY <2>1, <2>3
    <2>5. disk.history[i].stage \in Stages
      BY <2>4 DEF Events
    <2>6. QED
      BY <2>1, <2>2, <2>5 DEF Stages
  <1>2. IInv => OutstandingRollbacksAhead
    BY <1>1 DEF OutstandingRollbacksAhead
  <1>3. QED
    BY <1>2, Invariance, PTL

-----------------------------------------------------------------------------
(* The state file implements BoundedPipeline, one action at a time.         *)

(* The steps that leave the file's claim as it is.                          *)
LEMMA QuietSteps ==
    ASSUME IInv,
           \/ \E last \in UntilStages : StartFresh(last) \/ Resume(last)
           \/ RunStage \/ RunRaises \/ ValidateAccepts \/ ValidateRejects \/ ValidateRaises
           \/ LoseRollback \/ CheckpointRaises \/ Crash
           \/ UNCHANGED vars
    PROVE  UNCHANGED Abstract!vars
  <1>1. disk' = disk
    BY DEF IInv, MemoryInv, StartFresh, Resume, Launch, RunStage, RunRaises, ValidateAccepts,
           ValidateRejects, ValidateRaises, LoseRollback, CheckpointRaises, Crash, Save, vars
  <1>2. QED
    BY <1>1 DEF Abstract!vars, Frontier, SpentBy

LEMMA BeginStageRefines ==
    ASSUME IInv, BeginStage PROVE [Abstract!Next]_(Abstract!vars)
  <1>1. /\ disk' = [mem EXCEPT !.stage = stage]
        /\ mem \in PipelineStates /\ mem.status = "running" /\ stage \in Stages
        /\ disk \in PipelineStates
        /\ \/ mem = Fresh /\ stage = 1
           \/ /\ disk.status \in {"running", "paused"}
              /\ mem = [disk EXCEPT !.status = "running"]
              /\ stage = disk.stage + 1 \/ (stage = disk.stage /\ disk.status = "running")
    BY DEF IInv, BeginStage, Save, MemoryInv, TypeOK
  <1>2. /\ disk'.status = "running" /\ disk'.stage = stage /\ disk'.attempts = mem.attempts
    BY <1>1 DEF PipelineStates
  <1>3. Frontier' = stage - 1
    BY <1>2 DEF Frontier
  <1>4. CASE mem = Fresh /\ stage = 1
    <2>1. SpentBy(disk)' = 0
      BY <1>2, <1>4 DEF SpentBy, Fresh, Levels
    <2>2. Abstract!Begin
      BY <1>2, <1>3, <1>4, <2>1 DEF Abstract!Begin
    <2>3. QED
      BY <2>2 DEF Abstract!Next
  <1>5. CASE /\ disk.status \in {"running", "paused"}
             /\ mem = [disk EXCEPT !.status = "running"]
             /\ stage = disk.stage + 1 \/ (stage = disk.stage /\ disk.status = "running")
    <2>1. SpentBy(disk)' = SpentBy(disk)
      BY <1>1, <1>2, <1>5 DEF SpentBy, PipelineStates
    <2>2. CASE disk.status = "running" /\ stage = disk.stage
      <3>1. Frontier' = Frontier
        BY <1>3, <2>2 DEF Frontier
      <3>2. QED
        BY <1>2, <2>1, <2>2, <3>1 DEF Abstract!vars
    <2>3. CASE disk.status = "running" /\ stage = disk.stage + 1
      <3>1. Frontier' = Frontier + 1 /\ Frontier < 4
        BY <1>1, <1>3, <2>3 DEF Frontier, PipelineStates, Stages
      <3>2. Abstract!Advance
        BY <1>2, <2>1, <2>3, <3>1 DEF Abstract!Advance, Abstract!Last
      <3>3. QED
        BY <3>2 DEF Abstract!Next
    <2>4. CASE disk.status = "paused" /\ stage = disk.stage + 1
      <3>1. Frontier' = Frontier
        BY <1>1, <1>3, <2>4 DEF Frontier, PipelineStates, Stages
      <3>2. Abstract!Reopen
        BY <1>2, <2>1, <2>4, <3>1 DEF Abstract!Reopen
      <3>3. QED
        BY <3>2 DEF Abstract!Next
    <2>5. QED
      BY <1>5, <2>2, <2>3, <2>4
  <1>6. QED
    BY <1>1, <1>4, <1>5

LEMMA CheckpointRefines ==
    ASSUME IInv, Checkpoint PROVE UNCHANGED Abstract!vars
  <1>1. disk' = [disk EXCEPT !.history = Append(@, CheckpointCreated(stage))]
        /\ disk \in PipelineStates
    BY DEF IInv, Checkpoint, Save, MemoryInv, TypeOK
  <1>2. disk'.status = disk.status /\ disk'.stage = disk.stage /\ disk'.attempts = disk.attempts
    BY <1>1 DEF PipelineStates
  <1>3. QED
    BY <1>2 DEF Abstract!vars, Frontier, SpentBy

LEMMA FinishRefines ==
    ASSUME IInv, Finish PROVE Abstract!Close
  <1>1. /\ disk = mem /\ mem.status = "running" /\ mem.stage = stage /\ stage \in Stages
        /\ disk \in PipelineStates
        /\ disk' = [mem EXCEPT !.status = IF stage = 4 THEN "completed" ELSE "paused"]
    BY DEF IInv, Finish, Save, MemoryInv, TypeOK
  <1>2. /\ disk'.status = IF stage = 4 THEN "completed" ELSE "paused"
        /\ disk'.stage = stage /\ disk'.attempts = disk.attempts
    BY <1>1 DEF PipelineStates
  <1>3. Frontier = stage - 1 /\ Frontier' = stage
    BY <1>1, <1>2 DEF Frontier
  <1>4. SpentBy(disk)' = SpentBy(disk)
    BY <1>2 DEF SpentBy
  <1>5. QED
    BY <1>1, <1>2, <1>3, <1>4 DEF Abstract!Close, Abstract!Last, Stages

(* A state that is given up has spent at least the budget of ROOT_INPUT.    *)
LEMMA GiveUpRefines ==
    ASSUME IInv, GiveUp PROVE Abstract!GiveUp
  <1>1. /\ disk.status = "running" /\ disk.stage = stage /\ stage \in Stages
        /\ disk \in PipelineStates /\ mem \in PipelineStates
        /\ DecisionOK(Decision, stage, mem.level, mem.attempt)
        /\ Decision.exhausted
        /\ (mem = disk /\ mem.stage = stage) \/ ChargedOnce
        /\ disk' = [mem EXCEPT !.status = "failed"]
        /\ LedgerInv(mem)
    BY FailingDecision DEF IInv, GiveUp, Save, TypeOK
  <1>2. mem.level = 0 /\ mem.attempt = MaxRegen
    BY <1>1 DEF DecisionOK
  <1>3. mem.attempts[0] = MaxRegen
    BY <1>1, <1>2 DEF LedgerInv, NoLevel
  <1>4. SpentBy(mem) >= MaxRegen /\ SpentBy(mem) <= 4 * MaxRegen
    <2>1. mem.attempts \in [Levels -> Nat]
      BY <1>1 DEF PipelineStates
    <2>2. /\ mem.attempts[0] \in Nat /\ mem.attempts[1] \in Nat
          /\ mem.attempts[2] \in Nat /\ mem.attempts[3] \in Nat
          /\ mem.attempts[1] <= MaxRegen /\ mem.attempts[2] <= MaxRegen
          /\ mem.attempts[3] <= MaxRegen
      BY <1>1, <2>1 DEF Levels, LedgerInv
    <2>3. QED
      BY <1>3, <2>2, MaxRegenAssumption DEF SpentBy
  <1>5. disk'.status = "failed" /\ disk'.stage = mem.stage /\ disk'.attempts = mem.attempts
    BY <1>1 DEF PipelineStates
  <1>6. SpentBy(disk)' \in {SpentBy(disk), SpentBy(disk) + 1}
    BY <1>1, <1>5 DEF SpentBy, ChargedOnce
  <1>7. Frontier' \in 0..Frontier
    <2>1. mem.stage = stage \/ mem.stage = 1
      BY <1>1, <1>2 DEF ChargedOnce
    <2>2. QED
      BY <1>1, <1>5, <2>1 DEF Frontier, Stages
  <1>8. SpentBy(disk)' = SpentBy(mem)
    BY <1>5 DEF SpentBy
  <1>9. QED
    BY <1>1, <1>4, <1>5, <1>6, <1>7, <1>8
       DEF Abstract!GiveUp, Abstract!Budget, Abstract!Last

(* A rollback that reaches the file charges what the file has not seen yet: *)
(* one unit, or two when the first charge of the failure was lost.          *)
LEMMA RollBackRefines ==
    ASSUME IInv, RollBack PROVE Abstract!FallBack
  <1>1. /\ Handling /\ ~Decision.exhausted /\ disk' = Charged
    BY DEF RollBack, Save
  <1>2. /\ disk.status = "running" /\ disk.stage = stage /\ stage \in Stages
        /\ Decision.level \in Levels /\ Decision.level < stage
        /\ Charged.status = "running" /\ Charged.stage = Decision.level + 1
        /\ mem = disk \/ ChargedOnce
    BY <1>1, FailingDecision, ChargedFacts
  <1>3. Frontier = stage - 1 /\ Frontier' = Decision.level
    BY <1>1, <1>2 DEF Frontier, Levels
  <1>4. Frontier' \in 0..Frontier
    BY <1>2, <1>3 DEF Stages, Levels
  <1> HIDE DEF Decision, Charged
  <1>5. /\ SpentBy(mem) \in Nat /\ SpentBy(disk)' = SpentBy(mem) + 1
        /\ SpentBy(disk)' <= 4 * MaxRegen
    BY <1>1, ChargedSpends DEF SpentBy
  <1>6. SpentBy(disk)' \in {SpentBy(disk) + 1, SpentBy(disk) + 2}
    <2>1. CASE mem = disk
      BY <1>5, <2>1
    <2>2. CASE ChargedOnce
      <3>1. SpentBy(mem) = SpentBy(disk) + 1
        BY <2>2 DEF ChargedOnce
      <3>2. SpentBy(disk) \in Nat
        <4>1. disk.attempts \in [Levels -> Nat]
          BY DEF IInv, TypeOK, PipelineStates
        <4>2. QED
          BY <4>1 DEF SpentBy, Levels
      <3>3. QED
        BY <1>5, <3>1, <3>2
    <2>3. QED
      BY <1>2, <2>1, <2>2
  <1>7. QED
    BY <1>1, <1>2, <1>4, <1>5, <1>6
       DEF Abstract!FallBack, Abstract!Budget, Abstract!Last

LEMMA NextRefines ==
    ASSUME IInv, [Next]_vars PROVE [Abstract!Next]_(Abstract!vars)
  <1>1. CASE BeginStage
    BY <1>1, BeginStageRefines
  <1>2. CASE Checkpoint
    BY <1>2, CheckpointRefines
  <1>3. CASE Finish
    BY <1>3, FinishRefines DEF Abstract!Next
  <1>4. CASE GiveUp
    BY <1>4, GiveUpRefines DEF Abstract!Next
  <1>5. CASE RollBack
    BY <1>5, RollBackRefines DEF Abstract!Next
  <1>6. CASE \/ \E last \in UntilStages : StartFresh(last) \/ Resume(last)
             \/ RunStage \/ RunRaises \/ ValidateAccepts \/ ValidateRejects \/ ValidateRaises
             \/ LoseRollback \/ CheckpointRaises \/ Crash
             \/ UNCHANGED vars
    BY <1>6, QuietSteps
  <1>7. QED
    BY <1>1, <1>2, <1>3, <1>4, <1>5, <1>6 DEF Next, Step

(* The pipeline implements BoundedPipeline: seen through its state file it  *)
(* settles one stage at a time, every fallback spends a unit of a budget    *)
(* of 4 * MaxRegen, and it closes only with the requested stages settled.   *)
THEOREM Refinement == Spec => ImplementsBoundedPipeline
  <1>1. Init => Abstract!Init
    BY DEF Init, Abstract!Init, Fresh, Frontier, SpentBy, Levels
  <1>2. IInv /\ [Next]_vars => [Abstract!Next]_(Abstract!vars)
    BY NextRefines
  <1>3. QED
    BY <1>1, <1>2, Invariance, PTL DEF Spec, ImplementsBoundedPipeline, Abstract!Spec
-----------------------------------------------------------------------------
(* pipeline_state.json as a journal of what was spent: it only grows, and   *)
(* every rollback in its history is charged once, for every MaxRegen and    *)
(* MaxRuns.                                                                 *)

(* What a state record is extended to, it is extended to in two steps too.  *)
LEMMA ExtendsTransitive ==
    ASSUME NEW a \in PipelineStates, NEW b \in PipelineStates, NEW c \in PipelineStates,
           Extends(a, b), Extends(b, c)
    PROVE  Extends(a, c)
  <1>1. \A i \in DOMAIN a.history : i \in DOMAIN c.history /\ c.history[i] = a.history[i]
    BY DEF Extends
  <1>2. a.level # NoLevel => c.level <= a.level /\ c.level # NoLevel
    <2>1. a.level \in Int /\ b.level \in Int /\ c.level \in Int
      <3>1. Levels \cup {NoLevel} \subseteq Int
        BY DEF Levels, NoLevel
      <3>2. QED
        BY <3>1 DEF PipelineStates
    <2>2. /\ a.level # NoLevel => b.level <= a.level /\ b.level # NoLevel
          /\ b.level # NoLevel => c.level <= b.level /\ c.level # NoLevel
      BY DEF Extends
    <2>3. QED
      BY <2>1, <2>2
  <1>3. ASSUME NEW l \in Levels PROVE a.attempts[l] <= c.attempts[l]
    <2>1. a.attempts[l] \in Nat /\ b.attempts[l] \in Nat /\ c.attempts[l] \in Nat
      BY DEF PipelineStates
    <2>2. QED
      BY <2>1 DEF Extends
  <1>4. QED
    BY <1>1, <1>2, <1>3 DEF Extends

(* A record that differs neither in history nor in the ledger extends.      *)
LEMMA ExtendsSame ==
    ASSUME NEW a \in PipelineStates, NEW b,
           b.history = a.history, b.level = a.level, b.attempts = a.attempts
    PROVE  Extends(a, b)
  <1>1. \A l \in Levels : a.attempts[l] \in Nat
    BY DEF PipelineStates
  <1>2. a.level \in Int
    BY DEF PipelineStates, Levels, NoLevel
  <1>3. QED
    BY <1>1, <1>2 DEF Extends

(* Neither does one with one more event.                                    *)
LEMMA ExtendsByEvent ==
    ASSUME NEW a \in PipelineStates, NEW b, NEW e \in Events,
           b.history = Append(a.history, e), b.level = a.level, b.attempts = a.attempts
    PROVE  Extends(a, b)
  <1>1. \A i \in DOMAIN a.history : i \in DOMAIN b.history /\ b.history[i] = a.history[i]
    <2>1. a.history \in Seq(Events)
      BY DEF PipelineStates
    <2>2. QED
      BY <2>1
  <1>2. \A l \in Levels : a.attempts[l] \in Nat
    BY DEF PipelineStates
  <1>3. a.level \in Int
    BY DEF PipelineStates, Levels, NoLevel
  <1>4. QED
    BY <1>1, <1>2, <1>3 DEF Extends

(* A rollback that is charged adds to what the process knows.               *)
LEMMA ChargedExtends ==
    ASSUME IInv, Handling, ~Decision.exhausted
    PROVE  Extends(mem, Charged)
  <1>1. /\ mem \in PipelineStates /\ LedgerInv(mem)
        /\ DecisionOK(Decision, stage, mem.level, mem.attempt)
    BY FailingDecision DEF IInv
  <1>2. /\ Decision.exhausted = FALSE /\ Decision.level \in Levels
        /\ Decision.restart \in Stages /\ stage \in Stages
        /\ Charged.level = Decision.level
        /\ Charged.attempts = [mem.attempts EXCEPT ![Decision.level] = Decision.attempt]
        /\ Charged.history = Append(mem.history, Rollback(stage, Decision.restart))
    BY ChargedFacts, FailingDecision
  <1> HIDE DEF Charged, Decision
  <1>3. \A i \in DOMAIN mem.history :
           i \in DOMAIN Charged.history /\ Charged.history[i] = mem.history[i]
    <2>1. mem.history \in Seq(Events) /\ Rollback(stage, Decision.restart) \in Events
      BY <1>1, <1>2 DEF PipelineStates, Rollback, Events
    <2>2. QED
      BY <1>2, <2>1
  <1>4. mem.level # NoLevel => Charged.level <= mem.level /\ Charged.level # NoLevel
    BY SMTT(30), <1>1, <1>2 DEF DecisionOK, PipelineStates, Levels, NoLevel
  <1>5. mem.attempts \in [Levels -> Nat]
    BY <1>1 DEF PipelineStates
  <1>6. mem.attempts[Decision.level] <= Decision.attempt
    <2>1. CASE mem.level = NoLevel
      BY <1>1, <1>2, <1>5, <2>1, MaxRegenAssumption DEF DecisionOK, LedgerInv
    <2>2. CASE mem.level # NoLevel /\ Decision.level = mem.level /\ Decision.attempt = mem.attempt + 1
      <3>1. mem.attempt = mem.attempts[mem.level] /\ mem.attempt \in Nat
        BY <1>1, <2>2 DEF LedgerInv, PipelineStates
      <3>2. QED
        BY <2>2, <3>1
    <2>3. CASE mem.level # NoLevel /\ Decision.level = mem.level - 1 /\ Decision.attempt = 1
      <3>1. mem.attempts[Decision.level] = 0
        BY <1>1, <1>2, <2>3 DEF LedgerInv, Levels, NoLevel, PipelineStates
      <3>2. QED
        BY <2>3, <3>1
    <2>4. QED
      BY <1>1, <1>2, <2>1, <2>2, <2>3 DEF DecisionOK
  <1>7. \A l \in Levels : mem.attempts[l] <= Charged.attempts[l]
    BY <1>2, <1>5, <1>6
  <1>8. QED
    BY <1>3, <1>4, <1>7 DEF Extends

(* The file holds what the process knows, but for a charge that is lost.    *)
LEMMA FileKnown ==
    ASSUME IInv, JournalInv, Handling
    PROVE  disk \in PipelineStates /\ mem \in PipelineStates /\ Extends(disk, mem)
  <1>1. disk \in PipelineStates /\ mem \in PipelineStates
    BY DEF IInv, TypeOK
  <1>2. CASE pc = "failing"
    BY <1>1, <1>2 DEF JournalInv
  <1>3. CASE mem = disk
    BY <1>1, <1>3, ExtendsSame
  <1>4. QED
    BY <1>1, <1>2, <1>3 DEF IInv, MemoryInv, Handling

(* Every step extends the file, or is the first of a fresh run.             *)
LEMMA NextExtends ==
    ASSUME IInv, JournalInv, [Next]_vars
    PROVE  JournalStep
  <1>1. disk \in PipelineStates /\ mem \in PipelineStates
    BY DEF IInv, TypeOK
  <1>2. CASE BeginStage
    <2>1. disk' = [mem EXCEPT !.stage = stage] /\ pc = "top"
      BY <1>2 DEF BeginStage, Save
    <2>2. disk'.history = mem.history /\ disk'.level = mem.level /\ disk'.attempts = mem.attempts
      BY <1>1, <2>1 DEF PipelineStates
    <2>3. CASE mem = Fresh
      BY <2>2, <2>3 DEF Fresh, JournalStep
    <2>4. CASE mem = [disk EXCEPT !.status = "running"]
      <3>1. mem.history = disk.history /\ mem.level = disk.level /\ mem.attempts = disk.attempts
        BY <1>1, <2>4 DEF PipelineStates
      <3>2. QED
        BY <1>1, <2>2, <3>1, ExtendsSame DEF JournalStep
    <2>5. QED
      BY <2>1, <2>3, <2>4 DEF IInv, MemoryInv
  <1>3. CASE ValidateAccepts \/ ValidateRejects
    <2>1. disk' = disk
      BY <1>3 DEF IInv, MemoryInv, ValidateAccepts, ValidateRejects, Save
    <2>2. QED
      BY <1>1, <2>1, ExtendsSame DEF JournalStep
  <1>4. CASE Checkpoint
    <2>1. /\ disk' = [disk EXCEPT !.history = Append(@, CheckpointCreated(stage))]
          /\ CheckpointCreated(stage) \in Events
      BY <1>4 DEF IInv, MemoryInv, Checkpoint, Save, TypeOK, CheckpointCreated, Events
    <2>2. /\ disk'.history = Append(disk.history, CheckpointCreated(stage))
          /\ disk'.level = disk.level /\ disk'.attempts = disk.attempts
      BY <1>1, <2>1 DEF PipelineStates
    <2>3. QED
      BY <1>1, <2>1, <2>2, ExtendsByEvent DEF JournalStep
  <1>5. CASE Finish
    <2>1. disk' = [disk EXCEPT !.status = IF stage = 4 THEN "completed" ELSE "paused"]
      BY <1>5 DEF IInv, MemoryInv, Finish, Save
    <2>2. disk'.history = disk.history /\ disk'.level = disk.level /\ disk'.attempts = disk.attempts
      BY <1>1, <2>1 DEF PipelineStates
    <2>3. QED
      BY <1>1, <2>2, ExtendsSame DEF JournalStep
  <1>6. CASE GiveUp
    <2>1. Extends(disk, mem)
      BY <1>6, FileKnown DEF GiveUp
    <2>2. disk' = [mem EXCEPT !.status = "failed"]
      BY <1>6 DEF GiveUp, Save
    <2>3. disk'.history = mem.history /\ disk'.level = mem.level /\ disk'.attempts = mem.attempts
      BY <1>1, <2>2 DEF PipelineStates
    <2>4. QED
      BY <2>1, <2>3 DEF Extends, JournalStep
  <1>7. CASE RollBack
    <2>1. disk' = Charged /\ Handling /\ ~Decision.exhausted
      BY <1>7 DEF RollBack, Save
    <2>2. Extends(disk, mem) /\ Extends(mem, Charged) /\ Charged \in PipelineStates
      BY <2>1, FileKnown, ChargedExtends, ChargedFacts
    <2> HIDE DEF Charged
    <2>3. QED
      BY <1>1, <2>1, <2>2, ExtendsTransitive DEF JournalStep
  <1>8. CASE disk' = disk
    BY <1>1, <1>8, ExtendsSame DEF JournalStep
  <1>9. QED
    BY <1>2, <1>3, <1>4, <1>5, <1>6, <1>7, <1>8
       DEF Next, Step, StartFresh, Resume, Launch, RunStage, RunRaises, ValidateRaises,
           CheckpointRaises, LoseRollback, Crash, vars

(* A process that fails has lost at most what it then charges twice.        *)
LEMMA JournalInvKept ==
    ASSUME IInv, JournalInv, [Next]_vars
    PROVE  JournalInv'
  <1>1. disk \in PipelineStates /\ mem \in PipelineStates
    BY DEF IInv, TypeOK
  <1>2. CASE LoseRollback
    <2>1. disk' = disk /\ mem' = Charged /\ Handling /\ ~Decision.exhausted /\ mem = disk
      BY <1>2 DEF LoseRollback, Handling, IInv, MemoryInv
    <2>2. Extends(mem, Charged)
      BY <2>1, ChargedExtends
    <2> HIDE DEF Charged
    <2>3. QED
      BY <2>1, <2>2 DEF JournalInv
  <1>3. CASE RunRaises \/ ValidateRaises \/ CheckpointRaises
    <2>1. disk' = disk /\ mem' = mem /\ mem = disk
      BY <1>3 DEF RunRaises, ValidateRaises, CheckpointRaises, IInv, MemoryInv
    <2>2. QED
      BY <1>1, <2>1, ExtendsSame DEF JournalInv
  <1>4. CASE pc' # "failing"
    BY <1>4 DEF JournalInv
  <1>5. CASE UNCHANGED vars
    BY <1>5 DEF vars, JournalInv
  <1>6. QED
    BY <1>2, <1>3, <1>4, <1>5
       DEF Next, Step, StartFresh, Resume, Launch, BeginStage, RunStage, ValidateAccepts,
           ValidateRejects, Checkpoint, Finish, RollBack, GiveUp, Crash

(* What the file says of a run is never taken back, by whichever process    *)
(* writes it next and however the one before ended: rollbacks stay in the   *)
(* history, the level never rises again and no budget is refilled           *)
(* (PipelineState.save, _handle_failure, --resume).                         *)
THEOREM JournalGrows == Spec => JournalOnlyGrows
  <1>1. Init => JournalInv
    BY DEF Init, JournalInv
  <1>2. IInv /\ JournalInv /\ [Next]_vars => JournalInv' /\ [JournalStep]_disk
    BY JournalInvKept, NextExtends
  <1>3. QED
    BY <1>1, <1>2, Invariance, PTL DEF Spec, JournalOnlyGrows

---------------------------------------------------------------------------
(* Charging.                                                                *)

(* Where a history lists rollbacks.                                         *)
RollbackEvents(h) == {i \in DOMAIN h : h[i].event = "rollback"}

(* An event that is appended counts if it is a rollback.                    *)
LEMMA RollbacksAfterEvent ==
    ASSUME NEW h \in Seq(Events), NEW e \in Events
    PROVE  /\ Cardinality(RollbackEvents(h)) \in Nat
           /\ Cardinality(RollbackEvents(Append(h, e))) =
                 IF e.event = "rollback" THEN Cardinality(RollbackEvents(h)) + 1
                 ELSE Cardinality(RollbackEvents(h))
  <1>1. /\ DOMAIN h = 1..Len(h) /\ Len(h) \in Nat
        /\ DOMAIN Append(h, e) = 1..(Len(h) + 1)
        /\ Append(h, e)[Len(h) + 1] = e
        /\ \A i \in 1..Len(h) : Append(h, e)[i] = h[i]
    OBVIOUS
  <1>2. IsFiniteSet(RollbackEvents(h))
    <2>1. IsFiniteSet(1..Len(h))
      BY <1>1, FS_Interval
    <2>2. RollbackEvents(h) \in SUBSET (1..Len(h))
      BY <1>1 DEF RollbackEvents
    <2>3. QED
      BY <2>1, <2>2, FS_Subset
  <1>3. Cardinality(RollbackEvents(h)) \in Nat
    BY <1>2, FS_CardinalityType
  <1>4. Len(h) + 1 \notin RollbackEvents(h)
    BY <1>1 DEF RollbackEvents
  <1>5. CASE e.event = "rollback"
    <2>1. RollbackEvents(Append(h, e)) = RollbackEvents(h) \cup {Len(h) + 1}
      BY <1>1, <1>5 DEF RollbackEvents
    <2>2. QED
      BY <1>2, <1>3, <1>4, <1>5, <2>1, FS_AddElement
  <1>6. CASE e.event # "rollback"
    <2>1. RollbackEvents(Append(h, e)) = RollbackEvents(h)
      BY <1>1, <1>6 DEF RollbackEvents
    <2>2. QED
      BY <1>3, <1>6, <2>1
  <1>7. QED
    BY <1>3, <1>5, <1>6

(* The inductive strengthening: both records, the one of the file and the   *)
(* one of the process, are charged for exactly the rollbacks they list.     *)
ChargedExactly(state) == RollbacksIn(state) = SpentBy(state)

(* A record with the same history and ledger as another is charged alike.   *)
LEMMA SameCharge ==
    ASSUME NEW a, NEW b, ChargedExactly(a), b.history = a.history, b.attempts = a.attempts
    PROVE  ChargedExactly(b)
  BY DEF ChargedExactly, RollbacksIn, SpentBy

(* A new record has spent nothing and lists nothing.                        *)
LEMMA FreshCharge == ChargedExactly(Fresh)
  <1>1. {i \in DOMAIN Fresh.history : Fresh.history[i].event = "rollback"} = {}
    BY DEF Fresh
  <1>2. SpentBy(Fresh) = 0
    BY DEF SpentBy, Fresh, Levels
  <1>3. QED
    BY <1>1, <1>2, FS_EmptySet DEF ChargedExactly, RollbacksIn

(* A charge is one unit for one more rollback.                              *)
LEMMA ChargedIsExact ==
    ASSUME IInv, Handling, ~Decision.exhausted, ChargedExactly(mem)
    PROVE  ChargedExactly(Charged)
  <1>1. /\ SpentBy(Charged) = SpentBy(mem) + 1
        /\ Charged.history = Append(mem.history, Rollback(stage, Decision.restart))
        /\ Decision.restart \in Stages /\ stage \in Stages /\ mem.history \in Seq(Events)
    BY ChargedSpends, ChargedFacts, FailingDecision DEF PipelineStates
  <1> HIDE DEF Charged, Decision
  <1>2. /\ Rollback(stage, Decision.restart) \in Events
        /\ Rollback(stage, Decision.restart).event = "rollback"
    BY <1>1 DEF Rollback, Events
  <1>3. Cardinality(RollbackEvents(Charged.history)) = Cardinality(RollbackEvents(mem.history)) + 1
    BY <1>1, <1>2, RollbacksAfterEvent
  <1>4. QED
    BY <1>1, <1>3 DEF ChargedExactly, RollbacksIn, RollbackEvents

(* Every step keeps both records charged for what they list.                *)
LEMMA ChargedKept ==
    ASSUME IInv, ChargedExactly(disk), ChargedExactly(mem), [Next]_vars
    PROVE  ChargedExactly(disk)' /\ ChargedExactly(mem)'
  <1>1. disk \in PipelineStates /\ mem \in PipelineStates
    BY DEF IInv, TypeOK
  <1>2. ASSUME NEW last, StartFresh(last)
        PROVE  ChargedExactly(disk') /\ ChargedExactly(mem')
    BY <1>2, FreshCharge DEF StartFresh, Launch
  <1>3. ASSUME NEW last, Resume(last)
        PROVE  ChargedExactly(disk') /\ ChargedExactly(mem')
    <2>1. disk' = disk /\ mem' = [disk EXCEPT !.status = "running"]
      BY <1>3 DEF Resume, Launch
    <2>2. mem'.history = disk.history /\ mem'.attempts = disk.attempts
      BY <1>1, <2>1 DEF PipelineStates
    <2>3. QED
      BY <2>1, <2>2, SameCharge
  <1>4. CASE BeginStage
    <2>1. disk' = [mem EXCEPT !.stage = stage] /\ mem' = disk'
      BY <1>4 DEF BeginStage, Save
    <2>2. disk'.history = mem.history /\ disk'.attempts = mem.attempts
      BY <1>1, <2>1 DEF PipelineStates
    <2>3. QED
      BY <2>1, <2>2, SameCharge
  <1>5. CASE ValidateAccepts \/ ValidateRejects
    BY <1>5 DEF ValidateAccepts, ValidateRejects, Save
  <1>6. CASE Checkpoint
    <2>1. /\ disk' = [mem EXCEPT !.history = Append(@, CheckpointCreated(stage))] /\ mem' = disk'
          /\ CheckpointCreated(stage) \in Events /\ CheckpointCreated(stage).event # "rollback"
      BY <1>6 DEF Checkpoint, Save, IInv, TypeOK, CheckpointCreated, Events
    <2>2. /\ disk'.history = Append(mem.history, CheckpointCreated(stage))
          /\ disk'.attempts = mem.attempts /\ mem.history \in Seq(Events)
      BY <1>1, <2>1 DEF PipelineStates
    <2>3. Cardinality(RollbackEvents(disk'.history)) = Cardinality(RollbackEvents(mem.history))
      BY <2>1, <2>2, RollbacksAfterEvent
    <2>4. ChargedExactly(disk')
      BY <2>2, <2>3 DEF ChargedExactly, RollbacksIn, RollbackEvents, SpentBy
    <2>5. QED
      BY <2>1, <2>4
  <1>7. CASE Finish \/ GiveUp
    <2>1. PICK how : disk' = [mem EXCEPT !.status = how] /\ mem' = disk'
      BY <1>7 DEF Finish, GiveUp, Save
    <2>2. disk'.history = mem.history /\ disk'.attempts = mem.attempts
      BY <1>1, <2>1 DEF PipelineStates
    <2>3. QED
      BY <2>1, <2>2, SameCharge
  <1>8. CASE RollBack \/ LoseRollback
    <2>1. /\ mem' = Charged /\ disk' \in {disk, Charged} /\ Handling /\ ~Decision.exhausted
      BY <1>8 DEF RollBack, LoseRollback, Save, Handling
    <2>2. ChargedExactly(Charged)
      BY <2>1, ChargedIsExact
    <2> HIDE DEF Charged
    <2>3. QED
      BY <2>1, <2>2
  <1>9. CASE UNCHANGED <<disk, mem>>
    BY <1>9
  <1>10. QED
    BY <1>2, <1>3, <1>4, <1>5, <1>6, <1>7, <1>8, <1>9
       DEF Next, Step, RunStage, RunRaises, ValidateRaises, CheckpointRaises, Crash, vars

(* attempts_by_level and the history agree for every budget and however     *)
(* often the process is killed and resumed: every rollback is charged once, *)
(* one whose save was lost included, and no level beyond MaxRegen           *)
(* (StagedRollbackStrategy.after_failure, _handle_failure).                 *)
THEOREM RollbacksCharged == Spec => []RollbacksAccounted
  <1>1. Init => ChargedExactly(disk) /\ ChargedExactly(mem)
    <2>1. /\ Init => disk.history = Fresh.history /\ disk.attempts = Fresh.attempts
          /\ Init => mem.history = Fresh.history /\ mem.attempts = Fresh.attempts
      BY DEF Init, Fresh
    <2>2. QED
      BY <2>1, FreshCharge, SameCharge
  <1>2. IInv /\ ChargedExactly(disk) /\ ChargedExactly(mem) /\ [Next]_vars
            => ChargedExactly(disk)' /\ ChargedExactly(mem)'
    BY ChargedKept
  <1>3. IInv /\ ChargedExactly(disk) /\ ChargedExactly(mem) => RollbacksAccounted
    BY DEF IInv, LedgerInv, ChargedExactly, RollbacksAccounted
  <1>4. QED
    BY <1>1, <1>2, <1>3, Invariance, PTL DEF Spec

-----------------------------------------------------------------------------
(* The scan of the history.                                                 *)

(* The element FoldRight takes first. *)
BottomOf(s) == CHOOSE x \in s : \A y \in s : x =< y

(* What the scan knows: the stages retired so far and what it found.        *)
Scans == [retired : SUBSET Stages, found : Events \cup {NoRollback}]

(* It starts knowing nothing.                                               *)
ScanStart == [retired |-> {}, found |-> NoRollback]

(* One level of the recursion FoldRight is defined by.                      *)
ScanBody(iter, s, h) ==
    IF s = {} THEN ScanStart ELSE ScanStep(h[BottomOf(s)], iter[s \ {BottomOf(s)}])

(* What the scan knows at the end of a history.                             *)
ScanOf(h) ==
    (CHOOSE iter : iter = [s \in SUBSET (DOMAIN h) |-> ScanBody(iter, s, h)])[DOMAIN h]

(* latest_unresolved_rollback is what the scan found.                       *)
LEMMA ScanUnfolds ==
    ASSUME NEW h
    PROVE  LatestUnresolvedRollback(h) = ScanOf(h).found
  BY DEF LatestUnresolvedRollback, FoldRight, MapThenFoldSet, Min, BottomOf, ScanOf, ScanBody,
         ScanStart

(* One step of the scan, case by case.                                      *)
LEMMA ScanStepFacts ==
    ASSUME NEW e \in Events, NEW v \in Scans
    PROVE  /\ ScanStep(e, v) \in Scans
           /\ v.found # NoRollback => ScanStep(e, v) = v
           /\ v.found = NoRollback /\ e.event = "checkpoint_created" =>
                 ScanStep(e, v) = [retired |-> v.retired \cup {e.stage}, found |-> NoRollback]
           /\ v.found = NoRollback /\ e.event = "rollback" /\ e.stage \in v.retired =>
                 ScanStep(e, v) = v
           /\ v.found = NoRollback /\ e.event = "rollback" /\ e.stage \notin v.retired =>
                 ScanStep(e, v) = [retired |-> v.retired, found |-> e]
  <1>1. e.event \in {"rollback", "checkpoint_created"} /\ e.stage \in Stages
    BY DEF Events
  <1>2. v = [retired |-> v.retired, found |-> v.found] /\ v.retired \in SUBSET Stages
    BY DEF Scans
  <1>3. CASE v.found # NoRollback
    BY <1>3 DEF ScanStep
  <1>4. CASE v.found = NoRollback /\ e.event = "checkpoint_created"
    <2>1. ScanStep(e, v) = [v EXCEPT !.retired = @ \cup {e.stage}]
      BY <1>4 DEF ScanStep
    <2>2. [v EXCEPT !.retired = @ \cup {e.stage}]
             = [retired |-> v.retired \cup {e.stage}, found |-> NoRollback]
      BY <1>2, <1>4
    <2>3. QED
      BY <1>1, <1>2, <1>4, <2>1, <2>2 DEF Scans
  <1>5. CASE v.found = NoRollback /\ e.event = "rollback"
    <2>1. ScanStep(e, v) = IF e.stage \in v.retired THEN v ELSE [v EXCEPT !.found = e]
      BY <1>5 DEF ScanStep
    <2>2. [v EXCEPT !.found = e] = [retired |-> v.retired, found |-> e]
      BY <1>2
    <2>3. QED
      BY <1>2, <1>5, <2>1, <2>2 DEF Scans
  <1>6. QED
    BY <1>1, <1>3, <1>4, <1>5

(* A nonempty set of positions has a first one.                             *)
LEMMA BottomFacts ==
    ASSUME NEW n \in Nat, NEW s \in SUBSET (1..n), s # {}
    PROVE  BottomOf(s) \in s /\ \A y \in s : BottomOf(s) <= y
  <1>1. s \in SUBSET Nat
    OBVIOUS
  <1>2. QED
    BY <1>1, LeastElement DEF BottomOf

(* The scan takes a suffix apart at its first event.                        *)
LEMMA BottomOfSuffix ==
    ASSUME NEW n \in Nat, NEW k \in 1..n
    PROVE  BottomOf(k..n) = k /\ (k..n) \ {k} = (k + 1)..n /\ k..n # {} /\ k \in 1..n
  <1>1. k..n \in SUBSET (1..n) /\ k \in k..n
    OBVIOUS
  <1>2. BottomOf(k..n) \in k..n /\ \A y \in k..n : BottomOf(k..n) <= y
    BY <1>1, BottomFacts
  <1>3. QED
    BY <1>1, <1>2

(* The scan of a history is the value of a function on the suffixes. *)
LEMMA ScanIterates ==
    ASSUME NEW n \in Nat, NEW h \in [1..n -> Events]
    PROVE  \E v \in [1..(n + 1) -> Scans] :
              /\ v[n + 1] = ScanStart
              /\ \A k \in 1..n : v[k] = ScanStep(h[k], v[k + 1])
              /\ ScanOf(h) = v[1]
  <1> DEFINE S == 1..n
             V == Scans
             base == ScanStart
             step == [x \in S |-> [w \in V |-> ScanStep(h[x], w)]]
             pick == [s \in SUBSET S |-> BottomOf(s)]
             Body(iter) == [s \in SUBSET S |-> ScanBody(iter, s, h)]
             chosen == CHOOSE iter : iter = Body(iter)
  <1>1. base \in V
    BY DEF ScanStart, Scans
  <1>2. step \in [S -> [V -> V]]
    <2>1. \A w \in V, x \in S : ScanStep(h[x], w) \in V
      BY ScanStepFacts
    <2> HIDE DEF V
    <2>2. QED
      BY <2>1
  <1>5. \A s \in SUBSET S : s # {} => BottomOf(s) \in s /\ pick[s] = BottomOf(s)
    BY BottomFacts
  <1>3. CanFold(S, V, base, step, pick)
    <2>1. IsFiniteSet(S)
      BY FS_Interval
    <2>2. \A s \in SUBSET S : s # {} => pick[s] \in s
      BY <1>5
    <2> HIDE DEF S, V, base, step, pick
    <2>3. QED
      BY <1>1, <1>2, <2>1, <2>2 DEF CanFold
  <1>4. PICK iter \in [SUBSET S -> V] : Iterates(iter, S, base, step, pick)
    <2> HIDE DEF S, V, base, step, pick
    <2>1. QED
      BY <1>3, FoldExists
  <1>6. ASSUME NEW s \in SUBSET S
        PROVE  iter[s] = ScanBody(iter, s, h)
    <2>1. CASE s = {}
      BY <1>4, <2>1 DEF Iterates, ScanBody
    <2>2. CASE s # {}
      <3> DEFINE x == BottomOf(s)
      <3>1. x \in S /\ s \ {x} \in SUBSET S /\ pick[s] = x
        BY <1>5, <2>2
      <3>2. iter[s] = step[x][iter[s \ {x}]]
        <4> HIDE DEF step, base, pick, x
        <4>1. QED
          BY <1>4, <2>2, <3>1 DEF Iterates
      <3>3. iter[s \ {x}] \in V
        <4> HIDE DEF V, x
        <4>1. QED
          BY <3>1, <1>4
      <3>4. step[x][iter[s \ {x}]] = ScanStep(h[x], iter[s \ {x}])
        <4> HIDE DEF V, x
        <4>1. QED
          BY <3>1, <3>3
      <3>5. QED
        BY <3>2, <3>4, <2>2 DEF ScanBody
    <2>3. QED
      BY <2>1, <2>2
  <1>7. iter = Body(iter)
    <2> HIDE DEF V, base, step, pick
    <2>1. QED
      BY <1>4, <1>6
  <1>8. chosen = Body(chosen)
    <2> HIDE DEF Body
    <2>1. QED
      BY <1>7
  <1>9. /\ chosen = [s \in SUBSET S |-> chosen[s]]
        /\ \A s \in SUBSET S : chosen[s] = ScanBody(chosen, s, h)
    <2> HIDE DEF chosen
    <2>1. QED
      BY <1>8
  <1>10. chosen[{}] = base
    <2> HIDE DEF chosen
    <2>1. QED
      BY <1>9 DEF ScanBody
  <1>11. ASSUME NEW s \in SUBSET S, s # {}, chosen[s \ {pick[s]}] \in V
         PROVE  chosen[s] = step[pick[s]][chosen[s \ {pick[s]}]]
    <2>1. BottomOf(s) \in S /\ pick[s] = BottomOf(s)
      BY <1>5, <1>11
    <2> HIDE DEF chosen, V, pick
    <2>2. QED
      BY <1>9, <1>11, <2>1 DEF ScanBody
  <1>12. chosen \in [SUBSET S -> V]
    <2>1. \A s \in SUBSET S : s # {} /\ chosen[s \ {pick[s]}] \in V =>
              chosen[s] = step[pick[s]][chosen[s \ {pick[s]}]]
      <3> HIDE DEF S, V, base, step, pick, chosen
      <3>1. QED
        BY <1>11
    <2> HIDE DEF S, V, base, step, pick, chosen
    <2>2. Follows(chosen, S, V, base, step, pick)
      BY <1>9, <1>10, <2>1 DEF Follows
    <2>3. QED
      BY <1>3, <2>2, FoldTyped
  <1>13. ScanOf(h) = chosen[S]
    BY DEF ScanOf
  <1> DEFINE v == [k \in 1..(n + 1) |-> chosen[k..n]]
  <1>14. \A k \in 1..(n + 1) : k..n \in SUBSET S
    OBVIOUS
  <1>15. v \in [1..(n + 1) -> V]
    <2> HIDE DEF chosen, V, S
    <2>1. QED
      BY <1>12, <1>14
  <1>16. v[n + 1] = ScanStart
    <2>1. (n + 1)..n = {} /\ n + 1 \in 1..(n + 1)
      OBVIOUS
    <2> HIDE DEF chosen
    <2>2. QED
      BY <2>1, <1>10
  <1>17. ASSUME NEW k \in 1..n
         PROVE  v[k] = ScanStep(h[k], v[k + 1])
    <2>1. BottomOf(k..n) = k /\ (k..n) \ {k} = (k + 1)..n /\ k..n # {}
      BY BottomOfSuffix
    <2>2. k \in 1..(n + 1) /\ k + 1 \in 1..(n + 1)
      OBVIOUS
    <2>3. k..n \in SUBSET S
      OBVIOUS
    <2> HIDE DEF chosen, S
    <2>4. chosen[k..n] = ScanStep(h[k], chosen[(k + 1)..n])
      BY <1>9, <2>1, <2>3 DEF ScanBody
    <2>5. QED
      BY <2>2, <2>4
  <1>18. ScanOf(h) = v[1]
    <2>1. 1 \in 1..(n + 1)
      OBVIOUS
    <2> HIDE DEF chosen
    <2>2. QED
      BY <1>13, <2>1
  <1>19. QED
    <2> HIDE DEF v
    <2>1. QED
      BY <1>15, <1>16, <1>17, <1>18

(* The unresolved rollbacks from k on. *)
UnresolvedFrom(h, k) == {i \in Unresolved(h) : i >= k}

(* What the scan knows when it has come down to k. *)
Scanned(h, k, w) ==
    \/ /\ w.found = NoRollback /\ UnresolvedFrom(h, k) = {}
       /\ w.retired = {h[j].stage : j \in {i \in DOMAIN h :
                           i >= k /\ h[i].event = "checkpoint_created"}}
    \/ \E m \in UnresolvedFrom(h, k) :
         w.found = h[m] /\ \A i \in UnresolvedFrom(h, k) : i <= m

(* One more event keeps it so.                                              *)
LEMMA ScannedStep ==
    ASSUME NEW n \in Nat, NEW h \in [1..n -> Events], NEW k \in 1..n, NEW w \in Scans,
           Scanned(h, k + 1, w)
    PROVE  Scanned(h, k, ScanStep(h[k], w))
  <1> DEFINE U == UnresolvedFrom(h, k + 1)
             C == {i \in DOMAIN h : i >= k + 1 /\ h[i].event = "checkpoint_created"}
             D == {i \in DOMAIN h : i >= k /\ h[i].event = "checkpoint_created"}
  <1>1. h[k] \in Events /\ NoRollback \notin Events /\ DOMAIN h = 1..n
    BY DEF Events, NoRollback
  <1>2. UnresolvedFrom(h, k) = U \/ (UnresolvedFrom(h, k) = U \cup {k} /\ k \in Unresolved(h))
    <2>1. \A i \in Unresolved(h) : i \in Nat
      BY <1>1 DEF Unresolved
    <2>2. \A i \in Unresolved(h) : i >= k <=> (i >= k + 1 \/ i = k)
      BY <2>1
    <2>3. QED
      BY <2>2 DEF UnresolvedFrom
  <1>3. CASE \E m \in U : w.found = h[m] /\ \A i \in U : i <= m
    <2>1. PICK m \in U : w.found = h[m] /\ \A i \in U : i <= m
      BY <1>3
    <2>2. m \in 1..n /\ m >= k + 1 /\ h[m] \in Events
      BY <1>1 DEF UnresolvedFrom, Unresolved
    <2>3. ScanStep(h[k], w) = w
      BY <1>1, <2>1, <2>2, ScanStepFacts
    <2>4. m \in UnresolvedFrom(h, k) /\ \A i \in UnresolvedFrom(h, k) : i <= m
      BY <1>2, <2>1, <2>2
    <2>5. QED
      BY <2>1, <2>3, <2>4 DEF Scanned
  <1>4. CASE w.found = NoRollback /\ U = {} /\ w.retired = {h[j].stage : j \in C}
    <2>1. h[k].event \in {"rollback", "checkpoint_created"}
      BY <1>1 DEF Events
    <2>2. CASE h[k].event = "checkpoint_created"
      <3>1. ScanStep(h[k], w) = [retired |-> w.retired \cup {h[k].stage}, found |-> NoRollback]
        BY <1>1, <1>4, <2>2, ScanStepFacts
      <3>2. k \notin Unresolved(h)
        BY <2>2 DEF Unresolved
      <3>3. D = C \cup {k}
        BY <1>1, <2>2
      <3>4. w.retired \cup {h[k].stage} = {h[j].stage : j \in D}
        BY <1>4, <3>3
      <3>5. UnresolvedFrom(h, k) = {}
        BY <1>2, <1>4, <3>2
      <3>6. /\ ScanStep(h[k], w).found = NoRollback
            /\ ScanStep(h[k], w).retired = {h[j].stage : j \in D}
        BY <3>1, <3>4
      <3>7. QED
        BY <3>5, <3>6 DEF Scanned
    <2>3. CASE h[k].event = "rollback" /\ h[k].stage \in w.retired
      <3>1. ScanStep(h[k], w) = w
        BY <1>1, <1>4, <2>3, ScanStepFacts
      <3>2. PICK j \in C : h[j].stage = h[k].stage
        BY <1>4, <2>3
      <3>3. Retires(h, j, k) /\ j \in DOMAIN h
        BY <1>1, <3>2 DEF Retires
      <3>4. k \notin Unresolved(h)
        BY <3>3 DEF Unresolved
      <3>5. D = C
        BY <1>1, <2>3
      <3>6. QED
        BY <1>2, <1>4, <3>1, <3>4, <3>5 DEF Scanned
    <2>4. CASE h[k].event = "rollback" /\ h[k].stage \notin w.retired
      <3>1. ScanStep(h[k], w) = [retired |-> w.retired, found |-> h[k]]
        BY <1>1, <1>4, <2>4, ScanStepFacts
      <3>2. \A j \in DOMAIN h : ~Retires(h, j, k)
        <4> SUFFICES ASSUME NEW j \in DOMAIN h, Retires(h, j, k) PROVE FALSE
          OBVIOUS
        <4>1. j \in C /\ h[j].stage = h[k].stage
          BY <1>1 DEF Retires
        <4>2. QED
          BY <4>1, <1>4, <2>4
      <3>3. k \in Unresolved(h)
        BY <1>1, <2>4, <3>2 DEF Unresolved
      <3>4. UnresolvedFrom(h, k) = {k}
        BY <1>2, <1>4, <3>3 DEF UnresolvedFrom
      <3>5. QED
        BY <3>1, <3>4 DEF Scanned
    <2>5. QED
      BY <2>1, <2>2, <2>3, <2>4
  <1>5. QED
    BY <1>3, <1>4 DEF Scanned

(* The backward scan finds the newest rollback no checkpoint has retired. *)
LEMMA ScanFindsNewest ==
    ASSUME NEW h \in Seq(Events)
    PROVE  /\ LatestUnresolvedRollback(h) = NewestUnresolved(h)
           /\ Unresolved(h) = {} => NewestUnresolved(h) = NoRollback
           /\ Unresolved(h) # {} =>
                \E m \in Unresolved(h) :
                   NewestUnresolved(h) = h[m] /\ \A i \in Unresolved(h) : i <= m
  <1> DEFINE n == Len(h)
  <1>1. n \in Nat /\ h \in [1..n -> Events]
    OBVIOUS
  <1> HIDE DEF n
  <1>2. PICK v \in [1..(n + 1) -> Scans] :
              /\ v[n + 1] = ScanStart
              /\ \A k \in 1..n : v[k] = ScanStep(h[k], v[k + 1])
              /\ ScanOf(h) = v[1]
    BY <1>1, ScanIterates
  <1> DEFINE Good == {j \in 0..n : Scanned(h, (n + 1) - j, v[(n + 1) - j])}
  <1>3. 0 \in Good
    <2>1. \A i \in DOMAIN h : ~(i >= n + 1)
      BY <1>1
    <2>2. UnresolvedFrom(h, n + 1) = {}
      BY <2>1 DEF UnresolvedFrom, Unresolved
    <2>3. {i \in DOMAIN h : i >= n + 1 /\ h[i].event = "checkpoint_created"} = {}
      BY <2>1
    <2>4. Scanned(h, n + 1, ScanStart)
      BY <2>2, <2>3 DEF Scanned, ScanStart
    <2>5. (n + 1) - 0 = n + 1 /\ 0 \in 0..n
      BY <1>1
    <2>6. QED
      BY <1>2, <2>4, <2>5
  <1>4. ASSUME NEW j \in 1..n, j - 1 \in Good
        PROVE  j \in Good
    <2> DEFINE k == (n + 1) - j
    <2>1. /\ k \in 1..n /\ k + 1 = (n + 1) - (j - 1) /\ k + 1 \in 1..(n + 1)
          /\ j \in 0..n
      BY <1>1
    <2>2. Scanned(h, k + 1, v[k + 1])
      BY <1>4, <2>1
    <2>3. v[k] = ScanStep(h[k], v[k + 1]) /\ v[k + 1] \in Scans
      BY <1>2, <2>1
    <2>4. Scanned(h, k, v[k])
      BY <1>1, <2>1, <2>2, <2>3, ScannedStep
    <2>5. QED
      BY <2>1, <2>4
  <1>5. Scanned(h, 1, v[1])
    <2>1. n \in Good
      <3> HIDE DEF Good
      <3>1. \A j \in 0..n : j \in Good
        BY <1>1, <1>3, <1>4, IntervalInduction
      <3>2. QED
        BY <1>1, <3>1
    <2>2. (n + 1) - n = 1
      BY <1>1
    <2>3. QED
      BY <2>1, <2>2
  <1>6. UnresolvedFrom(h, 1) = Unresolved(h)
    BY <1>1 DEF UnresolvedFrom, Unresolved
  <1>7. LatestUnresolvedRollback(h) = v[1].found
    BY <1>2, ScanUnfolds
  <1>8. CASE Unresolved(h) = {}
    BY <1>5, <1>6, <1>7, <1>8 DEF Scanned, NewestUnresolved
  <1>9. CASE Unresolved(h) # {}
    <2>1. PICK m \in Unresolved(h) : v[1].found = h[m] /\ \A i \in Unresolved(h) : i <= m
      BY <1>5, <1>6, <1>9 DEF Scanned
    <2> DEFINE c == CHOOSE i \in Unresolved(h) : \A k \in Unresolved(h) : k <= i
    <2>2. c \in Unresolved(h) /\ \A k \in Unresolved(h) : k <= c
      BY <2>1
    <2> HIDE DEF c
    <2>3. c \in Nat /\ m \in Nat
      BY <1>1, <2>2 DEF Unresolved
    <2>4. c = m
      BY <2>1, <2>2, <2>3
    <2>5. NewestUnresolved(h) = h[m]
      BY <1>9, <2>4 DEF NewestUnresolved, c
    <2>6. QED
      BY <1>7, <1>9, <2>1, <2>5
  <1>10. QED
    BY <1>8, <1>9

-----------------------------------------------------------------------------
(* What a stage that runs again is told.                                    *)

(* What covers a stage covers the stages above it.                          *)
LEMMA CoverRises ==
    ASSUME NEW h \in Seq(Events), NEW s \in Stages, NEW t \in Stages, s <= t, Covered(h, s)
    PROVE  Covered(h, t)
  <1>1. \A i \in Unresolved(h) : h[i].restart \in Stages
    <2>1. \A i \in Unresolved(h) : h[i] \in Events
      BY DEF Unresolved
    <2>2. QED
      BY <2>1 DEF Events
  <1>2. QED
    BY <1>1 DEF Covered, Stages

(* A history without events leaves nothing to cover.                        *)
LEMMA CoverOfEmpty ==
    ASSUME NEW h, h = <<>>, NEW s
    PROVE  Covered(h, s)
  BY DEF Covered, Unresolved

(* The checkpoint of the stage in hand retires rollbacks; whatever they     *)
(* covered goes back no further than that stage.                            *)
LEMMA CoverAfterCheckpoint ==
    ASSUME NEW h \in Seq(Events), NEW s \in Stages, Covered(h, s),
           NEW g, g = Append(h, CheckpointCreated(s))
    PROVE  Covered(g, s)
  <1>1. ASSUME NEW i \in Unresolved(g)
        PROVE  \/ g[i].restart <= s
               \/ \E j \in Unresolved(g) : i < j /\ g[i].restart <= g[j].stage
    <2>1. i \in Unresolved(h) /\ g[i] = h[i]
      <3>1. i \in Unresolved(Append(h, CheckpointCreated(s)))
        BY <1>1
      <3>2. Kept(Append(h, CheckpointCreated(s)), h, i)
        BY ONLY <3>1, h \in Seq(Events), s \in Stages, UnresolvedAfterCheckpoint
      <3>3. QED
        BY <3>2 DEF Kept
    <2>2. CASE h[i].restart <= s
      BY <2>1, <2>2
    <2>3. CASE \E j \in Unresolved(h) : i < j /\ h[i].restart <= h[j].stage
      <3>1. PICK j \in Unresolved(h) : i < j /\ h[i].restart <= h[j].stage
        BY <2>3
      <3>2. CASE h[j].stage = s
        BY <2>1, <3>1, <3>2
      <3>3. CASE h[j].stage # s
        <4>1. /\ DOMAIN h = 1..Len(h) /\ DOMAIN g = 1..(Len(h) + 1) /\ Len(h) \in Nat
              /\ g[Len(h) + 1] = CheckpointCreated(s)
              /\ \A k \in 1..Len(h) : g[k] = h[k]
          BY DEF CheckpointCreated
        <4>2. j \in 1..Len(h) /\ g[j] = h[j] /\ h[j].event = "rollback"
          BY <3>1, <4>1 DEF Unresolved
        <4>3. \A k \in DOMAIN g : ~Retires(g, k, j)
          <5>1. \A k \in 1..Len(h) : ~Retires(h, k, j)
            BY <3>1, <4>1 DEF Unresolved
          <5>2. \A k \in 1..Len(h) : ~Retires(g, k, j)
            BY <4>1, <4>2, <5>1 DEF Retires
          <5>3. ~Retires(g, Len(h) + 1, j)
            BY <3>3, <4>1, <4>2 DEF Retires, CheckpointCreated
          <5>4. QED
            BY <4>1, <5>2, <5>3
        <4>4. j \in Unresolved(g)
          BY <4>1, <4>2, <4>3 DEF Unresolved
        <4>5. QED
          BY <2>1, <3>1, <4>2, <4>4
      <3>4. QED
        BY <3>2, <3>3
    <2>4. QED
      BY <2>1, <2>2, <2>3 DEF Covered
  <1>2. QED
    BY <1>1 DEF Covered

(* A rollback from s to r covers all that was covered up to s.              *)
LEMMA CoverAfterRollback ==
    ASSUME NEW h \in Seq(Events), NEW s \in Stages, NEW r \in Stages, r <= s, Covered(h, s),
           NEW g, g = Append(h, Rollback(s, r))
    PROVE  Covered(g, r)
  <1> DEFINE n == Len(h) + 1
  <1>1. /\ DOMAIN h = 1..Len(h) /\ DOMAIN g = 1..n /\ Len(h) \in Nat
        /\ g[n] = Rollback(s, r)
        /\ \A k \in 1..Len(h) : g[k] = h[k]
    BY DEF Rollback
  <1>2. Rollback(s, r).event = "rollback" /\ Rollback(s, r).stage = s /\ Rollback(s, r).restart = r
    BY DEF Rollback
  <1>3. n \in Unresolved(g)
    BY <1>1, <1>2 DEF Unresolved, Retires
  <1>4. ASSUME NEW i \in Unresolved(g)
        PROVE  \/ g[i].restart <= r
               \/ \E j \in Unresolved(g) : i < j /\ g[i].restart <= g[j].stage
    <2>1. i \in 1..n
      BY <1>1, <1>4 DEF Unresolved
    <2>2. CASE i = n
      BY <1>1, <1>2, <2>2 DEF Stages
    <2>3. CASE i \in 1..Len(h)
      <3>1. i < n /\ g[i] = h[i] /\ h[i] \in Events
        BY <1>1, <2>3
      <3>2. i \in Unresolved(h)
        BY <1>1, <1>4, <2>3, <3>1 DEF Unresolved, Retires
      <3>3. CASE h[i].restart <= s
        BY <1>1, <1>2, <1>3, <3>1, <3>3
      <3>4. CASE \E j \in Unresolved(h) : i < j /\ h[i].restart <= h[j].stage
        <4>1. PICK j \in Unresolved(h) : i < j /\ h[i].restart <= h[j].stage
          BY <3>4
        <4>2. j \in 1..Len(h) /\ g[j] = h[j] /\ h[j].event = "rollback"
          BY <1>1, <4>1 DEF Unresolved
        <4>3. \A k \in DOMAIN g : ~Retires(g, k, j)
          <5>1. \A k \in 1..Len(h) : ~Retires(h, k, j)
            BY <4>1, <1>1 DEF Unresolved
          <5>2. \A k \in 1..Len(h) : ~Retires(g, k, j)
            BY <1>1, <4>2, <5>1 DEF Retires
          <5>3. ~Retires(g, n, j)
            BY <1>1, <1>2 DEF Retires
          <5>4. QED
            BY <1>1, <5>2, <5>3
        <4>4. j \in Unresolved(g)
          BY <1>1, <4>2, <4>3 DEF Unresolved
        <4>5. QED
          BY <3>1, <4>1, <4>2, <4>4
      <3>5. QED
        BY <3>2, <3>3, <3>4 DEF Covered
    <2>4. i = n \/ i \in 1..Len(h)
      BY <1>1, <2>1
    <2>5. QED
      BY <2>2, <2>3, <2>4
  <1>5. QED
    BY <1>4 DEF Covered

(* Every step keeps the outstanding rollbacks covered.                      *)
LEMMA CoverKept ==
    ASSUME IInv, CoverInv, [Next]_vars
    PROVE  CoverInv'
  <1>0. \A last \in UntilStages : last \in Stages
    BY UntilStagesAssumption
  <1>1. /\ disk \in PipelineStates /\ mem \in PipelineStates /\ stage \in Stages
        /\ disk.history \in Seq(Events) /\ mem.history \in Seq(Events) /\ disk.stage \in Stages
    BY DEF IInv, TypeOK, PipelineStates
  <1>2. ASSUME NEW last, StartFresh(last)
        PROVE  CoverInv'
    <2>1. disk' = disk /\ mem'.history = <<>>
      BY <1>2 DEF StartFresh, Launch, Fresh
    <2>2. Covered(mem'.history, stage')
      BY <2>1, CoverOfEmpty
    <2>3. QED
      BY <2>1, <2>2 DEF CoverInv
  <1>3. ASSUME NEW last \in Stages, Resume(last)
        PROVE  CoverInv'
    <2>1. /\ disk' = disk /\ mem' = [disk EXCEPT !.status = "running"] /\ stage' = ResumeStage
          /\ ResumeStage <= last /\ disk.status \in {"running", "paused", "completed"}
      BY <1>3 DEF Resume, Launch
    <2>2. mem'.history = disk.history
      BY <1>1, <2>1 DEF PipelineStates
    <2>3. disk.status \in {"running", "paused"} /\ ResumeStage \in Stages /\ disk.stage <= ResumeStage
      BY <1>1, <2>1 DEF IInv, DiskInv, ResumeStage, Stages
    <2>4. Covered(disk.history, ResumeStage)
      BY <1>1, <2>3, CoverRises DEF CoverInv
    <2>5. QED
      BY <2>1, <2>2, <2>3, <2>4 DEF CoverInv
  <1>4. CASE BeginStage
    <2>1. /\ disk' = [mem EXCEPT !.stage = stage] /\ mem' = disk' /\ stage' = stage /\ pc = "top"
      BY <1>4 DEF BeginStage, Save
    <2>2. disk'.history = mem.history /\ disk'.stage = stage
      BY <1>1, <2>1 DEF PipelineStates
    <2>3. QED
      BY <2>1, <2>2 DEF CoverInv
  <1>5. CASE \/ RunStage \/ RunRaises \/ ValidateAccepts \/ ValidateRejects
             \/ ValidateRaises \/ CheckpointRaises
    <2>1. mem' = mem /\ stage' = stage /\ disk' = disk /\ pc # "idle"
      BY <1>5 DEF RunStage, RunRaises, ValidateAccepts, ValidateRejects, ValidateRaises,
                  CheckpointRaises, Save, IInv, MemoryInv
    <2>2. QED
      BY <2>1 DEF CoverInv
  <1>6. CASE Checkpoint
    <2>1. /\ disk' = [mem EXCEPT !.history = Append(@, CheckpointCreated(stage))]
          /\ mem' = disk' /\ pc = "checkpoint" /\ mem.stage = stage
          /\ stage' = stage \/ (stage # until /\ stage' = stage + 1)
          /\ stage <= until /\ until \in Stages
      BY <1>6 DEF Checkpoint, Save, IInv, MemoryInv, TypeOK
    <2>2. /\ disk'.history = Append(mem.history, CheckpointCreated(stage))
          /\ disk'.stage = stage
      BY <1>1, <2>1 DEF PipelineStates
    <2>3. Covered(disk'.history, stage)
      BY <1>1, <2>1, <2>2, CoverAfterCheckpoint DEF CoverInv
    <2>4. disk'.history \in Seq(Events)
      BY <1>1, <2>2 DEF CheckpointCreated, Events
    <2>5. stage' \in Stages /\ stage <= stage'
      BY <1>1, <2>1 DEF Stages
    <2>6. Covered(disk'.history, stage')
      BY <1>1, <2>3, <2>4, <2>5, CoverRises
    <2>7. QED
      BY <2>1, <2>2, <2>3, <2>6 DEF CoverInv
  <1>7. CASE Finish
    <2>1. /\ disk' = [mem EXCEPT !.status = IF stage = 4 THEN "completed" ELSE "paused"]
          /\ pc' = "idle" /\ pc = "finish" /\ mem.stage = stage
      BY <1>7 DEF Finish, Save, IInv, MemoryInv
    <2>2. disk'.history = mem.history /\ disk'.stage = stage
      BY <1>1, <2>1 DEF PipelineStates
    <2>3. QED
      BY <2>1, <2>2 DEF CoverInv
  <1>8. CASE GiveUp
    <2>1. disk'.status = "failed" /\ pc' = "idle"
      BY <1>1, <1>8 DEF GiveUp, Save, PipelineStates
    <2>2. QED
      BY <2>1 DEF CoverInv
  <1>9. CASE RollBack \/ LoseRollback
    <2>1. /\ mem' = Charged /\ Handling /\ ~Decision.exhausted /\ pc # "idle"
      BY <1>9 DEF RollBack, LoseRollback, Save, Handling
    <2> DEFINE g == Append(mem.history, Rollback(stage, Decision.restart))
               r == Decision.restart
    <2>2. /\ Charged.history = g /\ r \in Stages /\ r <= stage
          /\ Charged.stage = r
      BY <2>1, ChargedFacts
    <2>3. /\ RollBack => disk' = Charged /\ stage' = r
          /\ LoseRollback => disk' = disk /\ stage' = stage
      BY DEF RollBack, LoseRollback, Save
    <2> HIDE DEF r, Charged, Decision
    <2>4. Covered(g, r)
      BY <1>1, <2>1, <2>2, CoverAfterRollback DEF CoverInv, r
    <2>5. g \in Seq(Events)
      BY <1>1, <2>2 DEF Rollback, Events, r
    <2> HIDE DEF g
    <2>6. Covered(g, stage)
      BY <1>1, <2>2, <2>4, <2>5, CoverRises
    <2>7. QED
      BY <1>9, <2>1, <2>2, <2>3, <2>4, <2>6 DEF CoverInv
  <1>10. CASE Crash
    BY <1>10 DEF Crash, CoverInv
  <1>11. CASE UNCHANGED vars
    BY <1>11 DEF vars, CoverInv
  <1>12. QED
    BY <1>0, <1>2, <1>3, <1>4, <1>5, <1>6, <1>7, <1>8, <1>9, <1>10, <1>11 DEF Next, Step

(* Before the first failure is charged no rollback is outstanding.          *)
LEMMA NothingOutstanding ==
    ASSUME NEW state \in PipelineStates, ChargedExactly(state), LedgerInv(state),
           state.level = NoLevel
    PROVE  Unresolved(state.history) = {}
  <1>1. SpentBy(state) = 0
    BY DEF SpentBy, LedgerInv, Levels
  <1>2. state.history \in Seq(Events)
    BY DEF PipelineStates
  <1>3. IsFiniteSet(RollbackEvents(state.history))
    <2>1. RollbackEvents(state.history) \in SUBSET (1..Len(state.history)) /\ Len(state.history) \in Nat
      BY <1>2 DEF RollbackEvents
    <2>2. IsFiniteSet(1..Len(state.history))
      BY <2>1, FS_Interval
    <2>3. QED
      BY <2>1, <2>2, FS_Subset
  <1>4. Cardinality(RollbackEvents(state.history)) = 0
    BY <1>1 DEF ChargedExactly, RollbacksIn, RollbackEvents
  <1>5. RollbackEvents(state.history) = {}
    BY <1>3, <1>4, FS_EmptySet
  <1>6. QED
    BY <1>5 DEF Unresolved, RollbackEvents

(* What a stage is told is the newest outstanding rollback, and that one    *)
(* spans the stage: no older one reaches past it, and none below the stage  *)
(* is outstanding.                                                          *)
LEMMA AnswersCovered ==
    ASSUME IInv, CoverInv, ChargedExactly(mem)
    PROVE  RetryContextAnswers
  <1> SUFFICES ASSUME pc = "run" PROVE RetryContextAnswers
    BY DEF RetryContextAnswers
  <1> DEFINE h == mem.history
  <1>1. /\ mem = disk /\ mem \in PipelineStates /\ h \in Seq(Events) /\ stage \in Stages
        /\ LedgerInv(mem) /\ OutstandingAbove(mem, stage - 1) /\ Covered(h, stage)
    BY DEF IInv, TypeOK, MemoryInv, PipelineStates, HistoryInv, CoverInv
  <1>2. /\ LatestUnresolvedRollback(h) = NewestUnresolved(h)
        /\ Unresolved(h) = {} => NewestUnresolved(h) = NoRollback
        /\ Unresolved(h) # {} =>
             \E m \in Unresolved(h) :
                NewestUnresolved(h) = h[m] /\ \A i \in Unresolved(h) : i <= m
    BY <1>1, ScanFindsNewest
  <1>3. RetryContext = NewestUnresolved(h)
    <2>1. mem.level = NoLevel => Unresolved(h) = {}
      BY <1>1, NothingOutstanding
    <2>2. QED
      BY <1>1, <1>2, <2>1 DEF RetryContext
  <1>4. ASSUME RetryContext # NoRollback
        PROVE  RetryContext.restart <= stage /\ stage <= RetryContext.stage
    <2>1. Unresolved(h) # {}
      BY <1>2, <1>3, <1>4
    <2>2. PICK m \in Unresolved(h) :
             NewestUnresolved(h) = h[m] /\ \A i \in Unresolved(h) : i <= m
      BY <1>2, <2>1
    <2>3. h[m] \in Events
      BY <1>1, <2>2 DEF Unresolved
    <2>4. h[m].stage \in Stages /\ h[m].stage > stage - 1
      BY <1>1, <2>2, <2>3 DEF OutstandingAbove, Events
    <2>5. h[m].restart <= stage
      <3>1. \A j \in Unresolved(h) : ~(m < j)
        <4>1. \A j \in Unresolved(h) : j \in Nat
          BY <1>1 DEF Unresolved
        <4>2. QED
          BY <2>2, <4>1
      <3>2. QED
        BY <1>1, <2>2, <3>1 DEF Covered
    <2>6. QED
      BY <1>1, <1>3, <2>2, <2>4, <2>5 DEF Stages
  <1>5. QED
    BY <1>3, <1>4 DEF RetryContextAnswers

(* A stage that runs after a failure is told about the newest rollback      *)
(* nobody has answered since, that rollback spans the stage, and no         *)
(* outstanding one lies below it, for every budget and however often the    *)
(* process is killed and resumed (latest_unresolved_rollback,               *)
(* _retry_context).                                                         *)
THEOREM FailuresAreAnswered == Spec => []RollbacksAnswered
  <1>1. Init => CoverInv /\ ChargedExactly(disk) /\ ChargedExactly(mem)
    <2>1. /\ Init => disk.history = Fresh.history /\ disk.attempts = Fresh.attempts
          /\ Init => mem.history = Fresh.history /\ mem.attempts = Fresh.attempts
          /\ Init => disk.status = "absent" /\ pc = "idle"
      BY DEF Init, Fresh
    <2>2. QED
      BY <2>1, FreshCharge, SameCharge DEF CoverInv
  <1>2. IInv /\ CoverInv /\ ChargedExactly(disk) /\ ChargedExactly(mem) /\ [Next]_vars
            => CoverInv' /\ ChargedExactly(disk)' /\ ChargedExactly(mem)'
    BY ChargedKept, CoverKept
  <1>3. IInv /\ CoverInv /\ ChargedExactly(mem) => RetryContextAnswers
    BY AnswersCovered
  <1>4. QED
    BY <1>1, <1>2, <1>3, Invariance, RollbacksCharged, OutstandingAhead, PTL
    DEF Spec, RollbacksAnswered
=============================================================================
