---------------------------- MODULE FeedbackLoop ----------------------------
(***************************************************************************)
(* run_feedback_loop: rounds of one parent's feedback, an experiment of    *)
(* children that revise it, and the selection of the next parent, with     *)
(* what feedback_loop.json says of them.                                   *)
(***************************************************************************)
EXTENDS Candidate, Sequences

(***************************************************************************)
(* run_experiment: the children of one round, one after the other, with    *)
(* what experiment.json says of them.                                      *)
(***************************************************************************)
VARIABLES
    round,       \* the round the experiment belongs to
    entries,     \* status of its candidates
    experiment,  \* status of experiment.json
    refusal      \* the model has refused a request of this experiment

experimentVars == <<candidateVars, round, entries, experiment, refusal>>

Child(i) == <<round, i>>

Settled == {"passed", "failed", "interrupted"}

ExperimentTypeOK ==
    /\ CandidateTypeOK
    /\ round \in 0..Rounds
    /\ entries \in [1..Children -> Settled \cup {"not_started", "running"}]
    /\ experiment \in {"none", "running", "completed", "partial_failure", "failed",
                       "interrupted", "raised"}
    /\ refusal \in BOOLEAN

ExperimentInit ==
    /\ CandidateInit
    /\ round = 0
    /\ entries = [i \in 1..Children |-> "not_started"]
    /\ experiment = "none"
    /\ refusal = FALSE

Upcoming(i) == entries[i] = "not_started" /\ \A j \in 1..(i - 1) : entries[j] # "not_started"

StartExperiment(r) ==
    /\ round' = r
    /\ entries' = [i \in 1..Children |-> "not_started"]
    /\ experiment' = "running"
    /\ refusal' = FALSE
    /\ cache' = NoCache
    /\ requests' = 0
    /\ UNCHANGED <<step, current, result, code, files>>

(* A batch without an API key fails before its first candidate. *)
MissingKey ==
    /\ experiment = "running" /\ Children > 1
    /\ \A i \in 1..Children : entries[i] = "not_started"
    /\ experiment' = "failed"
    /\ UNCHANGED <<candidateVars, round, entries, refusal>>

StartEntry(i) ==
    /\ experiment = "running"
    /\ Upcoming(i)
    /\ Begin(Child(i), FALSE)
    /\ entries' = [entries EXCEPT ![i] = "running"]
    /\ UNCHANGED <<round, experiment, refusal>>

EntryStatus == CASE code = 0 -> "passed" [] code = 130 -> "interrupted" [] OTHER -> "failed"

(* Mutant: a refused request fails its candidate only. *)
RecordEntry_KeepsAsking(i) ==
    /\ step = "returned" /\ entries[i] = "running"
    /\ entries' = [entries EXCEPT ![i] = EntryStatus]
    /\ refusal' = (refusal \/ result.refused)
    /\ experiment' = IF code = 130 THEN "interrupted"
                     ELSE IF i < Children THEN "running"
                     ELSE IF \A j \in 1..Children : entries'[j] = "passed" THEN "completed"
                     ELSE "partial_failure"
    /\ step' = "idle"
    /\ UNCHANGED <<current, result, code, cache, requests, files, round>>

(* The loop breaks on an interrupt and on a refused request. *)
RecordEntry(i) ==
    /\ step = "returned" /\ entries[i] = "running"
    /\ entries' = [entries EXCEPT ![i] = EntryStatus]
    /\ refusal' = result.refused
    /\ experiment' = IF code = 130 THEN "interrupted"
                     ELSE IF result.refused THEN "failed"
                     ELSE IF i < Children THEN "running"
                     ELSE IF \A j \in 1..Children : entries'[j] = "passed" THEN "completed"
                     ELSE "partial_failure"
    /\ step' = "idle"
    /\ UNCHANGED <<current, result, code, cache, requests, files, round>>

(* Mutant: the candidate that was running is forgotten. *)
Running_Forgotten(as) == entries

Running(as) == [i \in 1..Children |-> IF entries[i] = "running" THEN as ELSE entries[i]]

(* A KeyboardInterrupt the candidate did not handle, or between two. *)
ExperimentInterrupted ==
    /\ experiment = "running" /\ step \in {"idle", "escaped"}
    /\ entries' = Running("interrupted")
    /\ experiment' = "interrupted"
    /\ step' = "idle"
    /\ UNCHANGED <<current, result, code, cache, requests, files, round, refusal>>

(* experiment.json or the directory of the next candidate cannot be written: *)
(* the error is recorded if it can be and passed on.                         *)
ExperimentRaises ==
    /\ experiment = "running" /\ step \in {"idle", "returned"}
    /\ entries' = Running("failed")
    /\ experiment' = "raised"
    /\ step' = "idle"
    /\ UNCHANGED <<current, result, code, cache, requests, files, round, refusal>>

ExperimentStep ==
    \/ CandidateStep /\ UNCHANGED <<round, entries, experiment, refusal>>
    \/ MissingKey
    \/ \E i \in 1..Children : StartEntry(i) \/ RecordEntry(i)
    \/ ExperimentInterrupted \/ ExperimentRaises

-----------------------------------------------------------------------------
(***************************************************************************)
(* run_feedback_loop, around it.                                           *)
(***************************************************************************)
VARIABLES
    phase,     \* where run_feedback_loop is
    parent,    \* whose feedback the next round revises
    manifest   \* status of feedback_loop.json and the child each round selected

(* Round 0 runs a harness; otherwise a candidate is given.                  *)
ParentHarness == setup.parentHarness

vars == <<setup, experimentVars, phase, parent, manifest>>

Initial == <<0, 1>>
Nobody  == <<>>

TypeOK ==
    /\ ExperimentTypeOK
    /\ phase \in {"start", "parent", "load", "experiment", "ended"}
    /\ parent \in Candidates
    /\ manifest \in [status : {"none", "running", "completed", "stopped", "failed"},
                     selected : UNION {[1..n -> Candidates \cup {Nobody}] : n \in 0..Rounds}]

(* The child a given parent came from is complete; whether its feedback can *)
(* be used is not known before it is loaded.                                *)
GivenParent(feedback) ==
    [recorded |-> TRUE,
     record |-> [Blank(TRUE) EXCEPT !.generation = "skipped", !.compilation = "skipped",
                                    !.smoke = "skipped", !.fuzzing = "skipped"],
     evaluated |-> TRUE, evaluation |-> NoEvaluation, feedback |-> feedback]

Init ==
    /\ ExperimentInit
    /\ \E feedback \in {"usable", "unusable"} :
          files = [c \in Candidates |-> IF c = Initial /\ ~ParentHarness
                                        THEN GivenParent(feedback) ELSE EmptyDirectory]
    /\ phase = "start"
    /\ parent = Initial
    /\ manifest = [status |-> "none", selected |-> <<>>]

-----------------------------------------------------------------------------
(* load_revision: the parent's record and feedback exist and can be used.   *)
Loadable(c) ==
    /\ files[c].recorded
    /\ HasHarness(files[c].record)
    /\ files[c].feedback = "usable"

UseGivenParent ==
    /\ phase = "start" /\ ~ParentHarness
    /\ phase' = "load"
    /\ manifest' = [manifest EXCEPT !.status = "running"]
    /\ UNCHANGED <<experimentVars, parent>>

RunParent ==
    /\ phase = "start" /\ ParentHarness
    /\ Begin(Initial, TRUE)
    /\ phase' = "parent"
    /\ UNCHANGED <<round, entries, experiment, refusal, parent, manifest>>

(* A parent that failed is accepted when its feedback can be used. *)
JudgeParent ==
    /\ phase = "parent" /\ step = "returned"
    /\ step' = "idle"
    /\ IF code = 0 \/ Loadable(Initial)
       THEN phase' = "load" /\ manifest' = [manifest EXCEPT !.status = "running"]
       ELSE phase' = "ended" /\ manifest' = [manifest EXCEPT !.status = "failed"]
    /\ UNCHANGED <<current, result, code, cache, requests, files, round, entries, experiment,
                   refusal, parent>>

LoadRevision ==
    /\ phase = "load"
    /\ Len(manifest.selected) < Rounds
    /\ Loadable(parent)
    /\ StartExperiment(Len(manifest.selected) + 1)
    /\ phase' = "experiment"
    /\ UNCHANGED <<parent, manifest>>

(* Feedback that cannot be loaded, any other error, or an interrupt in the  *)
(* loop's own code ends it with the manifest as it is.                      *)
LoopRaises ==
    /\ \/ phase = "load"
       \/ phase = "parent" /\ step = "escaped"
       \/ phase = "experiment" /\ experiment \notin {"running", "none"}
    /\ phase' = "ended"
    /\ step' = "idle"
    /\ UNCHANGED <<current, result, code, cache, requests, files, round, entries, experiment,
                   refusal, parent, manifest>>

-----------------------------------------------------------------------------
(* _candidate_failure_reason, read from the child's result.json. *)
Acceptable(r) ==
    /\ r.generation \in {"passed", "skipped"}
    /\ \/ r.failure = "none"
       \/ r.failure = "smoke"   /\ r.smoke = "target_finding"
       \/ r.failure = "fuzzing" /\ r.fuzzing = "target_finding"
    /\ r.compilation \in {"passed", "skipped"}
    /\ r.smoke \in {"passed", "skipped", "target_finding"}
    /\ \/ r.fuzzing \in {"completed", "skipped", "target_finding"}
       \/ r.smoke = "target_finding" /\ r.fuzzing = "blocked_by_finding"

(* WeightedAggregationPolicy: a score, no evaluator error, and after a fuzz *)
(* run either the dynamic quality gate or a finding in the target.          *)
Eligible(e) ==
    /\ e.score # 0
    /\ ~e.errors
    /\ FuzzRuns => e.dynamic \/ e.finding

Selectable(c) ==
    /\ files[c].recorded /\ Acceptable(files[c].record)
    /\ files[c].evaluated /\ Eligible(files[c].evaluation)

(* Mutant: ties are broken before the scores are compared. *)
Best_ById(S) == CHOOSE c \in S : \A d \in S : c[2] <= d[2]

(* The highest score, then the smallest candidate id. *)
Best(S) ==
    CHOOSE c \in S : \A d \in S :
        \/ files[c].evaluation.score > files[d].evaluation.score
        \/ files[c].evaluation.score = files[d].evaluation.score /\ c[2] <= d[2]

(* Mutant: the manifest is closed by the number of rounds alone. *)
Select_CompletesAnyway ==
    /\ phase = "experiment" /\ experiment \notin {"running", "none", "raised"}
    /\ LET S == {c \in {Child(i) : i \in 1..Children} : Selectable(c)}
       IN  /\ parent' = IF S = {} THEN parent ELSE Best(S)
           /\ manifest' = [status   |-> IF round = Rounds THEN "completed" ELSE "running",
                           selected |-> Append(manifest.selected,
                                               IF S = {} THEN Nobody ELSE Best(S))]
           /\ phase' = IF round = Rounds THEN "ended" ELSE "load"
    /\ UNCHANGED experimentVars

(* However the experiment ended, its children decide: the best one is the   *)
(* next parent; without one the loop stops.                                 *)
Select ==
    /\ phase = "experiment" /\ experiment \notin {"running", "none", "raised"}
    /\ LET S == {c \in {Child(i) : i \in 1..Children} : Selectable(c)}
       IN  IF S = {}
           THEN /\ manifest' = [status   |-> "stopped",
                                selected |-> Append(manifest.selected, Nobody)]
                /\ phase' = "ended"
                /\ UNCHANGED parent
           ELSE /\ manifest' = [status   |-> IF round = Rounds THEN "completed" ELSE "running",
                                selected |-> Append(manifest.selected, Best(S))]
                /\ phase' = IF round = Rounds THEN "ended" ELSE "load"
                /\ parent' = Best(S)
    /\ UNCHANGED experimentVars

LoopStep ==
    \/ UseGivenParent \/ RunParent \/ JudgeParent \/ LoadRevision
    \/ /\ phase \in {"parent", "experiment"}
       /\ ExperimentStep
       /\ UNCHANGED <<phase, parent, manifest>>
    \/ LoopRaises \/ Select

Next == LoopStep /\ UNCHANGED setup

Spec == Init /\ [][Next]_vars

(* Every request, compilation and run has a time-out of its own.            *)
FairSpec == Spec /\ WF_vars(Next)
=============================================================================
