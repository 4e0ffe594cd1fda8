----------------------------- MODULE Candidate -----------------------------
(***************************************************************************)
(* run_candidate: one candidate from its directory to its result.json.     *)
(*                                                                         *)
(* The candidates of an experiment run one after the other and share an    *)
(* analysis cache, so one process state (step, result, code) serves all.   *)
(* Whatever fails, a candidate is evaluated and recorded; the evaluation,  *)
(* the feedback for its children and the record are separate files.        *)
(***************************************************************************)
EXTENDS Naturals

CONSTANTS
    Setups,       \* command lines of the feedback loop
    Scores        \* the aggregate scores told apart

ASSUME CandidateAssumption ==
    /\ Setups \subseteq [depth : {"none", "compilation", "smoke", "fuzzing"},
                         children : Nat \ {0}, rounds : Nat \ {0}, parentHarness : BOOLEAN]
    /\ Scores \subseteq Nat \ {0}

VARIABLES
    setup,     \* the command line, the same throughout
    step,      \* where run_candidate is
    current,   \* the candidate it runs
    result,    \* the record that becomes result.json
    code,      \* its exit code so far
    cache,     \* analysis_cache: the experiment's ISF classification
    requests,  \* times this experiment asked the model (a classification is one)
    files      \* the files of every candidate directory

candidateVars == <<step, current, result, code, cache, requests, files>>

Depth    == setup.depth      \* how far a harness is executed
Children == setup.children   \* candidates per experiment
Rounds   == setup.rounds     \* experiments a feedback loop may run

(* Identities, one per candidate directory.                                 *)
Candidates == {<<0, 1>>} \cup {<<r, i>> : r \in 1..Rounds, i \in 1..Children}

SmokeRuns == Depth \in {"smoke", "fuzzing"}
FuzzRuns  == Depth = "fuzzing"

(* "error" stands for every outcome that is no acceptance: an error, a      *)
(* time-out, a finding the harness is to blame for.                         *)
SmokeOutcomes == {"passed", "target_finding", "error", "interrupted"}
FuzzOutcomes  == {"completed", "target_finding", "error", "interrupted"}

Stages == {"setup", "source_analysis", "isf_classification", "isf_filter", "api", "validation",
           "review", "compilation", "smoke", "fuzzing"}
Steps  == Stages \cup {"idle", "evaluate", "feedback", "save", "returned", "escaped"}

Results ==
    [generation  : {"not_started", "skipped", "requesting", "passed", "failed", "interrupted"},
     failure     : Stages \cup {"none"},
     isf         : {"skipped", "not_started", "passed", "failed", "interrupted"},
     owner       : Candidates \cup {<<>>},
     compilation : {"not_started", "skipped", "passed", "failed", "error", "interrupted"},
     smoke       : SmokeOutcomes \cup {"not_started", "skipped", "blocked"},
     fuzzing     : FuzzOutcomes \cup {"not_started", "skipped", "blocked", "blocked_by_finding"},
     refused     : BOOLEAN]                      \* http_status is 401 or 403

(* evaluation.json, as far as a selection reads it; score 0: none. *)
Evaluations ==
    [score   : Scores \cup {0},
     errors  : BOOLEAN,      \* an evaluator failed
     dynamic : BOOLEAN,      \* coverage, features and reachability are high enough
     finding : BOOLEAN]      \* a crash was attributed to the target
NoEvaluation == [score |-> 0, errors |-> FALSE, dynamic |-> FALSE, finding |-> FALSE]

Directories ==
    [recorded : BOOLEAN, record : Results,           \* result.json
     evaluated : BOOLEAN, evaluation : Evaluations,  \* evaluation.json
     feedback : {"none", "usable", "unusable"}]      \* automatic_feedback.json

NobodyYet == <<>>
NoCache == [status |-> "empty", owner |-> NobodyYet]

CandidateTypeOK ==
    /\ step \in Steps
    /\ current \in Candidates \cup {NobodyYet}
    /\ result \in Results
    /\ code \in {0, 1, 130}
    /\ cache \in [status : {"empty", "report", "failure"}, owner : Candidates \cup {NobodyYet}]
    /\ requests \in Nat
    /\ files \in [Candidates -> Directories]

(* The record run_candidate starts from; an existing harness needs no model. *)
Blank(offline) ==
    [generation  |-> "not_started",
     failure     |-> "none",
     isf         |-> IF offline THEN "skipped" ELSE "not_started",
     owner       |-> NobodyYet,
     compilation |-> IF Depth = "none" THEN "skipped" ELSE "not_started",
     smoke       |-> IF SmokeRuns THEN "not_started" ELSE "skipped",
     fuzzing     |-> IF FuzzRuns THEN "not_started" ELSE "skipped",
     refused     |-> FALSE]

CandidateInit ==
    /\ setup \in Setups
    /\ step = "idle" /\ current = NobodyYet
    /\ result = Blank(TRUE) /\ code = 0
    /\ cache = NoCache /\ requests = 0

EmptyDirectory ==
    [recorded |-> FALSE, record |-> Blank(TRUE), evaluated |-> FALSE,
     evaluation |-> NoEvaluation, feedback |-> "none"]

Begin(c, offline) ==
    /\ step = "idle"
    /\ step' = "setup"
    /\ current' = c
    /\ result' = Blank(offline)
    /\ code' = 1
    /\ UNCHANGED <<cache, requests, files>>

-----------------------------------------------------------------------------
Go(from, to) ==
    /\ step = from
    /\ step' = to
    /\ UNCHANGED <<current, code, files>>

(* What an exception leaves in the record: the failing stage is noted once, *)
(* a generation that did not finish is failed, a stage of the execution     *)
(* that was cut short says so and blocks the ones after it.                 *)
Failed(r, stage, how) ==
    [r EXCEPT
       !.failure     = IF r.failure = "none" THEN stage ELSE r.failure,
       !.generation  = IF how = "error" /\ r.generation \notin {"passed", "skipped"} THEN "failed"
                       ELSE IF r.generation = "requesting" THEN "interrupted" ELSE r.generation,
       !.isf         = IF stage # "isf_classification" THEN r.isf
                       ELSE IF how = "error" THEN "failed" ELSE "interrupted",
       !.compilation = IF stage = "compilation" THEN how ELSE r.compilation,
       !.smoke       = IF stage = "smoke" THEN how
                       ELSE IF stage = "compilation" /\ SmokeRuns /\ how = "error"
                       THEN "blocked" ELSE r.smoke,
       !.fuzzing     = IF stage = "fuzzing" THEN how
                       ELSE IF stage \in {"compilation", "smoke"} /\ FuzzRuns
                       THEN "blocked" ELSE r.fuzzing]

(* An interrupted or broken call may have reached the model or not. *)
Asked ==
    IF step = "api" \/ (step = "isf_classification" /\ cache.status = "empty")
    THEN {requests, requests + 1} ELSE {requests}

Raise ==
    /\ step \in Stages
    /\ result' = Failed(result, step, "error")
    /\ code' = 1
    /\ step' = "evaluate"
    /\ requests' \in Asked
    /\ UNCHANGED <<current, cache, files>>

Interrupt ==
    /\ step \in Stages
    /\ result' = Failed(result, step, "interrupted")
    /\ code' = 130
    /\ step' = "evaluate"
    /\ requests' \in Asked
    /\ UNCHANGED <<current, cache, files>>

Setup ==
    /\ IF result.isf = "skipped"
       THEN Go("setup", "validation") /\ result' = [result EXCEPT !.generation = "skipped"]
       ELSE Go("setup", "source_analysis") /\ UNCHANGED result
    /\ UNCHANGED <<cache, requests>>

AnalyzeSource ==
    /\ Go("source_analysis", "isf_classification")
    /\ UNCHANGED <<result, cache, requests>>

-----------------------------------------------------------------------------
(* The shared ISF classification: the first candidate asks for three votes; *)
(* its report, or its failure, serves every later one.                      *)

Classify ==
    /\ Go("isf_classification", "isf_filter")
    /\ cache.status = "empty"
    /\ requests' = requests + 1
    /\ cache' = [status |-> "report", owner |-> current]
    /\ result' = [result EXCEPT !.isf = "passed", !.owner = current]

(* Mutant: a classification that failed is tried again. *)
ClassifyFails_Retried(refused) ==
    /\ cache.status = "empty"
    /\ Go("isf_classification", "source_analysis")
    /\ UNCHANGED <<result, cache, requests>>

ClassifyFails(refused) ==
    /\ step = "isf_classification" /\ cache.status = "empty"
    /\ requests' = requests + 1
    /\ cache' = [status |-> "failure", owner |-> current]
    /\ result' = [Failed(result, step, "error") EXCEPT !.refused = refused, !.owner = current]
    /\ step' = "evaluate"
    /\ code' = 1
    /\ UNCHANGED <<current, files>>

ShareClassification ==
    /\ Go("isf_classification", "isf_filter")
    /\ cache.status = "report"
    /\ result' = [result EXCEPT !.isf = "passed", !.owner = cache.owner]
    /\ UNCHANGED <<cache, requests>>

ShareFailure ==
    /\ step = "isf_classification" /\ cache.status = "failure"
    /\ result' = [Failed(result, step, "error") EXCEPT !.owner = cache.owner]
    /\ step' = "evaluate"
    /\ code' = 1
    /\ UNCHANGED <<current, cache, requests, files>>

(* The protocol contract, the filter's verdict on the target, the prompt. *)
Prepare ==
    /\ Go("isf_filter", "api")
    /\ UNCHANGED <<result, cache, requests>>

Request ==
    /\ Go("api", "validation")
    /\ requests' = requests + 1
    /\ result' = [result EXCEPT !.generation = "requesting"]
    /\ UNCHANGED cache

RequestFails(refused) ==
    /\ step = "api"
    /\ requests' = requests + 1
    /\ result' = [Failed(result, step, "error") EXCEPT !.refused = refused]
    /\ step' = "evaluate"
    /\ code' = 1
    /\ UNCHANGED <<current, cache, files>>

Validate ==
    /\ Go("validation", "review")
    /\ result' = [result EXCEPT !.generation = IF @ = "requesting" THEN "passed" ELSE @]
    /\ UNCHANGED <<cache, requests>>

(* The completion is valid, but harness.c cannot be written. *)
HarnessUnwritten ==
    /\ step = "validation" /\ result.generation = "requesting"
    /\ result' = Failed([result EXCEPT !.generation = "passed"], step, "error")
    /\ code' = 1
    /\ step' = "evaluate"
    /\ UNCHANGED <<current, cache, requests, files>>

Review ==
    /\ step = "review"
    /\ step' = IF Depth = "none" THEN "evaluate" ELSE "compilation"
    /\ code' = 0
    /\ UNCHANGED <<current, result, cache, requests, files>>

-----------------------------------------------------------------------------
(* execute_pipeline *)
Executed(r, exit, next) ==
    /\ result' = r
    /\ code' = exit
    /\ step' = next
    /\ UNCHANGED <<current, cache, requests, files>>

ExitCode(outcome) == IF outcome = "interrupted" THEN 130 ELSE 1

Compile ==
    /\ step = "compilation"
    /\ \/ Executed([result EXCEPT !.compilation = "passed"], 0,
                   IF SmokeRuns THEN "smoke" ELSE "evaluate")
       \/ Executed([result EXCEPT !.compilation = "failed", !.failure = "compilation",
                                  !.smoke = IF SmokeRuns THEN "blocked" ELSE result.smoke,
                                  !.fuzzing = IF FuzzRuns THEN "blocked" ELSE result.fuzzing],
                   1, "evaluate")

(* A finding in the target is what the harness is for: it is accepted, and  *)
(* there is nothing left to fuzz.                                           *)
RunSmoke(outcome) ==
    /\ step = "smoke"
    /\ CASE outcome = "passed" ->
              Executed([result EXCEPT !.smoke = outcome], 0,
                       IF FuzzRuns THEN "fuzzing" ELSE "evaluate")
         [] outcome = "target_finding" ->
              Executed([result EXCEPT !.smoke = outcome,
                                      !.fuzzing = IF FuzzRuns THEN "blocked_by_finding" ELSE result.fuzzing],
                       0, "evaluate")
         [] OTHER ->
              Executed([result EXCEPT !.smoke = outcome, !.failure = "smoke",
                                      !.fuzzing = IF FuzzRuns THEN "blocked" ELSE result.fuzzing],
                       ExitCode(outcome), "evaluate")

RunFuzzer(outcome) ==
    /\ step = "fuzzing"
    /\ IF outcome \in {"completed", "target_finding"}
       THEN Executed([result EXCEPT !.fuzzing = outcome], 0, "evaluate")
       ELSE Executed([result EXCEPT !.fuzzing = outcome, !.failure = "fuzzing"],
                     ExitCode(outcome), "evaluate")

-----------------------------------------------------------------------------
(* The finally block. *)

HasHarness(r) == r.generation \in {"passed", "skipped"} /\ r.failure \notin {"setup", "validation"}

TargetFinding(r) == "target_finding" \in {r.smoke, r.fuzzing}

(* Without a harness nothing is scored, and only a fuzz run measures. *)
Evaluate(evaluation) ==
    /\ step = "evaluate"
    /\ evaluation.score = 0 <=> ~HasHarness(result)
    /\ evaluation.dynamic => result.fuzzing \in {"completed", "target_finding"}
    /\ evaluation.finding = TargetFinding(result)
    /\ files' = [files EXCEPT ![current].evaluated = TRUE, ![current].evaluation = evaluation]
    /\ step' = "feedback"
    /\ UNCHANGED <<current, result, code, cache, requests>>

(* automatic_feedback.json; a child cannot use one whose evidence is larger *)
(* than load_revision accepts.                                              *)
BuildFeedback(usable) ==
    /\ step = "feedback"
    /\ step' = "save"
    /\ files' = IF HasHarness(result) THEN [files EXCEPT ![current].feedback = usable] ELSE files
    /\ UNCHANGED <<current, result, code, cache, requests>>

(* An error or an interrupt here changes the exit code, not the record of   *)
(* the stages; what was written before it stays.                            *)
EvaluationRaises(exit) ==
    /\ step \in {"evaluate", "feedback"}
    /\ step' = "save"
    /\ code' = exit
    /\ UNCHANGED <<current, result, cache, requests, files>>

SaveResult ==
    /\ step = "save"
    /\ step' = "returned"
    /\ files' = [files EXCEPT ![current].recorded = TRUE, ![current].record = result]
    /\ UNCHANGED <<current, result, code, cache, requests>>

SaveFails ==
    /\ step = "save"
    /\ step' = "returned"
    /\ code' = 1
    /\ UNCHANGED <<current, result, cache, requests, files>>

(* An interrupt that run_candidate does not handle itself. *)
Escape ==
    /\ step = "save"
    /\ step' = "escaped"
    /\ UNCHANGED <<current, result, code, cache, requests, files>>

CandidateStep ==
    \/ Setup \/ AnalyzeSource \/ Classify \/ ShareClassification \/ ShareFailure
    \/ Prepare \/ Request \/ Validate \/ HarnessUnwritten \/ Review \/ Compile
    \/ \E refused \in BOOLEAN : ClassifyFails(refused) \/ RequestFails(refused)
    \/ \E outcome \in SmokeOutcomes : RunSmoke(outcome)
    \/ \E outcome \in FuzzOutcomes : RunFuzzer(outcome)
    \/ Raise \/ Interrupt
    \/ \E evaluation \in Evaluations : Evaluate(evaluation)
    \/ \E usable \in {"usable", "unusable"} : BuildFeedback(usable)
    \/ \E exit \in {1, 130} : EvaluationRaises(exit)
    \/ SaveResult \/ SaveFails \/ Escape
=============================================================================
