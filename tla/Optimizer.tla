----------------------------- MODULE Optimizer -----------------------------
(***************************************************************************)
(* EvaluationOptimizer.run with the callbacks of run_plan_optimization:    *)
(* an initial candidate, rounds of children of the best one so far, every  *)
(* one validated and measured by the same recipe, a holdout measurement of *)
(* the winner, and the files that record the campaign.                     *)
(*                                                                         *)
(* The target's sources belong to somebody else and may change while the   *)
(* campaign runs.                                                          *)
(***************************************************************************)
EXTENDS Integers

CONSTANTS
    Rounds,        \* rounds of the campaign
    Children,      \* children per round
    Seeds,         \* seeds per measurement
    Scores,        \* the scores told apart
    HoldoutModes   \* "none": no holdout seeds; "runner", "no_runner": with or without callback

(* Identities are r%03d_c%03d: they order like numbers up to 999.           *)
ASSUME OptimizerAssumption ==
    /\ Rounds \in 1..999 /\ Children \in 1..999 /\ Seeds \in Nat \ {0}
    /\ Scores \subseteq Nat
    /\ HoldoutModes \subseteq {"none", "runner", "no_runner"}

VARIABLES
    phase,      \* where the campaign is
    holdout,    \* the holdout mode of this campaign
    round,      \* the round of the candidate at work
    index,      \* its index in the round
    status,     \* its validation status
    seed,       \* seeds measured for it
    broken,     \* one of them could not be measured
    changed,    \* the target's sources differ from those hashed at the start
    tainted,    \* a measurement of this candidate saw changed sources
    evaluated,  \* all_candidates: the evaluation of each
    parent,     \* the selected candidate
    completed,  \* completed_rounds
    heldOut,    \* the holdout evaluation is among the candidates
    result,     \* the result about to be written or returned
    saved       \* the result in optimization.json

work == <<status, seed, broken, tainted>>
vars == <<phase, holdout, round, index, work, changed, evaluated, parent, completed, heldOut,
          result, saved>>

Unscored == -1
Initial  == <<0, 0>>
Nobody   == <<>>
Ids      == {Initial} \cup ((1..Rounds) \X (0..(Children - 1)))

Evaluation == [status : {"none", "passed", "failed"}, score : Scores \cup {Unscored},
               tainted : BOOLEAN]
Results == [status : {"running", "completed", "failed"}, selected : Ids \cup {Nobody}]
NoResult == [status |-> "running", selected |-> Nobody]
NoEvaluation == [status |-> "none", score |-> Unscored, tainted |-> FALSE]

TypeOK ==
    /\ phase \in {"generate", "validate", "check", "measure", "select", "holdout_check",
                  "holdout_measure", "write", "write_last", "ended", "raised"}
    /\ holdout \in HoldoutModes
    /\ round \in 0..Rounds
    /\ index \in 0..(Children - 1)
    /\ status \in {"none", "passed", "failed"}
    /\ seed \in 0..Seeds
    /\ broken \in BOOLEAN /\ changed \in BOOLEAN /\ tainted \in BOOLEAN
    /\ evaluated \in [Ids -> Evaluation]
    /\ parent \in Ids \cup {Nobody}
    /\ completed \in 0..Rounds
    /\ heldOut \in BOOLEAN
    /\ result \in Results
    /\ saved \in Results

Init ==
    /\ phase = "validate"
    /\ holdout \in HoldoutModes
    /\ round = 0 /\ index = 0
    /\ status = "none" /\ seed = 0 /\ broken = FALSE /\ tainted = FALSE
    /\ changed = FALSE
    /\ evaluated = [c \in Ids |-> NoEvaluation]
    /\ parent = Nobody
    /\ completed = 0
    /\ heldOut = FALSE
    /\ result = NoResult /\ saved = NoResult

-----------------------------------------------------------------------------
Current == <<round, index>>

campaign == <<holdout, evaluated, parent, completed, heldOut>>

Finish(outcome, selected) ==
    /\ phase' = "write"
    /\ result' = [status |-> outcome, selected |-> selected]

(* Whatever a callback or a check raises is caught: the campaign has failed *)
(* with the parent and the rounds it had, and says so outside the try.      *)
Raise ==
    /\ phase \in {"generate", "validate", "check", "measure", "holdout_check", "holdout_measure"}
    /\ phase' = "write_last"
    /\ result' = [status |-> "failed", selected |-> parent]
    /\ UNCHANGED <<round, index, work, changed, campaign, saved>>

SourceChanges ==
    /\ phase \notin {"ended", "raised"}
    /\ ~changed
    /\ changed' = TRUE
    /\ UNCHANGED <<phase, round, index, work, campaign, result, saved>>

-----------------------------------------------------------------------------
(* run_candidate: Stage 4 refines the parent's plan; a generation that      *)
(* fails makes a failed candidate.                                          *)
Generate(ok) ==
    /\ phase = "generate"
    /\ phase' = IF ok THEN "validate" ELSE "check"
    /\ status' = IF ok THEN "none" ELSE "failed"
    /\ UNCHANGED <<round, index, seed, broken, tainted, changed, campaign, result, saved>>

(* validate_stage4 and promote_harness in the candidate's own directory.    *)
Validate(ok) ==
    /\ phase = "validate"
    /\ status' = IF ok THEN "passed" ELSE "failed"
    /\ tainted' = changed
    /\ phase' = "check"
    /\ UNCHANGED <<round, index, seed, broken, changed, campaign, result, saved>>

(* _coverage_report: only a passed harness is measured, seed by seed, until *)
(* one cannot be; the sources are compared before each and at the end.      *)
Measuring == status = "passed" /\ ~broken /\ seed < Seeds

CheckSource(check, measure) ==
    /\ phase = check
    /\ Measuring
    /\ ~changed
    /\ phase' = measure
    /\ UNCHANGED <<round, index, work, changed, campaign, result, saved>>

Measure(measure, check, ok) ==
    /\ phase = measure
    /\ seed' = IF ok THEN seed + 1 ELSE seed
    /\ broken' = ~ok
    /\ tainted' = (tainted \/ changed)
    /\ phase' = check
    /\ UNCHANGED <<round, index, status, changed, campaign, result, saved>>

(* Equal budgets or nothing: a score needs every seed.                      *)
Report(score) ==
    [status |-> status, score |-> IF status = "passed" /\ ~broken THEN score ELSE Unscored,
     tainted |-> tainted]

(* Only formal validation passes with a score enter the comparison.         *)
Eligible(e) == e.status = "passed" /\ e.score # Unscored

ClearWork == status' = "none" /\ seed' = 0 /\ broken' = FALSE /\ tainted' = FALSE

(* Mutant: the sources are not compared again after the last seed. *)
CollectInitial_NoRecheck(score) ==
    /\ phase = "check" /\ round = 0
    /\ ~Measuring
    /\ evaluated' = [evaluated EXCEPT ![Current] = Report(score)]
    /\ parent' = Current
    /\ ClearWork
    /\ IF Eligible(Report(score))
       THEN phase' = "generate" /\ round' = 1 /\ UNCHANGED result
       ELSE Finish("failed", Nobody) /\ UNCHANGED round
    /\ UNCHANGED <<index, changed, holdout, completed, heldOut, saved>>

CollectInitial(score) ==
    /\ phase = "check" /\ round = 0
    /\ ~Measuring /\ ~changed
    /\ evaluated' = [evaluated EXCEPT ![Current] = Report(score)]
    /\ ClearWork
    /\ parent' = Current
    /\ IF Eligible(Report(score))
       THEN phase' = "generate" /\ round' = 1 /\ UNCHANGED result
       ELSE Finish("failed", Nobody) /\ UNCHANGED round
    /\ UNCHANGED <<index, changed, holdout, completed, heldOut, saved>>

(* Mutant: the next child takes the place of this one. *)
CollectChild_Again(score) ==
    /\ phase = "check" /\ round > 0
    /\ ~Measuring /\ ~changed
    /\ evaluated' = [evaluated EXCEPT ![Current] = Report(score)]
    /\ ClearWork
    /\ phase' \in {"generate", "select"}
    /\ phase' = "select" => index = Children - 1
    /\ UNCHANGED <<round, index, changed, holdout, parent, completed, heldOut, result, saved>>

CollectChild(score) ==
    /\ phase = "check" /\ round > 0
    /\ ~Measuring /\ ~changed
    /\ evaluated' = [evaluated EXCEPT ![Current] = Report(score)]
    /\ ClearWork
    /\ phase' = IF index < Children - 1 THEN "generate" ELSE "select"
    /\ index' = IF index < Children - 1 THEN index + 1 ELSE 0
    /\ UNCHANGED <<round, changed, holdout, parent, completed, heldOut, result, saved>>

-----------------------------------------------------------------------------
(* Mutant: the parent does not compete with its children. *)
Competitors_ChildrenOnly ==
    {c \in {<<round, i>> : i \in 0..(Children - 1)} : Eligible(evaluated[c])}

(* The parent of a round competes with its children.                        *)
Competitors ==
    {c \in {parent} \cup {<<round, i>> : i \in 0..(Children - 1)} : Eligible(evaluated[c])}

(* Candidate identities compare like their rounds, then their indices.      *)
Before(a, b) == a[1] < b[1] \/ (a[1] = b[1] /\ a[2] <= b[2])

(* Mutants: the sort is ascending; ties go to the younger candidate. *)
AtLeast_Ascending(c, d) ==
    \/ evaluated[c].score < evaluated[d].score
    \/ evaluated[c].score = evaluated[d].score /\ Before(c, d)

AtLeast_Younger(c, d) ==
    \/ evaluated[c].score > evaluated[d].score
    \/ evaluated[c].score = evaluated[d].score /\ Before(d, c)

(* _select sorts by score, descending, then by identity.                    *)
AtLeast(c, d) ==
    \/ evaluated[c].score > evaluated[d].score
    \/ evaluated[c].score = evaluated[d].score /\ Before(c, d)

Select(c) ==
    /\ phase = "select"
    /\ c \in Competitors
    /\ \A d \in Competitors : AtLeast(c, d)
    /\ parent' = c
    /\ completed' = round
    /\ IF round < Rounds
       THEN phase' = "generate" /\ round' = round + 1 /\ UNCHANGED <<status, result>>
       ELSE /\ UNCHANGED round
            /\ CASE holdout = "none"      -> Finish("completed", c) /\ UNCHANGED status
                 [] holdout = "no_runner" -> Finish("failed", c) /\ UNCHANGED status
                 [] OTHER -> /\ phase' = "holdout_check"
                             /\ status' = "passed"
                             /\ UNCHANGED result
    /\ UNCHANGED <<index, seed, broken, tainted, changed, holdout, evaluated, heldOut, saved>>

(* Mutant: a holdout that could not be measured is waved through. *)
CollectHoldout_Lenient ==
    /\ phase = "holdout_check"
    /\ ~Measuring /\ ~changed
    /\ heldOut' = ~broken
    /\ Finish("completed", parent)
    /\ UNCHANGED <<round, index, work, changed, holdout, evaluated, parent, completed, saved>>

(* The winner is measured again with the holdout seeds; only a complete     *)
(* measurement completes the campaign.                                      *)
CollectHoldout ==
    /\ phase = "holdout_check"
    /\ ~Measuring /\ ~changed
    /\ IF broken THEN Finish("failed", parent) /\ UNCHANGED heldOut
                 ELSE Finish("completed", parent) /\ heldOut' = TRUE
    /\ UNCHANGED <<round, index, work, changed, holdout, evaluated, parent, completed, saved>>

-----------------------------------------------------------------------------
(* _finish writes optimization.json, then a file per candidate.  It runs    *)
(* inside run()'s try block: when one of them cannot be written, a failed   *)
(* result is written in its place, once.                                    *)
Write ==
    /\ phase \in {"write", "write_last"}
    /\ saved' = result
    /\ phase' = "ended"
    /\ UNCHANGED <<round, index, work, changed, campaign, result>>

(* Mutant: a failing write keeps the result that was computed. *)
WriteFails_KeepsVerdict ==
    /\ phase = "write"
    /\ saved' \in {saved, result}
    /\ phase' = "ended"
    /\ UNCHANGED <<round, index, work, changed, campaign, result>>

WriteFails ==
    /\ phase = "write"
    /\ saved' \in {saved, result}
    /\ phase' = "write_last"
    /\ result' = [status |-> "failed", selected |-> parent]
    /\ UNCHANGED <<round, index, work, changed, campaign>>

WriteFailsAgain ==
    /\ phase = "write_last"
    /\ saved' \in {saved, result}
    /\ phase' = "raised"
    /\ UNCHANGED <<round, index, work, changed, campaign, result>>

Step ==
    \/ \E ok \in BOOLEAN : Generate(ok) \/ Validate(ok)
    \/ CheckSource("check", "measure") \/ CheckSource("holdout_check", "holdout_measure")
    \/ \E ok \in BOOLEAN : \/ Measure("measure", "check", ok)
                           \/ Measure("holdout_measure", "holdout_check", ok)
    \/ \E score \in Scores : CollectInitial(score) \/ CollectChild(score)
    \/ \E c \in Ids : Select(c)
    \/ CollectHoldout
    \/ Raise
    \/ Write \/ WriteFails \/ WriteFailsAgain

Next == Step \/ SourceChanges

Spec == Init /\ [][Next]_vars

(* The callbacks return: every generation and measurement is time-limited.  *)
FairSpec == Spec /\ WF_vars(Step)
=============================================================================
