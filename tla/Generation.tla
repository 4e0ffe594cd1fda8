----------------------------- MODULE Generation -----------------------------
(***************************************************************************)
(* A generation command under its request budget: which triplets are taken  *)
(* (ft_selection.select_triplets and its manifest, every triplet of the     *)
(* catalog, or one), the check that the budget can be enough, and the loop  *)
(* of generation_cli.main over the triplets with the one _BudgetedLLM they  *)
(* share.  A triplet's own loop is PipelineOrchestrator.run, reduced to the *)
(* requests its stages make and to the rollback decisions; Orchestrator     *)
(* models it with its files.                                                *)
(***************************************************************************)
EXTENDS Assembly, RollbackPolicy

CONSTANTS
    Invocations \* pairs <<catalog, command>>: the contents of triplets.json, a set of
                \* triplets with an `id' and whether their score makes them `eligible', and
                \* the options of `select-ft' and of the generation command

VARIABLES
    catalog,    \* the triplets of this behaviour
    command,    \* the options of this behaviour
    phase,      \* "select", "check", "run" or "done"
    selected,   \* the triplets taken so far, in order
    at,         \* the index of the triplet main()'s loop is at
    stage,      \* run()'s local `stage'
    level,      \* PipelineState.rollback_level
    attempt,    \* PipelineState.attempt
    asked,      \* requests answered since the stage was last started
    calls,      \* _BudgetedLLM.calls
    status,     \* per triplet: the status in its pipeline_state.json
    failures    \* history: per triplet, the kinds of failures its stages had

vars == <<catalog, command, phase, selected, at, stage, level, attempt, asked, calls,
          status, failures>>

CommandFields ==
    {"mode", "selFt", "selCalls", "selFunctions", "selUnits",
     "maxFt", "maxFunctions", "maxUnits", "limit", "until"}

(* What load_triplets_json lets in: no two triplets of a catalog share an   *)
(* id, and each has finitely many functions, edges and alternatives.        *)
IsCatalog(triplets) ==
    /\ IsFiniteSet(triplets)
    /\ \A a, b \in triplets : a.id = b.id => a = b
    /\ \A ft \in triplets :
        /\ ft.id \in Nat
        /\ IsFiniteSet(ft.functions) /\ IsFiniteSet(ft.edges)
        /\ ft.alternatives \in Seq(ToSet(ft.alternatives))

ASSUME InvocationsAssumption ==
    \A pair \in Invocations :
        /\ pair = <<pair[1], pair[2]>>
        /\ IsCatalog(pair[1])
        /\ DOMAIN pair[2] = CommandFields
        /\ pair[2].mode \in {"manifest", "all", "one"}
        /\ pair[2].until \in Stages
        /\ \A field \in CommandFields \ {"mode"} : pair[2][field] \in Nat

Ids == {ft.id : ft \in catalog}

Init ==
    /\ \E pair \in Invocations : catalog = pair[1] /\ command = pair[2]
    /\ phase = "select"
    /\ selected = <<>>
    /\ at = 1
    /\ stage = 1
    /\ level = NoLevel
    /\ attempt = 1
    /\ asked = 0
    /\ calls = 0
    /\ status = [id \in Ids |-> "absent"]
    /\ failures = [id \in Ids |-> {}]

running == <<at, stage, level, attempt, asked, calls, status, failures>>

Sum(fts, Of(_)) == FoldLeft(+, 0, [k \in DOMAIN fts |-> Of(fts[k])])

Functions(ft) == Cardinality(ft.functions)
StepCount(ft) == Cardinality(StructuralSteps(ft))

-----------------------------------------------------------------------------
(* Selection.                                                              *)

(* Mutant: the cost model forgets the Stage 2 requests. *)
Cost_WithoutUnits(ft) == Functions(ft) + 3

(* estimated_llm_calls: "functions + structural_units + 3". *)
Cost(ft) == Functions(ft) + StepCount(ft) + 3

(* What select_triplets starts from. *)
Ranked ==
    {ft \in catalog :
        /\ ft.eligible
        /\ StepCount(ft) <= command.selUnits
        /\ Functions(ft) <= command.selFunctions}

(* The triplets a pass of the greedy loop compares. *)
Candidates ==
    {ft \in Ranked :
        /\ \A k \in DOMAIN selected : selected[k] # ft
        /\ Sum(selected, Cost) + Cost(ft) <= command.selCalls}

SelectMore == Len(selected) < command.selFt /\ Candidates # {}

(* The winner of a pass.  Scores and novelty are data: any candidate may    *)
(* have the best ones.                                                      *)
SelectNext ==
    /\ phase = "select" /\ command.mode = "manifest"
    /\ SelectMore
    /\ \E ft \in Candidates : selected' = Append(selected, ft)
    /\ UNCHANGED <<catalog, command, phase, running>>

SelectEnds ==
    /\ phase = "select" /\ command.mode = "manifest"
    /\ ~SelectMore
    /\ phase' = "check"
    /\ UNCHANGED <<catalog, command, selected, running>>

(* generate-all without a manifest, in the order of the catalog. *)
TakeAll ==
    /\ phase = "select" /\ command.mode = "all"
    /\ selected' = Sorted(catalog, LAMBDA a, b : a.id < b.id)
    /\ phase' = "check"
    /\ UNCHANGED <<catalog, command, running>>

(* generate --ft and run --ft. *)
TakeOne ==
    /\ phase = "select" /\ command.mode = "one"
    /\ \E ft \in catalog : selected' = <<ft>>
    /\ phase' = "check"
    /\ UNCHANGED <<catalog, command, running>>

-----------------------------------------------------------------------------
(* The checks before the first request.                                    *)

Baseline(ft) == Functions(ft) + StepCount(ft) + 3

(* _select_from_manifest trusts nothing the manifest says of itself. *)
ManifestAccepted ==
    command.mode = "manifest" =>
        /\ Len(selected) <= command.selFt
        /\ Sum(selected, Baseline) <= command.selCalls
        /\ \A k \in DOMAIN selected :
            /\ Functions(selected[k]) <= command.selFunctions
            /\ StepCount(selected[k]) <= command.selUnits

(* The requests a triplet needs when nothing has to be regenerated. *)
Estimate(ft) ==
    Functions(ft)
        + (IF command.until >= 2 THEN StepCount(ft) ELSE 0)
        + (IF command.until >= 3 THEN 1 ELSE 0)
        + (IF command.until >= 4 THEN 2 ELSE 0)

BudgetAccepted ==
    /\ Len(selected) <= command.maxFt
    /\ \A k \in DOMAIN selected :
        /\ Functions(selected[k]) <= command.maxFunctions
        /\ StepCount(selected[k]) <= command.maxUnits
    /\ Sum(selected, Estimate) <= command.limit

(* PipelineState of a triplet whose turn has come. *)
Begin(k) ==
    /\ at' = k
    /\ stage' = 1
    /\ level' = NoLevel
    /\ attempt' = 1
    /\ asked' = 0

Accepted ==
    /\ phase = "check"
    /\ ManifestAccepted /\ BudgetAccepted
    /\ selected # <<>>
    /\ phase' = "run"
    /\ Begin(1)
    /\ status' = [status EXCEPT ![selected[1].id] = "running"]
    /\ UNCHANGED <<catalog, command, selected, calls, failures>>

(* A refused command ends with nothing asked, an empty manifest with        *)
(* nothing to do.                                                           *)
Declined ==
    /\ phase = "check"
    /\ ~(ManifestAccepted /\ BudgetAccepted) \/ selected = <<>>
    /\ phase' = "done"
    /\ UNCHANGED <<catalog, command, selected, running>>

-----------------------------------------------------------------------------
(* The stages of the triplet main() is at.                                 *)

Current == selected[at]

(* One request per function, per unit and for the assembly; a plan and its  *)
(* translation for the harness.                                             *)
Requests ==
    CASE stage = 1 -> Functions(Current)
      [] stage = 2 -> StepCount(Current)
      [] stage = 3 -> 1
      [] stage = 4 -> 2

(* Stage 3's prompt is built from this order. *)
Assembled == OrderSnippets(Current)

(* _BudgetedLLM.generate lets the request through. *)
CanAsk == phase = "run" /\ asked < Requests /\ calls < command.limit

Answered ==
    /\ CanAsk
    /\ calls' = calls + 1
    /\ asked' = asked + 1
    /\ UNCHANGED <<catalog, command, phase, selected, at, stage, level, attempt, status,
                   failures>>

(* Mutant: the loop does not move on from a triplet that failed. *)
Leave_Again(verdict) ==
    \/ /\ at < Len(selected) \/ verdict = "failed"
       /\ Begin(IF verdict = "failed" THEN at ELSE at + 1)
       /\ UNCHANGED <<status, phase>>
    \/ /\ at = Len(selected) /\ verdict # "failed"
       /\ status' = [status EXCEPT ![Current.id] = verdict]
       /\ phase' = "done"
       /\ UNCHANGED <<at, stage, level, attempt, asked>>

(* run() returns: the loop of main() goes on to the next triplet, or ends. *)
Leave(verdict) ==
    \/ /\ at < Len(selected)
       /\ Begin(at + 1)
       /\ status' = [status EXCEPT ![Current.id] = verdict,
                                   ![selected[at + 1].id] = "running"]
       /\ UNCHANGED phase
    \/ /\ at = Len(selected)
       /\ status' = [status EXCEPT ![Current.id] = verdict]
       /\ phase' = "done"
       /\ UNCHANGED <<at, stage, level, attempt, asked>>

(* Every exception of a stage and every verdict that is not accepted is     *)
(* charged to the rollback budget, whatever its cause.                      *)
StageFails(kind) ==
    LET decision == AfterFailure(stage, level, attempt)
    IN  /\ failures' = [failures EXCEPT ![Current.id] = @ \cup {kind}]
        /\ \/ /\ decision.exhausted
              /\ Leave("failed")
           \/ /\ ~decision.exhausted
              /\ stage' = decision.restart
              /\ level' = decision.level
              /\ attempt' = decision.attempt
              /\ asked' = 0
              /\ UNCHANGED <<phase, at, status>>
        /\ UNCHANGED <<catalog, command, selected>>

(* A request that is counted and not answered, or answered with something   *)
(* the stage cannot use.                                                    *)
Unanswered ==
    /\ CanAsk
    /\ calls' = calls + 1
    /\ StageFails("other")

(* _BudgetedLLM.generate raises before the request is sent. *)
Refused ==
    /\ phase = "run"
    /\ asked < Requests
    /\ calls >= command.limit
    /\ StageFails("refused")
    /\ UNCHANGED calls

(* Whatever else a stage does may fail: reading its inputs, the check of     *)
(* the answers as a whole, the validators and, after Stage 4, publishing.   *)
Rejected ==
    /\ phase = "run"
    /\ StageFails("other")
    /\ UNCHANGED calls

(* An exception outside the stages, such as a failing save of the state,    *)
(* ends the command and leaves its triplets as they are.                    *)
Aborted ==
    /\ phase = "run"
    /\ phase' = "done"
    /\ UNCHANGED <<catalog, command, selected, running>>

StageDone ==
    /\ phase = "run"
    /\ asked = Requests
    /\ \/ /\ stage = command.until
          /\ Leave(IF stage = 4 THEN "completed" ELSE "paused")
       \/ /\ stage < command.until
          /\ stage' = stage + 1
          /\ asked' = 0
          /\ UNCHANGED <<phase, at, level, attempt, status>>
    /\ UNCHANGED <<catalog, command, selected, calls, failures>>

-----------------------------------------------------------------------------
Next ==
    \/ SelectNext \/ SelectEnds \/ TakeAll \/ TakeOne
    \/ Accepted \/ Declined
    \/ Answered \/ Unanswered \/ Refused
    \/ Rejected \/ StageDone \/ Aborted

Spec == Init /\ [][Next]_vars

(* The two commands are sequential programs and every request has a         *)
(* timeout: a step that can be taken is taken.                              *)
FairSpec == Spec /\ WF_vars(Next)
=============================================================================
