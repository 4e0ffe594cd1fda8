---------------------------- MODULE Publication ----------------------------
(***************************************************************************)
(* Stage 4 of one triplet from the generated candidate to the published    *)
(* pair: PipelineStageValidator.validate_stage4, promote_harness with      *)
(* _publish_harness, and the PipelineResult main() writes at the end.      *)
(*                                                                         *)
(* Every file write is a step of its own, because the process may be       *)
(* killed between any two and the next run works in the same directory.    *)
(* Candidates are numbered; `about' says which candidate a file speaks of, *)
(* and `earned' remembers what each candidate's own validation said.       *)
(***************************************************************************)
EXTENDS Naturals

CONSTANTS
    MaxCandidates,   \* bound: candidates generated for the triplet
    MaxRuns,         \* bound: processes started on the triplet
    Options          \* the command lines users pass, as records

(* recipe: a target_build configuration is present; contract: the plans of  *)
(* this process carry the identity of its target contract.  main() implies  *)
(* --validate by --build and refuses --smoke-fuzz without --build.          *)
OptionRecords ==
    {o \in [validate : BOOLEAN, build : BOOLEAN, fuzz : BOOLEAN, recipe : BOOLEAN,
            contract : BOOLEAN, policy : {"strict", "hybrid"}] :
        /\ o.build => o.validate
        /\ o.fuzz  => o.build}

ASSUME PublicationAssumption ==
    /\ MaxCandidates \in Nat /\ MaxRuns \in Nat
    /\ Options \subseteq OptionRecords

Candidates == 1..MaxCandidates
Nothing    == 0     \* no candidate; as `about', the rough code of Stage 3

-----------------------------------------------------------------------------
(* The per-component validation files of one triplet (intermediate,        *)
(* compiler, linker, runtime), the summary.json that artifacts.py derives  *)
(* from them, and the gate that reads it.                                  *)

Kinds == {"intermediate", "compiler", "linker", "runtime"}   \* VALIDATION_KINDS

ValidationStatuses ==
    {"passed", "failed", "skipped", "unavailable",
     "passed_with_limitations", "passed_with_warnings"}

(* ValidationResult.accepted *)
Accepted == {"passed", "passed_with_limitations", "passed_with_warnings"}

Overalls == ValidationStatuses \cup {"not_run"}

-----------------------------------------------------------------------------
(* _write_validation_summary: one failure fails the summary; a missing or   *)
(* limited component keeps it below `passed'.                               *)
Overall(statuses) ==
    LET values  == {statuses[k] : k \in Kinds} \ {"absent"}
        all     == \A k \in Kinds : statuses[k] # "absent"
    IN  IF "failed" \in values THEN "failed"
        ELSE IF all /\ values = {"passed"} THEN "passed"
        ELSE IF \/ all /\ values \subseteq {"passed", "passed_with_warnings"}
                \/ ~all /\ "passed_with_warnings" \in values THEN "passed_with_warnings"
        ELSE IF values \cap {"passed", "passed_with_limitations"} # {}
             THEN "passed_with_limitations"
        ELSE IF values # {} THEN "unavailable"
        ELSE "not_run"

Summary(statuses) == [statuses |-> statuses, overall |-> Overall(statuses)]

NoSummary == [statuses |-> [k \in Kinds |-> "absent"], overall |-> "absent"]

-----------------------------------------------------------------------------
(* Mutant: the gate takes every status a validator calls accepted. *)
StatusesPass_Accepted(policy, summary) ==
    \A k \in Kinds : summary.statuses[k] \in Accepted

(* The status part of promote_harness's gate. *)
StatusesPass(policy, summary) ==
    IF policy = "hybrid"
    THEN /\ summary.overall \in {"passed", "passed_with_warnings"}
         /\ summary.statuses["intermediate"] \in {"passed", "passed_with_warnings"}
         /\ \A k \in {"compiler", "linker", "runtime"} : summary.statuses[k] = "passed"
    ELSE /\ summary.overall = "passed"
         /\ \A k \in Kinds : summary.statuses[k] = "passed"

-----------------------------------------------------------------------------
VARIABLES
    made,       \* candidates generated so far
    candidate,  \* the canonical Stage 4 files: whose harness and whose plan
    evidence,   \* the validation files
    summary,    \* validation/summary.json
    smoke,      \* the newest fuzz smoke metadata.json
    stable,     \* the published harness and plan files
    manifest,   \* promotion.json
    result,     \* pipeline_result.json
    earned,     \* per candidate, what its own validation established
    opt, current, pc, then, probe, runs    \* the running process

files == <<candidate, evidence, summary, smoke, stable, manifest, result>>
vars  == <<made, files, earned, opt, current, pc, then, probe, runs>>

Absent == [status |-> "absent", about |-> Nothing]
Pair(c) == [harness |-> c, plan |-> c]
Statuses == ValidationStatuses \cup {"absent"}
Checks == Kinds \cup {"fuzz"}
NoProbe == [syntax |-> "absent", link |-> "absent"]

Phases ==
    {"idle", "stage3", "stage4", "harness", "clear", "intermediate", "downgrade",
     "compile", "record_compiler", "link", "record_linker", "skip_linker", "skip_runtime",
     "runtime", "fuzz", "refresh", "publish", "stable_plan", "manifest", "rejected",
     "succeeded", "exhausted"}

TypeOK ==
    /\ made \in 0..MaxCandidates
    /\ candidate \in [harness : 0..MaxCandidates, plan : 0..MaxCandidates]
    /\ evidence \in [Kinds -> [status : Statuses, about : 0..MaxCandidates]]
    /\ summary \in [statuses : [Kinds -> Statuses], overall : Overalls \cup {"absent"}]
    /\ smoke \in [status : Statuses, about : 0..MaxCandidates]
    /\ stable \in [harness : 0..MaxCandidates, plan : 0..MaxCandidates]
    /\ manifest \in [status : {"absent", "quarantined", "stable_promoted"},
                     about : 0..MaxCandidates]
    /\ result \in [about : 0..MaxCandidates, build : BOOLEAN, compiled : BOOLEAN,
                   linked : BOOLEAN, runtime : BOOLEAN, fuzz : BOOLEAN, success : BOOLEAN]
    /\ earned \in [Candidates -> [Checks -> Statuses]]
    /\ opt \in OptionRecords
    /\ current \in 0..MaxCandidates
    /\ pc \in Phases /\ then \in Phases
    /\ probe \in [syntax : Statuses, link : Statuses]
    /\ runs \in 0..MaxRuns

NoResult == [about |-> Nothing, build |-> FALSE, compiled |-> FALSE, linked |-> FALSE,
             runtime |-> FALSE, fuzz |-> FALSE, success |-> FALSE]

Idle == [validate |-> FALSE, build |-> FALSE, fuzz |-> FALSE, recipe |-> FALSE,
         contract |-> TRUE, policy |-> "strict"]

Init ==
    /\ made = 0
    /\ candidate = Pair(Nothing) /\ stable = Pair(Nothing)
    /\ evidence = [k \in Kinds |-> Absent]
    /\ summary = NoSummary
    /\ smoke = Absent
    /\ manifest = [status |-> "absent", about |-> Nothing]
    /\ result = NoResult
    /\ earned = [c \in Candidates |-> [k \in Checks |-> "absent"]]
    /\ opt = Idle /\ current = Nothing
    /\ pc = "idle" /\ then = "idle" /\ probe = NoProbe
    /\ runs = 0

-----------------------------------------------------------------------------
Goto(phase) == pc' = phase /\ then' = "idle"

process == <<opt, current, runs>>

(* A run enters at Stage 3 (fresh, or resumed there) or, resumed, at Stage  *)
(* 4.  The directory of earlier runs is left as it is.                      *)
StartRun(o, phase) ==
    /\ pc = "idle"
    /\ runs < MaxRuns
    /\ runs' = runs + 1
    /\ opt' = o
    /\ current' = Nothing
    /\ probe' = NoProbe
    /\ Goto(phase)
    /\ UNCHANGED <<made, files, earned>>

(* write_validation: the component's file is replaced, then summary.json is *)
(* rebuilt from the files that exist.                                       *)
Record(kind, status, next) ==
    /\ evidence' = [evidence EXCEPT ![kind] = [status |-> status, about |-> current]]
    /\ earned' = IF current = Nothing THEN earned
                 ELSE [earned EXCEPT ![current][kind] = status]
    /\ pc' = "refresh"
    /\ then' = next
    /\ UNCHANGED <<made, candidate, summary, smoke, stable, manifest, result, probe, process>>

Refresh ==
    /\ pc = "refresh"
    /\ summary' = Summary([k \in Kinds |-> evidence[k].status])
    /\ Goto(then)
    /\ UNCHANGED <<made, candidate, evidence, smoke, stable, manifest, result, earned,
                   probe, process>>

Only(phase, next) ==
    /\ pc = phase
    /\ Goto(next)
    /\ UNCHANGED <<made, files, earned, probe, process>>

-----------------------------------------------------------------------------
(* Stage 3's validator writes intermediate.json about the rough code.       *)
ValidateStage3(status) ==
    /\ pc = "stage3"
    /\ opt.validate
    /\ evidence' = [evidence EXCEPT !["intermediate"] = [status |-> status, about |-> Nothing]]
    /\ pc' = "refresh"
    /\ then' = IF status = "passed" THEN "stage4" ELSE "rejected"
    /\ UNCHANGED <<made, candidate, summary, smoke, stable, manifest, result, earned,
                   probe, process>>

(* Without validation every stage is accepted by _generated. *)
AcceptStage3 == ~opt.validate /\ Only("stage3", "stage4")

(* Stage4Generator.run writes the plan, then the harness.                   *)
WritePlan ==
    /\ pc = "stage4"
    /\ made < MaxCandidates
    /\ made' = made + 1
    /\ candidate' = [candidate EXCEPT !.plan = made + 1]
    /\ Goto("harness")
    /\ UNCHANGED <<evidence, summary, smoke, stable, manifest, result, earned, probe, process>>

WriteHarness ==
    /\ pc = "harness"
    /\ candidate' = [candidate EXCEPT !.harness = made]
    /\ current' = made
    /\ Goto(IF opt.validate THEN "clear" ELSE "publish")
    /\ UNCHANGED <<made, evidence, summary, smoke, stable, manifest, result, earned, probe,
                   opt, runs>>

-----------------------------------------------------------------------------
(* validate_stage4.                                                        *)

ClearOrder == <<"intermediate", "compiler", "linker", "runtime">>

(* Mutant: only the file the next validator rewrites is removed. *)
Clear_IntermediateOnly ==
    /\ pc = "clear"
    /\ evidence' = [evidence EXCEPT !["intermediate"] = Absent]
    /\ Goto("intermediate")
    /\ UNCHANGED <<made, candidate, summary, smoke, stable, manifest, result, earned,
                   probe, process>>

(* The files are unlinked one after the other, summary.json last. *)
Clear ==
    /\ pc = "clear"
    /\ LET present == {i \in 1..4 : evidence[ClearOrder[i]] # Absent}
       IN  IF present = {}
           THEN summary' = NoSummary /\ Goto("intermediate") /\ UNCHANGED evidence
           ELSE \E i \in present :
                    /\ \A j \in present : i <= j
                    /\ evidence' = [evidence EXCEPT ![ClearOrder[i]] = Absent]
                    /\ UNCHANGED <<pc, then, summary>>
    /\ UNCHANGED <<made, candidate, smoke, stable, manifest, result, earned, probe, process>>

AfterIntermediate == IF opt.build THEN "compile" ELSE "publish"

CheckIntermediate(status) ==
    /\ pc = "intermediate"
    /\ Record("intermediate", status,
              IF status = "passed" THEN AfterIntermediate
              ELSE IF opt.policy = "hybrid" THEN "downgrade" ELSE "rejected")

(* The hybrid policy turns the errors into warnings and lets the build decide. *)
Downgrade ==
    /\ pc = "downgrade"
    /\ Record("intermediate", "passed_with_warnings", AfterIntermediate)

(* With a target_build recipe: FuzzerBuildValidator. *)
CompileRecipe(status) ==
    /\ pc = "compile" /\ opt.recipe
    /\ Record("compiler", status, IF status = "passed" THEN "link" ELSE "skip_linker")

SkipLinker == pc = "skip_linker" /\ Record("linker", "skipped", "skip_runtime")

LinkRecipe(status) ==
    /\ pc = "link"
    /\ Record("linker", status, IF status = "passed" THEN "runtime" ELSE "skip_runtime")

(* RuntimeValidator.validate_triplet(None): recorded as skipped, and the    *)
(* stage is rejected for what came before.                                  *)
SkipRuntime == pc = "skip_runtime" /\ Record("runtime", "skipped", "rejected")

(* Without one: CompilerValidator first saves its combined verdict as       *)
(* compiler.json, then the compiler's and the linker's own records.         *)
CompileAndLink(syntax, link) ==
    /\ pc = "compile" /\ ~opt.recipe
    /\ syntax # "passed" => link = "skipped"
    /\ syntax = "passed" => link # "skipped"
    /\ LET combined == IF "failed" \in {syntax, link} THEN "failed" ELSE syntax
       IN  /\ evidence' = [evidence EXCEPT !["compiler"] =
                              [status |-> combined, about |-> current]]
           /\ earned' = [earned EXCEPT ![current]["compiler"] = combined]
    /\ probe' = [syntax |-> syntax, link |-> link]
    /\ Goto("record_compiler")
    /\ UNCHANGED <<made, candidate, summary, smoke, stable, manifest, result, process>>

RecordCompiler == pc = "record_compiler" /\ Record("compiler", probe.syntax, "record_linker")

RecordLinker ==
    /\ pc = "record_linker"
    /\ Record("linker", probe.link,
              IF "failed" \in {probe.syntax, probe.link} THEN "skip_runtime" ELSE "runtime")

-----------------------------------------------------------------------------
(* What the runtime verdict means for the stage: fuzzing or publication     *)
(* needs every earlier component; a limited or skipped one is accepted as   *)
(* it is and never fuzzed.                                                  *)
AfterPassing == IF opt.fuzz THEN "fuzz" ELSE "publish"

SmokeRecipe(status) ==
    /\ pc = "runtime" /\ opt.recipe
    /\ Record("runtime", status,
              IF status = "failed" THEN "rejected"
              ELSE IF status = "passed" THEN AfterPassing ELSE "publish")

(* An executable configured by hand can run although nothing was linked.    *)
SmokeCompiler(status) ==
    /\ pc = "runtime" /\ ~opt.recipe
    /\ Record("runtime", status,
              IF status = "failed" \/ probe.syntax # "passed" THEN "rejected"
              ELSE IF "passed" = status /\ probe.link = "passed" THEN AfterPassing
              ELSE "publish")

(* LibFuzzerSmokeValidator writes a numbered directory of its own: neither  *)
(* the clearing nor summary.json knows of it.                               *)
FuzzSmoke(status) ==
    /\ pc = "fuzz"
    /\ smoke' = [status |-> status, about |-> current]
    /\ earned' = [earned EXCEPT ![current]["fuzz"] = status]
    /\ Goto(IF status = "failed" THEN "rejected" ELSE "publish")
    /\ UNCHANGED <<made, candidate, evidence, summary, stable, manifest, result, probe, process>>

(* Any exception of generation, validation or publication fails the stage.  *)
Raise ==
    /\ pc \in Phases \ {"idle", "rejected", "succeeded", "exhausted"}
    /\ Goto("rejected")
    /\ UNCHANGED <<made, files, earned, probe, process>>

-----------------------------------------------------------------------------
(* promote_harness.                                                        *)

(* The summary must pass the policy's gate and agree with the component     *)
(* files, and the canonical files must be this candidate's.                 *)
Eligible ==
    /\ StatusesPass(opt.policy, summary)
    /\ \A k \in Kinds : evidence[k].status = summary.statuses[k]
    /\ candidate = Pair(current)
    /\ opt.contract

Quarantine ==
    /\ pc = "publish"
    /\ ~Eligible
    /\ manifest' = [status |-> "quarantined", about |-> current]
    /\ Goto("succeeded")
    /\ UNCHANGED <<made, candidate, evidence, summary, smoke, stable, result, earned,
                   probe, process>>

(* The two files of the pair, then the manifest that names both. *)
PromoteHarness ==
    /\ pc = "publish"
    /\ Eligible
    /\ stable' = [stable EXCEPT !.harness = current]
    /\ Goto("stable_plan")
    /\ UNCHANGED <<made, candidate, evidence, summary, smoke, manifest, result, earned,
                   probe, process>>

(* Mutant: the plan is published only the first time. *)
PromotePlan_Once ==
    /\ pc = "stable_plan"
    /\ stable' = IF stable.plan = Nothing THEN [stable EXCEPT !.plan = current] ELSE stable
    /\ Goto("manifest")
    /\ UNCHANGED <<made, candidate, evidence, summary, smoke, manifest, result, earned,
                   probe, process>>

PromotePlan ==
    /\ pc = "stable_plan"
    /\ stable' = [stable EXCEPT !.plan = current]
    /\ Goto("manifest")
    /\ UNCHANGED <<made, candidate, evidence, summary, smoke, manifest, result, earned,
                   probe, process>>

PromoteManifest ==
    /\ pc = "manifest"
    /\ manifest' = [status |-> "stable_promoted", about |-> current]
    /\ Goto("succeeded")
    /\ UNCHANGED <<made, candidate, evidence, summary, smoke, stable, result, earned,
                   probe, process>>

-----------------------------------------------------------------------------
(* A rejected stage is regenerated from Stage 3 or 4, or the budget is      *)
(* spent (Orchestrator has the decision).                                   *)
Regenerate(phase) ==
    /\ phase \in {"stage3", "stage4"}
    /\ Only("rejected", phase)

GiveUp == Only("rejected", "exhausted")

(* PipelineResult.from_run reads the milestones off the files that exist.   *)
Milestones ==
    [about    |-> current,
     build    |-> opt.build,
     compiled |-> opt.build /\ evidence["compiler"].status = "passed",
     linked   |-> opt.build /\ evidence["linker"].status = "passed",
     runtime  |-> opt.build /\ evidence["runtime"].status \in Accepted,
     fuzz     |-> opt.fuzz /\ smoke.status \in Accepted]

Succeeded(m) ==
    /\ pc = "succeeded"
    /\ opt.validate => evidence["intermediate"].status \in Accepted
    /\ opt.build    => m.compiled /\ m.linked /\ m.runtime
    /\ opt.fuzz     => m.fuzz

Report ==
    /\ pc \in {"succeeded", "exhausted"}
    /\ result' = [about |-> Milestones.about, build |-> Milestones.build,
                  compiled |-> Milestones.compiled, linked |-> Milestones.linked,
                  runtime |-> Milestones.runtime, fuzz |-> Milestones.fuzz,
                  success |-> Succeeded(Milestones)]
    /\ Goto("idle")
    /\ UNCHANGED <<made, candidate, evidence, summary, smoke, stable, manifest, earned,
                   probe, process>>

Crash ==
    /\ pc # "idle"
    /\ Goto("idle")
    /\ UNCHANGED <<made, files, earned, probe, process>>

-----------------------------------------------------------------------------
Next ==
    \/ \E o \in Options, phase \in {"stage3", "stage4"} : StartRun(o, phase)
    \/ AcceptStage3
    \/ \E s \in {"passed", "failed"} : ValidateStage3(s) \/ CheckIntermediate(s)
    \/ WritePlan \/ WriteHarness
    \/ Clear \/ Refresh \/ Downgrade
    \/ \E s \in {"passed", "failed", "unavailable"} : CompileRecipe(s) \/ LinkRecipe(s)
    \/ SkipLinker \/ SkipRuntime
    \/ \E syntax \in {"passed", "failed", "unavailable"},
          link \in {"passed", "failed", "unavailable", "skipped"} : CompileAndLink(syntax, link)
    \/ RecordCompiler \/ RecordLinker
    \/ \E s \in {"passed", "failed", "passed_with_limitations", "skipped"} : SmokeRecipe(s)
    \/ \E s \in {"passed", "failed", "skipped"} : SmokeCompiler(s)
    \/ \E s \in {"passed", "failed", "passed_with_limitations", "unavailable"} : FuzzSmoke(s)
    \/ Raise
    \/ Quarantine \/ PromoteHarness \/ PromotePlan \/ PromoteManifest
    \/ \E phase \in {"stage3", "stage4"} : Regenerate(phase)
    \/ GiveUp \/ Report
    \/ Crash

Spec == Init /\ [][Next]_vars
=============================================================================
