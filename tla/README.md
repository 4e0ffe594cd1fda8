# A TLA+ verification of harness_generation

harness_generation turns a C library into fuzz harnesses: `sfg_builder` finds
function triplets, `harness_generation` runs each triplet through four LLM
stages, validates and publishes the result, and improves harnesses by feedback
rounds and plan optimization. This directory models the parts of it that keep
state, fail half-way, are resumed, or decide what a later reader may trust, and
checks and proves what they promise. Source paths below are relative to `src/`.

The repository has no tests. Its promises are the docstrings, comments, error
messages and the README; the properties quote them where there is one.

## Inventory

| Part | State it keeps | Operations | What is hard |
|---|---|---|---|
| Pipeline orchestration (`orchestrator.py`, the start and resume in `generation_cli.py`) | `pipeline_state.json`: status, stage, rollback level and attempt, attempts per level, history; the stage files | run a stage, validate, checkpoint, roll back, give up, save, resume, start fresh | a kill between any two writes, a resume that trusts the file, regeneration budgets, files replaced before the state says so |
| Stage 4 validation and publication (`pipeline_validation.py`, `validation.py`, `artifacts.py`, `promotion.py`, `pipeline_result.py`, the validators) | five validation files, `summary.json`, stable harness and plan, `promotion.json` | invalidate, validate by component, summarise, fuzz smoke, publish, report | evidence of an earlier candidate, publication in three writes, several command lines over one directory |
| Candidates (`candidate.py`, `assessment.py`, `smoke.py`, `fuzz.py`, `isf.py`, `feedback.py`) | a directory per candidate: `result.json`, `evaluation.json`, `automatic_feedback.json`; the experiment's analysis cache | analyse, classify, generate, compile, smoke, fuzz, evaluate, save | an error or an interrupt at any step, shared classification, two records of one outcome |
| Experiments and feedback loop (`experiment.py`, `feedback_loop.py`, `iteration.py`) | `experiment.json`, `feedback_loop.json` | run children, record, select the next parent | partial experiments, refused requests, a lineage over rounds |
| Plan optimization (`plan_optimization.py`, `evaluation/optimizer.py`) | `optimization.json`, an evaluation per candidate | measure, select, hold out, finish | the target's sources changing under the campaign, failing writes, ties |
| Generation command (`generation_cli.main`, `_BudgetedLLM`, `ft_selection.py`) | the request count of the process, the selection manifest, a state file per triplet | select, check the budget, generate triplet by triplet, refuse | three counts of one cost, a budget shared by triplets, a refusal in the middle of a stage |
| Triplets and assembly (`triplet.py`, `stage2.py`, `stage3.py`) | none (pure) | group into steps, collect dependencies, order | derived structures, ownership, cycles |
| SFG builder (`sfg_builder/`: `pipeline.py`, `annotation.py`, `voting.py`, `usage.py`, `replay.py`) | a build's answers, what a replay loaded, eight files of the artifact directory | count requests, ask with votes, replay recorded answers, mine and review usage patterns in batches, write file by file | a budget counted in advance, a batch that fails in part, answers replayed against changed sources, a kill between two files |
| Triplet extraction (`triplet_extractor.py`, `triplet_cli.py`, `sfg_adapter.py`) | none between commands; one document, all or nothing | load, make a view of every lifecycle, traverse the graph, close lifecycles, exclude by size | edges of other entries, opaque resources, one refused triplet that loses all |
| Stage 4's plan and harness rules (`stage4.py`, `triplet.py`) | none | accept or refuse a plan, accept or refuse a harness | rules from three sources that may contradict each other |
| Protocol evidence (`protocol_*.py`, `project_functions.py`) | five files: `protocol-mine` writes all of them, Stage 4 reads two | mine a parser, sample and vote, merge, write, reconcile, project, compare a plan | samples that contradict each other, a kill between two files, names from three sources, an order of the opcodes |
| Target build, coverage and contract (`target_*.py`) | recipe and contract identities | build, measure | stale identities |
| LLM clients, prompts, C parsing, evaluation signals, command lines | none | text and data | nothing a model checker helps with |

How they interact: the SFG builder writes the artifact directory that triplet
extraction reads, and triplet extraction the document that generation selects
from. The single-triplet command creates an orchestrator whose generator
callback runs a stage and whose validator callback is
`PipelineStageValidator`; Stage 4 reads what `protocol-mine` left, and its
validator fills the validation directory that publication reads afterwards.
Plan optimization calls Stage 4, the same validator and the same promotion in a
directory of its own per candidate. The feedback loop calls `run_candidate` and
`run_experiment`, and reads back the files they wrote rather than their return
values. All of it is sequential in one process; concurrency enters through
time: processes that are killed, restarted or started over the same directory,
and sources that somebody else edits.

## Modules

| Module | Models |
|---|---|
| `RollbackPolicy` | `StagedRollbackStrategy.after_failure`, the history's events, `latest_unresolved_rollback` as a fold |
| `Orchestrator` | `PipelineOrchestrator.run`, `_handle_failure`, `PipelineState.save`, `_generate_triplet`'s start and resume, crashes |
| `BoundedPipeline` | abstract: verdict, settled frontier, regenerations spent |
| `OrchestratorProps`, `OrchestratorProofs` | properties, proofs |
| `Publication` | the five validation kinds and the overall status, `validate_stage4` with its validators, `_publish_harness`, `promote_harness`, `pipeline_result`, crashes and reruns |
| `PublicationProps`, `MCPublication`, `PublicationProofs` | properties, command lines, proofs |
| `Candidate` | `run_candidate` and `execute_pipeline` |
| `FeedbackLoop` | `run_experiment`, `run_feedback_loop`, `load_revision`, `_selectable_reports`, the selector, composed over `Candidate` |
| `FeedbackLoopProps`, `MCFeedbackLoop`, `FeedbackLoopProofs` | properties, instances, proofs |
| `Optimizer` | `EvaluationOptimizer.run` with `run_plan_optimization`'s callbacks |
| `GreedyCampaign` | abstract: best score, rounds done, outcome |
| `OptimizerProps`, `OptimizerProofs` | properties, proofs |
| `Assembly` | `structural_steps`, `_structural_units`, `_order_snippets` as operators |
| `Generation` | selection, budget checks, the loop over triplets and `_BudgetedLLM`, composed over `Assembly` and `RollbackPolicy` |
| `GenerationProps`, `MCGeneration`, `GenerationProofs` | properties, catalogs and command lines, proofs |
| `Detection` | candidates, stream parameters, struct directions: what `sfg_builder` settles without a model |
| `FlowGraph` | a function's flows, the graph, what a loader accepts of both |
| `UsageMining` | lifecycles read off the calls in function bodies (`usage.py`) |
| `UsageReview` | the batched review of usage patterns and what it may change (`usage_semantics.py`) |
| `SemanticBuild` | `SFGPipeline.run`: preflight, questions and votes, replay, review, eight files; composed over `Detection`, `FlowGraph`, `UsageReview` |
| `SemanticBuildProps`, `MCSemanticBuild` | properties, a small project in two versions |
| `Ownership` | ownership relations from comments, names and bodies (`ownership.py`) |
| `TripletExtraction` | `FunctionTripletExtractor` and the checks of `FunctionTriplet` |
| `HarnessPlan` | Stage 4's plan and harness rules (`parse_harness_plan`, `_validate_harness`) |
| `LifecycleAnalysis` | from parsed functions to triplets; composed over `UsageMining`, `UsageReview`, `Ownership`, `TripletExtraction` |
| `LifecycleAnalysisProps`, `MCLifecycleAnalysis` | properties (over `HarnessPlan` too), six small libraries |
| `AnalysisProofs` | proofs about `SemanticBuild` and `LifecycleAnalysis` |
| `ProtocolMining` | `mine_protocol_facts` over the statements of a parser |
| `ProtocolConventions` | the vote over the model's samples |
| `ProtocolIR` | merge of facts and conventions, its coherence, the two documents made of it |
| `ProtocolContract` | reconciliation with the project, projection, comparison of a plan |
| `ProtocolEvidence` | `protocol-mine` and its reader in Stage 4; composed over the four above |
| `ProtocolEvidenceProps`, `MCProtocolEvidence`, `ProtocolEvidenceProofs` | properties, four small projects, proofs |
| `FoldLemmas` | what the folds of the community modules compute: sums, concatenations, rankings |

Some definitions are preceded by one named `X_Slip` (`BeginStage_KeepsStage`,
`Threshold_Half`, ...), a plausible slip in the definition `X` that follows.
Nothing uses them in the specifications; put in the place of `X` they make TLC
refute the property that `PROJECT.json` names beside them, which shows that the
property depends on that code.

### Orchestrator

`disk` is `pipeline_state.json`, `mem` the `PipelineState` object, `artifact`
the canonical file of every stage (whether its validator accepted it, and
whether it was made from what the stage below holds now), `checkpoints` the
object's in-memory dictionary, and `pc`, `stage`, `until` the position in
`run`. One action is one stretch of code between two writes or between a call
and its return: `BeginStage` saves `running`, `RunStage` replaces the canonical
file and may throw, `Validate...` accepts, rejects or raises, `Checkpoint`,
`RollBack`, `GiveUp` and `Finish` save. `Crash` may happen between any two, and
also stands for an exception that escapes `run`. `StartFresh` and `Resume` are
the two ways a process begins.

Left out: history events other than `rollback` and `checkpoint_created` (nothing
reads them); a refused resume (it changes nothing); a different
`--max-regen-per-level` on resume; two processes at once on one triplet. `GiveUp`
whose save fails is handled again with the same outcome and needs no action of
its own.

### Publication

A candidate is a number; `evidence` says for each validation file which status
it holds and which candidate it speaks of; `earned` is a ghost variable with
what validators found out about each candidate, `stable` the published pair,
`manifest` `promotion.json`, `result` the reported milestones. The command line
`opt` of each process is chosen from `Options`. `validate_stage4` clears the
files of an earlier candidate, fills them by component in the code's order, and
may be stopped by an exception or a crash after each. Left out: that
`runtime.json` is first saved with its raw status and then again, Stage 3
attempts, `outcome.json`, `quarantine.json`, the numbering of fuzz-smoke
directories.

### Candidate, FeedbackLoop

Candidates run one after the other, so one process state (`step`, `result`,
`code`) serves all and `files` holds every directory. `Raise` and `Interrupt`
stand for the two `except` clauses and can strike at every stage; what they
leave in the record is `Failed`. `EvaluationRaises`, `SaveFails` and `Escape`
are the ways the `finally` block can end. Protocol contract, ISF filter and
prompt construction are one step, `Prepare`, with the failure stage
`isf_filter` for all three; `error` stands for every outcome of a smoke or
fuzz run that is no acceptance; the smoke cases are one outcome. A missing API
key is a failure of `source_analysis`. Usage totals and duplicate counts are
left out, as are kills: nothing here is resumed.

### Optimizer

`phase` follows one candidate through generation, validation and its seeds;
`changed` says that the target's sources differ from those hashed at the start
and can become true at any moment; `tainted` is a ghost variable that says the
measurement at work has seen them. Every callback may raise; every write may
fail, before or after `optimization.json` itself was written. Changed sources
are assumed to stay changed: an edit undone between two comparisons cannot be
seen by the code and is listed as a hazard without a property. The branch `no
eligible candidates` of a round is left out because it cannot be reached: the
parent is always eligible. `plan_optimization.json`, written after the
campaign, is left out.

### Assembly, Generation

`Assembly` has no state: a triplet goes in, the order of its snippets comes
out. Structures and functions are numbers, with 0 for the null node, whose name
sorts before every identifier. `_order_snippets`' loop is a fold with one pass
per unit, which is as many as it can need; `forced` are the units placed by the
cycle fallback. `Generation` is one process: `selected`, `at` and `calls` are
the locals of `main` and the counter of `_BudgetedLLM`; `stage`, `level` and
`attempt` those of the triplet's orchestrator, which here only makes requests
and takes `AfterFailure`'s decisions (`Orchestrator` has its files, kills and
resumes). `failures` is a history variable: which triplets were refused
requests, and which failed otherwise. The greedy selection may pick any
candidate that fits, because the scores are data; the catalog's hash check is
left out, since the manifest is used with its own catalog, and so are the
warnings of the order and snippets whose dependencies name no snippet (Stage 2
writes none). `InvocationsAssumption` is what `load_triplets_json` lets in
(`IsCatalog`): identities of their own, which `triplet.py:461` insists on, and
finitely many functions, edges and alternatives; it also says that a command
line has numbers for its limits.

### SemanticBuild

One build follows another into one directory. `job` is the command line with
the version of the sources it parsed, `phase` where it is (`idle`, `ask`,
`review`, `write`), `answers` the replies so far in the order of the questions,
`recording` what a replaying build loaded, `written` and `disk` the eight files
in their order, `outcome` how the last build ended. `Begin` parses, counts the
requests in advance and refuses; `Ask` and `Replay` take one answer; `Annotate`
turns them into annotations by the votes; `Review` and `EndReview` are those of
`UsageReview`; `BudgetSpent` ends a build whose limit is used up; `WriteFile`,
`Finish` and `Interrupted` are the end. Whether a parameter is a byte stream is asked three times in
different words and two replies decide; a failed reply is the word `error`. `text` stands for all that a prompt shows of a
function. Functions, their parameters and the mined patterns are data of the
instance; `UsageMining` and `Ownership` have how they are found.
`FunctionsAssumption` says what the parser guarantees of them: an identity is
path, line and name, so no version has it twice, and identity and text
determine the function; `MinedAssumption` that the mined patterns of a version
are finitely many and have numbers for identities.

### LifecycleAnalysis, HarnessPlan

`project` and `annotation` are the sources and what a model says of them,
`artifacts` the directory the build leaves, `options` the extraction's command
line, `entries`, `triplets` and `excluded` the progress of the extraction.
`ReviewPatterns` is one request of the review, `Load` the loader with its checks,
`Extract` one entry with all its views, `Write` the document or the failure. A
function body is its sequence of calls of known functions, each with the
variables of its arguments and the conditions around it. `HarnessPlan` reads a
plan and the entry of a harness by the names they use; what is left of C in a
harness is which calls it makes, in which order, and what the arguments of a
call are: whether the value a producer made is given up, which of them `data`
and `size` reach, and which are a function of the harness or not null. How a
variable comes to hold any of these is abstracted. So `HarnessAccepted` has the
guards of `_validate_harness` on the input of the entry (`IsFed`), on callbacks
and encoders (`IsBound`) and on names (`BarredNames`); what its text can always
satisfy is not there: the signature of the entry, no second `main`, no project
function defined again, and the null checks around a cleanup. A callback table
may be passed as null, and then nothing is asked of it, so it can refuse a
harness but not every harness. A plan's items are without the bindings and
flags that the model can always fill in. The libraries have only the labels a
build can give (`LabelsPossible`): an entry has a stream parameter. Left out: a stale entry in the memo of
the ownership search (it can only be met through a cycle that is cut), the
bounds of 16 levels and 256 functions, cleanups that the project does not
define, and the loop at `stage4.py:835-851`, which cannot be reached.

### ProtocolEvidence

`phase` is where the command is (`idle`, `sampling`, `merging`, `writing`) or
that Stage 4 waits for a plan (`planning`). `parser`, `facts`, `accepted`,
`rejected` and `conventions` are the command's locals; `mined` lists the IRs
that were to be written and `disk` says of each of the five files from which of
them it is; `pending` are the files still to write; `interrupted` says that the
last command that wrote was killed between two. `Mine`, `Sample`, `SampleFails`,
`Vote`, `Merge`, `WriteFile` and `Kill` are the command, `Load` and `Answer` are
Stage 4, whose model may copy the bindings it is given, put the opcodes in any
order, or change one of eight things. A parser is its statements over small
expressions; a snippet of the model counts by the functions and members it
mentions. Left out: hexadecimal constants below 256 as magic bytes,
`default_max_steps` (no command sets it), the plan of a parent that is revised,
the schema and grammar of plans, Stage 4 and `protocol-mine` at the same time,
and `protocol_spec.py`, which the command does not use. Two idioms of C are
not followed: a variable whose value is a call of something else than a helper
with one byte of the buffer as an argument (`protocol_miner.py:989-1004`), and
constant expressions of more than one operation (`_resolve_int`).

## Runs

Deadlock checking is off everywhere because every system stops: runs, rounds,
builds, commands or processes are bounded, by the code or by `MaxRuns`,
`MaxBuilds` and the `commands` of a project.

| Run | Question | Bounds and why they are enough |
|---|---|---|
| `crash_resume` | Does what the state file claims stay true of the files, does it only move as the abstract pipeline does, and does a process leave its loop? | three processes (a run, a resume, a resume of that), one regeneration per level, every `--until-stage` |
| `regeneration` | Are failures charged once and answered (`RollbacksAnswered`)? | two regenerations per level, so that a level is used, exhausted and left; one resume |
| `publication_reruns` | Is a candidate judged by its own files (`EvidenceInv`), do the stable files hold only certified candidates, is what succeeded published and reported (`ReportIsTrue`)? | two candidates, two processes: every mixture of an old and a new candidate's files; command lines with and without building and fuzzing, with a recipe and with the plain compiler, both policies, and a contract that does not match, with and without validating |
| `publication_unvalidated` | violation, see below | a generating and a building command line |
| `feedback_loop` | Which child is selected, what do `experiment.json` (`ExperimentSettled`) and `feedback_loop.json` (`LineageInv`) say, is nothing requested after a refusal, and does the loop end? | two children of one round through all stages up to fuzzing, with two scores: ties, a better and a worse child; two rounds of one child from a harness that is run first, so that a selected child is revised |
| `feedback_failed_child` | violation, see below | two children, generation only |
| `optimizer_campaign` | Is the best candidate selected, untainted and held out, and does the campaign end? | two rounds of two children, two seeds, two scores, all three holdout modes |
| `generation_campaign` | Is the assembly order sound, do the three counts of a request agree (`CountsAgree`), does the command end? | assembly: every placement of two functions between three structures, a third function with a loop, a detour or a cleanup of a derived structure, with and without ownership and alternatives (720 triplets); budget: one to three triplets with two or three Stage 2 units in all, budgets below, at and above the estimate, one regeneration per level |
| `semantic_build` | Is the count made in advance exact (`BudgetInv`), does a replay reproduce what was recorded, is a completed directory one build's, does every build end? | two versions of the sources (a function changed, another gone), two builds, three command lines: minimal with as many requests as it needs, full with a limit that the review may reach, replay; votes that decide and replies that fail |
| `lifecycle_analysis` | What may the review cost (`ReviewInv`), is every entry described by what was observed and nothing of another entry, which triplets can no harness satisfy? | six libraries: a parser behind a handle that is used in three ways, a stream whose entries lead into each other, documents made by a parser and its thin wrapper and released by either of two functions, a tree whose nodes are made one from the other, two structures made from each other, and a library with entries that take callbacks, signed characters and a cookie and with a close that `fclose` wraps; batches of two, one repetition, 20 requests, size limits 3 and 20, minimal or not, every answer of the model |
| `lifecycle_twins` | violation, see below | one function defined under two conditions |
| `protocol_evidence` | What is mined of a frame, what does a vote combine, which files belong together, which contracts can a plan keep, which functions may it call? | four projects: three samples of four answers, one of which leaves most fields open, so that majorities, ties and minorities occur; three commands that mine three parsers again, with kills; parsers without a guard and with a payload inside the header, samples whose opcodes wait for one another, are listed in the wrong order, or say prose; a `functions.json` with a static, a doubled and a missing function |

### Disagreements between code and documentation

* `publication_unvalidated`: a process that generates without validating
  publishes when the directory still holds the validation files of an earlier
  candidate that passed: `_publish_harness` (`generation_cli.py:459`) reads
  `summary.json`, which speaks of the earlier one.
* `feedback_failed_child`: a child that `experiment.json` calls failed or
  interrupted, because its automatic feedback could not be written, is selected
  all the same (`feedback_loop.py:379` reads the stages of `result.json`, which
  the error did not touch), although the docstring says that a failed child is
  never selected.

* `lifecycle_twins`: `_deduplicate_functions` (`sfg_builder/parser.py:841`)
  keeps two definitions of one name and signature, as the two branches of an
  `#if` have them, but the identity of a triplet (`triplet.py:423`) is made
  without the line. Both triplets get one identity and no document is written,
  although the extractor promises "one FT per unique ISF anchor"
  (`triplet_extractor.py:45`).

Met while modelling, without a run of their own:

* the fuzz-smoke milestone (`pipeline_result.py:202`) counts directories any
  process left, so a success may report a fuzz smoke its candidate never passed;
* two functions from a structure to itself depend on each other, and the
  fallback for cycles (`stage3.py:387`) takes the smallest identifier, which is
  that of the cleanup, because the null node sorts first;
* a request refused by `_BudgetedLLM` (`generation_cli.py:294`) is charged to
  the rollback budget, so the triplet ends as `failed`, which `--resume` turns
  down;
* a producer that was observed to be called twice has to be called twice and
  only once (`stage4.py:1730` against the sequence in `prompts.py:375`); this is
  the exception `MakesMany` of `OnlyKnownContradictions`, and two cleanups that
  each have to come first are another, `CleanupsBlocked`;
* the builder takes a `signed char *` for a stream (`candidates.py:14`), the
  list of Stage 4 lacks it (`stage4.py:1971`), so the harness of an entry with
  no other input is always refused, unless a `void *` cookie happens to take
  the data; this is the exception `NoInput`;
* the result of a harness function is read without its pointers
  (`node.child_by_field_name("type")` in `_analyze_cpp`, `stage4.py:1156`), that
  of a callback type with them (`generation_context.py:22`, `stage4.py:1584`),
  so nothing serves a callback that returns a pointer, as an allocator does, and
  the callback must not be null either (`stage4.py:1428`); and a project's own
  function of the name of one of the standard output or of files
  (`stage4.py:47`) may not be called though the triplet requires it. Both are
  the exception `NeedsUncallable`;
* the projection lists stateful opcodes by name
  (`protocol_plan_validation.py:213`) and asks separately for an order of their
  reads and writes, so a plan that copies it may be refused, and opcodes that
  wait for one another leave no plan at all; several frames without a bound of
  the steps make a copy refused too (`PlansAsContracted` says exactly when a
  plan exists);
* the base of the payload is looked for behind every variable that was loaded
  from the buffer (`protocol_miner.py:1112`), a single byte included, which can
  put it inside the header; `FrameModel` then refuses a frame that the miner
  means to reject itself (`protocol_miner.py:1448`).

### Fairness

The runs with a liveness property (`RunEnds`, `LoopEnds`, `CampaignEnds`,
`CommandEnds`, `BuildEnds`) assume weak fairness of the whole step relation of one process and nothing else. The code justifies it: it is a sequential program
whose every request has a time-out, whose subprocesses are started with one and
killed after it, and whose loops are bounded; no fairness is assumed of any
particular branch, so a step may fail every time. In `Optimizer`, edits of the
target's sources are not part of the fair relation. `lifecycle_analysis`,
`protocol_evidence` and the publication runs state no liveness and assume none.

## Proofs

`OrchestratorProofs`, for every `MaxRegen`, `MaxRuns` and set of last stages:
`TypeCorrect`, `SettledPrefix`, `CheckpointPrefix`, `OutstandingAhead` and
`Refinement` (the orchestrator implements `BoundedPipeline`). They rest on the
assumption that `MaxRegen` is positive and `MaxRuns` natural, and on the
inductive invariant `IInv` of `OrchestratorProps`: `SettledPrefixSound` alone is
not inductive, since a resume reads the file and a checkpoint reads the memory,
so `IInv` relates the memory to the file at every phase (`MemoryInv`), bounds
the attempts by the rollback level (`LedgerInv`), and says which outstanding
rollbacks the history may hold (`HistoryInv`). The lemmas about `RollbackPolicy`
say what a decision may be and which rollbacks are outstanding after an event.

On top of `IInv` it has `JournalGrows` (`JournalOnlyGrows`), from `JournalInv`
(what a failing process has not saved yet only adds to the file);
`RollbacksCharged` (`RollbacksAccounted`): a save writes the rollback and its
charge together and a resume reads both, so a level's charges are the number of
its rollbacks in the history, whatever was lost in between; and
`FailuresAreAnswered` (`RollbacksAnswered`). The last needs two things more.
`ScanFindsNewest`: the fold that models `latest_unresolved_rollback` finds the
newest rollback no checkpoint has retired, in a history of any length.
`CoverInv`: a rollback that is outstanding goes back no further than the stage
in hand unless a newer outstanding one covers the gap; without it the newest
rollback could restart above the stage that is told about it.

`FeedbackLoopProofs`, for every set of command lines, any number of rounds and
children and every set of scores: `LineageHolds`, `ExperimentsSettle`,
`BestChildKept` and `RefusalIsFinal` (`LineageInv`, `ExperimentSettled`,
`NoBetterChildLost`, `NoRequestAfterRefusal`). The inductive invariant `IInv`
says where the loop is (`PhaseInv`), that a candidate is at work only as the
parent or as the child that `experiment.json` calls running (`WorkInv`), that
the directories of the candidates to come are empty (`EmptyInv`), that a
classification a child knows of is the cached one (`OwnerInv`), and what a
record is worth at every stage (`PathInv`, `PassedInv`): the last two relate
`execute_pipeline`'s exit code to what `_candidate_failure_reason` reads later.
That the selector's maximum exists is a lemma of its own (`BestIndex`): the
child that the fewest others are better than is the best.

`OptimizerProofs`, for every number of rounds, children and seeds and every set
of scores: `TypeCorrect`, `SelectionCorrect`, `NothingTaintedCompared`,
`CompletionCorrect`, `ReturnCorrect`, `NoDrift` and `Refinement` (the optimizer
implements `GreedyCampaign`). The inductive invariant `Inv` adds to the
properties where the campaign is (`PhaseOK`), that candidates are evaluated in
order (`EvaluatedInOrder`) and that only a measurement under way can be tainted
(`Untainted`). The assumption `OptimizerAssumption` limits rounds and children
to 999, up to which the identities `r%03d_c%03d` sort like numbers.

`PublicationProofs`, for every set of command lines and any number of
candidates and processes: `EvidenceFresh` (`EvidenceInv`), `ReportCorrect`
(`ReportIsTrue`) and `StablePairEarned` (`StableFilesEarned`), the last from the
assumption `EveryLineValidates`: that every command line either validates or
is refused by the gate for its contract. `publication_unvalidated`
shows that it cannot be dropped. The properties speak of the moment of
publication or of the reported success only, so `IInv` says of every phase of
the process what its locals and the validation files are worth: `ProcessInv`
(which components are through), `NewInv` (a candidate not yet validated is
published nowhere), `FreshInv` (the files filled so far are the candidate's own
and true of it) and `PublishedInv` (which of the three writes of a publication
are done).

`ProtocolEvidenceProofs`, for every project, every answer of a model and every
kill: `FilesCorrect` and `WholeOrInterrupted` (`WholeUnlessInterrupted`), from
the inductive invariant `FilesInv`, which says that the files already written
are of the command at work and that a plan is asked for or taken only in a
directory found in order; and `VoteHolds` (`VotedTogether`), from `SamplesInv`
(what is merged is the vote of the samples kept). Any two claims that pass were
made together by one sample (`ClaimsTogether`), because a threshold of more than
half of the samples makes any two sets of backers meet, however many samples
there are; and a text of the context has a plurality, because a mode is taken
where no majority is and ties are broken among the leaders only (`TextLeads`). `AnchoredCalls`
(`CallsAreAnchored`) and `PlansKeepContract` (`PlansAsContracted`) rest on two
more invariants. `EvidenceInv`: what was voted or stored keeps what the answers
had, each opcode in the alphabet and once, each snippet mentioning what it calls
(`ProtocolEvidenceAssumption`: the alphabet only orders words, and both sets are
read from one text). `PlanInv`: the projection a plan is asked to keep is that
of what is on the disk, and an accepted plan keeps it still, because every
command that could write forgets the plan first. Then a plan can be written
exactly where some order runs, since an order runs exactly where it keeps the
dependencies (`RunsInOrder`) and a copy of the projection can fail for nothing
else (`CopyConforms`). `GuardedFrames` (`GuardedFrameIsDisjoint`) and
`ConfidenceHolds` (`ConfidenceShowsDissent`) are about two computations.
`MinedInv` says that the facts are those of the parser at hand. Each role that
the miner gives comes from a set with one load per offset (`FirstKept`), the
payload is put after the largest offset met, and so the fields are disjoint
wherever every offset lies below the guard; that the largest offset is among
those met, however many passes resolve the variables, needs the text of a parser
to be finite (`ParserAssumption`). The confidence is a product of two shares,
each rounded to four places, one of them a mean of up to eight that were rounded
before. A share of at most 2000 votes that is not whole is at least five
ten-thousandths below it (`RoundedShare`), so a mean of eight stays below
(`TellingMean`) and so does the product (`WholeProduct`). Beyond that
(`Resolution`) a rejected sample may no longer show, at some twenty thousand
samples: the property is stated up to it, and a command asks for a handful.

`AnalysisProofs`, for every project, every command line and any number of builds
of the flow graph: `InvariantHolds` (`IInv`), `BudgetHolds` (`BudgetInv`: the count made in
advance is what the build asks, and no request goes beyond the limit),
`ReplayIsFaithful` (`ReplayReproduces`) and `CompletedLoads`
(`CompletedIsWhole`). The parts of `IInv`: `JobInv` and `PhaseInv` say which
command line and version is at work and where it is, `AnswersInv` that the
answers belong to the first questions in their order, `RequestsInv` what a review
has asked and may still ask, `DiskInv` which build each file is from, and
`ReplayInv` that a build that replays was recorded from the same questions. The
weight lies in the counts: that the requests counted in advance are the sum of
the questions' repetitions, that the candidates of the review come in one order
whatever the sets they are taken from, and that the annotations of equal answers
are equal.

The second part of `AnalysisProofs` goes from the sources to the triplets, for
every set of projects that `ProjectsAssumption` admits (finite lists of
functions with identities and ranks of their own, bodies that call only
functions of the project, annotations of none but them), every command line and
every answer: `ReviewBounded` (`ReviewInv`), `EntriesDescribed`
(`EveryEntryDescribed`), `ViewsObserved` (`ViewIsObserved`) and `Connected`
(`OnlyThroughAnchor`). None of these is inductive: a triplet is right only
because of the directory it was made of, and the directory because of what was
mined and reviewed. So the invariant of `LifecycleInvariant` says of each stage
what the next relies on: `QueueInv` what the queue can still cost, `ReviewedInv`
that a review keeps both ends of a pattern, the order of its calls and every
call of an entry, `DirectoryInv` that the artifacts know their functions, edges,
patterns, groups and relations (`IsDirectory`), `TripletsInv` that each triplet
is that of an entry and a variant, `EntriesInv` that an entry no longer waiting
is described. The lemmas under it follow the code: the mined patterns are
finitely many and begin and end as they should (`MinedFacts`); what the review
may shorten embeds in the pattern, and a call of an entry is never lost on the
way (`SubsequenceEmbeds`, `EntryKept`); a view of a group is that of each of its
members (`ViewFacts`); the traversal ends after as many rounds as there are
structures and goes no way that `LinksOf` forbids (`ReachableSpreads`,
`ReachedEnds`, `TripletConnected`); a closure over an opaque resource adds a
producer, a cleanup and an edge for each (`ClosureFacts`), and the constructor
accepts what comes out (`WellFormedTriplet`). Two wordings did not survive the
attempt and were corrected in `LifecycleAnalysisProps`: a failed extraction was
said to be impossible, which is true only without twins; and what a triplet has
beyond its entry's reach was said to be opaque or of one of its own relations,
which a larger instance refutes, since a lifecycle is also closed behind a
function that only looks like the producer of a relation (`MadeWithin`).

`GenerationProofs`, for every catalog and command line that
`InvocationsAssumption` admits: `CountsAreRight` (`CountsAgree`). A refusal in a
first pass is impossible only because of what all the earlier triplets spent, so
the inductive invariant has `AccountInv`: as long as nothing has failed, the
requests made are the estimates of the triplets done plus the requests of the
stages done (`Spent`) plus those of the stage at work. `SelectionInv` says that
a manifest keeps the limits it was selected under, `RoomInv` that nothing it
left out would have fitted them, `CatalogInv` and `StateInv` what the catalog
and the locals are and that a stage asks for no more than its share. That an
estimate is a number at all is a lemma about the fold that groups the structural
steps (`StepCount`). `OrderIsSound` (`OrderSound`) follows the loop of
`_order_snippets` pass by pass: `OrderInv` says that what is placed has left the
remaining units, that each pass has placed at least one, that a place is forced
only where units wait for one another, and that otherwise every unit stands
after what it depends on; `PassKeeps` that a pass keeps it. So n passes place n
units. That the dependencies include all the order must respect needs the other
fold, of `_descendant_structures`: a set grown n times over n units is closed
(`GrownIsClosed`), since each step adds to it until it is, and n units make at
most n structures.

`FoldLemmas` has what these need of the community modules' folds: that a fold
over a finite set exists for every base and step (`FoldExists`) and keeps a type
(`FoldTyped`), that `FoldLeft` of `+` sums and is monotone, that concatenating
a sequence of sequences lists each in turn, and that numbering a finite set by
an injective key gives one sequence. The induction over data is done by hand:
`FoldLeft` and its kin are functions chosen by their recursion, the claim is
turned into the set of operands it holds of, and a least element of what is left
contradicts it (`LeastElement`, `SubsetInduction`, `IntervalInduction`), since
the library's induction theorems take an operator. Where a list is made of a set
(`Sorted`, `SortedCatalog`), the models say at which rank a member stands: the
prover has no way into `SortSeq`.

Only model-checked: every liveness property, and `OnlyKnownContradictions`.
The latter says of the triplets of the six libraries exactly which of them no
harness can satisfy; it is not claimed of every library, where other rules may
meet, such as two relations whose observed sequences cross, a callback with a
variable list of parameters, or a producer of
`MakesMany` that a plan may replace by an alternative. Liveness, ENABLED and
what a recursive function computes for every input are out of the prover's
reach.

## Plan

Next modules: the revision of plans in Stage 4
(`stage4.py`), target builds and coverage with their identities
(`target_build.py`, `target_coverage.py`), the evaluation signals that a score
is made of, and the numbering of artifacts.

Next proofs: that `Generation`'s loop over one triplet implements
`BoundedPipeline`, and for which triplets in general Stage 4's rules leave a
harness.

## Not modelled

Prompt text, tree-sitter parsing of C, log and crash-report parsing, metric
extraction, HTTP, argument parsing and the project catalog: data and I/O without
state of their own. Where a modelled part depends on their outcome (a verdict,
a score, a classification, the statements of a function), every outcome is
allowed or a small set of representative inputs stands for it. Two processes at
work on one directory at the same time are not modelled anywhere: nothing in the
code coordinates them.
