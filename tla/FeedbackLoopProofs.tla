------------------------- MODULE FeedbackLoopProofs -------------------------
(***************************************************************************)
(* Proofs about the feedback loop, for every set of command lines, any     *)
(* number of rounds and of children, and every set of scores.              *)
(***************************************************************************)
EXTENDS FeedbackLoopProps, FiniteSetTheorems, WellFoundedInduction, TLAPS

(* Rounds and the manifest keep pace with the phases of the loop.           *)
PhaseInv ==
    /\ experiment = "none" <=> round = 0
    /\ phase \in {"start", "parent"} =>
           round = 0 /\ parent = Initial /\ manifest = [status |-> "none", selected |-> <<>>]
    /\ phase = "parent" => step # "idle" /\ current = Initial
    /\ phase \in {"start", "load", "ended"} => step = "idle" /\ experiment # "running"
    /\ phase = "load" => manifest.status = "running" /\ round = Len(manifest.selected)
    /\ phase = "experiment" =>
           manifest.status = "running" /\ round = Len(manifest.selected) + 1

(* A candidate is at work only as the parent of the loop or as the one      *)
(* child that experiment.json calls running.                                *)
WorkInv ==
    /\ \A i \in 1..Children : entries[i] = "running" =>
           experiment = "running" /\ step # "idle" /\ current = Child(i)
    /\ phase = "experiment" /\ step # "idle" =>
           /\ experiment = "running"
           /\ \E i \in 1..Children : current = Child(i) /\ entries[i] = "running"
    /\ experiment = "completed" => \A i \in 1..Children : entries[i] = "passed"
    /\ refusal => experiment \notin {"none", "running"}

(* Directories of candidates to come are empty.                             *)
EmptyInv ==
    /\ \A c \in Candidates : c[1] > round => files[c] = EmptyDirectory
    /\ round > 0 => \A i \in 1..Children :
           entries[i] = "not_started" => files[Child(i)] = EmptyDirectory

(* A classification that a child knows of is the one in the cache.          *)
OwnerInv ==
    /\ cache.status = "empty" => cache.owner = Nobody
    /\ step # "idle" => result.owner \in {Nobody, cache.owner}
    /\ round > 0 => \A i \in 1..Children : files[Child(i)].record.owner \in {Nobody, cache.owner}

(* What the record says so far is what the stages passed so far are worth.  *)
Unrun(r) ==
    /\ r.failure = "none" /\ r.compilation = Blank(TRUE).compilation
    /\ r.smoke = Blank(TRUE).smoke /\ r.fuzzing = Blank(TRUE).fuzzing

PathInv ==
    /\ step \in Stages \ {"smoke", "fuzzing"} => Unrun(result)
    /\ step = "validation" => result.generation \in {"skipped", "requesting"}
    /\ step \in {"review", "compilation", "smoke", "fuzzing"} =>
           result.generation \in {"passed", "skipped"} /\ result.failure = "none"
    /\ step = "compilation" => Depth # "none"
    /\ step = "smoke" =>
           SmokeRuns /\ result.compilation = "passed" /\ result.fuzzing = Blank(TRUE).fuzzing
    /\ step = "fuzzing" => FuzzRuns /\ result.compilation = "passed" /\ result.smoke = "passed"

(* A candidate about to return 0 has a record and files that say so.        *)
PassedInv ==
    step \in {"evaluate", "feedback", "save", "returned"} /\ code = 0 =>
        /\ Acceptable(result)
        /\ step # "evaluate" => files[current].evaluated
        /\ step = "returned" => files[current].recorded /\ files[current].record = result

(* The inductive strengthening: the steps of the candidate at work, the     *)
(* directories of the candidates to come and the classification they share. *)
IInv ==
    /\ setup \in Setups /\ TypeOK /\ PhaseInv /\ WorkInv /\ EmptyInv /\ OwnerInv /\ PathInv
    /\ PassedInv /\ PassedIsAcceptable /\ ManifestIsLineage /\ NoBetterChildLost

-----------------------------------------------------------------------------
(* The steps outside the stages.                                            *)
Work == {"idle", "evaluate", "feedback", "save", "returned", "escaped"}

(* What the command line may say.                                           *)
LEMMA SetupTypes ==
    ASSUME setup \in Setups
    PROVE  /\ Depth \in {"none", "compilation", "smoke", "fuzzing"}
           /\ Children \in Nat \ {0} /\ Rounds \in Nat \ {0}
           /\ ParentHarness \in BOOLEAN
  BY CandidateAssumption DEF Depth, Children, Rounds, ParentHarness

(* What depends on the command line only stays.                             *)
LEMMA SetupKept ==
    ASSUME setup' = setup
    PROVE  /\ Depth' = Depth /\ Children' = Children /\ Rounds' = Rounds
           /\ SmokeRuns' = SmokeRuns /\ FuzzRuns' = FuzzRuns /\ Candidates' = Candidates
           /\ Results' = Results /\ Directories' = Directories
           /\ \A offline \in BOOLEAN : Blank(offline)' = Blank(offline)
           /\ EmptyDirectory' = EmptyDirectory
  <1>1. Depth' = Depth /\ Children' = Children /\ Rounds' = Rounds
    BY DEF Depth, Children, Rounds
  <1>2. SmokeRuns' = SmokeRuns /\ FuzzRuns' = FuzzRuns /\ Candidates' = Candidates
    BY <1>1 DEF SmokeRuns, FuzzRuns, Candidates
  <1>3. Results' = Results
    BY <1>2 DEF Results
  <1>4. Directories' = Directories
    BY <1>3 DEF Directories
  <1>5. \A offline \in BOOLEAN : Blank(offline)' = Blank(offline)
    BY <1>1, <1>2 DEF Blank
  <1>6. EmptyDirectory' = EmptyDirectory
    BY <1>5 DEF EmptyDirectory
  <1>7. QED
    BY <1>1, <1>2, <1>3, <1>4, <1>5, <1>6

(* The stages and the other steps by name.                                  *)
LEMMA StepFacts ==
    /\ Stages \subseteq Steps /\ Work \subseteq Steps /\ Work \cap Stages = {}
    /\ \A s \in {"setup", "source_analysis", "isf_classification", "isf_filter", "api",
                "validation", "review", "compilation", "smoke", "fuzzing"} : s \in Stages
  BY DEF Stages, Steps, Work

(* The records a candidate starts from, and the directories it finds.       *)
LEMMA BlankType ==
    /\ \A offline \in BOOLEAN : Blank(offline) \in Results
    /\ EmptyDirectory \in Directories
  <1>1. \A offline \in BOOLEAN : Blank(offline) \in Results
    BY DEF Blank, Results, NobodyYet, SmokeOutcomes, FuzzOutcomes
  <1>2. NoEvaluation \in Evaluations
    BY DEF NoEvaluation, Evaluations
  <1>3. QED
    BY <1>1, <1>2 DEF EmptyDirectory, Directories

(* A record stays one when a stage writes its outcomes.                     *)
LEMMA ResultTypes ==
    ASSUME NEW G, NEW F, NEW I, NEW O, NEW C, NEW S, NEW Z, NEW B,
           NEW r \in [generation : G, failure : F, isf : I, owner : O, compilation : C,
                      smoke : S, fuzzing : Z, refused : B],
           NEW g \in G, NEW f \in F, NEW i \in I, NEW c \in C, NEW s \in S, NEW z \in Z
    PROVE  [r EXCEPT !.failure = f, !.generation = g, !.isf = i, !.compilation = c,
                     !.smoke = s, !.fuzzing = z]
               \in [generation : G, failure : F, isf : I, owner : O, compilation : C,
                    smoke : S, fuzzing : Z, refused : B]
  OBVIOUS

(* So it does when it writes one.                                           *)
LEMMA FieldTypes ==
    ASSUME NEW r \in Results
    PROVE  /\ \A f \in Stages \cup {"none"} : [r EXCEPT !.failure = f] \in Results
           /\ \A c \in {"skipped", "passed", "failed"} : [r EXCEPT !.compilation = c] \in Results
           /\ \A s \in SmokeOutcomes \cup {"blocked", r.smoke} : [r EXCEPT !.smoke = s] \in Results
           /\ \A z \in FuzzOutcomes \cup {"blocked", "blocked_by_finding", r.fuzzing} :
                  [r EXCEPT !.fuzzing = z] \in Results
  <1>1. \A f \in Stages \cup {"none"} : [r EXCEPT !.failure = f] \in Results
    BY DEF Results
  <1>2. \A c \in {"skipped", "passed", "failed"} : [r EXCEPT !.compilation = c] \in Results
    BY DEF Results
  <1>3. \A s \in SmokeOutcomes \cup {"blocked", r.smoke} : [r EXCEPT !.smoke = s] \in Results
    BY DEF Results
  <1>4. \A z \in FuzzOutcomes \cup {"blocked", "blocked_by_finding", r.fuzzing} :
            [r EXCEPT !.fuzzing = z] \in Results
    BY DEF Results
  <1>5. QED
    BY <1>1, <1>2, <1>3, <1>4

(* What an exception leaves in a record is a record.                        *)
LEMMA FailedType ==
    ASSUME NEW r \in Results, NEW stage \in Stages, NEW how \in {"error", "interrupted"}
    PROVE  Failed(r, stage, how) \in Results
  <1> DEFINE G == {"not_started", "skipped", "requesting", "passed", "failed", "interrupted"}
             F == Stages \cup {"none"}
             I == {"skipped", "not_started", "passed", "failed", "interrupted"}
             O == Candidates \cup {<<>>}
             C == {"not_started", "skipped", "passed", "failed", "error", "interrupted"}
             S == SmokeOutcomes \cup {"not_started", "skipped", "blocked"}
             Z == FuzzOutcomes \cup {"not_started", "skipped", "blocked", "blocked_by_finding"}
             R == [generation : G, failure : F, isf : I, owner : O, compilation : C,
                   smoke : S, fuzzing : Z, refused : BOOLEAN]
             f == IF r.failure = "none" THEN stage ELSE r.failure
             g == IF how = "error" /\ r.generation \notin {"passed", "skipped"} THEN "failed"
                  ELSE IF r.generation = "requesting" THEN "interrupted" ELSE r.generation
             i == IF stage # "isf_classification" THEN r.isf
                  ELSE IF how = "error" THEN "failed" ELSE "interrupted"
             c == IF stage = "compilation" THEN how ELSE r.compilation
             s == IF stage = "smoke" THEN how
                  ELSE IF stage = "compilation" /\ SmokeRuns /\ how = "error"
                  THEN "blocked" ELSE r.smoke
             z == IF stage = "fuzzing" THEN how
                  ELSE IF stage \in {"compilation", "smoke"} /\ FuzzRuns
                  THEN "blocked" ELSE r.fuzzing
             q == [r EXCEPT !.failure = f, !.generation = g, !.isf = i, !.compilation = c,
                            !.smoke = s, !.fuzzing = z]
  <1>1. Failed(r, stage, how) = q
    BY DEF Failed
  <1>2. Results = R
    BY DEF Results
  <1>3. r \in R
    BY <1>2
  <1>4. f \in F /\ g \in G /\ i \in I /\ c \in C
    BY <1>3
  <1>5. s \in S /\ z \in Z
    BY <1>3 DEF SmokeOutcomes, FuzzOutcomes
  <1> HIDE DEF G, F, I, O, C, S, Z, f, g, i, c, s, z
  <1>6. q \in R
    BY <1>3, <1>4, <1>5
  <1>7. QED
    BY <1>1, <1>2, <1>6 DEF G, F, I, O, C, S, Z, f, g, i, c, s, z

-----------------------------------------------------------------------------
(* A step of a candidate keeps the types.                                   *)
LEMMA CandidateTypes ==
    ASSUME CandidateTypeOK, current \in Candidates, CandidateStep, setup' = setup
    PROVE  CandidateTypeOK'
  <1> DEFINE Typed == /\ step' \in Steps /\ current' = current /\ result' \in Results
                      /\ code' \in {0, 1, 130} /\ requests' \in Nat
  <1>1. ASSUME Typed, UNCHANGED <<cache, files>>
        PROVE  CandidateTypeOK'
    BY <1>1, SetupKept DEF CandidateTypeOK
  <1>2. ASSUME Typed, UNCHANGED files,
               cache' \in [status : {"empty", "report", "failure"},
                          owner : Candidates \cup {NobodyYet}]
        PROVE  CandidateTypeOK'
    BY <1>2, SetupKept DEF CandidateTypeOK, NobodyYet
  <1>3. ASSUME Typed, UNCHANGED cache, NEW d \in Directories, files' = [files EXCEPT ![current] = d]
        PROVE  CandidateTypeOK'
    <2>1. files' \in [Candidates -> Directories]
      BY <1>3 DEF CandidateTypeOK
    <2>2. QED
      BY <1>3, <2>1, SetupKept DEF CandidateTypeOK
  <1>4. files[current] \in Directories
    BY DEF CandidateTypeOK
  <1>5. CASE Setup \/ AnalyzeSource \/ ShareClassification \/ Prepare \/ Request \/ Validate
    <2>1. CASE ShareClassification
      BY <2>1, <1>1, StepFacts DEF CandidateTypeOK, ShareClassification, Go, Results, NobodyYet
    <2>2. CASE Setup
      BY <2>2, <1>1, StepFacts DEF CandidateTypeOK, Setup, Go, Results
    <2>3. CASE Request
      BY <2>3, <1>1, StepFacts DEF CandidateTypeOK, Request, Go, Results
    <2>4. CASE Validate
      BY <2>4, <1>1, StepFacts DEF CandidateTypeOK, Validate, Go, Results
    <2>5. CASE AnalyzeSource \/ Prepare
      BY <2>5, <1>1, StepFacts DEF CandidateTypeOK, AnalyzeSource, Prepare, Go
    <2>6. QED
      BY <1>5, <2>1, <2>2, <2>3, <2>4, <2>5
  <1>6. CASE Classify
    <2>1. result' \in Results
      BY <1>6 DEF CandidateTypeOK, Classify, Results
    <2>2. QED
      BY <1>2, <1>6, <2>1, StepFacts DEF CandidateTypeOK, Classify, Go
  <1>7. CASE \E refused \in BOOLEAN : ClassifyFails(refused) \/ RequestFails(refused)
    <2>1. PICK refused \in BOOLEAN : ClassifyFails(refused) \/ RequestFails(refused)
      BY <1>7
    <2>2. step \in Stages
      BY <2>1, StepFacts DEF ClassifyFails, RequestFails
    <2>3. Failed(result, step, "error") \in Results
      BY <2>2, FailedType DEF CandidateTypeOK
    <2>4. result' \in Results
      BY <2>1, <2>3 DEF ClassifyFails, RequestFails, Results
    <2>5. QED
      BY <1>1, <1>2, <2>1, <2>4, StepFacts DEF CandidateTypeOK, ClassifyFails, RequestFails, Work
  <1>8. CASE ShareFailure
    <2>1. Failed(result, step, "error") \in Results
      BY <1>8, StepFacts, FailedType DEF CandidateTypeOK, ShareFailure
    <2>2. result' \in Results
      BY <1>8, <2>1 DEF ShareFailure, Results, CandidateTypeOK, NobodyYet
    <2>3. QED
      BY <1>1, <1>8, <2>2, StepFacts DEF CandidateTypeOK, ShareFailure, Work
  <1>9. CASE HarnessUnwritten
    <2>1. [result EXCEPT !.generation = "passed"] \in Results
      BY DEF CandidateTypeOK, Results
    <2>2. result' \in Results
      BY <1>9, <2>1, StepFacts, FailedType DEF HarnessUnwritten
    <2>3. QED
      BY <1>1, <1>9, <2>2, StepFacts DEF CandidateTypeOK, HarnessUnwritten, Work
  <1>10. CASE Review
    BY <1>1, <1>10, StepFacts DEF CandidateTypeOK, Review, Work
  <1>11. CASE Compile \/ (\E outcome \in SmokeOutcomes : RunSmoke(outcome))
                      \/ (\E outcome \in FuzzOutcomes : RunFuzzer(outcome))
    <2>1. result' \in Results
      <3>1. CASE Compile
        <4>1. CASE result' = [result EXCEPT !.compilation = "passed"]
          BY <4>1, FieldTypes DEF CandidateTypeOK
        <4>2. CASE result' = [result EXCEPT !.compilation = "failed", !.failure = "compilation",
                                  !.smoke = IF SmokeRuns THEN "blocked" ELSE result.smoke,
                                  !.fuzzing = IF FuzzRuns THEN "blocked" ELSE result.fuzzing]
          <5> DEFINE s == IF SmokeRuns THEN "blocked" ELSE result.smoke
                     z == IF FuzzRuns THEN "blocked" ELSE result.fuzzing
                     r1 == [result EXCEPT !.compilation = "failed"]
                     r2 == [r1 EXCEPT !.failure = "compilation"]
                     r3 == [r2 EXCEPT !.smoke = s]
          <5>1. r1 \in Results
            BY FieldTypes DEF CandidateTypeOK
          <5>2. r1.smoke = result.smoke /\ r1.fuzzing = result.fuzzing
            BY DEF CandidateTypeOK, Results
          <5>3. r2.smoke = r1.smoke /\ r2.fuzzing = r1.fuzzing /\ r2 \in Results
            <6> HIDE DEF r1
            <6>1. QED
              BY <5>1, StepFacts, FieldTypes DEF Results
          <5>4. r3 \in Results /\ r3.fuzzing = r2.fuzzing
            <6>1. s \in SmokeOutcomes \cup {"blocked", r2.smoke}
              BY <5>2, <5>3
            <6> HIDE DEF r2, s
            <6>2. r3 \in Results
              BY <5>3, <6>1, FieldTypes
            <6>3. QED
              BY <5>3, <6>2 DEF Results
          <5>5. [r3 EXCEPT !.fuzzing = z] \in Results
            <6>1. z \in FuzzOutcomes \cup {"blocked", r3.fuzzing}
              BY <5>2, <5>3, <5>4
            <6> HIDE DEF r3, z
            <6>2. QED
              BY <5>4, <6>1, FieldTypes
          <5>6. QED
            BY <4>2, <5>5
        <4>3. QED
          BY <3>1, <4>1, <4>2 DEF Compile, Executed
      <3>2. ASSUME NEW outcome \in SmokeOutcomes, RunSmoke(outcome)
            PROVE  result' \in Results
        <4> DEFINE r1 == [result EXCEPT !.smoke = outcome]
                   r2 == [r1 EXCEPT !.failure = "smoke"]
        <4>1. r1 \in Results /\ r1.fuzzing = result.fuzzing
          <5>1. r1 \in Results
            BY FieldTypes DEF CandidateTypeOK
          <5>2. QED
            BY <5>1 DEF CandidateTypeOK, Results
        <4>2. r2 \in Results /\ r2.fuzzing = r1.fuzzing
          <5> HIDE DEF r1
          <5>1. r2 \in Results
            BY <4>1, StepFacts, FieldTypes
          <5>2. QED
            BY <4>1, <5>1 DEF Results
        <4>3. ASSUME NEW z \in {"blocked", "blocked_by_finding", result.fuzzing}
              PROVE  [r1 EXCEPT !.fuzzing = z] \in Results /\ [r2 EXCEPT !.fuzzing = z] \in Results
          <5> HIDE DEF r1, r2
          <5>1. QED
            BY <4>1, <4>2, FieldTypes
        <4>4. \/ result' = r1
              \/ \E z \in {"blocked", "blocked_by_finding", result.fuzzing} :
                     result' = [r1 EXCEPT !.fuzzing = z] \/ result' = [r2 EXCEPT !.fuzzing = z]
          <5>1. CASE outcome = "passed"
            BY <3>2, <5>1 DEF RunSmoke, Executed
          <5>2. CASE outcome = "target_finding"
            BY <3>2, <5>2 DEF RunSmoke, Executed
          <5>3. CASE outcome \notin {"passed", "target_finding"}
            BY <3>2, <5>3 DEF RunSmoke, Executed
          <5>4. QED
            BY <5>1, <5>2, <5>3
        <4> HIDE DEF r1, r2
        <4>5. QED
          BY <4>1, <4>3, <4>4
      <3>3. ASSUME NEW outcome \in FuzzOutcomes, RunFuzzer(outcome)
            PROVE  result' \in Results
        <4> DEFINE r1 == [result EXCEPT !.fuzzing = outcome]
        <4>1. r1 \in Results
          BY FieldTypes DEF CandidateTypeOK
        <4>2. [r1 EXCEPT !.failure = "fuzzing"] \in Results
          <5> HIDE DEF r1
          <5>1. QED
            BY <4>1, StepFacts, FieldTypes
        <4>3. QED
          BY <3>3, <4>1, <4>2 DEF RunFuzzer, Executed
      <3>4. QED
        BY <1>11, <3>1, <3>2, <3>3
    <2>2. Typed /\ UNCHANGED <<cache, files>>
      BY <1>11, <2>1, StepFacts
         DEF CandidateTypeOK, Compile, RunSmoke, RunFuzzer, Executed, ExitCode, SmokeOutcomes, Work
    <2>3. QED
      BY <2>2, <1>1
  <1>12. CASE Raise \/ Interrupt
    <2>1. result' \in Results
      BY <1>12, FailedType DEF CandidateTypeOK, Raise, Interrupt
    <2>2. requests' \in Nat
      BY <1>12 DEF CandidateTypeOK, Raise, Interrupt, Asked
    <2>3. QED
      BY <1>1, <1>12, <2>1, <2>2, StepFacts DEF Raise, Interrupt, Work
  <1>13. CASE \E evaluation \in Evaluations : Evaluate(evaluation)
    <2>1. PICK evaluation \in Evaluations : Evaluate(evaluation)
      BY <1>13
    <2> DEFINE d == [files[current] EXCEPT !.evaluated = TRUE, !.evaluation = evaluation]
    <2>2. d \in Directories
      BY <1>4 DEF Directories
    <2>3. files' = [files EXCEPT ![current] = d]
      BY <2>1 DEF Evaluate, CandidateTypeOK, Directories
    <2>4. QED
      BY <1>3, <2>1, <2>2, <2>3, StepFacts DEF Evaluate, CandidateTypeOK, Work
  <1>14. CASE \E usable \in {"usable", "unusable"} : BuildFeedback(usable)
    <2>1. PICK usable \in {"usable", "unusable"} : BuildFeedback(usable)
      BY <1>14
    <2> DEFINE d == IF HasHarness(result) THEN [files[current] EXCEPT !.feedback = usable]
                    ELSE files[current]
    <2>2. d \in Directories
      BY <1>4 DEF Directories
    <2>3. files' = [files EXCEPT ![current] = d]
      BY <2>1 DEF BuildFeedback, CandidateTypeOK
    <2>4. QED
      BY <1>3, <2>1, <2>2, <2>3, StepFacts DEF BuildFeedback, CandidateTypeOK, Work
  <1>15. CASE SaveResult
    <2> DEFINE d == [files[current] EXCEPT !.recorded = TRUE, !.record = result]
    <2>1. d \in Directories
      BY <1>4 DEF Directories, CandidateTypeOK
    <2>2. files' = [files EXCEPT ![current] = d]
      <3>1. \A e \in Directories : [e EXCEPT !.recorded = TRUE] \in Directories
        BY DEF Directories
      <3>2. QED
        BY <1>15, <1>4, <3>1 DEF SaveResult, CandidateTypeOK, Directories
    <2>3. QED
      BY <1>3, <1>15, <2>1, <2>2, StepFacts DEF SaveResult, CandidateTypeOK, Work
  <1>16. CASE (\E exit \in {1, 130} : EvaluationRaises(exit)) \/ SaveFails \/ Escape
    BY <1>1, <1>16, StepFacts DEF EvaluationRaises, SaveFails, Escape, CandidateTypeOK, Work
  <1>17. QED
    BY <1>5, <1>6, <1>7, <1>8, <1>9, <1>10, <1>11, <1>12, <1>13, <1>14, <1>15, <1>16
       DEF CandidateStep

(* A step of a candidate stays in its directory.                            *)
LEMMA CandidateFrame ==
    ASSUME CandidateTypeOK, CandidateStep
    PROVE  /\ step \notin {"idle", "returned", "escaped"} /\ step' # "idle"
           /\ current' = current
           /\ \A c \in Candidates : c # current => files'[c] = files[c]
  <1> USE StepFacts DEF CandidateTypeOK, Work
  <1>1. CASE Setup \/ AnalyzeSource \/ ShareClassification \/ Prepare \/ Request \/ Validate
             \/ Classify
    BY <1>1 DEF Setup, AnalyzeSource, ShareClassification, Prepare, Request, Validate, Classify, Go
  <1>2. CASE \E refused \in BOOLEAN : ClassifyFails(refused) \/ RequestFails(refused)
    BY <1>2 DEF ClassifyFails, RequestFails
  <1>3. CASE ShareFailure \/ HarnessUnwritten \/ Review
    BY <1>3 DEF ShareFailure, HarnessUnwritten, Review
  <1>4. CASE Compile \/ (\E outcome \in SmokeOutcomes : RunSmoke(outcome))
                     \/ (\E outcome \in FuzzOutcomes : RunFuzzer(outcome))
    BY <1>4 DEF Compile, RunSmoke, RunFuzzer, Executed
  <1>5. CASE Raise \/ Interrupt
    BY <1>5 DEF Raise, Interrupt
  <1>6. CASE \E evaluation \in Evaluations : Evaluate(evaluation)
    BY <1>6 DEF Evaluate
  <1>7. CASE \E usable \in {"usable", "unusable"} : BuildFeedback(usable)
    BY <1>7 DEF BuildFeedback
  <1>8. CASE SaveResult \/ SaveFails \/ Escape
    BY <1>8 DEF SaveResult, SaveFails, Escape
  <1>9. CASE \E exit \in {1, 130} : EvaluationRaises(exit)
    BY <1>9 DEF EvaluationRaises
  <1>10. QED
    BY <1>1, <1>2, <1>3, <1>4, <1>5, <1>6, <1>7, <1>8, <1>9 DEF CandidateStep

(* What a candidate knows of the classification is the one in the cache,    *)
(* which is filled once.                                                    *)
LEMMA CandidateOwner ==
    ASSUME CandidateTypeOK, current \in Candidates, CandidateStep,
           cache.status = "empty" => cache.owner = Nobody,
           result.owner \in {Nobody, cache.owner}
    PROVE  /\ cache'.status = "empty" => cache'.owner = Nobody
           /\ result'.owner \in {Nobody, cache'.owner}
           /\ cache.owner \in {Nobody, cache'.owner}
           /\ files'[current].record.owner \in {files[current].record.owner, result.owner}
  <1> USE StepFacts DEF CandidateTypeOK, Nobody, NobodyYet
  <1>1. \A r \in Results, stage \in Stages, how \in {"error", "interrupted"} :
            Failed(r, stage, how).owner = r.owner
    BY DEF Failed, Results
  <1>2. \A r \in Results, stage \in Stages, how \in {"error", "interrupted"} :
            Failed(r, stage, how) \in Results
    BY FailedType
  <1>3. CASE Setup \/ AnalyzeSource \/ ShareClassification \/ Prepare \/ Request \/ Validate
    BY <1>3 DEF Setup, AnalyzeSource, ShareClassification, Prepare, Request, Validate, Go, Results
  <1>4. CASE Classify
    BY <1>4 DEF Classify, Go, Results
  <1>5. CASE \E refused \in BOOLEAN : ClassifyFails(refused) \/ RequestFails(refused)
    <2>1. PICK refused \in BOOLEAN : ClassifyFails(refused) \/ RequestFails(refused)
      BY <1>5
    <2>2. step \in Stages
      BY <2>1 DEF ClassifyFails, RequestFails
    <2> DEFINE f == Failed(result, step, "error")
    <2>3. f \in Results /\ f.owner = result.owner
      BY <1>1, <1>2, <2>2
    <2>4. result'.owner = current \/ result'.owner = f.owner
      BY <2>1, <2>3 DEF ClassifyFails, RequestFails, Results
    <2>5. CASE ClassifyFails(refused)
      <3>1. result'.owner = current
        <4> HIDE DEF f
        <4>1. [f EXCEPT !.refused = refused, !.owner = current].owner = current
          BY <2>3 DEF Results
        <4>2. QED
          BY <2>5, <4>1 DEF ClassifyFails, f
      <3>2. QED
        BY <2>5, <3>1 DEF ClassifyFails
    <2>6. CASE RequestFails(refused)
      <3>1. result'.owner = result.owner
        <4> HIDE DEF f
        <4>1. [f EXCEPT !.refused = refused].owner = f.owner
          BY <2>3 DEF Results
        <4>2. QED
          BY <2>3, <2>6, <4>1 DEF RequestFails, f
      <3>2. QED
        BY <2>6, <3>1 DEF RequestFails
    <2>7. QED
      BY <2>1, <2>5, <2>6
  <1>6. CASE ShareFailure
    <2> DEFINE f == Failed(result, step, "error")
    <2>1. f \in Results
      BY <1>2, <1>6 DEF ShareFailure
    <2>2. [f EXCEPT !.owner = cache.owner].owner = cache.owner
      <3> HIDE DEF f
      <3>1. QED
        BY <2>1 DEF Results
    <2>3. QED
      BY <1>6, <2>2 DEF ShareFailure
  <1>7. CASE HarnessUnwritten
    <2> DEFINE r == [result EXCEPT !.generation = "passed"]
    <2>1. r \in Results /\ r.owner = result.owner
      BY DEF Results
    <2>2. Failed(r, step, "error").owner = r.owner
      <3> HIDE DEF r
      <3>1. QED
        BY <1>1, <1>7, <2>1 DEF HarnessUnwritten
    <2>3. QED
      BY <1>7, <2>1, <2>2 DEF HarnessUnwritten
  <1>8. CASE Review
    BY <1>8 DEF Review
  <1>9. CASE Compile \/ (\E outcome \in SmokeOutcomes : RunSmoke(outcome))
                     \/ (\E outcome \in FuzzOutcomes : RunFuzzer(outcome))
    <2>1. result'.owner = result.owner
      <3>1. CASE Compile
        BY <3>1 DEF Compile, Executed, Results
      <3>2. CASE \E outcome \in SmokeOutcomes : RunSmoke(outcome)
        BY <3>2 DEF RunSmoke, Executed, Results
      <3>3. CASE \E outcome \in FuzzOutcomes : RunFuzzer(outcome)
        BY <3>3 DEF RunFuzzer, Executed, Results
      <3>4. QED
        BY <1>9, <3>1, <3>2, <3>3
    <2>2. UNCHANGED <<cache, files>>
      BY <1>9 DEF Compile, RunSmoke, RunFuzzer, Executed
    <2>3. QED
      BY <2>1, <2>2
  <1>10. CASE Raise \/ Interrupt
    BY <1>1, <1>10 DEF Raise, Interrupt
  <1>11. CASE \E evaluation \in Evaluations : Evaluate(evaluation)
    BY <1>11 DEF Evaluate, Directories
  <1>12. CASE \E usable \in {"usable", "unusable"} : BuildFeedback(usable)
    BY <1>12 DEF BuildFeedback, Directories
  <1>13. CASE SaveResult
    BY <1>13 DEF SaveResult, Directories
  <1>14. CASE SaveFails \/ Escape \/ \E exit \in {1, 130} : EvaluationRaises(exit)
    BY <1>14 DEF SaveFails, Escape, EvaluationRaises
  <1>15. QED
    BY <1>3, <1>4, <1>5, <1>6, <1>7, <1>8, <1>9, <1>10, <1>11, <1>12, <1>13, <1>14
       DEF CandidateStep

(* What a candidate's stages have passed stays true of its record.          *)
LEMMA CandidatePath ==
    ASSUME setup \in Setups, CandidateTypeOK, PathInv, CandidateStep, setup' = setup
    PROVE  PathInv'
  <1> USE StepFacts DEF CandidateTypeOK, PathInv, Unrun
  <1>1. Depth' = Depth /\ SmokeRuns' = SmokeRuns /\ FuzzRuns' = FuzzRuns
    BY SetupKept
  <1>2. Blank(TRUE)' = Blank(TRUE)
    BY SetupKept
  <1>3. ASSUME step' \notin Stages
        PROVE  PathInv'
    BY <1>3
  <1>4. ASSUME Unrun(result), UNCHANGED result, step' \in Stages \ {"smoke", "fuzzing"},
               step' \notin {"validation", "review", "compilation"}
        PROVE  PathInv'
    BY <1>2, <1>4
  <1>5. CASE Setup
    <2>1. CASE result.isf = "skipped"
      <3>1. /\ step = "setup" /\ step' = "validation"
            /\ result' = [result EXCEPT !.generation = "skipped"]
        BY <1>5, <2>1 DEF Setup, Go
      <3>2. QED
        BY <1>2, <3>1 DEF Results
    <2>2. CASE result.isf # "skipped"
      BY <1>4, <1>5, <2>2 DEF Setup, Go
    <2>3. QED
      BY <2>1, <2>2
  <1>6. CASE AnalyzeSource \/ Prepare
    <2>1. /\ Unrun(result) /\ UNCHANGED result
          /\ step' \in {"isf_classification", "api"}
      BY <1>6 DEF AnalyzeSource, Prepare, Go
    <2>2. QED
      BY <1>4, <2>1
  <1>7. CASE ShareClassification \/ Classify
    BY <1>2, <1>7 DEF ShareClassification, Classify, Go, Results
  <1>8. CASE Request
    BY <1>2, <1>8 DEF Request, Go, Results
  <1>9. CASE Validate
    BY <1>2, <1>9 DEF Validate, Go, Results
  <1>10. CASE Review
    BY <1>1, <1>2, <1>10 DEF Review, Work
  <1>11. CASE Compile
    <2>1. CASE step' = "smoke"
      <3>1. SmokeRuns /\ result' = [result EXCEPT !.compilation = "passed"]
        BY <1>11, <2>1 DEF Compile, Executed
      <3>2. step = "compilation"
        BY <1>11 DEF Compile
      <3>3. QED
        BY <1>1, <1>2, <2>1, <3>1, <3>2 DEF Results
    <2>2. QED
      BY <1>3, <1>11, <2>1 DEF Compile, Executed, Work
  <1>12. CASE \E outcome \in SmokeOutcomes : RunSmoke(outcome)
    <2>1. PICK outcome \in SmokeOutcomes : RunSmoke(outcome)
      BY <1>12
    <2>2. CASE step' = "fuzzing"
      <3>1. FuzzRuns /\ step = "smoke" /\ result' = [result EXCEPT !.smoke = "passed"]
        BY <2>1, <2>2 DEF RunSmoke, Executed
      <3>2. QED
        BY <1>1, <1>2, <2>2, <3>1 DEF Results
    <2>3. step' \in {"fuzzing", "evaluate"}
      BY <2>1 DEF RunSmoke, Executed
    <2>4. QED
      BY <1>3, <2>2, <2>3 DEF Work
  <1>13. CASE \E outcome \in FuzzOutcomes : RunFuzzer(outcome)
    BY <1>3, <1>13 DEF RunFuzzer, Executed, Work
  <1>14. CASE \E refused \in BOOLEAN : ClassifyFails(refused) \/ RequestFails(refused)
    BY <1>3, <1>14 DEF ClassifyFails, RequestFails, Work
  <1>15. CASE ShareFailure \/ HarnessUnwritten \/ Raise \/ Interrupt
    BY <1>3, <1>15 DEF ShareFailure, HarnessUnwritten, Raise, Interrupt, Work
  <1>16. CASE \/ \E evaluation \in Evaluations : Evaluate(evaluation)
              \/ \E usable \in {"usable", "unusable"} : BuildFeedback(usable)
              \/ \E exit \in {1, 130} : EvaluationRaises(exit)
              \/ SaveResult \/ SaveFails \/ Escape
    BY <1>3, <1>16
       DEF Evaluate, BuildFeedback, EvaluationRaises, SaveResult, SaveFails, Escape, Work
  <1>17. QED
    BY <1>5, <1>6, <1>7, <1>8, <1>9, <1>10, <1>11, <1>12, <1>13, <1>14, <1>15, <1>16
       DEF CandidateStep

(* A candidate that will return 0 is acceptable, evaluated and recorded.    *)
LEMMA CandidatePassed ==
    ASSUME setup \in Setups, CandidateTypeOK, current \in Candidates, PathInv, PassedInv,
           CandidateStep, setup' = setup
    PROVE  PassedInv'
  <1> USE StepFacts DEF CandidateTypeOK, Work
  <1>1. ASSUME step' \in Stages \/ step' = "escaped" \/ code' # 0
        PROVE  PassedInv'
    BY <1>1 DEF PassedInv
  <1>2. ASSUME step' = "evaluate", Acceptable(result')
        PROVE  PassedInv'
    BY <1>2 DEF PassedInv, Acceptable
  <1>3. CASE Setup \/ AnalyzeSource \/ ShareClassification \/ Prepare \/ Request \/ Validate
             \/ Classify
    BY <1>1, <1>3
       DEF Setup, AnalyzeSource, ShareClassification, Prepare, Request, Validate, Classify, Go
  <1>4. CASE \E refused \in BOOLEAN : ClassifyFails(refused) \/ RequestFails(refused)
    BY <1>1, <1>4 DEF ClassifyFails, RequestFails
  <1>5. CASE ShareFailure \/ HarnessUnwritten \/ Raise \/ Interrupt
    BY <1>1, <1>5 DEF ShareFailure, HarnessUnwritten, Raise, Interrupt
  <1>6. CASE Review
    <2>1. CASE Depth = "none"
      <3>1. Acceptable(result)
        BY <1>6, <2>1 DEF Review, PathInv, Unrun, Blank, Acceptable, SmokeRuns, FuzzRuns
      <3>2. QED
        BY <1>2, <1>6, <2>1, <3>1 DEF Review
    <2>2. QED
      BY <1>1, <1>6, <2>1 DEF Review
  <1>7. CASE Compile
    <2>1. CASE ~SmokeRuns /\ result' = [result EXCEPT !.compilation = "passed"]
      <3>1. Acceptable(result')
        BY <1>7, <2>1, SetupTypes
           DEF Compile, PathInv, Unrun, Blank, Acceptable, SmokeRuns, FuzzRuns, Results
      <3>2. QED
        BY <1>1, <1>2, <1>7, <3>1, <2>1 DEF Compile, Executed
    <2>2. QED
      BY <1>1, <1>7, <2>1 DEF Compile, Executed
  <1>8. CASE \E outcome \in SmokeOutcomes : RunSmoke(outcome)
    <2>1. PICK outcome \in SmokeOutcomes : RunSmoke(outcome)
      BY <1>8
    <2>2. CASE outcome = "passed"
      <3>1. CASE FuzzRuns
        BY <1>1, <2>1, <2>2, <3>1 DEF RunSmoke, Executed
      <3>2. CASE ~FuzzRuns
        <4>1. step' = "evaluate" /\ result' = [result EXCEPT !.smoke = "passed"]
          BY <2>1, <2>2, <3>2 DEF RunSmoke, Executed
        <4>2. Acceptable(result')
          BY <2>1, <3>2, <4>1 DEF RunSmoke, PathInv, Blank, Acceptable, Results
        <4>3. QED
          BY <1>2, <4>1, <4>2
      <3>3. QED
        BY <3>1, <3>2
    <2>3. CASE outcome = "target_finding"
      <3> DEFINE z == IF FuzzRuns THEN "blocked_by_finding" ELSE result.fuzzing
      <3>1. z \in {"skipped", "blocked_by_finding"} /\ step = "smoke"
        BY <2>1 DEF RunSmoke, PathInv, Blank
      <3>2. /\ step' = "evaluate"
            /\ result' = [result EXCEPT !.smoke = "target_finding", !.fuzzing = z]
        BY <2>1, <2>3 DEF RunSmoke, Executed
      <3>3. Acceptable(result')
        <4> HIDE DEF z
        <4>1. QED
          BY <3>1, <3>2 DEF PathInv, Acceptable, Results
      <3>4. QED
        BY <1>2, <3>2, <3>3
    <2>4. CASE outcome \notin {"passed", "target_finding"}
      BY <1>1, <2>1, <2>4 DEF RunSmoke, Executed, ExitCode
    <2>5. QED
      BY <2>2, <2>3, <2>4
  <1>9. CASE \E outcome \in FuzzOutcomes : RunFuzzer(outcome)
    <2>1. PICK outcome \in FuzzOutcomes : RunFuzzer(outcome)
      BY <1>9
    <2>2. CASE outcome \in {"completed", "target_finding"}
      <3>1. step = "fuzzing" /\ step' = "evaluate" /\ result' = [result EXCEPT !.fuzzing = outcome]
        BY <2>1, <2>2 DEF RunFuzzer, Executed
      <3>2. Acceptable(result')
        BY <2>2, <3>1 DEF PathInv, Acceptable, Results
      <3>3. QED
        BY <1>2, <3>1, <3>2
    <2>3. CASE outcome \notin {"completed", "target_finding"}
      BY <1>1, <2>1, <2>3 DEF RunFuzzer, Executed, ExitCode
    <2>4. QED
      BY <2>2, <2>3
  <1>10. CASE \E evaluation \in Evaluations : Evaluate(evaluation)
    <2>1. PICK evaluation \in Evaluations : Evaluate(evaluation)
      BY <1>10
    <2>2. files'[current].evaluated
      BY <2>1 DEF Evaluate, Directories
    <2>3. QED
      BY <2>1, <2>2 DEF Evaluate, PassedInv, Acceptable
  <1>11. CASE \E usable \in {"usable", "unusable"} : BuildFeedback(usable)
    <2>1. PICK usable \in {"usable", "unusable"} : BuildFeedback(usable)
      BY <1>11
    <2>2. files'[current].evaluated = files[current].evaluated
      BY <2>1 DEF BuildFeedback, Directories
    <2>3. QED
      BY <2>1, <2>2 DEF BuildFeedback, PassedInv, Acceptable
  <1>12. CASE \E exit \in {1, 130} : EvaluationRaises(exit)
    BY <1>1, <1>12 DEF EvaluationRaises
  <1>13. CASE SaveResult
    <2>1. /\ files'[current].evaluated = files[current].evaluated
          /\ files'[current].recorded /\ files'[current].record = result
      BY <1>13 DEF SaveResult, Directories
    <2>2. QED
      BY <1>13, <2>1 DEF SaveResult, PassedInv, Acceptable
  <1>14. CASE SaveFails \/ Escape
    BY <1>1, <1>14 DEF SaveFails, Escape
  <1>15. QED
    BY <1>3, <1>4, <1>5, <1>6, <1>7, <1>8, <1>9, <1>10, <1>11, <1>12, <1>13, <1>14
       DEF CandidateStep

-----------------------------------------------------------------------------
(* The child of each round, as a sequence.                                  *)
LEMMA SelectedSeq ==
    ASSUME NEW S, NEW m \in Nat, NEW s
    PROVE  s \in UNION {[1..n -> S] : n \in 0..m} <=> s \in Seq(S) /\ Len(s) <= m
  <1>1. ASSUME s \in UNION {[1..n -> S] : n \in 0..m}
        PROVE  s \in Seq(S) /\ Len(s) <= m
    <2>1. PICK n \in 0..m : s \in [1..n -> S]
      BY <1>1
    <2>2. QED
      BY <2>1
  <1>2. ASSUME s \in Seq(S), Len(s) <= m
        PROVE  s \in UNION {[1..n -> S] : n \in 0..m}
    <2>1. Len(s) \in 0..m /\ s \in [1..Len(s) -> S]
      BY <1>2
    <2>2. QED
      BY <2>1
  <1>3. QED
    BY <1>1, <1>2

(* The identities and the rounds of a state.                                *)
LEMMA StateFacts ==
    ASSUME IInv
    PROVE  /\ Children \in Nat \ {0} /\ Rounds \in Nat \ {0} /\ round \in 0..Rounds
           /\ Initial \in Candidates /\ Initial[1] = 0
           /\ \A r \in 1..Rounds, i \in 1..Children : <<r, i>> \in Candidates
           /\ \A r \in Nat : \A i, j : <<r, i>>[1] = r /\ (<<r, i>> = <<r, j>> => i = j)
           /\ manifest.selected \in Seq(Candidates \cup {Nobody})
           /\ Len(manifest.selected) \in 0..Rounds
           /\ manifest.status \in {"none", "running", "completed", "stopped", "failed"}
  <1>1. Children \in Nat \ {0} /\ Rounds \in Nat \ {0} /\ round \in 0..Rounds
    BY SetupTypes DEF IInv, TypeOK, ExperimentTypeOK
  <1>2. /\ manifest.selected \in UNION {[1..n -> Candidates \cup {Nobody}] : n \in 0..Rounds}
        /\ manifest.status \in {"none", "running", "completed", "stopped", "failed"}
    BY DEF IInv, TypeOK
  <1>3. manifest.selected \in Seq(Candidates \cup {Nobody}) /\ Len(manifest.selected) <= Rounds
    BY <1>1, <1>2, SelectedSeq
  <1>4. Len(manifest.selected) \in 0..Rounds
    BY <1>1, <1>3
  <1>5. Initial \in Candidates /\ Initial[1] = 0
    BY DEF Initial, Candidates
  <1>6. \A r \in 1..Rounds, i \in 1..Children : <<r, i>> \in Candidates
    BY DEF Candidates
  <1>7. QED
    BY <1>1, <1>2, <1>3, <1>4, <1>5, <1>6

(* The candidate at work is the initial one, or the child that              *)
(* experiment.json calls running.                                           *)
LEMMA AtWork ==
    ASSUME IInv, step # "idle"
    PROVE  /\ current \in Candidates /\ current[1] \in 0..round
           /\ \/ phase = "parent" /\ round = 0 /\ current = Initial /\ experiment = "none"
              \/ /\ phase = "experiment" /\ round > 0 /\ experiment = "running"
                 /\ \E i \in 1..Children : current = Child(i) /\ entries[i] = "running"
  <1>1. phase \in {"parent", "experiment"}
    BY DEF IInv, TypeOK, PhaseInv
  <1>2. CASE phase = "parent"
    BY <1>2, StateFacts DEF IInv, PhaseInv
  <1>3. CASE phase = "experiment"
    <2>1. PICK i \in 1..Children : current = Child(i) /\ entries[i] = "running"
      BY <1>3 DEF IInv, WorkInv
    <2>2. experiment = "running" /\ round > 0
      BY <1>3, StateFacts DEF IInv, WorkInv, PhaseInv
    <2>3. current \in Candidates /\ current[1] \in 0..round
      BY <2>1, <2>2, StateFacts DEF Child
    <2>4. QED
      BY <1>3, <2>1, <2>2, <2>3
  <1>4. QED
    BY <1>1, <1>2, <1>3

(* What a step of a candidate and the steps of its experiment leave alone.  *)
LEMMA LoopKept ==
    ASSUME IInv, phase \in {"parent", "experiment"},
           UNCHANGED <<setup, phase, parent, manifest, round>>
    PROVE  ManifestIsLineage' /\ NoBetterChildLost'
  <1>1. Children' = Children /\ Rounds' = Rounds
    BY SetupKept
  <1>2. ManifestIsLineage'
    BY <1>1 DEF IInv, ManifestIsLineage, Selections, LastOf
  <1>3. ~(round > 0 /\ Len(manifest.selected) = round)
    BY StateFacts DEF IInv, PhaseInv
  <1>4. ~Decided'
    BY <1>3 DEF Decided
  <1>5. QED
    BY <1>2, <1>4 DEF NoBetterChildLost

(* A step of the candidate at work.                                         *)
LEMMA CandidateIInv ==
    ASSUME IInv, CandidateStep,
           UNCHANGED <<setup, round, entries, experiment, refusal, phase, parent, manifest>>
    PROVE  IInv'
  <1>1. CandidateTypeOK /\ step # "idle" /\ step' # "idle" /\ current' = current
    BY CandidateFrame DEF IInv, TypeOK, ExperimentTypeOK
  <1>2. current \in Candidates
    BY <1>1, AtWork
  <1>3. /\ Children' = Children /\ Rounds' = Rounds /\ Candidates' = Candidates
        /\ EmptyDirectory' = EmptyDirectory
    BY SetupKept
  <1>4. \A c \in Candidates : c # current => files'[c] = files[c]
    BY <1>1, CandidateFrame
  <1>5. \A i : Child(i)' = Child(i)
    BY DEF Child
  <1>6. setup' \in Setups /\ TypeOK'
    <2>1. CandidateTypeOK'
      BY <1>1, <1>2, CandidateTypes
    <2>2. QED
      BY <1>3, <2>1 DEF IInv, TypeOK, ExperimentTypeOK
  <1>7. PhaseInv'
    BY <1>1, AtWork DEF IInv, PhaseInv
  <1>8. WorkInv'
    BY <1>1, <1>3, <1>5 DEF IInv, WorkInv
  <1>9. EmptyInv'
    <2>1. \A c \in Candidates : c[1] > round => c # current
      BY <1>1, AtWork, StateFacts
    <2>2. round > 0 => \A i \in 1..Children : entries[i] = "not_started" => Child(i) # current
      BY <1>1, AtWork, StateFacts DEF Child
    <2>3. round > 0 => \A i \in 1..Children : Child(i) \in Candidates
      BY StateFacts DEF Child
    <2>4. QED
      BY <1>3, <1>4, <1>5, <2>1, <2>2, <2>3 DEF IInv, EmptyInv
  <1>10. OwnerInv'
    <2>1. /\ cache'.status = "empty" => cache'.owner = Nobody
          /\ result'.owner \in {Nobody, cache'.owner}
          /\ cache.owner \in {Nobody, cache'.owner}
          /\ files'[current].record.owner \in {files[current].record.owner, result.owner}
      BY <1>1, <1>2, CandidateOwner DEF IInv, OwnerInv
    <2>2. ASSUME round > 0, NEW i \in 1..Children
          PROVE  files'[Child(i)].record.owner \in {Nobody, cache'.owner}
      <3>1. files[Child(i)].record.owner \in {Nobody, cache'.owner}
        BY <2>1, <2>2 DEF IInv, OwnerInv
      <3>2. result.owner \in {Nobody, cache'.owner}
        BY <1>1, <2>1, <2>2 DEF IInv, OwnerInv
      <3>3. Child(i) \in Candidates
        BY <2>2, StateFacts DEF Child
      <3>4. QED
        BY <1>4, <2>1, <2>2, <3>1, <3>2, <3>3
    <2>3. QED
      BY <1>3, <1>5, <2>1, <2>2 DEF OwnerInv, Nobody
  <1>11. PathInv' /\ PassedInv'
    BY <1>1, <1>2, CandidatePath, CandidatePassed DEF IInv
  <1>12. PassedIsAcceptable'
    <2>1. \A i \in 1..Children : experiment # "none" /\ entries[i] = "passed" =>
              Child(i) \in Candidates /\ Child(i) # current
      BY <1>1, AtWork, StateFacts DEF Child, IInv, PhaseInv
    <2>2. QED
      BY <1>3, <1>4, <1>5, <2>1 DEF IInv, PassedIsAcceptable, Acceptable
  <1>13. QED
    BY <1>6, <1>7, <1>8, <1>9, <1>10, <1>11, <1>12, LoopKept, AtWork, <1>1 DEF IInv

(* Between two candidates there is no record to vouch for.                  *)
LEMMA IdleKept ==
    ASSUME step' = "idle"
    PROVE  PathInv' /\ PassedInv'
  BY StepFacts DEF PathInv, PassedInv, Work

(* A batch that lacks its API key.                                          *)
LEMMA MissingKeyIInv ==
    ASSUME IInv, MissingKey, phase \in {"parent", "experiment"},
           UNCHANGED <<setup, phase, parent, manifest>>
    PROVE  IInv'
  <1> USE DEF MissingKey, candidateVars
  <1>1. /\ Children' = Children /\ Rounds' = Rounds /\ Candidates' = Candidates
        /\ EmptyDirectory' = EmptyDirectory /\ \A i : Child(i)' = Child(i)
    BY SetupKept DEF Child
  <1>2. step = "idle" /\ phase = "experiment"
    BY AtWork, StateFacts DEF IInv, PhaseInv
  <1>3. setup' \in Setups /\ TypeOK'
    BY SetupKept DEF IInv, TypeOK, ExperimentTypeOK, CandidateTypeOK
  <1>4. PhaseInv' /\ WorkInv'
    BY <1>1, <1>2 DEF IInv, PhaseInv, WorkInv
  <1>5. EmptyInv' /\ OwnerInv' /\ PassedIsAcceptable'
    BY <1>1 DEF IInv, EmptyInv, OwnerInv, PassedIsAcceptable, Acceptable
  <1>6. QED
    BY <1>2, <1>3, <1>4, <1>5, IdleKept, LoopKept DEF IInv

(* The next candidate of the experiment.                                    *)
LEMMA StartEntryIInv ==
    ASSUME IInv, NEW i \in 1..Children, StartEntry(i), phase \in {"parent", "experiment"},
           UNCHANGED <<setup, phase, parent, manifest>>
    PROVE  IInv'
  <1> USE DEF StartEntry, Begin
  <1>1. /\ Children' = Children /\ Rounds' = Rounds /\ Candidates' = Candidates
        /\ EmptyDirectory' = EmptyDirectory /\ \A j : Child(j)' = Child(j)
        /\ Blank(TRUE)' = Blank(TRUE)
    BY SetupKept DEF Child
  <1>2. step = "idle" /\ phase = "experiment" /\ round > 0 /\ entries[i] = "not_started"
    BY StateFacts DEF IInv, PhaseInv, Upcoming
  <1>3. Child(i) \in Candidates
    BY <1>2, StateFacts DEF Child
  <1>4. entries' = [entries EXCEPT ![i] = "running"] /\ entries \in [1..Children ->
            Settled \cup {"not_started", "running"}]
    BY DEF IInv, TypeOK, ExperimentTypeOK
  <1>5. setup' \in Setups /\ TypeOK'
    <2>1. CandidateTypeOK'
      <3>1. result' \in Results
        BY BlankType
      <3>2. Results' = Results /\ Directories' = Directories
        BY SetupKept
      <3>3. QED
        BY <1>1, <1>3, <3>1, <3>2, StepFacts DEF IInv, TypeOK, ExperimentTypeOK, CandidateTypeOK
    <2>2. entries' \in [1..Children -> Settled \cup {"not_started", "running"}]
      BY <1>4
    <2>3. QED
      BY <1>1, <2>1, <2>2 DEF IInv, TypeOK, ExperimentTypeOK
  <1>6. PhaseInv'
    BY <1>2 DEF IInv, PhaseInv
  <1>7. \A j \in 1..Children : entries'[j] = "running" => j = i
    BY <1>2, <1>4 DEF IInv, WorkInv
  <1>8. WorkInv'
    BY <1>1, <1>4, <1>7 DEF IInv, WorkInv
  <1>9. EmptyInv' /\ OwnerInv' /\ PassedIsAcceptable'
    <2>1. \A j \in 1..Children : /\ entries'[j] = "not_started" => entries[j] = "not_started"
                                 /\ entries'[j] = "passed" => entries[j] = "passed"
      BY <1>4
    <2>2. EmptyInv'
      BY <1>1, <2>1 DEF IInv, EmptyInv
    <2>3. OwnerInv'
      BY <1>1 DEF IInv, OwnerInv, Blank, Nobody, NobodyYet
    <2>4. PassedIsAcceptable'
      BY <1>1, <2>1 DEF IInv, PassedIsAcceptable, Acceptable
    <2>5. QED
      BY <2>2, <2>3, <2>4
  <1>10. PathInv' /\ PassedInv'
    <2>1. /\ result'.failure = "none" /\ result'.compilation = Blank(TRUE).compilation
          /\ result'.smoke = Blank(TRUE).smoke /\ result'.fuzzing = Blank(TRUE).fuzzing
      BY DEF Blank
    <2>2. QED
      BY <1>1, <2>1, StepFacts DEF PathInv, PassedInv, Unrun
  <1>11. QED
    BY <1>5, <1>6, <1>8, <1>9, <1>10, LoopKept DEF IInv

(* The verdict on the candidate that has returned.                          *)
LEMMA RecordEntryIInv ==
    ASSUME IInv, NEW i \in 1..Children, RecordEntry(i), phase \in {"parent", "experiment"},
           UNCHANGED <<setup, phase, parent, manifest>>
    PROVE  IInv'
  <1> USE DEF RecordEntry
  <1>1. /\ Children' = Children /\ Rounds' = Rounds /\ Candidates' = Candidates
        /\ EmptyDirectory' = EmptyDirectory /\ \A j : Child(j)' = Child(j)
    BY SetupKept DEF Child
  <1>2. /\ current = Child(i) /\ phase = "experiment" /\ round > 0 /\ experiment = "running"
        /\ \A j \in 1..Children : entries[j] = "running" => j = i
    BY AtWork, StateFacts DEF IInv, PhaseInv, WorkInv, Child
  <1>3. /\ entries' = [entries EXCEPT ![i] = EntryStatus] /\ EntryStatus \in Settled
        /\ entries \in [1..Children -> Settled \cup {"not_started", "running"}]
    BY DEF IInv, TypeOK, ExperimentTypeOK, EntryStatus, Settled
  <1>4. setup' \in Setups /\ TypeOK'
    <2>1. CandidateTypeOK'
      BY SetupKept, StepFacts DEF IInv, TypeOK, ExperimentTypeOK, CandidateTypeOK, Work
    <2>2. entries' \in [1..Children -> Settled \cup {"not_started", "running"}]
      BY <1>3
    <2>3. refusal' \in BOOLEAN
      BY DEF IInv, TypeOK, ExperimentTypeOK, CandidateTypeOK, Results
    <2>4. QED
      BY <1>1, <2>1, <2>2, <2>3 DEF IInv, TypeOK, ExperimentTypeOK
  <1>5. PhaseInv'
    BY <1>2 DEF IInv, PhaseInv
  <1>6. WorkInv'
    <2>1. \A j \in 1..Children : entries'[j] # "running"
      BY <1>2, <1>3 DEF Settled
    <2>2. refusal' => experiment' \notin {"none", "running"}
      OBVIOUS
    <2>3. experiment' = "completed" => \A j \in 1..Children : entries'[j] = "passed"
      OBVIOUS
    <2>4. QED
      BY <1>1, <2>1, <2>2, <2>3 DEF WorkInv
  <1>7. EmptyInv' /\ OwnerInv'
    <2>1. \A j \in 1..Children : entries'[j] = "not_started" => entries[j] = "not_started"
      BY <1>3 DEF Settled
    <2>2. QED
      BY <1>1, <2>1 DEF IInv, EmptyInv, OwnerInv
  <1>8. PassedIsAcceptable'
    <2>1. ASSUME NEW j \in 1..Children, entries'[j] = "passed"
          PROVE  /\ files[Child(j)].recorded /\ Acceptable(files[Child(j)].record)
                 /\ files[Child(j)].evaluated
      <3>1. CASE j = i
        <4>1. code = 0
          BY <1>3, <2>1, <3>1 DEF EntryStatus
        <4>2. QED
          BY <1>2, <3>1, <4>1 DEF IInv, PassedInv
      <3>2. CASE j # i
        BY <1>2, <1>3, <2>1, <3>2 DEF IInv, PassedIsAcceptable
      <3>3. QED
        BY <3>1, <3>2
    <2>2. QED
      BY <1>1, <2>1 DEF PassedIsAcceptable, Acceptable
  <1>9. QED
    BY <1>4, <1>5, <1>6, <1>7, <1>8, IdleKept, LoopKept DEF IInv

(* An experiment that is cut short.                                         *)
LEMMA ExperimentStopsIInv ==
    ASSUME IInv, ExperimentInterrupted \/ ExperimentRaises, phase \in {"parent", "experiment"},
           UNCHANGED <<setup, phase, parent, manifest>>
    PROVE  IInv'
  <1>1. /\ Children' = Children /\ Rounds' = Rounds /\ Candidates' = Candidates
        /\ EmptyDirectory' = EmptyDirectory /\ \A j : Child(j)' = Child(j)
    BY SetupKept DEF Child, ExperimentInterrupted, ExperimentRaises
  <1>2. PICK as \in {"interrupted", "failed"} :
            /\ experiment = "running" /\ experiment' \in {"interrupted", "raised"}
            /\ entries' = Running(as) /\ step' = "idle"
            /\ UNCHANGED <<current, result, code, cache, requests, files, round, refusal>>
    BY DEF ExperimentInterrupted, ExperimentRaises
  <1>3. phase = "experiment" /\ round > 0
    BY <1>2, StateFacts DEF IInv, PhaseInv
  <1>4. /\ entries' = [j \in 1..Children |-> IF entries[j] = "running" THEN as ELSE entries[j]]
        /\ entries \in [1..Children -> Settled \cup {"not_started", "running"}]
    BY <1>2 DEF Running, IInv, TypeOK, ExperimentTypeOK
  <1>5. setup' \in Setups /\ TypeOK'
    <2>1. CandidateTypeOK'
      BY <1>2, SetupKept, StepFacts DEF IInv, TypeOK, ExperimentTypeOK, CandidateTypeOK, Work
    <2>2. entries' \in [1..Children -> Settled \cup {"not_started", "running"}]
      BY <1>4 DEF Settled
    <2>3. QED
      BY <1>1, <1>2, <2>1, <2>2 DEF IInv, TypeOK, ExperimentTypeOK
  <1>6. PhaseInv'
    BY <1>2, <1>3 DEF IInv, PhaseInv
  <1>7. WorkInv'
    <2>1. \A j \in 1..Children : entries'[j] # "running"
      BY <1>4
    <2>2. QED
      BY <1>1, <1>2, <2>1 DEF WorkInv
  <1>8. EmptyInv' /\ OwnerInv' /\ PassedIsAcceptable'
    <2>1. \A j \in 1..Children : /\ entries'[j] = "not_started" => entries[j] = "not_started"
                                 /\ entries'[j] = "passed" => entries[j] = "passed"
      BY <1>4
    <2>2. QED
      BY <1>1, <1>2, <2>1 DEF IInv, EmptyInv, OwnerInv, PassedIsAcceptable, Acceptable
  <1>9. QED
    BY <1>2, <1>5, <1>6, <1>7, <1>8, IdleKept, LoopKept DEF IInv

-----------------------------------------------------------------------------
(* The loop starts with an empty lineage.                                   *)
LEMMA InitIInv == Init => IInv
  <1> SUFFICES ASSUME Init
               PROVE  IInv
    OBVIOUS
  <1> USE DEF Init, ExperimentInit, CandidateInit
  <1>1. Children \in Nat \ {0} /\ Rounds \in Nat \ {0}
    BY SetupTypes
  <1>2. Initial \in Candidates /\ Initial[1] = 0
    BY DEF Initial, Candidates
  <1>3. \A feedback \in {"usable", "unusable"} : GivenParent(feedback) \in Directories
    <2>1. [Blank(TRUE) EXCEPT !.generation = "skipped", !.compilation = "skipped",
                              !.smoke = "skipped", !.fuzzing = "skipped"] \in Results
      BY DEF Blank, Results, NobodyYet
    <2>2. NoEvaluation \in Evaluations
      BY DEF NoEvaluation, Evaluations
    <2>3. QED
      BY <2>1, <2>2 DEF GivenParent, Directories
  <1>4. TypeOK
    <2>1. files \in [Candidates -> Directories]
      BY <1>3, BlankType
    <2>2. Blank(TRUE) \in Results
      BY BlankType
    <2>3. CandidateTypeOK
      BY <2>1, <2>2, StepFacts DEF CandidateTypeOK, NoCache, NobodyYet, Work
    <2>4. manifest.selected \in UNION {[1..n -> Candidates \cup {Nobody}] : n \in 0..Rounds}
      <3>1. <<>> \in Seq(Candidates \cup {Nobody}) /\ Len(<<>>) <= Rounds
        BY <1>1
      <3>2. QED
        BY <1>1, <3>1, SelectedSeq
    <2>5. manifest \in [status : {"none", "running", "completed", "stopped", "failed"},
                         selected : UNION {[1..n -> Candidates \cup {Nobody}] : n \in 0..Rounds}]
      BY <2>4
    <2>6. ExperimentTypeOK
      <3>1. entries \in [1..Children -> Settled \cup {"not_started", "running"}]
        OBVIOUS
      <3>2. refusal \in BOOLEAN
        OBVIOUS
      <3>3. QED
        BY <1>1, <2>3, <3>1, <3>2 DEF ExperimentTypeOK
    <2>7. QED
      BY <1>2, <2>5, <2>6 DEF TypeOK
  <1>5. \A c \in Candidates : c[1] > 0 => files[c] = EmptyDirectory
    BY <1>2
  <1>6. PhaseInv /\ WorkInv /\ EmptyInv /\ OwnerInv
    BY <1>5 DEF PhaseInv, WorkInv, EmptyInv, OwnerInv, NoCache, Nobody, NobodyYet
  <1>7. PathInv /\ PassedInv /\ PassedIsAcceptable
    BY StepFacts DEF PathInv, PassedInv, PassedIsAcceptable, Work
  <1>8. ManifestIsLineage /\ NoBetterChildLost
    BY <1>1 DEF ManifestIsLineage, NoBetterChildLost, Selections, Decided
  <1>9. QED
    BY <1>4, <1>6, <1>7, <1>8 DEF IInv

(* A parent is given, run, or judged.                                       *)
LEMMA ParentIInv ==
    ASSUME IInv, UseGivenParent \/ RunParent \/ JudgeParent, UNCHANGED setup
    PROVE  IInv'
  <1>1. /\ Children' = Children /\ Rounds' = Rounds /\ Candidates' = Candidates
        /\ EmptyDirectory' = EmptyDirectory /\ Blank(TRUE)' = Blank(TRUE)
    BY SetupKept
  <1>2. /\ phase \in {"start", "parent"} /\ round = 0 /\ parent = Initial
        /\ manifest = [status |-> "none", selected |-> <<>>] /\ experiment = "none"
    BY DEF IInv, PhaseInv, UseGivenParent, RunParent, JudgeParent
  <1>3. UNCHANGED <<cache, requests, files, round, entries, experiment, refusal, parent>>
    <2>1. CASE UseGivenParent
      BY <2>1 DEF UseGivenParent, experimentVars, candidateVars
    <2>2. CASE RunParent
      BY <2>2 DEF RunParent, Begin
    <2>3. CASE JudgeParent
      BY <2>3 DEF JudgeParent
    <2>4. QED
      BY <2>1, <2>2, <2>3
  <1>4. \/ step' = "idle" /\ UNCHANGED <<current, result, code>>
        \/ step' = "setup" /\ current' = Initial /\ result' = Blank(TRUE) /\ code' = 1
    <2>1. CASE UseGivenParent
      <3>1. step = "idle"
        BY <2>1 DEF IInv, PhaseInv, UseGivenParent
      <3>2. QED
        BY <2>1, <3>1 DEF UseGivenParent, experimentVars, candidateVars
    <2>2. CASE RunParent
      BY <2>2 DEF RunParent, Begin
    <2>3. CASE JudgeParent
      BY <2>3 DEF JudgeParent
    <2>4. QED
      BY <2>1, <2>2, <2>3
  <1>5. /\ manifest'.selected = <<>>
        /\ manifest' = [status |-> manifest'.status, selected |-> manifest'.selected]
        /\ \/ phase' = "load" /\ manifest'.status = "running" /\ step' = "idle"
           \/ phase' = "ended" /\ manifest'.status = "failed" /\ step' = "idle"
           \/ phase' = "parent" /\ manifest'.status = "none" /\ step' = "setup"
    <2>1. CASE UseGivenParent
      <3>1. step = "idle"
        BY <2>1 DEF IInv, PhaseInv, UseGivenParent
      <3>2. QED
        BY <1>2, <2>1, <3>1 DEF UseGivenParent, experimentVars, candidateVars
    <2>2. CASE RunParent
      BY <1>2, <2>2 DEF RunParent, Begin
    <2>3. CASE JudgeParent
      BY <1>2, <2>3 DEF JudgeParent
    <2>4. QED
      BY <2>1, <2>2, <2>3
  <1>6. setup' \in Setups /\ TypeOK'
    <2>1. CandidateTypeOK'
      <3>1. /\ Blank(TRUE) \in Results /\ Initial \in Candidates
            /\ "idle" \in Steps /\ "setup" \in Steps
        BY BlankType, StateFacts, StepFacts DEF Work
      <3>2. CandidateTypeOK
        BY DEF IInv, TypeOK, ExperimentTypeOK
      <3>3. /\ step' \in Steps /\ code' \in {0, 1, 130} /\ result' \in Results
            /\ current' \in Candidates \cup {NobodyYet}
        <4>1. CASE UNCHANGED <<current, result, code>> /\ step' = "idle"
          BY <3>1, <3>2, <4>1 DEF CandidateTypeOK
        <4>2. CASE step' = "setup" /\ current' = Initial /\ result' = Blank(TRUE) /\ code' = 1
          BY <3>1, <4>2
        <4>3. QED
          BY <1>4, <4>1, <4>2
      <3>4. Results' = Results /\ Directories' = Directories
        BY SetupKept
      <3>5. QED
        BY <1>1, <1>3, <3>2, <3>3, <3>4 DEF CandidateTypeOK
    <2>2. manifest' \in [status : {"none", "running", "completed", "stopped", "failed"},
                         selected : UNION {[1..n -> Candidates \cup {Nobody}] : n \in 0..Rounds}]
      <3>1. <<>> \in UNION {[1..n -> Candidates \cup {Nobody}] : n \in 0..Rounds}
        BY <1>2 DEF IInv, TypeOK
      <3>2. QED
        BY <1>5, <3>1
    <2>3. phase' \in {"start", "parent", "load", "experiment", "ended"}
      BY <1>5
    <2>4. QED
      BY <1>1, <1>3, <2>1, <2>2, <2>3 DEF IInv, TypeOK, ExperimentTypeOK
  <1>7. PhaseInv'
    <2>1. phase' = "parent" =>
              current' = Initial /\ manifest' = [status |-> "none", selected |-> <<>>]
      BY <1>4, <1>5
    <2>2. Len(<<>>) = 0
      OBVIOUS
    <2>3. QED
      BY <1>2, <1>3, <1>5, <2>1, <2>2 DEF PhaseInv
  <1>8. WorkInv' /\ EmptyInv' /\ PassedIsAcceptable'
    <2>1. \A i \in 1..Children : entries[i] # "running"
      BY <1>2 DEF IInv, WorkInv
    <2>2. QED
      BY <1>1, <1>2, <1>3, <1>5, <2>1 DEF IInv, WorkInv, EmptyInv, PassedIsAcceptable
  <1>9. OwnerInv'
    <2>1. step' # "idle" => result'.owner = Nobody
      BY <1>4 DEF Blank, Nobody, NobodyYet
    <2>2. QED
      BY <1>2, <1>3, <2>1 DEF IInv, OwnerInv
  <1>10. PathInv' /\ PassedInv'
    <2>1. CASE step' = "idle"
      BY <2>1, IdleKept
    <2>2. CASE step' = "setup"
      <3>1. Unrun(result)' /\ step' \notin Work
        BY <1>1, <1>4, <2>2 DEF Unrun, Blank, Work
      <3>2. QED
        BY <2>2, <3>1 DEF PathInv, PassedInv, Work
    <2>3. QED
      BY <1>5, <2>1, <2>2
  <1>11. ManifestIsLineage' /\ NoBetterChildLost'
    <2>1. ManifestIsLineage'
      <3>1. DOMAIN <<>> = {} /\ Len(<<>>) = 0
        OBVIOUS
      <3>2. QED
        BY <1>2, <1>3, <1>5, <3>1 DEF ManifestIsLineage, Selections
    <2>2. ~Decided'
      BY <1>2, <1>3 DEF Decided
    <2>3. QED
      BY <2>1, <2>2 DEF NoBetterChildLost
  <1>12. QED
    BY <1>6, <1>7, <1>8, <1>9, <1>10, <1>11 DEF IInv

(* The next round starts with children whose directories are empty.         *)
LEMMA LoadRevisionIInv ==
    ASSUME IInv, LoadRevision, UNCHANGED setup
    PROVE  IInv'
  <1>1. /\ Children' = Children /\ Rounds' = Rounds /\ Candidates' = Candidates
        /\ EmptyDirectory' = EmptyDirectory /\ Results' = Results /\ Directories' = Directories
    BY SetupKept
  <1>2. /\ phase = "load" /\ phase' = "experiment" /\ step = "idle" /\ round' = round + 1
        /\ manifest.status = "running" /\ round = Len(manifest.selected) /\ round < Rounds
        /\ entries' = [j \in 1..Children |-> "not_started"] /\ experiment' = "running"
        /\ ~refusal' /\ cache' = NoCache /\ requests' = 0
        /\ UNCHANGED <<step, current, result, code, files, parent, manifest>>
    BY DEF LoadRevision, StartExperiment, IInv, PhaseInv
  <1>3. round' \in 1..Rounds /\ round \in Nat
    BY <1>2, StateFacts
  <1>4. \A i \in 1..Children : /\ <<round', i>> \in Candidates
                               /\ files[<<round', i>>] = EmptyDirectory
    BY <1>2, <1>3, StateFacts DEF IInv, EmptyInv
  <1>5. setup' \in Setups /\ TypeOK'
    <2>1. CandidateTypeOK'
      BY <1>1, <1>2 DEF IInv, TypeOK, ExperimentTypeOK, CandidateTypeOK, NoCache, NobodyYet
    <2>2. ExperimentTypeOK'
      <3>1. entries' \in [1..Children -> Settled \cup {"not_started", "running"}]
        BY <1>2
      <3>2. refusal' \in BOOLEAN
        BY DEF LoadRevision, StartExperiment
      <3>3. QED
        BY <1>1, <1>2, <1>3, <2>1, <3>1, <3>2 DEF ExperimentTypeOK
    <2>3. QED
      BY <1>1, <1>2, <2>2 DEF IInv, TypeOK
  <1>6. PhaseInv' /\ WorkInv'
    BY <1>1, <1>2, <1>3 DEF PhaseInv, WorkInv
  <1>7. EmptyInv'
    <2>1. \A c \in Candidates : c[1] > round' => c[1] > round
      BY <1>2, <1>3, StateFacts DEF Candidates, Initial
    <2>2. QED
      BY <1>1, <1>2, <1>4, <2>1 DEF IInv, EmptyInv, Child
  <1>8. OwnerInv'
    BY <1>1, <1>2, <1>4 DEF OwnerInv, NoCache, EmptyDirectory, Blank, Child, Nobody, NobodyYet
  <1>9. PassedIsAcceptable'
    BY <1>1, <1>2 DEF PassedIsAcceptable
  <1>10. ManifestIsLineage' /\ NoBetterChildLost'
    <2>1. ManifestIsLineage'
      BY <1>1, <1>2 DEF IInv, ManifestIsLineage, Selections, LastOf
    <2>2. ~Decided'
      BY <1>2, <1>3 DEF Decided
    <2>3. QED
      BY <2>1, <2>2 DEF NoBetterChildLost
  <1>11. QED
    BY <1>2, <1>5, <1>6, <1>7, <1>8, <1>9, <1>10, IdleKept DEF IInv

(* An error ends the loop with what the files say.                          *)
LEMMA LoopRaisesIInv ==
    ASSUME IInv, LoopRaises, UNCHANGED setup
    PROVE  IInv'
  <1> USE DEF LoopRaises
  <1>1. /\ Children' = Children /\ Rounds' = Rounds /\ Candidates' = Candidates
        /\ EmptyDirectory' = EmptyDirectory /\ Results' = Results /\ Directories' = Directories
        /\ FuzzRuns' = FuzzRuns /\ \A i : Child(i)' = Child(i)
    BY SetupKept DEF Child
  <1>2. /\ phase \in {"load", "parent", "experiment"} /\ phase' = "ended" /\ step' = "idle"
        /\ experiment # "running"
        /\ UNCHANGED <<current, result, code, cache, requests, files, round, entries, experiment,
                       refusal, parent, manifest>>
    BY StateFacts DEF IInv, PhaseInv
  <1>3. setup' \in Setups /\ TypeOK'
    <2>1. CandidateTypeOK'
      BY <1>1, <1>2, StepFacts DEF IInv, TypeOK, ExperimentTypeOK, CandidateTypeOK, Work
    <2>2. QED
      BY <1>1, <1>2, <2>1 DEF IInv, TypeOK, ExperimentTypeOK
  <1>4. PhaseInv' /\ WorkInv' /\ EmptyInv' /\ OwnerInv' /\ PassedIsAcceptable'
    BY <1>1, <1>2
       DEF IInv, PhaseInv, WorkInv, EmptyInv, OwnerInv, PassedIsAcceptable, Acceptable
  <1>5. ManifestIsLineage'
    BY <1>1, <1>2 DEF IInv, ManifestIsLineage, Selections, LastOf
  <1>6. NoBetterChildLost'
    BY <1>1, <1>2 DEF IInv, NoBetterChildLost, Decided, LastOf, Eligible
  <1>7. QED
    BY <1>2, <1>3, <1>4, <1>5, <1>6, IdleKept DEF IInv

-----------------------------------------------------------------------------
(* A set of numbers has a least element.                                    *)
LEMMA LeastElement ==
    ASSUME NEW T \in SUBSET Nat, T # {}
    PROVE  \E x \in T : \A y \in T : x <= y
  <1> DEFINE Below == {p \in Nat \X Nat : p[1] < p[2]}
  <1>1. IsWellFoundedOn(Below, Nat)
    <2>1. IsWellFoundedOn(OpToRel(<, Nat), Nat)
      BY NatLessThanWellFounded
    <2>2. QED
      BY <2>1 DEF OpToRel
  <1>2. PICK x \in T : \A y \in T : ~(<<y, x>> \in Below)
    <2> HIDE DEF Below
    <2>1. QED
      BY <1>1, WFMin
  <1>3. \A y \in T : y < x => <<y, x>> \in Below
    OBVIOUS
  <1>4. \A y \in T : ~(y < x)
    <2> HIDE DEF Below
    <2>1. QED
      BY <1>2, <1>3
  <1>5. QED
    BY <1>4

(* Among finitely many children one has the highest score, and of those     *)
(* the smallest identity: the one that the fewest are better than.          *)
LEMMA BestIndex ==
    ASSUME NEW n \in Nat, NEW T \in SUBSET (1..n), T # {}, NEW score \in [1..n -> Nat]
    PROVE  \E i \in T : \A j \in T : \/ score[i] > score[j]
                                     \/ score[i] = score[j] /\ i <= j
  <1> DEFINE Better(i) == {j \in T : \/ score[j] > score[i]
                                     \/ score[j] = score[i] /\ j < i}
             Ranks == {Cardinality(Better(i)) : i \in T}
  <1>1. \A i \in T : IsFiniteSet(Better(i)) /\ Cardinality(Better(i)) \in Nat
    <2>1. IsFiniteSet(1..n)
      BY FS_Interval
    <2>2. ASSUME NEW i \in T
          PROVE  IsFiniteSet(Better(i)) /\ Cardinality(Better(i)) \in Nat
      <3>1. Better(i) \in SUBSET (1..n)
        OBVIOUS
      <3> HIDE DEF Better
      <3>2. IsFiniteSet(Better(i))
        BY <2>1, <3>1, FS_Subset
      <3>3. QED
        BY <3>2, FS_CardinalityType
    <2>3. QED
      BY <2>2
  <1>2. PICK i \in T : \A k \in T : Cardinality(Better(i)) <= Cardinality(Better(k))
    <2>1. Ranks \in SUBSET Nat /\ Ranks # {}
      <3> HIDE DEF Better
      <3>1. QED
        BY <1>1
    <2>2. PICK least \in Ranks : \A rank \in Ranks : least <= rank
      <3> HIDE DEF Ranks
      <3>1. QED
        BY <2>1, LeastElement
    <2> HIDE DEF Better
    <2>3. QED
      BY <2>2
  <1>3. ASSUME NEW k \in Better(i)
        PROVE  FALSE
    <2>1. Better(k) \in SUBSET Better(i) /\ k \notin Better(k) /\ k \in T
      <3>1. k \in T /\ k \in Nat /\ i \in Nat /\ score[k] \in Nat /\ score[i] \in Nat
        OBVIOUS
      <3>2. score[k] > score[i] \/ (score[k] = score[i] /\ k < i)
        BY <1>3
      <3>3. ASSUME NEW j \in Better(k)
            PROVE  j \in Better(i)
        <4>1. j \in T /\ j \in Nat /\ score[j] \in Nat
          OBVIOUS
        <4>2. score[j] > score[k] \/ (score[j] = score[k] /\ j < k)
          OBVIOUS
        <4>3. score[j] > score[i] \/ (score[j] = score[i] /\ j < i)
          BY <3>1, <3>2, <4>1, <4>2
        <4>4. QED
          BY <4>1, <4>3
      <3>4. k \notin Better(k)
        BY <3>1
      <3>5. QED
        BY <3>1, <3>3, <3>4
    <2> HIDE DEF Better
    <2>2. /\ Cardinality(Better(k)) <= Cardinality(Better(i))
          /\ Cardinality(Better(i)) = Cardinality(Better(k)) => Better(i) = Better(k)
      BY <1>1, <2>1, FS_Subset
    <2>3. Better(i) # Better(k)
      BY <1>3, <2>1
    <2>4. Cardinality(Better(i)) <= Cardinality(Better(k))
      BY <1>2, <2>1
    <2>5. Cardinality(Better(i)) \in Nat /\ Cardinality(Better(k)) \in Nat
      BY <1>1, <2>1
    <2>6. QED
      BY <2>2, <2>3, <2>4, <2>5
  <1>4. \A j \in T : j \notin Better(i)
    <2> HIDE DEF Better
    <2>1. QED
      BY <1>3
  <1>5. QED
    BY <1>4

(* The selector returns one of the selectable children, and none of them    *)
(* scores higher.                                                           *)
LEMMA BestIsBest ==
    ASSUME IInv, round > 0,
           NEW S, S = {c \in {Child(i) : i \in 1..Children} : Selectable(c)}, S # {}
    PROVE  /\ \E i \in 1..Children : Best(S) = Child(i)
           /\ \A c \in S : files[Best(S)].evaluation.score >= files[c].evaluation.score
  <1> DEFINE T == {i \in 1..Children : Selectable(Child(i))}
             score == [i \in 1..Children |-> files[Child(i)].evaluation.score]
             Top(c) == \A d \in S :
                          \/ files[c].evaluation.score > files[d].evaluation.score
                          \/ files[c].evaluation.score = files[d].evaluation.score /\ c[2] <= d[2]
  <1>1. \A i \in 1..Children : Child(i) \in Candidates /\ Child(i)[2] = i
    BY StateFacts DEF Child
  <1>2. \A c \in Candidates : files[c].evaluation.score \in Nat
    <2>1. \A e \in Evaluations : e.score \in Nat
      <3>1. \A e \in Evaluations : e.score \in Scores \cup {0}
        BY DEF Evaluations
      <3>2. Scores \subseteq Nat
        BY CandidateAssumption
      <3>3. Scores \cup {0} \subseteq Nat
        BY <3>2
      <3>4. QED
        BY <3>1, <3>3, Zenon
    <2>2. \A c \in Candidates : files[c].evaluation \in Evaluations
      BY DEF IInv, TypeOK, ExperimentTypeOK, CandidateTypeOK, Directories
    <2>3. QED
      BY <2>1, <2>2
  <1>3. score \in [1..Children -> Nat]
    BY <1>1, <1>2
  <1>4. T \in SUBSET (1..Children) /\ T # {} /\ Children \in Nat
    BY StateFacts
  <1>5. PICK i \in T : \A j \in T : \/ score[i] > score[j]
                                    \/ score[i] = score[j] /\ i <= j
    <2> HIDE DEF T, score
    <2>1. QED
      BY <1>3, <1>4, BestIndex
  <1>6. S = {Child(j) : j \in T}
    OBVIOUS
  <1>7. Child(i) \in S /\ Top(Child(i))
    BY <1>1, <1>5, <1>6
  <1>8. Best(S) = CHOOSE c \in S : Top(c)
    BY DEF Best
  <1>9. Best(S) \in S /\ Top(Best(S))
    <2> HIDE DEF Top
    <2>1. QED
      BY <1>7, <1>8
  <1>10. \A c \in S : files[c].evaluation.score \in Nat
    BY <1>1, <1>2, <1>6
  <1>11. \E j \in 1..Children : Best(S) = Child(j)
    BY <1>6, <1>9
  <1>12. ASSUME NEW c \in S
         PROVE  files[Best(S)].evaluation.score >= files[c].evaluation.score
    <2>1. /\ files[c].evaluation.score \in Nat /\ files[Best(S)].evaluation.score \in Nat
      BY <1>9, <1>10
    <2>2. \/ files[Best(S)].evaluation.score > files[c].evaluation.score
          \/ files[Best(S)].evaluation.score = files[c].evaluation.score
      BY <1>9
    <2>3. QED
      BY <2>1, <2>2
  <1>13. QED
    BY <1>11, <1>12

(* The children decide, and the best of them is not lost.                   *)
LEMMA SelectIInv ==
    ASSUME IInv, Select, UNCHANGED setup
    PROVE  IInv'
  <1> DEFINE S == {c \in {Child(i) : i \in 1..Children} : Selectable(c)}
             x == IF S = {} THEN Nobody ELSE Best(S)
  <1>1. /\ Children' = Children /\ Rounds' = Rounds /\ Candidates' = Candidates
        /\ EmptyDirectory' = EmptyDirectory /\ Results' = Results /\ Directories' = Directories
        /\ FuzzRuns' = FuzzRuns /\ Blank(TRUE)' = Blank(TRUE) /\ \A i : Child(i)' = Child(i)
    BY SetupKept DEF Child, Select, experimentVars
  <1>2. /\ phase = "experiment" /\ experiment \notin {"running", "none"}
        /\ UNCHANGED <<step, current, result, code, cache, requests, files, round, entries,
                       experiment, refusal>>
    BY DEF Select, experimentVars, candidateVars
  <1>3. step = "idle" /\ round > 0 /\ round \in 1..Rounds
        /\ manifest.status = "running" /\ Len(manifest.selected) + 1 = round
    BY <1>2, StateFacts DEF IInv, PhaseInv, WorkInv
  <1>4. manifest'.selected = Append(manifest.selected, x)
    BY DEF Select
  <1>5. \/ /\ S = {} /\ x = Nobody /\ manifest'.status = "stopped" /\ phase' = "ended"
           /\ parent' = parent
        \/ /\ S # {} /\ x = Best(S) /\ parent' = x
           /\ \/ manifest'.status = "completed" /\ phase' = "ended" /\ round = Rounds
              \/ manifest'.status = "running" /\ phase' = "load"
    BY DEF Select
  <1>6. S # {} => \E i \in 1..Children : x = Child(i)
    BY <1>3, <1>5, BestIsBest
  <1>7. x \in Candidates \cup {Nobody} /\ (S # {} => x \in Candidates /\ x # Nobody)
    <2>1. \A i \in 1..Children : Child(i) \in Candidates /\ Child(i) # Nobody
      BY <1>3, StateFacts DEF Child, Nobody
    <2>2. QED
      BY <1>5, <1>6, <2>1
  <1> HIDE DEF S, x
  <1>8. /\ manifest'.selected \in Seq(Candidates \cup {Nobody})
        /\ Len(manifest'.selected) = round /\ DOMAIN manifest'.selected = 1..round
        /\ \A r \in 1..(round - 1) : manifest'.selected[r] = manifest.selected[r]
        /\ manifest'.selected[round] = x
    BY <1>3, <1>4, <1>7, StateFacts
  <1>9. setup' \in Setups /\ TypeOK'
    <2>1. CandidateTypeOK' /\ ExperimentTypeOK'
      BY <1>1, <1>2 DEF IInv, TypeOK, ExperimentTypeOK, CandidateTypeOK
    <2>2. manifest' \in [status : {"none", "running", "completed", "stopped", "failed"},
                         selected : UNION {[1..n -> Candidates \cup {Nobody}] : n \in 0..Rounds}]
      <3>1. Len(manifest'.selected) <= Rounds /\ Rounds \in Nat
        BY <1>3, <1>8, StateFacts
      <3>2. manifest'.selected \in UNION {[1..n -> Candidates \cup {Nobody}] : n \in 0..Rounds}
        BY <1>8, <3>1, SelectedSeq
      <3>3. manifest' = [status |-> manifest'.status, selected |-> manifest'.selected]
        BY DEF Select
      <3>4. manifest'.status \in {"none", "running", "completed", "stopped", "failed"}
        BY <1>5
      <3>5. QED
        BY <3>2, <3>3, <3>4
    <2>3. parent' \in Candidates
      BY <1>5, <1>7 DEF IInv, TypeOK
    <2>4. phase' \in {"start", "parent", "load", "experiment", "ended"}
      BY <1>5
    <2>5. QED
      BY <1>1, <2>1, <2>2, <2>3, <2>4 DEF IInv, TypeOK
  <1>10. PhaseInv'
    BY <1>2, <1>3, <1>5, <1>8, StateFacts DEF IInv, PhaseInv
  <1>11. WorkInv' /\ EmptyInv' /\ OwnerInv' /\ PassedIsAcceptable'
    BY <1>1, <1>2, <1>3
       DEF IInv, WorkInv, EmptyInv, OwnerInv, PassedIsAcceptable, Acceptable
  <1>12. ManifestIsLineage'
    <2>1. ASSUME NEW r \in 1..(round - 1)
          PROVE  /\ manifest'.selected[r] \in {<<r, i>> : i \in 1..Children}
                 /\ manifest'.selected[r] # Nobody
      <3>1. r \in Selections /\ manifest'.selected[r] = manifest.selected[r]
        BY <1>3, <1>8, StateFacts DEF Selections
      <3>2. /\ manifest.selected[r] \in {<<r, i>> : i \in 1..Children} \cup {Nobody}
            /\ manifest.selected[r] # Nobody
        BY <1>3, <3>1 DEF IInv, ManifestIsLineage
      <3>3. QED
        BY <3>1, <3>2
    <2>2. /\ x \in {<<round, i>> : i \in 1..Children} \cup {Nobody}
          /\ x = Nobody => manifest'.status = "stopped"
      BY <1>5, <1>6, <1>7 DEF Child
    <2>3. \A r \in 1..round : r \in 1..(round - 1) \/ r = round
      BY <1>3
    <2>4. \A r \in Selections' :
              /\ manifest'.selected[r] \in {<<r, i>> : i \in 1..Children} \cup {Nobody}
              /\ manifest'.selected[r] = Nobody =>
                     r = Len(manifest'.selected) /\ manifest'.status = "stopped"
      BY <1>8, <2>1, <2>2, <2>3 DEF Selections
    <2>5. LastOf(manifest'.selected) = x /\ manifest'.selected # <<>>
      BY <1>3, <1>8 DEF LastOf
    <2>6. /\ manifest'.status = "completed" => Len(manifest'.selected) = Rounds
          /\ manifest'.status = "stopped" => x = Nobody
          /\ manifest'.status \in {"completed", "stopped", "failed"} => phase' = "ended"
          /\ manifest'.status = "running" => parent' = x
      BY <1>5, <1>8
    <2>7. LastOf(manifest.selected)' = LastOf(manifest'.selected)
      BY DEF LastOf
    <2>8. QED
      BY <1>1, <2>4, <2>5, <2>6, <2>7 DEF ManifestIsLineage
  <1>13. NoBetterChildLost'
    <2>1. ASSUME NEW i \in 1..Children, entries[i] = "passed", Eligible(files[Child(i)].evaluation)
          PROVE  x # Nobody /\ files[x].evaluation.score >= files[Child(i)].evaluation.score
      <3>1. Child(i) \in S
        BY <1>2, <2>1 DEF IInv, PassedIsAcceptable, Selectable, S
      <3>2. S # {}
        BY <3>1
      <3>3. \A c \in S : files[Best(S)].evaluation.score >= files[c].evaluation.score
        BY <1>3, <3>2, BestIsBest DEF S
      <3>4. QED
        BY <1>5, <1>7, <3>1, <3>2, <3>3
    <2>2. LastOf(manifest.selected)' = x
      BY <1>8 DEF LastOf
    <2>3. QED
      BY <1>1, <1>2, <2>1, <2>2 DEF NoBetterChildLost, Eligible
  <1>14. PathInv' /\ PassedInv'
    BY <1>2, <1>3, IdleKept
  <1>15. QED
    BY <1>9, <1>10, <1>11, <1>12, <1>13, <1>14 DEF IInv

(* A step that changes nothing.                                             *)
LEMMA StutterIInv ==
    ASSUME IInv, UNCHANGED vars
    PROVE  IInv'
  <1> USE DEF vars, experimentVars, candidateVars
  <1>1. /\ Children' = Children /\ Rounds' = Rounds /\ Candidates' = Candidates
        /\ EmptyDirectory' = EmptyDirectory /\ Results' = Results /\ Directories' = Directories
        /\ Depth' = Depth /\ SmokeRuns' = SmokeRuns /\ FuzzRuns' = FuzzRuns
        /\ Blank(TRUE)' = Blank(TRUE) /\ \A i : Child(i)' = Child(i)
    BY SetupKept DEF Child
  <1>2. setup' \in Setups /\ TypeOK'
    BY <1>1 DEF IInv, TypeOK, ExperimentTypeOK, CandidateTypeOK
  <1>3. PhaseInv' /\ WorkInv' /\ EmptyInv' /\ OwnerInv' /\ PassedIsAcceptable'
    BY <1>1 DEF IInv, PhaseInv, WorkInv, EmptyInv, OwnerInv, PassedIsAcceptable, Acceptable
  <1>4. PathInv' /\ PassedInv'
    BY <1>1 DEF IInv, PathInv, PassedInv, Unrun, Acceptable
  <1>5. ManifestIsLineage' /\ NoBetterChildLost'
    BY <1>1 DEF IInv, ManifestIsLineage, NoBetterChildLost, Selections, LastOf, Decided, Eligible
  <1>6. QED
    BY <1>2, <1>3, <1>4, <1>5 DEF IInv

(* Every step keeps the invariant.                                          *)
LEMMA NextIInv == IInv /\ [Next]_vars => IInv'
  <1> SUFFICES ASSUME IInv, [Next]_vars
               PROVE  IInv'
    OBVIOUS
  <1>1. CASE UNCHANGED vars
    BY <1>1, StutterIInv
  <1>2. CASE Next
    <2>1. UNCHANGED setup /\ LoopStep
      BY <1>2 DEF Next
    <2>2. CASE UseGivenParent \/ RunParent \/ JudgeParent
      BY <2>1, <2>2, ParentIInv
    <2>3. CASE LoadRevision
      BY <2>1, <2>3, LoadRevisionIInv
    <2>4. CASE /\ phase \in {"parent", "experiment"}
               /\ ExperimentStep
               /\ UNCHANGED <<phase, parent, manifest>>
      <3>1. CASE CandidateStep /\ UNCHANGED <<round, entries, experiment, refusal>>
        BY <2>1, <2>4, <3>1, CandidateIInv
      <3>2. CASE MissingKey
        BY <2>1, <2>4, <3>2, MissingKeyIInv
      <3>3. CASE \E i \in 1..Children : StartEntry(i) \/ RecordEntry(i)
        BY <2>1, <2>4, <3>3, StartEntryIInv, RecordEntryIInv
      <3>4. CASE ExperimentInterrupted \/ ExperimentRaises
        BY <2>1, <2>4, <3>4, ExperimentStopsIInv
      <3>5. QED
        BY <2>4, <3>1, <3>2, <3>3, <3>4 DEF ExperimentStep
    <2>5. CASE LoopRaises
      BY <2>1, <2>5, LoopRaisesIInv
    <2>6. CASE Select
      BY <2>1, <2>6, SelectIInv
    <2>7. QED
      BY <2>1, <2>2, <2>3, <2>4, <2>5, <2>6 DEF LoopStep
  <1>3. QED
    BY <1>1, <1>2

(* The children that know of a classification know of the same one, and     *)
(* the experiment's status is true of all its candidates.                   *)
LEMMA SettledFromIInv == IInv => ExperimentSettled
  <1> SUFFICES ASSUME IInv
               PROVE  ExperimentSettled
    OBVIOUS
  <1>1. OneClassification
    BY DEF IInv, OwnerInv, OneClassification
  <1>2. experiment \notin {"none", "running"} => round > 0
    BY StateFacts DEF IInv, PhaseInv
  <1>3. QED
    BY <1>1, <1>2 DEF IInv, WorkInv, EmptyInv, ExperimentSettled

-----------------------------------------------------------------------------
(* The strengthening holds in every reachable state.                        *)
THEOREM Invariant == Spec => []IInv
  <1>1. QED
    BY InitIInv, NextIInv, PTL DEF Spec

(* feedback_loop.json is a lineage of at most one child per round that is   *)
(* closed as what it is, however the loop ends (_select_round_parent and    *)
(* the writes of run_feedback_loop).                                        *)
THEOREM LineageHolds == Spec => []LineageInv
  <1>1. IInv => LineageInv
    BY DEF IInv, LineageInv
  <1>2. QED
    BY <1>1, Invariant, PTL

(* experiment.json, once it says how the experiment ended, is true of every *)
(* child's directory (run_experiment).                                      *)
THEOREM ExperimentsSettle == Spec => []ExperimentSettled
  <1>1. QED
    BY SettledFromIInv, Invariant, PTL

(* The next parent scores at least as high as every child that passed and   *)
(* is eligible (ScoreCandidateSelector).                                    *)
THEOREM BestChildKept == Spec => []NoBetterChildLost
  <1>1. IInv => NoBetterChildLost
    BY DEF IInv
  <1>2. QED
    BY <1>1, Invariant, PTL

(* After a refused request the experiment sends the model no other          *)
(* (run_experiment's break on http_status 401 and 403).                     *)
THEOREM RefusalIsFinal == Spec => NoRequestAfterRefusal
  <1>1. ASSUME IInv, [Next]_vars
        PROVE  refusal /\ round' = round /\ experiment # "none" => requests' = requests
    <2> SUFFICES ASSUME refusal, round' = round
                 PROVE  requests' = requests
      OBVIOUS
    <2>1. experiment \notin {"none", "running"} /\ step = "idle"
      BY <1>1, AtWork DEF IInv, WorkInv, PhaseInv
    <2>2. ~CandidateStep
      BY <1>1, <2>1, CandidateFrame DEF IInv, TypeOK, ExperimentTypeOK
    <2>3. CASE ExperimentStep
      BY <2>1, <2>2, <2>3 DEF ExperimentStep, MissingKey, candidateVars, StartEntry, RecordEntry,
                              ExperimentInterrupted, ExperimentRaises
    <2>4. CASE LoadRevision
      BY <1>1, <2>4, StateFacts DEF LoadRevision, StartExperiment, IInv, PhaseInv
    <2>5. CASE UseGivenParent \/ RunParent \/ JudgeParent \/ LoopRaises \/ Select
      BY <2>5 DEF UseGivenParent, RunParent, Begin, JudgeParent, LoopRaises, Select,
                  experimentVars, candidateVars
    <2>6. CASE UNCHANGED vars
      BY <2>6 DEF vars, experimentVars, candidateVars
    <2>7. QED
      BY <1>1, <2>3, <2>4, <2>5, <2>6 DEF Next, LoopStep
  <1>2. IInv /\ [Next]_vars =>
            [refusal /\ round' = round /\ experiment # "none" => requests' = requests]_vars
    BY <1>1
  <1>3. QED
    BY <1>2, Invariant, PTL DEF Spec, NoRequestAfterRefusal
=============================================================================
