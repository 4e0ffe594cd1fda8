--------------------------- MODULE PublicationProofs ---------------------------
(***************************************************************************)
(* Proofs about validation and publication, for every set of command       *)
(* lines, and any number of candidates, processes and crashes.             *)
(***************************************************************************)
EXTENDS PublicationProps, TLAPS

(* The summary of any statuses is one.                                      *)
LEMMA SummaryType ==
    ASSUME NEW s \in [Kinds -> Statuses]
    PROVE  Summary(s) \in [statuses : [Kinds -> Statuses], overall : Overalls \cup {"absent"}]
  BY DEF Summary, Overall, Overalls, ValidationStatuses

(* The statuses by name.                                                    *)
LEMMA StatusFacts ==
    /\ ValidationStatuses \subseteq Statuses /\ "absent" \in Statuses
    /\ \A s \in {"passed", "failed", "skipped", "unavailable", "passed_with_limitations",
                "passed_with_warnings"} : s \in Statuses
  BY DEF Statuses, ValidationStatuses

(* The phases by name.                                                      *)
LEMMA PhaseFacts ==
    \A p \in {"idle", "stage3", "stage4", "harness", "clear", "intermediate", "downgrade",
             "compile", "record_compiler", "link", "record_linker", "skip_linker", "skip_runtime",
             "runtime", "fuzz", "refresh", "publish", "stable_plan", "manifest", "rejected",
             "succeeded", "exhausted"} : p \in Phases
  BY DEF Phases

(* Writing a record keeps the types.                                        *)
LEMMA RecordType ==
    ASSUME TypeOK, NEW kind, NEW status \in Statuses, NEW next \in Phases, Record(kind, status, next)
    PROVE  TypeOK'
  <1> USE DEF TypeOK, Record, process
  <1>1. evidence' \in [Kinds -> [status : Statuses, about : 0..MaxCandidates]]
    OBVIOUS
  <1>2. earned' \in [Candidates -> [Checks -> Statuses]]
    OBVIOUS
  <1>3. QED
    BY <1>1, <1>2, PhaseFacts

(* A step keeps the types.                                                  *)
LEMMA TypeStep ==
    ASSUME TypeOK, [Next]_vars
    PROVE  TypeOK'
  <1> USE PublicationAssumption, StatusFacts, PhaseFacts
  <1>1. CASE \E o \in Options, phase \in {"stage3", "stage4"} : StartRun(o, phase)
    <2>1. PICK o \in Options, phase \in {"stage3", "stage4"} : StartRun(o, phase)
      BY <1>1
    <2>2. o \in OptionRecords /\ NoProbe \in [syntax : Statuses, link : Statuses]
      BY DEF NoProbe
    <2>3. QED
      BY <2>1, <2>2 DEF TypeOK, StartRun, Goto, files, Nothing
  <1>2. CASE AcceptStage3
    BY <1>2 DEF TypeOK, AcceptStage3, Only, Goto, files, process
  <1>3. CASE \E s \in {"passed", "failed"} : ValidateStage3(s)
    <2>1. PICK s \in {"passed", "failed"} : ValidateStage3(s)
      BY <1>3
    <2>2. [status |-> s, about |-> Nothing] \in [status : Statuses, about : 0..MaxCandidates]
      BY DEF Nothing
    <2>3. evidence' \in [Kinds -> [status : Statuses, about : 0..MaxCandidates]]
      BY <2>1, <2>2 DEF TypeOK, ValidateStage3
    <2>4. QED
      BY <2>1, <2>3 DEF TypeOK, ValidateStage3, process
  <1>4. CASE \E s \in {"passed", "failed"} : CheckIntermediate(s)
    BY <1>4, RecordType DEF CheckIntermediate, AfterIntermediate
  <1>5. CASE WritePlan
    BY <1>5 DEF TypeOK, WritePlan, Goto, process
  <1>6. CASE WriteHarness
    BY <1>6 DEF TypeOK, WriteHarness, Goto
  <1>7. CASE Clear
    <2>1. Absent \in [status : Statuses, about : 0..MaxCandidates]
      BY DEF Absent, Nothing
    <2>2. evidence' \in [Kinds -> [status : Statuses, about : 0..MaxCandidates]]
      BY <1>7, <2>1 DEF TypeOK, Clear
    <2>3. NoSummary \in [statuses : [Kinds -> Statuses], overall : Overalls \cup {"absent"}]
      BY DEF NoSummary
    <2>4. QED
      BY <1>7, <2>2, <2>3 DEF TypeOK, Clear, Goto, process
  <1>8. CASE Refresh
    <2>1. summary' \in [statuses : [Kinds -> Statuses], overall : Overalls \cup {"absent"}]
      BY <1>8, SummaryType DEF TypeOK, Refresh
    <2>2. QED
      BY <1>8, <2>1 DEF TypeOK, Refresh, Goto, process
  <1>9. CASE Downgrade
    BY <1>9, RecordType DEF Downgrade, AfterIntermediate
  <1>10. CASE \E s \in {"passed", "failed", "unavailable"} : CompileRecipe(s) \/ LinkRecipe(s)
    BY <1>10, RecordType DEF CompileRecipe, LinkRecipe
  <1>11. CASE SkipLinker \/ SkipRuntime
    BY <1>11, RecordType DEF SkipLinker, SkipRuntime
  <1>12. CASE \E syntax \in {"passed", "failed", "unavailable"},
             link \in {"passed", "failed", "unavailable", "skipped"} : CompileAndLink(syntax, link)
    <2>1. PICK syntax \in {"passed", "failed", "unavailable"},
               link \in {"passed", "failed", "unavailable", "skipped"} : CompileAndLink(syntax, link)
      BY <1>12
    <2> DEFINE combined == IF "failed" \in {syntax, link} THEN "failed" ELSE syntax
    <2>2. combined \in Statuses
      OBVIOUS
    <2>3. /\ evidence' = [evidence EXCEPT !["compiler"] = [status |-> combined, about |-> current]]
          /\ earned' = [earned EXCEPT ![current]["compiler"] = combined]
      BY <2>1 DEF CompileAndLink
    <2> HIDE DEF combined
    <2>4. /\ evidence' \in [Kinds -> [status : Statuses, about : 0..MaxCandidates]]
          /\ earned' \in [Candidates -> [Checks -> Statuses]]
      BY <2>2, <2>3 DEF TypeOK
    <2>5. probe' \in [syntax : Statuses, link : Statuses]
      BY <2>1 DEF CompileAndLink
    <2>6. QED
      BY <2>1, <2>4, <2>5 DEF TypeOK, CompileAndLink, Goto, process
  <1>13. CASE RecordCompiler \/ RecordLinker
    BY <1>13, RecordType DEF TypeOK, RecordCompiler, RecordLinker
  <1>14. CASE \E s \in {"passed", "failed", "passed_with_limitations", "skipped"} : SmokeRecipe(s)
    BY <1>14, RecordType DEF SmokeRecipe, AfterPassing
  <1>15. CASE \E s \in {"passed", "failed", "skipped"} : SmokeCompiler(s)
    BY <1>15, RecordType DEF SmokeCompiler, AfterPassing
  <1>16. CASE \E s \in {"passed", "failed", "passed_with_limitations", "unavailable"} : FuzzSmoke(s)
    <2>1. PICK s \in {"passed", "failed", "passed_with_limitations", "unavailable"} : FuzzSmoke(s)
      BY <1>16
    <2>2. s \in Statuses
      OBVIOUS
    <2>3. /\ smoke' \in [status : Statuses, about : 0..MaxCandidates]
          /\ earned' \in [Candidates -> [Checks -> Statuses]]
      BY <2>1, <2>2 DEF TypeOK, FuzzSmoke
    <2>4. QED
      BY <2>1, <2>3 DEF TypeOK, FuzzSmoke, Goto, process
  <1>17. CASE Raise
    BY <1>17 DEF TypeOK, Raise, Goto, files, process
  <1>18. CASE Quarantine
    BY <1>18 DEF TypeOK, Quarantine, Goto, process
  <1>19. CASE PromoteHarness
    BY <1>19 DEF TypeOK, PromoteHarness, Goto, process
  <1>20. CASE PromotePlan
    BY <1>20 DEF TypeOK, PromotePlan, Goto, process
  <1>21. CASE PromoteManifest
    BY <1>21 DEF TypeOK, PromoteManifest, Goto, process
  <1>22. CASE (\E phase \in {"stage3", "stage4"} : Regenerate(phase)) \/ GiveUp
    BY <1>22 DEF TypeOK, Regenerate, GiveUp, Only, Goto, files, process
  <1>23. CASE Report
    <2>1. Milestones \in [about : 0..MaxCandidates, build : BOOLEAN, compiled : BOOLEAN,
                         linked : BOOLEAN, runtime : BOOLEAN, fuzz : BOOLEAN]
      BY DEF TypeOK, Milestones, OptionRecords
    <2>2. Succeeded(Milestones) \in BOOLEAN
      BY DEF Succeeded
    <2>3. result' \in [about : 0..MaxCandidates, build : BOOLEAN, compiled : BOOLEAN,
                      linked : BOOLEAN, runtime : BOOLEAN, fuzz : BOOLEAN, success : BOOLEAN]
      BY <1>23, <2>1, <2>2 DEF Report
    <2>4. QED
      BY <1>23, <2>3 DEF TypeOK, Report, Goto, process
  <1>24. CASE Crash
    BY <1>24 DEF TypeOK, Crash, Goto, files, process
  <1>25. CASE UNCHANGED vars
    BY <1>25 DEF TypeOK, vars, files
  <1>26. QED
    BY <1>1, <1>2, <1>3, <1>4, <1>5, <1>6, <1>7, <1>8, <1>9, <1>10, <1>11, <1>12, <1>13,
       <1>14, <1>15, <1>16, <1>17, <1>18, <1>19, <1>20, <1>21, <1>22, <1>23, <1>24, <1>25
       DEF Next

(* A step keeps the process on its newest candidate.                        *)
LEMMA ProcessStep ==
    ASSUME TypeOK, ProcessInv, [Next]_vars
    PROVE  ProcessInv'
  <1> USE PublicationAssumption DEF TypeOK, ProcessInv, Heading, Validation, Publishing, Pair
  <1>1. CASE \E o \in Options, phase \in {"stage3", "stage4"} : StartRun(o, phase)
    BY <1>1 DEF StartRun, Goto, files, Nothing
  <1>2. CASE AcceptStage3
    BY <1>2 DEF AcceptStage3, Only, Goto, files, process
  <1>3. CASE \E s \in {"passed", "failed"} : ValidateStage3(s)
    BY <1>3 DEF ValidateStage3, process
  <1>4. CASE \E s \in {"passed", "failed"} : CheckIntermediate(s)
    BY <1>4 DEF CheckIntermediate, AfterIntermediate, Record, process
  <1>5. CASE WritePlan
    BY <1>5 DEF WritePlan, Goto, process
  <1>6. CASE WriteHarness
    BY <1>6 DEF WriteHarness, Goto
  <1>7. CASE Clear
    BY <1>7 DEF Clear, Goto, process
  <1>8. CASE Refresh
    BY <1>8 DEF Refresh, Goto, process
  <1>9. CASE Downgrade
    BY <1>9 DEF Downgrade, AfterIntermediate, Record, process
  <1>10. CASE \E s \in {"passed", "failed", "unavailable"} : CompileRecipe(s) \/ LinkRecipe(s)
    BY <1>10 DEF CompileRecipe, LinkRecipe, Record, process
  <1>11. CASE SkipLinker \/ SkipRuntime
    BY <1>11 DEF SkipLinker, SkipRuntime, Record, process
  <1>12. CASE \E syntax \in {"passed", "failed", "unavailable"},
             link \in {"passed", "failed", "unavailable", "skipped"} : CompileAndLink(syntax, link)
    BY <1>12 DEF CompileAndLink, Goto, process
  <1>13. CASE RecordCompiler \/ RecordLinker
    BY <1>13 DEF RecordCompiler, RecordLinker, Record, process
  <1>14. CASE \E s \in {"passed", "failed", "passed_with_limitations", "skipped"} : SmokeRecipe(s)
    BY <1>14 DEF SmokeRecipe, AfterPassing, Record, process
  <1>15. CASE \E s \in {"passed", "failed", "skipped"} : SmokeCompiler(s)
    BY <1>15 DEF SmokeCompiler, AfterPassing, Record, process
  <1>16. CASE \E s \in {"passed", "failed", "passed_with_limitations", "unavailable"} : FuzzSmoke(s)
    BY <1>16 DEF FuzzSmoke, Goto, process
  <1>17. CASE Raise
    BY <1>17 DEF Raise, Goto, files, process
  <1>18. CASE Quarantine
    BY <1>18 DEF Quarantine, Goto, process
  <1>19. CASE PromoteHarness
    BY <1>19 DEF PromoteHarness, Goto, process
  <1>20. CASE PromotePlan
    BY <1>20 DEF PromotePlan, Goto, process
  <1>21. CASE PromoteManifest
    BY <1>21 DEF PromoteManifest, Goto, process
  <1>22. CASE (\E phase \in {"stage3", "stage4"} : Regenerate(phase)) \/ GiveUp
    BY <1>22 DEF Regenerate, GiveUp, Only, Goto, files, process
  <1>23. CASE Report
    BY <1>23 DEF Report, Milestones, Succeeded, Goto, process
  <1>24. CASE Crash
    BY <1>24 DEF Crash, Goto, files, process
  <1>25. CASE UNCHANGED vars
    BY <1>25 DEF vars, files
  <1>26. QED
    BY <1>1, <1>2, <1>3, <1>4, <1>5, <1>6, <1>7, <1>8, <1>9, <1>10, <1>11, <1>12, <1>13,
       <1>14, <1>15, <1>16, <1>17, <1>18, <1>19, <1>20, <1>21, <1>22, <1>23, <1>24, <1>25
       DEF Next

(* Writing a record judges the newest candidate and no other.               *)
LEMMA RecordNew ==
    ASSUME TypeOK, ProcessInv, NewInv, NEW kind \in Kinds, NEW status, NEW next,
           pc \in Validation, next \in (Validation \ {"clear"}) \cup {"publish", "rejected"},
           Record(kind, status, next)
    PROVE  NewInv'
  <1> USE PublicationAssumption DEF TypeOK, ProcessInv, Heading
  <1>1. /\ made' = made /\ current' = current /\ stable' = stable /\ result' = result
        /\ current = made /\ current \in Candidates /\ pc # "refresh"
        /\ Heading' = next /\ next \notin {"harness", "clear"}
    BY DEF Record, process, Validation, Candidates, Nothing
  <1>2. ASSUME NEW c \in Candidates, c # made
        PROVE  earned'[c] = earned[c]
    BY <1>1, <1>2 DEF Record
  <1>3. earned'[current]["fuzz"] = earned[current]["fuzz"]
    BY <1>1 DEF Record, Kinds
  <1>4. ASSUME NEW c \in Candidates, c > made
        PROVE  Unpublished(c)' /\ \A k \in Checks : earned'[c][k] = "absent"
    <2>1. c # made
      BY <1>4 DEF Candidates
    <2>2. QED
      BY <1>1, <1>2, <1>4, <2>1 DEF NewInv, Unpublished
  <1>5. QED
    BY <1>1, <1>3, <1>4 DEF NewInv, Unpublished

(* A step leaves the candidates to come as they are.                        *)
LEMMA NewStep ==
    ASSUME TypeOK, ProcessInv, NewInv, [Next]_vars
    PROVE  NewInv'
  <1> USE PublicationAssumption
  <1>1. CASE \E o \in Options, phase \in {"stage3", "stage4"} : StartRun(o, phase)
    BY <1>1 DEF TypeOK, ProcessInv, NewInv, Unpublished, Heading, Validation, Publishing,
       Candidates, StartRun, Goto, files, Nothing
  <1>2. CASE AcceptStage3
    BY <1>2 DEF TypeOK, ProcessInv, NewInv, Unpublished, Heading, Validation, Publishing,
       Candidates, AcceptStage3, Only, Goto, files, process
  <1>3. CASE \E s \in {"passed", "failed"} : ValidateStage3(s)
    BY <1>3 DEF TypeOK, ProcessInv, NewInv, Unpublished, Heading, Validation, Publishing,
       Candidates, ValidateStage3, process
  <1>4. CASE \E s \in {"passed", "failed"} : CheckIntermediate(s)
    BY <1>4, RecordNew DEF CheckIntermediate, AfterIntermediate, Kinds, Validation
  <1>5. CASE WritePlan
    <2>1. /\ pc = "stage4" /\ made' = made + 1 /\ made < MaxCandidates
          /\ pc' = "harness" /\ current' = current
          /\ UNCHANGED <<stable, result, earned>>
      BY <1>5 DEF WritePlan, Goto, process
    <2>2. Heading' = "harness"
      BY <2>1 DEF Heading
    <2>3. ASSUME NEW c \in Candidates, c > made
          PROVE  Unpublished(c)' /\ \A k \in Checks : earned'[c][k] = "absent"
      BY <2>1, <2>3 DEF NewInv, Unpublished
    <2>4. \A c \in Candidates : c > made' \/ c = made' => c > made
      BY <2>1 DEF TypeOK, Candidates
    <2>5. QED
      BY <2>2, <2>3, <2>4 DEF NewInv, Validation, Publishing
  <1>6. CASE WriteHarness
    <2>1. /\ pc = "harness" /\ made' = made /\ current' = made
          /\ pc' \in {"clear", "publish"}
          /\ UNCHANGED <<stable, result, earned>>
      BY <1>6 DEF WriteHarness, Goto
    <2>2. Heading = "harness" /\ Heading' = pc' /\ made \in Candidates
      BY <2>1 DEF Heading, ProcessInv, TypeOK, Candidates
    <2>3. /\ Unpublished(made)'
          /\ \A k \in Checks : earned'[made][k] = "absent"
      BY <2>1, <2>2 DEF NewInv, Unpublished
    <2>4. QED
      BY <2>1, <2>2, <2>3 DEF NewInv, Unpublished, Validation, Publishing, Checks
  <1>7. CASE Clear
    BY <1>7 DEF TypeOK, ProcessInv, NewInv, Unpublished, Heading, Validation, Publishing,
       Candidates, Clear, Goto, process
  <1>8. CASE Refresh
    BY <1>8 DEF TypeOK, ProcessInv, NewInv, Unpublished, Heading, Validation, Publishing,
       Candidates, Refresh, Goto, process
  <1>9. CASE Downgrade
    BY <1>9, RecordNew DEF Downgrade, AfterIntermediate, Kinds, Validation
  <1>10. CASE \E s \in {"passed", "failed", "unavailable"} : CompileRecipe(s) \/ LinkRecipe(s)
    BY <1>10, RecordNew DEF CompileRecipe, LinkRecipe, Kinds, Validation
  <1>11. CASE SkipLinker \/ SkipRuntime
    BY <1>11, RecordNew DEF SkipLinker, SkipRuntime, Kinds, Validation
  <1>12. CASE \E syntax \in {"passed", "failed", "unavailable"},
             link \in {"passed", "failed", "unavailable", "skipped"} : CompileAndLink(syntax, link)
    <2>1. /\ pc = "compile" /\ made' = made /\ current' = current
          /\ pc' = "record_compiler"
          /\ UNCHANGED <<stable, result>>
          /\ current = made /\ made \in Candidates
      BY <1>12 DEF CompileAndLink, Goto, process, ProcessInv, Heading, Validation, TypeOK,
         Candidates
    <2>2. /\ \A c \in Candidates \ {current} : earned'[c] = earned[c]
          /\ earned'[current]["fuzz"] = earned[current]["fuzz"]
      BY <1>12, <2>1 DEF CompileAndLink, TypeOK
    <2>3. Heading = "compile" /\ Heading' = "record_compiler"
      BY <2>1 DEF Heading
    <2>4. \A c \in Candidates : c > made => c \in Candidates \ {current}
      BY <2>1 DEF Candidates, TypeOK
    <2>5. QED
      BY <2>1, <2>2, <2>3, <2>4 DEF NewInv, Unpublished, Validation
  <1>13. CASE RecordCompiler \/ RecordLinker
    BY <1>13, RecordNew DEF RecordCompiler, RecordLinker, Kinds, Validation
  <1>14. CASE \E s \in {"passed", "failed", "passed_with_limitations", "skipped"} : SmokeRecipe(s)
    BY <1>14, RecordNew DEF SmokeRecipe, AfterPassing, Kinds, Validation
  <1>15. CASE \E s \in {"passed", "failed", "skipped"} : SmokeCompiler(s)
    BY <1>15, RecordNew DEF SmokeCompiler, AfterPassing, Kinds, Validation
  <1>16. CASE \E s \in {"passed", "failed", "passed_with_limitations", "unavailable"} : FuzzSmoke(s)
    <2>1. PICK s \in {"passed", "failed", "passed_with_limitations", "unavailable"} : FuzzSmoke(s)
      BY <1>16
    <2>2. /\ pc = "fuzz" /\ made' = made /\ current' = current
          /\ pc' = IF s = "failed" THEN "rejected" ELSE "publish"
          /\ UNCHANGED <<stable, result>>
          /\ current = made /\ made \in Candidates
      BY <2>1 DEF FuzzSmoke, Goto, process, ProcessInv, Heading, Validation, TypeOK, Candidates
    <2>3. /\ \A c \in Candidates \ {current} : earned'[c] = earned[c]
          /\ earned'[current]["fuzz"] = s
      BY <2>1, <2>2 DEF FuzzSmoke, TypeOK, Checks
    <2>4. QED
      BY <2>2, <2>3 DEF NewInv, Unpublished, Heading, Validation, Publishing, Candidates, TypeOK
  <1>17. CASE Raise
    BY <1>17 DEF TypeOK, ProcessInv, NewInv, Unpublished, Heading, Validation, Publishing,
       Candidates, Raise, Goto, files, process
  <1>18. CASE Quarantine
    BY <1>18 DEF TypeOK, ProcessInv, NewInv, Unpublished, Heading, Validation, Publishing,
       Candidates, Quarantine, Goto, process
  <1>19. CASE PromoteHarness
    BY <1>19 DEF TypeOK, ProcessInv, NewInv, Unpublished, Heading, Validation, Publishing,
       Candidates, PromoteHarness, Goto, process
  <1>20. CASE PromotePlan
    BY <1>20 DEF TypeOK, ProcessInv, NewInv, Unpublished, Heading, Validation, Publishing,
       Candidates, PromotePlan, Goto, process
  <1>21. CASE PromoteManifest
    BY <1>21 DEF TypeOK, ProcessInv, NewInv, Unpublished, Heading, Validation, Publishing,
       Candidates, PromoteManifest, Goto, process
  <1>22. CASE (\E phase \in {"stage3", "stage4"} : Regenerate(phase)) \/ GiveUp
    <2>1. /\ pc = "rejected" /\ pc' \in {"stage3", "stage4", "exhausted"}
          /\ UNCHANGED <<made, stable, result, earned, current>>
      BY <1>22 DEF Regenerate, GiveUp, Only, Goto, files, process
    <2>2. Heading' = pc' /\ Heading = pc
      BY <2>1 DEF Heading
    <2>3. QED
      BY <2>1, <2>2 DEF NewInv, Unpublished, Validation, Publishing
  <1>23. CASE Report
    <2>1. /\ result'.about = current /\ pc' = "idle"
          /\ UNCHANGED <<made, stable, earned>>
      BY <1>23 DEF Report, Milestones, Goto, process
    <2>2. current <= made
      BY DEF ProcessInv
    <2>3. QED
      BY <2>1, <2>2 DEF NewInv, Unpublished, Heading, Validation, Publishing, TypeOK, Candidates
  <1>24. CASE Crash
    BY <1>24 DEF TypeOK, ProcessInv, NewInv, Unpublished, Heading, Validation, Publishing,
       Candidates, Crash, Goto, files, process
  <1>25. CASE UNCHANGED vars
    BY <1>25 DEF TypeOK, ProcessInv, NewInv, Unpublished, Heading, Validation, Publishing,
       Candidates, vars, files
  <1>26. QED
    BY <1>1, <1>2, <1>3, <1>4, <1>5, <1>6, <1>7, <1>8, <1>9, <1>10, <1>11, <1>12, <1>13,
       <1>14, <1>15, <1>16, <1>17, <1>18, <1>19, <1>20, <1>21, <1>22, <1>23, <1>24, <1>25
       DEF Next

(* Writing a record tells the file and the candidate's history the same.    *)
LEMMA RecordFresh ==
    ASSUME TypeOK, ProcessInv, FreshInv, NEW kind \in Kinds, NEW status, status # "absent", NEW next,
           pc \in Validation \ {"clear"}, next \in (Validation \ {"clear"}) \cup {"publish", "rejected"},
           Record(kind, status, next)
    PROVE  FreshInv'
  <1>1. /\ current' = current /\ pc' = "refresh" /\ opt' = opt
        /\ current \in Candidates /\ pc # "refresh" /\ current # Nothing
    BY PublicationAssumption
    DEF Record, process, ProcessInv, Heading, Validation, Candidates, Nothing, TypeOK
  <1>2. ASSUME opt.validate, NEW k \in Kinds
        PROVE  evidence'[k] = RecordOf(current, k)'
    <2>1. evidence[k] = RecordOf(current, k)
      BY <1>1, <1>2 DEF FreshInv, Heading
    <2>2. CASE k = kind
      <3>1. evidence'[k] = [status |-> status, about |-> current]
        BY <1>1, <2>2 DEF Record, TypeOK
      <3>2. earned'[current][k] = status
        BY <1>1, <2>2 DEF Record, TypeOK, Checks
      <3>3. QED
        BY <1>1, <3>1, <3>2 DEF RecordOf
    <2>3. CASE k # kind
      <3>1. evidence'[k] = evidence[k] /\ earned'[current][k] = earned[current][k]
        BY <1>1, <2>3 DEF Record, TypeOK
      <3>2. QED
        BY <1>1, <2>1, <3>1 DEF RecordOf
    <2>4. QED
      BY <2>2, <2>3
  <1>3. QED
    BY <1>1, <1>2 DEF FreshInv, Validation, Publishing

(* A step keeps the files in agreement with what was found out.             *)
LEMMA FreshStep ==
    ASSUME TypeOK, ProcessInv, NewInv, FreshInv, [Next]_vars
    PROVE  FreshInv'
  <1> USE PublicationAssumption
  <1>1. CASE \E o \in Options, phase \in {"stage3", "stage4"} : StartRun(o, phase)
    BY <1>1 DEF TypeOK, ProcessInv, FreshInv, RecordOf, Heading, Validation, Publishing,
       StartRun, Goto, files, Nothing
  <1>2. CASE AcceptStage3
    BY <1>2 DEF TypeOK, ProcessInv, FreshInv, RecordOf, Heading, Validation, Publishing,
       AcceptStage3, Only, Goto, files, process
  <1>3. CASE \E s \in {"passed", "failed"} : ValidateStage3(s)
    BY <1>3 DEF TypeOK, ProcessInv, FreshInv, RecordOf, Heading, Validation, Publishing,
       ValidateStage3, process
  <1>4. CASE \E s \in {"passed", "failed"} : CheckIntermediate(s)
    BY <1>4, RecordFresh DEF CheckIntermediate, AfterIntermediate, Kinds, Validation
  <1>5. CASE WritePlan
    BY <1>5 DEF TypeOK, ProcessInv, FreshInv, RecordOf, Heading, Validation, Publishing,
       WritePlan, Goto, process
  <1>6. CASE WriteHarness
    BY <1>6 DEF TypeOK, ProcessInv, FreshInv, RecordOf, Heading, Validation, Publishing,
       WriteHarness, Goto
  <1>7. CASE Clear
    <2>1. /\ pc = "clear" /\ opt' = opt /\ current' = current /\ earned' = earned
      BY <1>7 DEF Clear, process
    <2>2. CASE pc' = "clear"
      BY <2>2 DEF FreshInv, Heading, Validation, Publishing
    <2>3. CASE pc' # "clear"
      <3>1. /\ pc' = "intermediate" /\ evidence' = evidence
            /\ {i \in 1..4 : evidence[ClearOrder[i]] # Absent} = {}
        BY <1>7, <2>1, <2>3 DEF Clear, Goto
      <3>2. \A k \in Kinds : evidence[k] = Absent
        BY <3>1 DEF ClearOrder, Kinds
      <3>3. current \in Candidates /\ current = made
        BY <2>1 DEF ProcessInv, Heading, Validation, Candidates, TypeOK
      <3>4. \A k \in Kinds : earned[current][k] = "absent"
        BY <2>1, <3>3 DEF NewInv, Heading, Checks
      <3>5. QED
        BY <2>1, <3>1, <3>2, <3>4 DEF FreshInv, RecordOf, Heading, Validation, Publishing
    <2>4. QED
      BY <2>2, <2>3
  <1>8. CASE Refresh
    BY <1>8 DEF TypeOK, ProcessInv, FreshInv, RecordOf, Heading, Validation, Publishing,
       Refresh, Goto, process
  <1>9. CASE Downgrade
    BY <1>9, RecordFresh DEF Downgrade, AfterIntermediate, Kinds, Validation
  <1>10. CASE \E s \in {"passed", "failed", "unavailable"} : CompileRecipe(s) \/ LinkRecipe(s)
    BY <1>10, RecordFresh DEF CompileRecipe, LinkRecipe, Kinds, Validation
  <1>11. CASE SkipLinker \/ SkipRuntime
    BY <1>11, RecordFresh DEF SkipLinker, SkipRuntime, Kinds, Validation
  <1>12. CASE \E syntax \in {"passed", "failed", "unavailable"},
             link \in {"passed", "failed", "unavailable", "skipped"} : CompileAndLink(syntax, link)
    <2>1. PICK syntax \in {"passed", "failed", "unavailable"},
               link \in {"passed", "failed", "unavailable", "skipped"} : CompileAndLink(syntax, link)
      BY <1>12
    <2> DEFINE combined == IF "failed" \in {syntax, link} THEN "failed" ELSE syntax
    <2>2. combined # "absent"
      OBVIOUS
    <2>3. /\ evidence' = [evidence EXCEPT !["compiler"] = [status |-> combined, about |-> current]]
          /\ earned' = [earned EXCEPT ![current]["compiler"] = combined]
          /\ pc = "compile" /\ pc' = "record_compiler" /\ opt' = opt /\ current' = current
      BY <2>1 DEF CompileAndLink, Goto, process
    <2> HIDE DEF combined
    <2>4. current \in Candidates
      BY <2>3 DEF ProcessInv, Heading, Validation, Candidates, TypeOK
    <2>5. ASSUME opt.validate, NEW k \in Kinds
          PROVE  evidence'[k] = RecordOf(current, k)'
      <3>1. evidence[k] = RecordOf(current, k)
        BY <2>3, <2>5 DEF FreshInv, Heading, Validation
      <3>2. CASE k = "compiler"
        <4>1. evidence'[k] = [status |-> combined, about |-> current]
          BY <2>3, <3>2 DEF TypeOK, Kinds
        <4>2. earned'[current][k] = combined
          BY <2>3, <2>4, <3>2 DEF TypeOK, Checks, Kinds
        <4>3. QED
          BY <2>2, <2>3, <4>1, <4>2 DEF RecordOf
      <3>3. CASE k # "compiler"
        <4>1. evidence'[k] = evidence[k] /\ earned'[current][k] = earned[current][k]
          BY <2>3, <2>4, <3>3 DEF TypeOK
        <4>2. QED
          BY <2>3, <3>1, <4>1 DEF RecordOf
      <3>4. QED
        BY <3>2, <3>3
    <2>6. QED
      BY <2>3, <2>5 DEF FreshInv, Heading, Validation, Publishing
  <1>13. CASE RecordCompiler \/ RecordLinker
    BY <1>13, RecordFresh DEF RecordCompiler, RecordLinker, Kinds, Validation, ProcessInv,
       Heading
  <1>14. CASE \E s \in {"passed", "failed", "passed_with_limitations", "skipped"} : SmokeRecipe(s)
    BY <1>14, RecordFresh DEF SmokeRecipe, AfterPassing, Kinds, Validation
  <1>15. CASE \E s \in {"passed", "failed", "skipped"} : SmokeCompiler(s)
    BY <1>15, RecordFresh DEF SmokeCompiler, AfterPassing, Kinds, Validation
  <1>16. CASE \E s \in {"passed", "failed", "passed_with_limitations", "unavailable"} : FuzzSmoke(s)
    <2>1. PICK s \in {"passed", "failed", "passed_with_limitations", "unavailable"} : FuzzSmoke(s)
      BY <1>16
    <2>2. /\ pc = "fuzz" /\ pc' \in {"rejected", "publish"}
          /\ UNCHANGED <<opt, current, evidence, summary>>
      BY <2>1 DEF FuzzSmoke, Goto, process
    <2>3. current \in Candidates
      BY <2>2 DEF ProcessInv, Heading, Validation, Candidates, TypeOK
    <2>4. \A k \in Kinds : earned'[current][k] = earned[current][k]
      BY <2>1, <2>3 DEF FuzzSmoke, TypeOK, Kinds
    <2>5. QED
      BY <2>2, <2>4 DEF FreshInv, RecordOf, Heading, Validation, Publishing
  <1>17. CASE Raise
    BY <1>17 DEF TypeOK, ProcessInv, FreshInv, RecordOf, Heading, Validation, Publishing,
       Raise, Goto, files, process
  <1>18. CASE Quarantine
    BY <1>18 DEF TypeOK, ProcessInv, FreshInv, RecordOf, Heading, Validation, Publishing,
       Quarantine, Goto, process
  <1>19. CASE PromoteHarness
    BY <1>19 DEF TypeOK, ProcessInv, FreshInv, RecordOf, Heading, Validation, Publishing,
       PromoteHarness, Goto, process
  <1>20. CASE PromotePlan
    BY <1>20 DEF TypeOK, ProcessInv, FreshInv, RecordOf, Heading, Validation, Publishing,
       PromotePlan, Goto, process
  <1>21. CASE PromoteManifest
    BY <1>21 DEF TypeOK, ProcessInv, FreshInv, RecordOf, Heading, Validation, Publishing,
       PromoteManifest, Goto, process
  <1>22. CASE (\E phase \in {"stage3", "stage4"} : Regenerate(phase)) \/ GiveUp
    BY <1>22 DEF TypeOK, ProcessInv, FreshInv, RecordOf, Heading, Validation, Publishing,
       Regenerate, GiveUp, Only, Goto, files, process
  <1>23. CASE Report
    BY <1>23 DEF TypeOK, ProcessInv, FreshInv, RecordOf, Heading, Validation, Publishing,
       Report, Milestones, Succeeded, Goto, process
  <1>24. CASE Crash
    BY <1>24 DEF TypeOK, ProcessInv, FreshInv, RecordOf, Heading, Validation, Publishing,
       Crash, Goto, files, process
  <1>25. CASE UNCHANGED vars
    BY <1>25 DEF TypeOK, ProcessInv, FreshInv, RecordOf, Heading, Validation, Publishing,
       vars, files
  <1>26. QED
    BY <1>1, <1>2, <1>3, <1>4, <1>5, <1>6, <1>7, <1>8, <1>9, <1>10, <1>11, <1>12, <1>13,
       <1>14, <1>15, <1>16, <1>17, <1>18, <1>19, <1>20, <1>21, <1>22, <1>23, <1>24, <1>25
       DEF Next

(* A step begins or continues only publications that passed the gate.       *)
LEMMA PublishedStep ==
    ASSUME TypeOK, ProcessInv, PublishedInv, [Next]_vars
    PROVE  PublishedInv'
  <1> USE PublicationAssumption DEF TypeOK, ProcessInv, PublishedInv, Eligible, Pair
  <1>1. CASE \E o \in Options, phase \in {"stage3", "stage4"} : StartRun(o, phase)
    BY <1>1 DEF StartRun, Goto, files, Nothing
  <1>2. CASE AcceptStage3
    BY <1>2 DEF AcceptStage3, Only, Goto, files, process
  <1>3. CASE \E s \in {"passed", "failed"} : ValidateStage3(s)
    BY <1>3 DEF ValidateStage3, process
  <1>4. CASE \E s \in {"passed", "failed"} : CheckIntermediate(s)
    BY <1>4 DEF CheckIntermediate, AfterIntermediate, Record, process
  <1>5. CASE WritePlan
    BY <1>5 DEF WritePlan, Goto, process
  <1>6. CASE WriteHarness
    BY <1>6 DEF WriteHarness, Goto
  <1>7. CASE Clear
    BY <1>7 DEF Clear, Goto, process
  <1>8. CASE Refresh
    BY <1>8 DEF Refresh, Goto, process
  <1>9. CASE Downgrade
    BY <1>9 DEF Downgrade, AfterIntermediate, Record, process
  <1>10. CASE \E s \in {"passed", "failed", "unavailable"} : CompileRecipe(s) \/ LinkRecipe(s)
    BY <1>10 DEF CompileRecipe, LinkRecipe, Record, process
  <1>11. CASE SkipLinker \/ SkipRuntime
    BY <1>11 DEF SkipLinker, SkipRuntime, Record, process
  <1>12. CASE \E syntax \in {"passed", "failed", "unavailable"},
             link \in {"passed", "failed", "unavailable", "skipped"} : CompileAndLink(syntax, link)
    BY <1>12 DEF CompileAndLink, Goto, process
  <1>13. CASE RecordCompiler \/ RecordLinker
    BY <1>13 DEF RecordCompiler, RecordLinker, Record, process
  <1>14. CASE \E s \in {"passed", "failed", "passed_with_limitations", "skipped"} : SmokeRecipe(s)
    BY <1>14 DEF SmokeRecipe, AfterPassing, Record, process
  <1>15. CASE \E s \in {"passed", "failed", "skipped"} : SmokeCompiler(s)
    BY <1>15 DEF SmokeCompiler, AfterPassing, Record, process
  <1>16. CASE \E s \in {"passed", "failed", "passed_with_limitations", "unavailable"} : FuzzSmoke(s)
    BY <1>16 DEF FuzzSmoke, Goto, process
  <1>17. CASE Raise
    BY <1>17 DEF Raise, Goto, files, process
  <1>18. CASE Quarantine
    BY <1>18 DEF Quarantine, Goto, process
  <1>19. CASE PromoteHarness
    BY <1>19 DEF PromoteHarness, Goto, process
  <1>20. CASE PromotePlan
    BY <1>20 DEF PromotePlan, Goto, process
  <1>21. CASE PromoteManifest
    BY <1>21 DEF PromoteManifest, Goto, process
  <1>22. CASE (\E phase \in {"stage3", "stage4"} : Regenerate(phase)) \/ GiveUp
    BY <1>22 DEF Regenerate, GiveUp, Only, Goto, files, process
  <1>23. CASE Report
    BY <1>23 DEF Report, Milestones, Succeeded, Goto, process
  <1>24. CASE Crash
    BY <1>24 DEF Crash, Goto, files, process
  <1>25. CASE UNCHANGED vars
    BY <1>25 DEF vars, files
  <1>26. QED
    BY <1>1, <1>2, <1>3, <1>4, <1>5, <1>6, <1>7, <1>8, <1>9, <1>10, <1>11, <1>12, <1>13,
       <1>14, <1>15, <1>16, <1>17, <1>18, <1>19, <1>20, <1>21, <1>22, <1>23, <1>24, <1>25
       DEF Next

(* What is known of a published or reported candidate stays as it is.       *)
LEMMA OnlyNewJudged ==
    ASSUME TypeOK, ProcessInv, NewInv, [Next]_vars
    PROVE  \A c \in Candidates : ~Unpublished(c) => earned'[c] = earned[c]
  <1>1. ASSUME pc \in Validation
        PROVE  Unpublished(current) /\ pc # "refresh"
    BY <1>1 DEF NewInv, Heading, Validation
  <1>2. ASSUME NEW kind, NEW status, NEW next, Record(kind, status, next), pc \in Validation
        PROVE  \A c \in Candidates : ~Unpublished(c) => earned'[c] = earned[c]
    BY <1>1, <1>2 DEF Record, TypeOK
  <1>3. CASE \E s \in {"passed", "failed"} : CheckIntermediate(s)
    BY <1>2, <1>3 DEF CheckIntermediate, Validation
  <1>4. CASE Downgrade \/ SkipLinker \/ SkipRuntime \/ RecordCompiler \/ RecordLinker
    BY <1>2, <1>4 DEF Downgrade, SkipLinker, SkipRuntime, RecordCompiler, RecordLinker,
       Validation
  <1>5. CASE \E s \in {"passed", "failed", "unavailable"} : CompileRecipe(s) \/ LinkRecipe(s)
    BY <1>2, <1>5 DEF CompileRecipe, LinkRecipe, Validation
  <1>6. CASE \E s \in {"passed", "failed", "passed_with_limitations", "skipped"} : SmokeRecipe(s)
    BY <1>2, <1>6 DEF SmokeRecipe, Validation
  <1>7. CASE \E s \in {"passed", "failed", "skipped"} : SmokeCompiler(s)
    BY <1>2, <1>7 DEF SmokeCompiler, Validation
  <1>8. CASE \E syntax \in {"passed", "failed", "unavailable"},
             link \in {"passed", "failed", "unavailable", "skipped"} : CompileAndLink(syntax, link)
    BY <1>1, <1>8 DEF CompileAndLink, TypeOK, Validation
  <1>9. CASE \E s \in {"passed", "failed", "passed_with_limitations", "unavailable"} : FuzzSmoke(s)
    BY <1>1, <1>9 DEF FuzzSmoke, TypeOK, Validation
  <1>10. CASE UNCHANGED earned
    BY <1>10
  <1>11. QED
    BY <1>3, <1>4, <1>5, <1>6, <1>7, <1>8, <1>9, <1>10
    DEF Next, StartRun, AcceptStage3, ValidateStage3, WritePlan, WriteHarness, Clear, Refresh, Raise,
        Quarantine, PromoteHarness, PromotePlan, PromoteManifest, Regenerate, GiveUp, Only, Report,
        Crash, vars

(* The gate opens for every summary of certified statuses.                  *)
LEMMA GateOpens ==
    ASSUME NEW s \in [Kinds -> Statuses],
           \A k \in {"compiler", "linker", "runtime"} : s[k] = "passed",
           s["intermediate"] \in {"passed", "passed_with_warnings"},
           NEW policy, policy = "hybrid" \/ s["intermediate"] = "passed"
    PROVE  StatusesPass(policy, Summary(s))
  <1>1. CASE s["intermediate"] = "passed"
    <2>1. {s[k] : k \in Kinds} \ {"absent"} = {"passed"}
      BY <1>1 DEF Kinds
    <2>2. Overall(s) = "passed"
      BY <2>1, <1>1 DEF Overall, Kinds
    <2>3. QED
      BY <1>1, <2>2 DEF StatusesPass, Summary, Kinds
  <1>2. CASE s["intermediate"] = "passed_with_warnings"
    <2>1. {s[k] : k \in Kinds} \ {"absent"} = {"passed", "passed_with_warnings"}
      BY <1>2 DEF Kinds
    <2>2. Overall(s) = "passed_with_warnings"
      BY <2>1, <1>2 DEF Overall, Kinds
    <2>3. QED
      BY <1>2, <2>2 DEF StatusesPass, Summary, Kinds
  <1>3. QED
    BY <1>1, <1>2

(* A record has the status that was earned.                                 *)
LEMMA RecordStatus ==
    ASSUME NEW c, NEW k
    PROVE  RecordOf(c, k).status = earned[c][k]
  <1>1. CASE earned[c][k] = "absent"
    BY <1>1 DEF RecordOf, Absent
  <1>2. CASE earned[c][k] # "absent"
    BY <1>2 DEF RecordOf
  <1>3. QED
    BY <1>1, <1>2

(* What passes the gate on its own evidence is certified.                   *)
LEMMA GateCertifies ==
    ASSUME TypeOK, ProcessInv, FreshInv, Eligible, opt.validate, pc \in {"publish", "stable_plan"}
    PROVE  Certified(current)
  <1>1. \A k \in Kinds : evidence[k] = RecordOf(current, k)
    BY DEF FreshInv, Heading, Publishing
  <1>2. /\ evidence["intermediate"].status \in {"passed", "passed_with_warnings"}
        /\ \A k \in {"compiler", "linker", "runtime"} : evidence[k].status = "passed"
    BY DEF Eligible, StatusesPass, Kinds
  <1>3. \A k \in Kinds : evidence[k].status = earned[current][k]
    BY <1>1, RecordStatus
  <1>4. QED
    BY <1>2, <1>3 DEF Certified, Kinds

(* A step publishes a certified candidate before it succeeds.               *)
LEMMA CertifiedStep ==
    ASSUME TypeOK, ProcessInv, FreshInv, PublishedInv, CertifiedIsPublished, [Next]_vars
    PROVE  CertifiedIsPublished'
  <1>1. CASE Quarantine
    <2>1. SUFFICES ASSUME opt.build, opt.contract, Certified(current),
                          opt.policy = "hybrid" \/ earned[current]["intermediate"] = "passed"
                   PROVE  Eligible
      BY <1>1 DEF Quarantine, CertifiedIsPublished, Certified, process
    <2> DEFINE s == [k \in Kinds |-> evidence[k].status]
    <2>2. opt.validate /\ pc = "publish" /\ Heading = "publish"
      BY <1>1, <2>1 DEF Quarantine, TypeOK, OptionRecords, Heading
    <2>3. /\ \A k \in Kinds : evidence[k] = RecordOf(current, k)
          /\ summary = Summary(s)
          /\ candidate = Pair(current)
      BY <2>2 DEF FreshInv, ProcessInv, Validation, Publishing
    <2>4. \A k \in Kinds : s[k] = earned[current][k]
      BY <2>3, RecordStatus
    <2>5. s \in [Kinds -> Statuses]
      BY DEF TypeOK
    <2> HIDE DEF s
    <2>6. /\ s["intermediate"] \in {"passed", "passed_with_warnings"}
          /\ opt.policy = "hybrid" \/ s["intermediate"] = "passed"
          /\ \A k \in {"compiler", "linker", "runtime"} : s[k] = "passed"
      BY <2>1, <2>4 DEF Certified, Kinds
    <2>7. StatusesPass(opt.policy, summary)
      BY <2>3, <2>5, <2>6, GateOpens
    <2>8. summary.statuses = s
      BY <2>3 DEF Summary
    <2>9. \A k \in Kinds : evidence[k].status = summary.statuses[k]
      BY <2>8 DEF s
    <2>10. QED
      BY <2>1, <2>3, <2>7, <2>9 DEF Eligible
  <1>2. CASE PromoteManifest
    BY <1>2 DEF PromoteManifest, PublishedInv, CertifiedIsPublished, process, Goto, Pair, TypeOK
  <1>3. CASE UNCHANGED vars
    BY <1>3 DEF vars, files, CertifiedIsPublished, Certified
  <1>4. CASE pc' # "succeeded"
    BY <1>4 DEF CertifiedIsPublished
  <1>5. QED
    BY <1>1, <1>2, <1>3, <1>4
    DEF Next, StartRun, AcceptStage3, ValidateStage3, CheckIntermediate, WritePlan, WriteHarness, Clear,
        Refresh, Downgrade, CompileRecipe, LinkRecipe, SkipLinker, SkipRuntime, CompileAndLink,
        RecordCompiler, RecordLinker, SmokeRecipe, SmokeCompiler, FuzzSmoke, Raise, PromoteHarness,
        PromotePlan, Regenerate, GiveUp, Only, Report, Crash, Record, Goto, ProcessInv

(* A step reports a success only if it was earned.                          *)
LEMMA SuccessStep ==
    ASSUME TypeOK, ProcessInv, NewInv, FreshInv, SuccessIsEarned, [Next]_vars
    PROVE  SuccessIsEarned'
  <1>1. CASE Report
    <2>1. SUFFICES ASSUME Succeeded(Milestones), opt.build
                   PROVE  /\ current # Nothing
                          /\ earned[current]["compiler"] = "passed"
                          /\ earned[current]["linker"] = "passed"
                          /\ earned[current]["runtime"] \in Accepted
      BY <1>1 DEF Report, Milestones, SuccessIsEarned
    <2>2. /\ evidence["compiler"].status = "passed" /\ evidence["linker"].status = "passed"
          /\ evidence["runtime"].status \in Accepted
          /\ pc = "succeeded"
      BY <2>1 DEF Succeeded, Milestones
    <2>3. opt.validate /\ Heading = "succeeded"
      BY <2>1, <2>2 DEF TypeOK, OptionRecords, Heading
    <2>4. \A k \in Kinds : evidence[k] = RecordOf(current, k)
      BY <2>3 DEF FreshInv, Publishing
    <2>5. \A k \in Kinds : evidence[k].status = earned[current][k]
      BY <2>4, RecordStatus
    <2>6. current # Nothing
      BY <2>3 DEF ProcessInv, Publishing, Nothing
    <2>7. QED
      BY <2>2, <2>5, <2>6 DEF Kinds
  <1>2. CASE result' = result
    <2>1. SUFFICES ASSUME result.success, result.build
                   PROVE  earned'[result.about] = earned[result.about]
      BY <1>2 DEF SuccessIsEarned
    <2>2. result.about \in Candidates
      BY <2>1 DEF SuccessIsEarned, TypeOK, Candidates, Nothing
    <2>3. QED
      BY <2>2, OnlyNewJudged DEF Unpublished
  <1>3. QED
    BY <1>1, <1>2
    DEF Next, StartRun, AcceptStage3, ValidateStage3, CheckIntermediate, WritePlan, WriteHarness, Clear,
        Refresh, Downgrade, CompileRecipe, LinkRecipe, SkipLinker, SkipRuntime, CompileAndLink,
        RecordCompiler, RecordLinker, SmokeRecipe, SmokeCompiler, FuzzSmoke, Raise, Quarantine,
        PromoteHarness, PromotePlan, PromoteManifest, Regenerate, GiveUp, Only, Crash, Record, vars, files

(* The invariant holds in an empty directory.                               *)
LEMMA InitHolds ==
    ASSUME Init
    PROVE  IInv
  <1>1. TypeOK
    <2>1. Absent \in [status : Statuses, about : 0..MaxCandidates]
      BY PublicationAssumption, StatusFacts DEF Absent, Nothing
    <2>2. /\ evidence \in [Kinds -> [status : Statuses, about : 0..MaxCandidates]]
          /\ smoke \in [status : Statuses, about : 0..MaxCandidates]
      BY <2>1 DEF Init
    <2>3. summary \in [statuses : [Kinds -> Statuses], overall : Overalls \cup {"absent"}]
      BY StatusFacts DEF Init, NoSummary
    <2>4. earned \in [Candidates -> [Checks -> Statuses]]
      BY StatusFacts DEF Init
    <2>5. opt \in OptionRecords
      BY DEF Init, Idle, OptionRecords
    <2>6. probe \in [syntax : Statuses, link : Statuses]
      BY StatusFacts DEF Init, NoProbe
    <2>7. QED
      BY <2>2, <2>3, <2>4, <2>5, <2>6, PublicationAssumption, PhaseFacts
      DEF TypeOK, Init, Pair, Nothing, NoResult
  <1>2. pc = "idle" /\ Heading = "idle"
    BY DEF Init, Heading
  <1>3. ProcessInv
    BY <1>2 DEF ProcessInv, Init, Validation, Publishing, Nothing
  <1>4. NewInv
    <2>1. \A c \in Candidates : c # Nothing
      BY DEF Candidates, Nothing
    <2>2. QED
      BY <1>2, <2>1 DEF NewInv, Init, Validation, Publishing, Unpublished, Pair, NoResult
  <1>5. FreshInv /\ PublishedInv /\ CertifiedIsPublished
    BY <1>2 DEF FreshInv, PublishedInv, CertifiedIsPublished, Validation, Publishing
  <1>6. SuccessIsEarned
    BY DEF SuccessIsEarned, Init, NoResult
  <1>7. QED
    BY <1>1, <1>3, <1>4, <1>5, <1>6 DEF IInv

(* The inductive invariant holds in every reachable state, for every set of *)
(* command lines and all bounds.                                            *)
THEOREM Invariance == Spec => []IInv
  <1>1. IInv /\ [Next]_vars => IInv'
    BY TypeStep, ProcessStep, NewStep, FreshStep, PublishedStep, CertifiedStep, SuccessStep
       DEF IInv
  <1>2. QED
    BY InitHolds, <1>1, PTL DEF Spec

(* The variables hold values of the kinds the code gives them.              *)
THEOREM TypeCorrect == Spec => []TypeOK
  BY Invariance, PTL DEF IInv

(* A validated candidate that reaches publication is judged by validation   *)
(* files of its own, and summary.json says what they say                    *)
(* (PipelineStageValidator.validate_stage4).                                *)
THEOREM EvidenceFresh == Spec => []EvidenceInv
  <1>1. IInv => EvidenceInv
    <2>1. SUFFICES ASSUME IInv, pc = "publish", opt.validate
                   PROVE  PublishSeesFreshEvidence
      BY DEF IInv, EvidenceInv, PublishSeesFreshEvidence
    <2>2. Heading = "publish"
      BY <2>1 DEF Heading
    <2>3. \A k \in Kinds : evidence[k] = RecordOf(current, k)
      BY <2>1, <2>2 DEF IInv, FreshInv, Publishing
    <2>4. summary = Summary([k \in Kinds |-> evidence[k].status])
      BY <2>1 DEF IInv, FreshInv, Publishing
    <2>5. QED
      BY <2>3, <2>4 DEF PublishSeesFreshEvidence, RecordOf
  <1>2. QED
    BY Invariance, <1>1, PTL

(* A certified candidate is published as a whole before its run succeeds,   *)
(* and a reported success was earned by the candidate it names              *)
(* (promote_harness, PipelineResult).                                       *)
THEOREM ReportCorrect == Spec => []ReportIsTrue
  BY Invariance, PTL DEF IInv, ReportIsTrue

(* The stable harness and plan are always those of certified candidates     *)
(* which the fuzz smoke did not reject, as long as every command line       *)
(* validates or has plans of another contract (promote_harness,             *)
(* _publish_harness).                                                       *)
THEOREM StablePairEarned ==
    EveryLineValidates => (Spec => []StableFilesEarned)
  <1> SUFFICES ASSUME EveryLineValidates
               PROVE  Spec => []StableFilesEarned
    OBVIOUS
  <1>1. Init => StableFilesEarned
    BY DEF Init, StableFilesEarned, Pair
  <1>2. ASSUME IInv, StableFilesEarned, [Next]_vars
        PROVE  StableFilesEarned'
    <2> USE DEF IInv
    <2>1. ASSUME NEW c \in {stable.harness, stable.plan} \ {Nothing}
          PROVE  earned'[c] = earned[c]
      <3>1. c \in Candidates
        BY <1>2, <2>1 DEF TypeOK, Candidates, Nothing
      <3>2. ~Unpublished(c)
        BY <2>1 DEF Unpublished
      <3>3. QED
        BY <1>2, <3>1, <3>2, OnlyNewJudged
    <2>2. CASE PromoteHarness \/ PromotePlan
      <3>1. /\ pc \in {"publish", "stable_plan"} /\ Eligible /\ earned' = earned
            /\ {stable'.harness, stable'.plan} \subseteq {stable.harness, stable.plan, current}
        BY <1>2, <2>2 DEF PromoteHarness, PromotePlan, PublishedInv, TypeOK
      <3>2. opt.validate
        BY <1>2, <3>1 DEF ProcessInv, Eligible, EveryLineValidates
      <3>3. Certified(current)
        BY <1>2, <3>1, <3>2, GateCertifies
      <3>4. earned[current]["fuzz"] # "failed"
        BY <1>2, <3>1 DEF NewInv, Heading, Publishing
      <3>5. QED
        BY <1>2, <3>1, <3>3, <3>4 DEF StableFilesEarned, Certified
    <2>3. CASE stable' = stable
      BY <1>2, <2>1, <2>3 DEF StableFilesEarned, Certified
    <2>4. QED
      BY <1>2, <2>2, <2>3
      DEF Next, StartRun, AcceptStage3, ValidateStage3, CheckIntermediate, WritePlan, WriteHarness, Clear,
          Refresh, Downgrade, CompileRecipe, LinkRecipe, SkipLinker, SkipRuntime, CompileAndLink,
          RecordCompiler, RecordLinker, SmokeRecipe, SmokeCompiler, FuzzSmoke, Raise, Quarantine,
          PromoteManifest, Regenerate, GiveUp, Only, Report, Crash, Record, vars, files
  <1>3. QED
    BY <1>1, <1>2, Invariance, PTL DEF Spec

====
