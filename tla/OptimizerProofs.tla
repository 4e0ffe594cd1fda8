--------------------------- MODULE OptimizerProofs ---------------------------
(***************************************************************************)
(* Proofs about the optimizer, for every number of rounds, children and    *)
(* seeds and every set of scores.                                          *)
(***************************************************************************)
EXTENDS OptimizerProps, TLAPS

(* The identities, seen through their rounds and indices.                   *)
LEMMA IdFacts ==
    /\ \A r \in 1..Rounds, i \in 0..(Children - 1) : <<r, i>> \in Ids
    /\ <<0, 0>> \in Ids
    /\ \A c \in Ids :
           /\ c[1] \in 0..Rounds /\ c[2] \in 0..(Children - 1)
           /\ c = <<c[1], c[2]>>
           /\ c[1] = 0 => c[2] = 0
  BY OptimizerAssumption DEF Ids, Initial

(* A step preserves the types. *)
LEMMA TypeStep ==
    ASSUME TypeOK, PhaseOK, [Next]_vars
    PROVE  TypeOK'
  <1> USE OptimizerAssumption DEF TypeOK
  <1>1. CASE \E ok \in BOOLEAN : Generate(ok)
    BY <1>1 DEF Generate, campaign
  <1>2. CASE \E ok \in BOOLEAN : Validate(ok)
    BY <1>2 DEF Validate, campaign
  <1>3. CASE CheckSource("check", "measure") \/ CheckSource("holdout_check", "holdout_measure")
    BY <1>3 DEF CheckSource, campaign, work
  <1>4. CASE \E ok \in BOOLEAN : Measure("measure", "check", ok) \/ Measure("holdout_measure", "holdout_check", ok)
    <2>1. /\ seed < Seeds
          /\ seed' \in {seed, seed + 1}
          /\ broken' \in BOOLEAN /\ tainted' \in BOOLEAN
          /\ phase' \in {"check", "holdout_check"}
      BY <1>4 DEF Measure, PhaseOK, Measuring
    <2>2. seed' \in 0..Seeds
      BY <2>1
    <2>3. QED
      BY <1>4, <2>1, <2>2 DEF Measure, campaign
  <1>5. CASE \E score \in Scores : CollectInitial(score)
    <2> SUFFICES ASSUME NEW score \in Scores, CollectInitial(score)
                 PROVE  TypeOK'
      BY <1>5
    <2>1. Current \in Ids
      BY IdFacts DEF CollectInitial, Current, PhaseOK, Initial, Initial
    <2>2. Report(score) \in Evaluation
      BY DEF Report, Evaluation, Unscored, CollectInitial
    <2>3. evaluated' \in [Ids -> Evaluation]
      BY <2>1, <2>2 DEF CollectInitial
    <2>4. index' \in 0..(Children - 1)
      BY DEF CollectInitial
    <2>5. round' \in 0..Rounds /\ phase' \in {"generate", "write"} /\ result' \in Results
      <3>1. CASE Eligible(Report(score))
        BY <3>1 DEF CollectInitial
      <3>2. CASE ~Eligible(Report(score))
        BY <3>2 DEF CollectInitial, Finish, Results
      <3>3. QED
        BY <3>1, <3>2
    <2>6. /\ parent' \in Ids \cup {Nobody}
          /\ status' = "none" /\ seed' = 0
          /\ broken' \in BOOLEAN /\ tainted' \in BOOLEAN
          /\ changed' \in BOOLEAN /\ heldOut' \in BOOLEAN
          /\ holdout' \in HoldoutModes /\ completed' \in 0..Rounds /\ saved' \in Results
      BY <2>1 DEF CollectInitial, ClearWork
    <2>7. QED
      BY <2>3, <2>4, <2>5, <2>6
  <1>6. CASE \E score \in Scores : CollectChild(score)
    <2> SUFFICES ASSUME NEW score \in Scores, CollectChild(score)
                 PROVE  TypeOK'
      BY <1>6
    <2>1. Current \in Ids
      BY IdFacts DEF CollectChild, Current, PhaseOK, Initial
    <2>2. Report(score) \in Evaluation
      BY DEF Report, Evaluation, Unscored, CollectChild
    <2>3. evaluated' \in [Ids -> Evaluation]
      BY <2>1, <2>2 DEF CollectChild
    <2>4. index' \in 0..(Children - 1)
      BY DEF CollectChild
    <2>5. /\ phase' \in {"generate", "select", "write"}
          /\ status' = "none" /\ seed' = 0
          /\ broken' \in BOOLEAN /\ tainted' \in BOOLEAN
          /\ parent' \in Ids \cup {Nobody}
          /\ round' \in 0..Rounds
          /\ result' \in Results
          /\ changed' \in BOOLEAN /\ heldOut' \in BOOLEAN
          /\ holdout' \in HoldoutModes /\ completed' \in 0..Rounds /\ saved' \in Results
      BY <2>1 DEF CollectChild, ClearWork
    <2>6. QED
      BY <2>3, <2>4, <2>5
  <1>7. CASE \E c \in Ids : Select(c)
    BY <1>7 DEF Select, Finish, Results
  <1>8. CASE CollectHoldout
    <2>1. CASE broken
      BY <1>8, <2>1 DEF CollectHoldout, Finish, work, Results
    <2>2. CASE ~broken
      BY <1>8, <2>2 DEF CollectHoldout, Finish, work, Results
    <2>3. QED
      BY <2>1, <2>2
  <1>9. CASE Raise
    BY <1>9 DEF Raise, campaign, work, Results
  <1>10. CASE Write
    BY <1>10 DEF Write, campaign, work
  <1>11. CASE WriteFails
    BY <1>11 DEF WriteFails, campaign, work, Results
  <1>12. CASE WriteFailsAgain
    BY <1>12 DEF WriteFailsAgain, campaign, work
  <1>13. CASE SourceChanges
    BY <1>13 DEF SourceChanges, campaign, work
  <1>14. CASE UNCHANGED vars
    BY <1>14 DEF vars, work
  <1>15. QED
    BY <1>1, <1>2, <1>3, <1>4, <1>5, <1>6, <1>7, <1>8, <1>9, <1>10, <1>11, <1>12, <1>13, <1>14 DEF Next, Step

(* A step keeps the phase and the progress consistent. *)
LEMMA PhaseStep ==
    ASSUME TypeOK, PhaseOK, [Next]_vars
    PROVE  PhaseOK'
  <1> USE OptimizerAssumption DEF TypeOK, PhaseOK, Working, Reported, Measuring
  <1>1. CASE \E ok \in BOOLEAN : Generate(ok)
    BY <1>1 DEF Generate, campaign
  <1>2. CASE \E ok \in BOOLEAN : Validate(ok)
    BY <1>2 DEF Validate, campaign
  <1>3. CASE CheckSource("check", "measure") \/ CheckSource("holdout_check", "holdout_measure")
    BY <1>3 DEF CheckSource, campaign, work
  <1>4. CASE \E ok \in BOOLEAN : Measure("measure", "check", ok) \/ Measure("holdout_measure", "holdout_check", ok)
    BY <1>4 DEF Measure, campaign
  <1>5. CASE \E score \in Scores : CollectInitial(score)
    <2>1. Current \in Ids
      BY <1>5, IdFacts DEF CollectInitial, Current
    <2>2. QED
      BY <1>5, <2>1 DEF CollectInitial, ClearWork, Finish
  <1>6. CASE \E score \in Scores : CollectChild(score)
    BY <1>6 DEF CollectChild, ClearWork, Report, Current, Unscored
  <1>7. CASE \E c \in Ids : Select(c)
    BY <1>7 DEF Select, Competitors, Finish
  <1>8. CASE CollectHoldout
    BY <1>8 DEF CollectHoldout, Finish, work
  <1>9. CASE Raise
    BY <1>9 DEF Raise, campaign, work
  <1>10. CASE Write
    BY <1>10 DEF Write, campaign, work
  <1>11. CASE WriteFails
    BY <1>11 DEF WriteFails, campaign, work
  <1>12. CASE WriteFailsAgain
    BY <1>12 DEF WriteFailsAgain, campaign, work
  <1>13. CASE SourceChanges
    BY <1>13 DEF SourceChanges, campaign, work
  <1>14. CASE UNCHANGED vars
    BY <1>14 DEF vars, work
  <1>15. QED
    BY <1>1, <1>2, <1>3, <1>4, <1>5, <1>6, <1>7, <1>8, <1>9, <1>10, <1>11, <1>12, <1>13, <1>14 DEF Next, Step

(* A step keeps the evaluations in order. *)
LEMMA OrderStep ==
    ASSUME TypeOK, PhaseOK, TypeOK', EvaluatedInOrder, [Next]_vars
    PROVE  EvaluatedInOrder'
  <1> USE OptimizerAssumption, IdFacts DEF TypeOK, PhaseOK, EvaluatedInOrder, Working
  <1>1. CASE \E ok \in BOOLEAN : Generate(ok)
    BY <1>1 DEF Generate, campaign
  <1>2. CASE \E ok \in BOOLEAN : Validate(ok)
    BY <1>2 DEF Validate, campaign
  <1>3. CASE CheckSource("check", "measure") \/ CheckSource("holdout_check", "holdout_measure")
    BY <1>3 DEF CheckSource, campaign, work
  <1>4. CASE \E ok \in BOOLEAN : Measure("measure", "check", ok) \/ Measure("holdout_measure", "holdout_check", ok)
    BY <1>4 DEF Measure, campaign
  <1>5. CASE \E score \in Scores : CollectInitial(score)
    BY <1>5 DEF CollectInitial, ClearWork, Finish, Report, Current, Eligible, Unscored
  <1>6. CASE \E score \in Scores : CollectChild(score)
    <2> SUFFICES ASSUME NEW score \in Scores, CollectChild(score),
                        NEW c \in Ids,
                        \/ c[1] < round'
                        \/ c[1] = round' /\ c[2] < index'
                        \/ c[1] = round' /\ round' > 0 /\ (phase' = "select" \/ completed' = round')
                 PROVE  evaluated'[c].status # "none"
      BY <1>6
    <2>1. c = Current \/ evaluated[c].status # "none"
      BY DEF CollectChild, Current
    <2>2. CASE c = Current
      BY <2>2 DEF CollectChild, Report
    <2>3. CASE c # Current
      BY <2>1, <2>3 DEF CollectChild
    <2>4. QED
      BY <2>2, <2>3
  <1>7. CASE \E c \in Ids : Select(c)
    <2>1. /\ evaluated' = evaluated /\ index' = 0
          /\ round' \in {round, round + 1} /\ completed' = round /\ phase' # "select"
      BY <1>7 DEF Select, Finish
    <2>2. phase = "select" /\ round > 0
      BY <1>7 DEF Select
    <2>3. QED
      BY <2>1, <2>2
  <1>8. CASE CollectHoldout
    BY <1>8 DEF CollectHoldout, Finish, work
  <1>9. CASE Raise
    BY <1>9 DEF Raise, campaign, work
  <1>10. CASE Write
    BY <1>10 DEF Write, campaign, work
  <1>11. CASE WriteFails
    BY <1>11 DEF WriteFails, campaign, work
  <1>12. CASE WriteFailsAgain
    BY <1>12 DEF WriteFailsAgain, campaign, work
  <1>13. CASE SourceChanges
    BY <1>13 DEF SourceChanges, campaign, work
  <1>14. CASE UNCHANGED vars
    BY <1>14 DEF vars, work
  <1>15. QED
    BY <1>1, <1>2, <1>3, <1>4, <1>5, <1>6, <1>7, <1>8, <1>9, <1>10, <1>11, <1>12, <1>13, <1>14 DEF Next, Step

(* A step compares no measurement of changed sources. *)
LEMMA UntaintedStep ==
    ASSUME TypeOK, PhaseOK, Untainted, [Next]_vars
    PROVE  Untainted'
  <1> USE OptimizerAssumption DEF TypeOK, Untainted
  <1>1. CASE \E ok \in BOOLEAN : Generate(ok)
    BY <1>1 DEF Generate, campaign
  <1>2. CASE \E ok \in BOOLEAN : Validate(ok)
    BY <1>2 DEF Validate, campaign
  <1>3. CASE CheckSource("check", "measure") \/ CheckSource("holdout_check", "holdout_measure")
    BY <1>3 DEF CheckSource, campaign, work
  <1>4. CASE \E ok \in BOOLEAN : Measure("measure", "check", ok) \/ Measure("holdout_measure", "holdout_check", ok)
    BY <1>4 DEF Measure, campaign
  <1>5. CASE \E score \in Scores : CollectInitial(score)
    BY <1>5 DEF CollectInitial, ClearWork, Finish, Report, Current, Eligible, Unscored
  <1>6. CASE \E score \in Scores : CollectChild(score)
    BY <1>6 DEF CollectChild, ClearWork, Report, Current, Unscored
  <1>7. CASE \E c \in Ids : Select(c)
    BY <1>7 DEF Select, Competitors, Finish
  <1>8. CASE CollectHoldout
    BY <1>8 DEF CollectHoldout, Finish, work
  <1>9. CASE Raise
    BY <1>9 DEF Raise, campaign, work
  <1>10. CASE Write
    BY <1>10 DEF Write, campaign, work
  <1>11. CASE WriteFails
    BY <1>11 DEF WriteFails, campaign, work
  <1>12. CASE WriteFailsAgain
    BY <1>12 DEF WriteFailsAgain, campaign, work
  <1>13. CASE SourceChanges
    BY <1>13 DEF SourceChanges, campaign, work
  <1>14. CASE UNCHANGED vars
    BY <1>14 DEF vars, work
  <1>15. QED
    BY <1>1, <1>2, <1>3, <1>4, <1>5, <1>6, <1>7, <1>8, <1>9, <1>10, <1>11, <1>12, <1>13, <1>14 DEF Next, Step

(* A step keeps the best candidate of the completed rounds selected. *)
LEMMA SelectedStep ==
    ASSUME TypeOK, PhaseOK, SelectedIsBest, [Next]_vars
    PROVE  SelectedIsBest'
  <1> USE OptimizerAssumption, IdFacts DEF TypeOK, PhaseOK, SelectedIsBest, Compared, Working
  <1>1. CASE \E ok \in BOOLEAN : Generate(ok)
    BY <1>1 DEF Generate, campaign
  <1>2. CASE \E ok \in BOOLEAN : Validate(ok)
    BY <1>2 DEF Validate, campaign
  <1>3. CASE CheckSource("check", "measure") \/ CheckSource("holdout_check", "holdout_measure")
    BY <1>3 DEF CheckSource, campaign, work
  <1>4. CASE \E ok \in BOOLEAN : Measure("measure", "check", ok) \/ Measure("holdout_measure", "holdout_check", ok)
    BY <1>4 DEF Measure, campaign
  <1>5. CASE \E score \in Scores : CollectInitial(score)
    BY <1>5 DEF CollectInitial, ClearWork, Finish, Report, Current, Eligible, Unscored
  <1>6. CASE \E score \in Scores : CollectChild(score)
    BY <1>6 DEF CollectChild, ClearWork, Report, Current, Unscored
  <1>7. CASE \E c \in Ids : Select(c)
    <2> SUFFICES ASSUME NEW c \in Ids, Select(c)
                 PROVE  SelectedIsBest'
      BY <1>7
    <2>1. /\ parent' = c /\ completed' = round /\ evaluated' = evaluated
          /\ round > 0 /\ completed = round - 1 /\ round <= round'
      BY DEF Select
    <2>2. /\ c = parent \/ \E i \in 0..(Children - 1) : c = <<round, i>>
          /\ Eligible(evaluated[c])
          /\ \A d \in Competitors : AtLeast(c, d)
      BY DEF Select, Competitors
    <2>3. c[1] <= round
      BY <2>1, <2>2
    <2>4. ASSUME NEW d \in Ids, d[1] <= round, Eligible(evaluated[d])
          PROVE  evaluated[c].score >= evaluated[d].score
      <3>1. CASE d[1] = round
        <4>1. d \in Competitors
          BY <2>4, <3>1 DEF Competitors
        <4>2. QED
          BY <2>2, <4>1 DEF AtLeast, Evaluation, Unscored
      <3>2. CASE d[1] < round
        <4>1. evaluated[parent].score >= evaluated[d].score
          BY <2>1, <2>4, <3>2
        <4>2. parent \in Competitors
          BY <2>1 DEF Competitors
        <4>3. /\ parent \in Ids
              /\ evaluated[c].score \in Int /\ evaluated[d].score \in Int
              /\ evaluated[parent].score \in Int
          BY <2>1, <2>4 DEF Evaluation, Unscored
        <4>4. evaluated[c].score >= evaluated[parent].score
          BY <2>2, <4>2, <4>3 DEF AtLeast
        <4>5. QED
          BY <4>1, <4>3, <4>4
      <3>3. QED
        BY <2>1, <2>4, <3>1, <3>2
    <2>5. QED
      BY <2>1, <2>2, <2>3, <2>4 DEF Eligible
  <1>8. CASE CollectHoldout
    BY <1>8 DEF CollectHoldout, Finish, work
  <1>9. CASE Raise
    BY <1>9 DEF Raise, campaign, work
  <1>10. CASE Write
    BY <1>10 DEF Write, campaign, work
  <1>11. CASE WriteFails
    BY <1>11 DEF WriteFails, campaign, work
  <1>12. CASE WriteFailsAgain
    BY <1>12 DEF WriteFailsAgain, campaign, work
  <1>13. CASE SourceChanges
    BY <1>13 DEF SourceChanges, campaign, work
  <1>14. CASE UNCHANGED vars
    BY <1>14 DEF vars, work
  <1>15. QED
    BY <1>1, <1>2, <1>3, <1>4, <1>5, <1>6, <1>7, <1>8, <1>9, <1>10, <1>11, <1>12, <1>13, <1>14 DEF Next, Step

(* A step completes no campaign early. *)
LEMMA CompletedStep ==
    ASSUME TypeOK, PhaseOK, EvaluatedInOrder, CompletedIsHeldOut, [Next]_vars
    PROVE  CompletedIsHeldOut'
  <1> USE OptimizerAssumption, IdFacts DEF TypeOK, PhaseOK, EvaluatedInOrder, CompletedIsHeldOut, Working, Reported
  <1>1. CASE \E ok \in BOOLEAN : Generate(ok)
    BY <1>1 DEF Generate, campaign
  <1>2. CASE \E ok \in BOOLEAN : Validate(ok)
    BY <1>2 DEF Validate, campaign
  <1>3. CASE CheckSource("check", "measure") \/ CheckSource("holdout_check", "holdout_measure")
    BY <1>3 DEF CheckSource, campaign, work
  <1>4. CASE \E ok \in BOOLEAN : Measure("measure", "check", ok) \/ Measure("holdout_measure", "holdout_check", ok)
    BY <1>4 DEF Measure, campaign
  <1>5. CASE \E score \in Scores : CollectInitial(score)
    BY <1>5 DEF CollectInitial, ClearWork, Finish, Report, Current, Eligible, Unscored
  <1>6. CASE \E score \in Scores : CollectChild(score)
    BY <1>6 DEF CollectChild, ClearWork, Report, Current, Unscored
  <1>7. CASE \E c \in Ids : Select(c)
    <2> SUFFICES ASSUME NEW c \in Ids, Select(c), result'.status = "completed"
                 PROVE  CompletedIsHeldOut'
      BY <1>7
    <2>1. /\ phase = "select" /\ round > 0 /\ result.status = "running"
          /\ evaluated' = evaluated /\ parent' = c /\ completed' = round
          /\ holdout' = holdout
      BY DEF Select
    <2>2. round = Rounds /\ holdout = "none" /\ result'.selected = c
      BY <2>1 DEF Select, Finish
    <2>3. \A d \in Ids : evaluated[d].status # "none"
      BY <2>1, <2>2
    <2>4. QED
      BY <2>1, <2>2, <2>3
  <1>8. CASE CollectHoldout
    BY <1>8 DEF CollectHoldout, Finish, work
  <1>9. CASE Raise
    BY <1>9 DEF Raise, campaign, work
  <1>10. CASE Write
    BY <1>10 DEF Write, campaign, work
  <1>11. CASE WriteFails
    BY <1>11 DEF WriteFails, campaign, work
  <1>12. CASE WriteFailsAgain
    BY <1>12 DEF WriteFailsAgain, campaign, work
  <1>13. CASE SourceChanges
    BY <1>13 DEF SourceChanges, campaign, work
  <1>14. CASE UNCHANGED vars
    BY <1>14 DEF vars, work
  <1>15. QED
    BY <1>1, <1>2, <1>3, <1>4, <1>5, <1>6, <1>7, <1>8, <1>9, <1>10, <1>11, <1>12, <1>13, <1>14 DEF Next, Step

(* A step returns only what was saved. *)
LEMMA SavedStep ==
    ASSUME TypeOK, ReturnedIsSaved, [Next]_vars
    PROVE  ReturnedIsSaved'
  <1> USE DEF ReturnedIsSaved
  <1>1. CASE \E ok \in BOOLEAN : Generate(ok)
    BY <1>1 DEF Generate, campaign
  <1>2. CASE \E ok \in BOOLEAN : Validate(ok)
    BY <1>2 DEF Validate, campaign
  <1>3. CASE CheckSource("check", "measure") \/ CheckSource("holdout_check", "holdout_measure")
    BY <1>3 DEF CheckSource, campaign, work
  <1>4. CASE \E ok \in BOOLEAN : Measure("measure", "check", ok) \/ Measure("holdout_measure", "holdout_check", ok)
    BY <1>4 DEF Measure, campaign
  <1>5. CASE \E score \in Scores : CollectInitial(score)
    BY <1>5 DEF CollectInitial, ClearWork, Finish, Report, Current, Eligible, Unscored
  <1>6. CASE \E score \in Scores : CollectChild(score)
    BY <1>6 DEF CollectChild, ClearWork, Report, Current, Unscored
  <1>7. CASE \E c \in Ids : Select(c)
    BY <1>7 DEF Select, Competitors, Finish
  <1>8. CASE CollectHoldout
    BY <1>8 DEF CollectHoldout, Finish, work
  <1>9. CASE Raise
    BY <1>9 DEF Raise, campaign, work
  <1>10. CASE Write
    BY <1>10 DEF Write, campaign, work
  <1>11. CASE WriteFails
    BY <1>11 DEF WriteFails, campaign, work
  <1>12. CASE WriteFailsAgain
    BY <1>12 DEF WriteFailsAgain, campaign, work
  <1>13. CASE SourceChanges
    BY <1>13 DEF SourceChanges, campaign, work
  <1>14. CASE UNCHANGED vars
    BY <1>14 DEF vars, work
  <1>15. QED
    BY <1>1, <1>2, <1>3, <1>4, <1>5, <1>6, <1>7, <1>8, <1>9, <1>10, <1>11, <1>12, <1>13, <1>14 DEF Next, Step

(* Inv holds initially and is kept by every step, so it always holds.       *)
THEOREM Invariance == Spec => []Inv
  <1>1. Init => Inv
    <2> SUFFICES ASSUME Init
                 PROVE  Inv
      OBVIOUS
    <2>1. TypeOK
      <3>1. NoEvaluation \in Evaluation
        BY DEF NoEvaluation, Evaluation
      <3>2. NoResult \in Results
        BY DEF NoResult, Results
      <3>3. evaluated \in [Ids -> Evaluation]
        BY <3>1 DEF Init
      <3>4. /\ round \in 0..Rounds /\ index \in 0..(Children - 1)
            /\ seed \in 0..Seeds /\ completed \in 0..Rounds
        BY OptimizerAssumption DEF Init
      <3>5. QED
        BY <3>2, <3>3, <3>4 DEF Init, TypeOK
    <2>2. PhaseOK /\ EvaluatedInOrder /\ Untainted
      BY IdFacts DEF Init, PhaseOK, EvaluatedInOrder, Untainted, Working, Reported, NoResult,
                     NoEvaluation
    <2>3. SelectedIsBest /\ CompletedIsHeldOut /\ ReturnedIsSaved
      BY DEF Init, SelectedIsBest, CompletedIsHeldOut, ReturnedIsSaved, NoResult
    <2>4. QED
      BY <2>1, <2>2, <2>3 DEF Inv
  <1>2. Inv /\ [Next]_vars => Inv'
    BY TypeStep, PhaseStep, OrderStep, UntaintedStep, SelectedStep, CompletedStep, SavedStep
       DEF Inv
  <1>3. QED
    BY <1>1, <1>2, PTL DEF Spec

(* The state of the campaign has its types.                                 *)
THEOREM TypeCorrect == Spec => []TypeOK
  BY Invariance, PTL DEF Inv

(* The selected candidate is a best one of all completed rounds.            *)
THEOREM SelectionCorrect == Spec => []SelectedIsBest
  BY Invariance, PTL DEF Inv

(* No score measured on changed sources is ever compared.                   *)
THEOREM NothingTaintedCompared == Spec => []NeverTainted
  <1>1. Inv => NeverTainted
    BY DEF Inv, Untainted, NeverTainted
  <1>2. QED
    BY <1>1, Invariance, PTL

(* A completed campaign ran all of its rounds and held its winner out.      *)
THEOREM CompletionCorrect == Spec => []CompletedIsHeldOut
  BY Invariance, PTL DEF Inv

(* The result returned is the result saved.                                 *)
THEOREM ReturnCorrect == Spec => []ReturnedIsSaved
  BY Invariance, PTL DEF Inv

(* A selected candidate gives way only to one that measured strictly better.*)
THEOREM NoDrift == Spec => ReplacedOnlyByBetter
  <1>1. ASSUME Inv, [Next]_vars, parent # Nobody, parent' # parent
        PROVE  evaluated[parent'].score > evaluated[parent].score
    <2>1. PICK c \in Ids : Select(c)
      BY <1>1 DEF Next, Step, vars, work, campaign, Generate, Validate, CheckSource, Measure,
                  CollectInitial, CollectChild, CollectHoldout, Raise, Write, WriteFails,
                  WriteFailsAgain, SourceChanges, Inv, PhaseOK, Working
    <2>2. /\ parent' = c /\ parent \in Ids
          /\ parent[1] < round /\ Eligible(evaluated[parent])
      BY <1>1, <2>1, IdFacts DEF Select, Inv, TypeOK, PhaseOK, SelectedIsBest, Working
    <2>3. parent \in Competitors
      BY <2>2 DEF Competitors
    <2>4. AtLeast(c, parent)
      BY <2>1, <2>3 DEF Select
    <2>5. c[1] = round
      BY <1>1, <2>1, <2>2 DEF Select, Competitors
    <2>6. round \in Int /\ parent[1] \in Int /\ c[1] \in Int
      BY <1>1, <2>2, IdFacts DEF Inv, TypeOK
    <2>7. ~Before(c, parent)
      BY <2>2, <2>5, <2>6 DEF Before
    <2>8. QED
      BY <2>2, <2>4, <2>7 DEF AtLeast
  <1>2. QED
    BY <1>1, Invariance, PTL DEF Spec, ReplacedOnlyByBetter

-----------------------------------------------------------------------------
(* The refinement of GreedyCampaign, step by step.                          *)

(* Once there is a parent, its score is one of the scores.                  *)
LEMMA ShownIsScore ==
    ASSUME Inv, round > 0
    PROVE  Shown \in Scores /\ Shown # Unscored
  BY IdFacts DEF Inv, TypeOK, PhaseOK, SelectedIsBest, Eligible, Shown, Evaluation

(* Measuring the initial candidate is the abstract campaign's beginning.    *)
LEMMA CollectInitialRefines ==
    ASSUME Inv, Inv', NEW score \in Scores, CollectInitial(score)
    PROVE  Campaign!Next \/ UNCHANGED <<Shown, completed, ShownOutcome>>
  <1>1. /\ Shown = Unscored /\ ShownOutcome = "running"
        /\ phase' \notin {"ended", "raised"} /\ completed' = completed
    BY DEF CollectInitial, Shown, ShownOutcome, Finish
  <1>2. ShownOutcome' = "running"
    BY <1>1 DEF ShownOutcome
  <1>3. CASE round' = 0
    BY <1>1, <1>2, <1>3 DEF Shown
  <1>4. CASE round' # 0
    <2>1. Shown' \in Scores
      <3>1. round' > 0
        BY <1>4 DEF CollectInitial
      <3>2. QED
        BY <3>1, IdFacts DEF Inv, TypeOK, PhaseOK, SelectedIsBest, Eligible, Shown, Evaluation
    <2>2. Campaign!Admit
      BY <1>1, <1>2, <2>1 DEF Campaign!Admit, Unscored
    <2>3. QED
      BY <2>2 DEF Campaign!Next
  <1>5. QED
    BY <1>3, <1>4

(* A selection is a round of the abstract campaign.                         *)
LEMMA SelectRefines ==
    ASSUME Inv, Inv', NEW c \in Ids, Select(c)
    PROVE  Campaign!Advance
  <1>1. /\ round > 0 /\ round' > 0 /\ completed = round - 1 /\ completed' = round
        /\ parent \in Ids /\ parent' = c /\ evaluated' = evaluated
        /\ phase = "select" /\ phase' \notin {"ended", "raised"}
    BY OptimizerAssumption DEF Select, Finish, Inv, TypeOK, PhaseOK, Working
  <1>2. ShownOutcome = "running" /\ ShownOutcome' = "running"
    BY <1>1 DEF ShownOutcome
  <1>3. Shown = evaluated[parent].score /\ Shown' = evaluated[c].score
    BY <1>1 DEF Shown
  <1>4. Shown \in Scores /\ Shown # Unscored
    BY <1>1, ShownIsScore
  <1>5. Shown' \in Scores
    BY <1>1, <1>3, IdFacts
       DEF Inv, TypeOK, PhaseOK, SelectedIsBest, Eligible, Evaluation
  <1>6. Shown' >= Shown
    <2>1. parent \in Competitors
      BY <1>1 DEF Competitors, Inv, SelectedIsBest
    <2>2. AtLeast(c, parent)
      BY <2>1 DEF Select
    <2>3. QED
      BY <1>3, <1>4, <1>5, <2>2, OptimizerAssumption DEF AtLeast
  <1>7. completed < Rounds /\ completed' = completed + 1
    BY <1>1, OptimizerAssumption DEF Inv, TypeOK
  <1>8. QED
    BY <1>1, <1>2, <1>3, <1>4, <1>5, <1>6, <1>7
       DEF Campaign!Advance, Unscored

(* Writing the last file, or failing to, closes the abstract campaign.      *)
LEMMA WriteRefines ==
    ASSUME Inv, Write \/ WriteFailsAgain
    PROVE  Campaign!Close
  <1>1. /\ phase \in {"write", "write_last"}
        /\ UNCHANGED <<round, evaluated, parent, completed, result>>
    BY DEF Write, WriteFailsAgain, campaign
  <1>2. UNCHANGED <<Shown, completed>>
    BY <1>1 DEF Shown
  <1>3. ShownOutcome = "running"
    BY <1>1 DEF ShownOutcome
  <1>4. \/ ShownOutcome' = "failed"
        \/ ShownOutcome' = result.status
    BY <1>1 DEF ShownOutcome, Write, WriteFailsAgain
  <1>5. result.status \in {"completed", "failed"}
    BY <1>1 DEF Inv, TypeOK, PhaseOK, Reported, Results
  <1>6. result.status = "completed" => completed = Rounds /\ Shown # Unscored
    <2>1. ASSUME completed = Rounds
          PROVE  round > 0
      BY <2>1, OptimizerAssumption DEF Inv, TypeOK, PhaseOK
    <2>2. QED
      BY <2>1, ShownIsScore DEF Inv, CompletedIsHeldOut
  <1>7. QED
    BY <1>2, <1>3, <1>4, <1>5, <1>6 DEF Campaign!Close, Unscored

(* Every other step shows nothing.                                          *)
LEMMA OtherStepsStutter ==
    ASSUME Inv, [Next]_vars,
           ~(\E score \in Scores : CollectInitial(score)),
           ~(\E c \in Ids : Select(c)),
           ~Write, ~WriteFailsAgain
    PROVE  UNCHANGED <<Shown, completed, ShownOutcome>>
  <1>1. UNCHANGED <<round, parent, completed>>
    BY DEF Next, Step, vars, work, campaign, Generate, Validate, CheckSource, Measure,
           CollectChild, CollectHoldout, Raise, WriteFails, SourceChanges
  <1>2. evaluated'[parent] = evaluated[parent] \/ round = 0
    <2>1. CASE \E score \in Scores : CollectChild(score)
      BY <2>1, IdFacts DEF CollectChild, Current, Inv, TypeOK, PhaseOK, SelectedIsBest, Working
    <2>2. CASE ~(\E score \in Scores : CollectChild(score))
      BY <2>2 DEF Next, Step, vars, campaign, Generate, Validate, CheckSource, Measure,
                  CollectHoldout, Raise, WriteFails, SourceChanges
    <2>3. QED
      BY <2>1, <2>2
  <1>3. \/ phase' = phase /\ result' = result
        \/ phase \notin {"ended", "raised"} /\ phase' \notin {"ended", "raised"}
    BY DEF Next, Step, vars, work, campaign, Generate, Validate, CheckSource, Measure,
           CollectChild, CollectHoldout, Finish, Raise, WriteFails, SourceChanges
  <1>4. QED
    BY <1>1, <1>2, <1>3 DEF Shown, ShownOutcome

(* The optimizer implements the greedy campaign.                            *)
THEOREM Refinement == Spec => ImplementsGreedyCampaign
  <1>1. Init => Campaign!Init
    BY DEF Init, Campaign!Init, Shown, ShownOutcome, Unscored
  <1>2. Inv /\ Inv' /\ [Next]_vars => [Campaign!Next]_(Campaign!vars)
    <2> SUFFICES ASSUME Inv, Inv', [Next]_vars
                 PROVE  Campaign!Next \/ UNCHANGED <<Shown, completed, ShownOutcome>>
      BY DEF Campaign!vars
    <2>1. CASE \E score \in Scores : CollectInitial(score)
      BY <2>1, CollectInitialRefines
    <2>2. CASE \E c \in Ids : Select(c)
      BY <2>2, SelectRefines DEF Campaign!Next
    <2>3. CASE Write \/ WriteFailsAgain
      BY <2>3, WriteRefines DEF Campaign!Next
    <2>4. QED
      BY <2>1, <2>2, <2>3, OtherStepsStutter
  <1>3. QED
    BY <1>1, <1>2, Invariance, PTL DEF Spec, ImplementsGreedyCampaign, Campaign!Spec

=============================================================================
