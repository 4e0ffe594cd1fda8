-------------------------- MODULE PublicationProps --------------------------
(***************************************************************************)
(* What publication must guarantee to whoever reads the directory.         *)
(***************************************************************************)
EXTENDS Publication

(* A candidate whose own validation passed every component; the hybrid      *)
(* policy lets the intermediate check pass with warnings.                   *)
Certified(c) ==
    /\ earned[c]["intermediate"] \in {"passed", "passed_with_warnings"}
    /\ \A k \in {"compiler", "linker", "runtime"} : earned[c][k] = "passed"

(* promote_harness: `Publish a harness/plan pair only after the selected    *)
(* validation gate passes.'  Whatever the stable files hold, through        *)
(* crashes, failing writes and reruns over an old directory, was certified  *)
(* by a validation of that very candidate, and was not rejected by the fuzz *)
(* smoke it asked for, of which neither summary.json nor the gate knows.    *)
StableFilesEarned ==
    \A c \in {stable.harness, stable.plan} \ {Nothing} :
        Certified(c) /\ earned[c]["fuzz"] # "failed"

(* Whoever generates without --validate publishes nothing: the case of the  *)
(* unvalidated line on a directory with old evidence is left out.           *)
EveryLineValidates == \A o \in Options : o.validate \/ ~o.contract

(* validate_stage4: `A new candidate must earn every component status       *)
(* afresh.'  When a validated candidate reaches publication, every          *)
(* validation file speaks of it and summary.json says what the files say.   *)
PublishSeesFreshEvidence ==
    pc = "publish" /\ opt.validate =>
        /\ \A k \in Kinds : evidence[k] # Absent =>
               evidence[k] = [status |-> earned[current][k], about |-> current]
        /\ summary = Summary([k \in Kinds |-> evidence[k].status])

(* A run that ends with a certified candidate has published both files of   *)
(* it, and promotion.json names them.                                       *)
CertifiedIsPublished ==
    pc = "succeeded" /\ opt.build /\ opt.contract /\ Certified(current)
        /\ (opt.policy = "hybrid" \/ earned[current]["intermediate"] = "passed") =>
            /\ stable = Pair(current)
            /\ manifest = [status |-> "stable_promoted", about |-> current]

(* PipelineResult: a reported success of a building run is one of the       *)
(* candidate that run produced, never of files an earlier one left.         *)
SuccessIsEarned ==
    result.success /\ result.build =>
        /\ result.about # Nothing
        /\ earned[result.about]["compiler"] = "passed"
        /\ earned[result.about]["linker"] = "passed"
        /\ earned[result.about]["runtime"] \in Accepted

(* What a run reports and what it leaves agree: certified means published,  *)
(* and success means earned by the candidate that is named.                 *)
ReportIsTrue == CertifiedIsPublished /\ SuccessIsEarned

---------------------------------------------------------------------------
(* The inductive invariant.  Heading is where the process is, or where it   *)
(* goes once summary.json is rebuilt.                                       *)

Heading == IF pc = "refresh" THEN then ELSE pc

Validation == {"clear", "intermediate", "downgrade", "compile", "record_compiler", "link",
               "record_linker", "skip_linker", "skip_runtime", "runtime", "fuzz"}

Publishing == {"publish", "stable_plan", "manifest", "succeeded"}

(* The process works on the newest candidate, whose two files are the       *)
(* canonical ones.                                                          *)
ProcessInv ==
    /\ then \notin {"refresh", "stable_plan", "manifest", "succeeded"} /\ current <= made
    /\ pc # "idle" => opt \in Options
    /\ Heading = "harness" => made > 0 /\ candidate.plan = made
    /\ Heading \in Validation \cup Publishing =>
          current = made /\ made > 0 /\ candidate = Pair(current)
    /\ Heading \in Validation => opt.validate
    /\ Heading \in {"record_compiler", "record_linker"} =>
          probe.syntax # "absent" /\ probe.link # "absent"

(* Nobody has published, reported or judged a candidate yet to come, and    *)
(* nobody has published or reported one that is being validated.            *)
Unpublished(c) == c \notin {stable.harness, stable.plan, result.about}

NewInv ==
    /\ \A c \in Candidates :
          c > made \/ (c = made /\ Heading \in {"harness", "clear"}) =>
             Unpublished(c) /\ \A k \in Checks : earned[c][k] = "absent"
    /\ Heading \in Validation => Unpublished(current)
    /\ Heading \in Validation \cup Publishing => earned[current]["fuzz"] # "failed"

(* The files say what the validation of this candidate found, no more and   *)
(* no less, and summary.json says it too, but where it lags behind.         *)
RecordOf(c, k) ==
    IF earned[c][k] = "absent" THEN Absent ELSE [status |-> earned[c][k], about |-> c]

FreshInv ==
    opt.validate =>
        /\ Heading \in (Validation \ {"clear"}) \cup Publishing =>
              \A k \in Kinds : evidence[k] = RecordOf(current, k)
        /\ pc \in (Validation \ {"clear", "intermediate", "record_compiler"}) \cup Publishing =>
              summary = Summary([k \in Kinds |-> evidence[k].status])

(* A publication that has begun is of a candidate that passed the gate.     *)
PublishedInv ==
    /\ pc \in {"stable_plan", "manifest"} => Eligible /\ stable.harness = current
    /\ pc = "manifest" => stable.plan = current

IInv ==
    /\ TypeOK /\ ProcessInv /\ NewInv /\ FreshInv /\ PublishedInv
    /\ CertifiedIsPublished /\ SuccessIsEarned

(* The evidence a publication rests on: a candidate that reaches            *)
(* publication is judged by its own, with all that IInv says of the way     *)
(* there.                                                                   *)
EvidenceInv == IInv /\ PublishSeesFreshEvidence
=============================================================================
