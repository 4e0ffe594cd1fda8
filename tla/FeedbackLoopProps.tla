------------------------- MODULE FeedbackLoopProps -------------------------
(***************************************************************************)
(* What the feedback loop guarantees to whoever reads feedback_loop.json,  *)
(* experiment.json and the candidates' directories.                        *)
(***************************************************************************)
EXTENDS FeedbackLoop

Selections == DOMAIN manifest.selected
LastOf(s)  == s[Len(s)]

(* The round whose children the manifest decided on last. *)
Decided == round > 0 /\ Len(manifest.selected) = round

(* execute_pipeline's exit code and _candidate_failure_reason are two       *)
(* readings of one record: a child that returned 0 is never turned down for *)
(* its record, whatever stages ran, and it has been evaluated.              *)
PassedIsAcceptable ==
    \A i \in 1..Children :
        experiment # "none" /\ entries[i] = "passed" =>
            /\ files[Child(i)].recorded /\ Acceptable(files[Child(i)].record)
            /\ files[Child(i)].evaluated

(* ScoreCandidateSelector: no passed and eligible child is lost to a worse  *)
(* one or to a loop that stops, however the rest of its experiment ended.   *)
NoBetterChildLost ==
    Decided =>
        \A i \in 1..Children :
            entries[i] = "passed" /\ Eligible(files[Child(i)].evaluation) =>
                /\ LastOf(manifest.selected) # Nobody
                /\ files[LastOf(manifest.selected)].evaluation.score
                       >= files[Child(i)].evaluation.score

(* feedback_loop.json: a lineage of one child per round, closed as          *)
(* completed only with a child of every round and as stopped only for want  *)
(* of one; the parent is the last of the lineage.                           *)
ManifestIsLineage ==
    /\ \A r \in Selections :
           /\ manifest.selected[r] \in {<<r, i>> : i \in 1..Children} \cup {Nobody}
           /\ manifest.selected[r] = Nobody =>
                  r = Len(manifest.selected) /\ manifest.status = "stopped"
    /\ manifest.status = "completed" => Len(manifest.selected) = Rounds
    /\ manifest.status = "stopped" => LastOf(manifest.selected) = Nobody
    /\ manifest.status \in {"completed", "stopped", "failed"} => phase = "ended"
    /\ manifest.status = "running" =>
           parent = IF manifest.selected = <<>> THEN Initial ELSE LastOf(manifest.selected)

(* The state has its types, and the manifest is a lineage.                  *)
LineageInv == TypeOK /\ ManifestIsLineage

(* `remaining candidates not started': once the model has refused a request *)
(* (401, 403) of an experiment, the experiment sends it no other.           *)
NoRequestAfterRefusal ==
    [][refusal /\ round' = round /\ experiment # "none" => requests' = requests]_vars

(* The shared classification: the children of one round that know of a      *)
(* classification all know of the same one.                                 *)
OneClassification ==
    \A i, j \in 1..Children :
        LET a == files[Child(i)].record
            b == files[Child(j)].record
        IN  round > 0 /\ a.owner # Nobody /\ b.owner # Nobody => a.owner = b.owner

(* The children of an experiment share one classification, and what         *)
(* experiment.json calls passed is acceptable to the selection.  When it    *)
(* says that it is over, no candidate is running, `completed' means that    *)
(* all passed, and a candidate that was not started has left nothing.       *)
ExperimentSettled ==
    /\ OneClassification
    /\ PassedIsAcceptable
    /\ experiment \notin {"none", "running"} =>
        /\ \A i \in 1..Children : entries[i] # "running"
        /\ experiment = "completed" => \A i \in 1..Children : entries[i] = "passed"
        /\ \A i \in 1..Children :
               entries[i] = "not_started" => files[Child(i)] = EmptyDirectory

(* The loop ends, whatever its candidates do.                               *)
LoopEnds == <>(phase = "ended")

(* run_feedback_loop: `A failed child is retained with its artifacts but    *)
(* never selected for the following round.'                                 *)
FailedNeverSelected ==
    Decided =>
        \A i \in 1..Children :
            Child(i) = LastOf(manifest.selected) => entries[i] = "passed"
=============================================================================
