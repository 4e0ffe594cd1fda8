--------------------------- MODULE OptimizerProps ---------------------------
(***************************************************************************)
(* What the campaign guarantees to whoever reads optimization.json.        *)
(***************************************************************************)
EXTENDS Optimizer

(* The candidates of the rounds that were completed. *)
Compared == {c \in Ids : c[1] <= completed /\ Eligible(evaluated[c])}

(* _select keeps the parent among the competitors: the selected candidate   *)
(* is a best one of all completed rounds, not only of the last, also when   *)
(* the campaign fails in the middle of a later one.                         *)
SelectedIsBest ==
    round > 0 =>
        /\ Eligible(evaluated[parent])
        /\ parent[1] <= completed
        /\ \A c \in Compared : evaluated[parent].score >= evaluated[c].score

(* A selected candidate gives way only to one that measured strictly better.*)
ReplacedOnlyByBetter ==
    [][parent # Nobody /\ parent' # parent => evaluated[parent'].score > evaluated[parent].score]_vars

(* `target sources changed during optimization': no measurement that saw    *)
(* other sources than the first one is ever compared.                       *)
NeverTainted == \A c \in Ids : Eligible(evaluated[c]) => ~evaluated[c].tainted

(* A completed campaign ran every round and every child, names its winner,  *)
(* and measured it on the holdout seeds if there are any.                   *)
CompletedIsHeldOut ==
    result.status = "completed" =>
        /\ completed = Rounds
        /\ result.selected = parent
        /\ holdout # "none" => heldOut
        /\ \A c \in Ids : evaluated[c].status # "none"

(* What the campaign returns is what optimization.json says, also after a   *)
(* write that failed.                                                       *)
ReturnedIsSaved == phase = "ended" => saved = result

(* The campaign ends, whatever its callbacks do.                            *)
CampaignEnds == <>(phase \in {"ended", "raised"})

Working   == {"generate", "validate", "check", "measure", "select"}
Reported  == {"write", "write_last", "ended", "raised"}

(* Where the campaign is says how far it has come.                          *)
PhaseOK ==
    /\ completed <= round
    /\ IF round = 0 THEN index = 0 ELSE parent \in Ids
    /\ phase = "select" => index = 0
    /\ round = 0 => phase \notin {"generate", "select", "holdout_check", "holdout_measure"}
    /\ phase \in Working => IF round = 0 THEN parent = Nobody ELSE completed = round - 1
    /\ phase \in {"holdout_check", "holdout_measure"} => round = Rounds /\ completed = Rounds
    /\ phase \in {"check", "holdout_check"} => status # "none"
    /\ phase \in {"measure", "holdout_measure"} => Measuring
    /\ phase \in Reported <=> result.status # "running"

(* Candidates are evaluated one by one, in the order of their identities.   *)
EvaluatedInOrder ==
    \A c \in Ids :
        \/ c[1] < round
        \/ c[1] = round /\ c[2] < index
        \/ c[1] = round /\ round > 0 /\ (phase = "select" \/ completed = round)
        => evaluated[c].status # "none"

(* Only a measurement under way can have seen changed sources.              *)
Untainted ==
    /\ tainted => changed
    /\ \A c \in Ids : ~evaluated[c].tainted

(* The inductive invariant behind the properties and the refinement.        *)
Inv ==
    /\ TypeOK
    /\ PhaseOK
    /\ EvaluatedInOrder
    /\ Untainted
    /\ SelectedIsBest
    /\ CompletedIsHeldOut
    /\ ReturnedIsSaved

(* The score and the outcome the campaign shows.                            *)
Shown == IF round = 0 THEN Unscored ELSE evaluated[parent].score

ShownOutcome ==
    IF phase = "ended" THEN result.status
    ELSE IF phase = "raised" THEN "failed" ELSE "running"

(* The campaign is a greedy search: GreedyCampaign, with the score of the   *)
(* parent as the best and the result as the outcome.                        *)
Campaign == INSTANCE GreedyCampaign WITH
    best <- Shown, rounds <- completed, outcome <- ShownOutcome

ImplementsGreedyCampaign == Campaign!Spec
=============================================================================
