--------------------------- MODULE GreedyCampaign ---------------------------
(***************************************************************************)
(* What an optimization campaign promises to whoever reads its result: the *)
(* best score seen never gets worse, and a completed campaign has run all  *)
(* of its rounds from a scored beginning.                                  *)
(***************************************************************************)
EXTENDS Integers

CONSTANTS Rounds, Scores

VARIABLES
    best,     \* score of the selected candidate; -1 before there is one
    rounds,   \* rounds completed
    outcome   \* "running", then "completed" or "failed"

vars == <<best, rounds, outcome>>

Init == best = -1 /\ rounds = 0 /\ outcome = "running"

Admit ==
    /\ outcome = "running" /\ best = -1
    /\ best' \in Scores
    /\ UNCHANGED <<rounds, outcome>>

Advance ==
    /\ outcome = "running" /\ best # -1
    /\ rounds < Rounds
    /\ rounds' = rounds + 1
    /\ best' \in {s \in Scores : s >= best}
    /\ UNCHANGED outcome

Close ==
    /\ outcome = "running"
    /\ outcome' \in {"completed", "failed"}
    /\ outcome' = "completed" => rounds = Rounds /\ best # -1
    /\ UNCHANGED <<best, rounds>>

Next == Admit \/ Advance \/ Close

Spec == Init /\ [][Next]_vars
=============================================================================
