--------------------------- MODULE BoundedPipeline ---------------------------
(***************************************************************************)
(* What the staged pipeline promises to whoever reads pipeline_state.json. *)
(*                                                                         *)
(* `frontier' stages are settled.  The frontier grows one stage at a time; *)
(* every time it is thrown back, a unit of a fixed budget is spent; the    *)
(* pipeline gives up only after MaxRegen units have been spent, and it     *)
(* closes only as paused or as completed with all four stages settled.     *)
(* Crashes are invisible at this level: nothing is gained or lost by one.  *)
(***************************************************************************)
EXTENDS Integers

CONSTANT MaxRegen


VARIABLES verdict,   \* "absent" before the first run, then "open" until the run is settled
          frontier,  \* the number of stages settled so far
          spent      \* rollbacks charged to this pipeline so far

vars == <<verdict, frontier, spent>>

Last   == 4
Budget == Last * MaxRegen

TypeOK ==
    /\ verdict \in {"absent", "open", "paused", "completed", "failed"}
    /\ frontier \in 0..Last
    /\ spent \in 0..Budget

Init ==
    /\ verdict = "absent"
    /\ frontier = 0
    /\ spent = 0

(* A run without --resume begins from nothing, whatever was there before. *)
Begin ==
    /\ verdict' = "open"
    /\ frontier' = 0
    /\ spent' = 0

Reopen ==
    /\ verdict = "paused"
    /\ verdict' = "open"
    /\ UNCHANGED <<frontier, spent>>

Advance ==
    /\ verdict = "open"
    /\ frontier < Last
    /\ frontier' = frontier + 1
    /\ UNCHANGED <<verdict, spent>>

(* A failure is charged once, or twice when its first charge is lost.       *)
FallBack ==
    /\ verdict = "open"
    /\ spent' \in {spent + 1, spent + 2}
    /\ spent' <= Budget
    /\ frontier' \in 0..frontier
    /\ UNCHANGED verdict

(* Settling the last requested stage and closing are one step of the file. *)
Close ==
    /\ verdict = "open"
    /\ frontier < Last
    /\ frontier' = frontier + 1
    /\ verdict' = IF frontier + 1 = Last THEN "completed" ELSE "paused"
    /\ UNCHANGED spent

GiveUp ==
    /\ verdict = "open"
    /\ spent' \in {spent, spent + 1}
    /\ MaxRegen <= spent' /\ spent' <= Budget
    /\ frontier' \in 0..frontier
    /\ verdict' = "failed"

Next == Begin \/ Reopen \/ Advance \/ FallBack \/ Close \/ GiveUp

Spec == Init /\ [][Next]_vars
=============================================================================
