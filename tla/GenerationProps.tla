-------------------------- MODULE GenerationProps ---------------------------
(* What a generation command promises about its order and its budget. *)
EXTENDS Generation

(* The variables hold values of the kinds the code gives them; the requests *)
(* counted by _BudgetedLLM never exceed --max-llm-calls.                    *)
TypeOK ==
    /\ <<catalog, command>> \in Invocations
    /\ phase \in {"select", "check", "run", "done"}
    /\ \A k \in DOMAIN selected : selected[k] \in catalog
    /\ at \in Nat \ {0}
    /\ stage \in Stages
    /\ level \in Levels \cup {NoLevel}
    /\ attempt \in 1..MaxRegen
    /\ phase = "run" => asked \in 0..Requests
    /\ calls \in 0..command.limit
    /\ status \in [Ids -> {"absent", "running", "paused", "completed", "failed"}]
    /\ failures \in [Ids -> SUBSET {"refused", "other"}]

-----------------------------------------------------------------------------
(* The order of Stage 3, seen from the structures. *)

(* The structures that can be made from one, itself included: the least set *)
(* that holds it and the products of the units that consume a member.       *)
MadeFrom(units, structure) ==
    LET structures == {units[k].target : k \in DOMAIN units} \cup {structure}
        Closed(s) == \A k \in DOMAIN units :
            units[k].source \in s /\ units[k].target # Null => units[k].target \in s
    IN  {x \in structures :
            \A s \in SUBSET structures : structure \in s /\ Closed(s) => x \in s}

(* Units that wait for one another: none of them can be placed first. *)
Deadlocked(depends, among) ==
    \E s \in SUBSET among : s # {} /\ \A i \in s : depends[i] \cap s # {}

(* The order places every unit once.  It is forced only if some units wait  *)
(* for one another; otherwise a unit comes after everything that produces   *)
(* its input, and the cleanup of a structure after everything that uses     *)
(* that structure or one made from it, and after the declared producer and  *)
(* consumers of the resource.  (_order_snippets, _structure_descendants.)   *)
OrderSound ==
    phase = "run" /\ stage = 3 /\ asked = 0 =>
        LET units == Units(Current)
            assembled == Assembled
            Place == [i \in DOMAIN units |->
                        CHOOSE p \in DOMAIN units : assembled.order[p] = i]
            Precedes(i, j) == i = j \/ Place[i] < Place[j]
            Later(structure) == MadeFrom(units, structure) \ {structure}
        IN  /\ Len(assembled.order) = Len(units)
            /\ Range(assembled.order) = DOMAIN units
            /\ (assembled.forced # {}) =
                   Deadlocked(Dependencies(Current, units), DOMAIN units)
            /\ assembled.forced = {} =>
                /\ \A i, j \in DOMAIN units :
                    units[j].target # Null /\ units[j].target = units[i].source
                        => Precedes(j, i)
                /\ \A i \in {k \in DOMAIN units :
                        units[k].source # Null /\ units[k].target = Null} :
                    LET later == Later(units[i].source)
                    IN  \A j \in DOMAIN units :
                            \/ units[j].source = units[i].source /\ units[j].target # Null
                            \/ units[j].source \in later
                            => Precedes(j, i)
                /\ \A r \in Current.ownership : \A f \in r.consumers \cup {r.producer} :
                    UnitOf(units, f) # 0 /\ UnitOf(units, r.cleanup) # 0
                        => Precedes(UnitOf(units, f), UnitOf(units, r.cleanup))

-----------------------------------------------------------------------------
(* The budget. *)

(* A command that passed _check_generation_budget is refused a request only *)
(* after something else made a stage run again: the estimate leaves no      *)
(* request of the first pass out, whichever triplets share the budget.      *)
FirstPassNeverRefused ==
    (\E id \in Ids : "refused" \in failures[id]) =>
        (\E id \in Ids : "other" \in failures[id])

(* A manifest that was selected under limits no wider than those of the     *)
(* command is never turned down: the cost model of the selection and the    *)
(* estimate of the command agree about every triplet.                       *)
ManifestNeverRefused ==
    /\ phase = "check"
    /\ command.mode = "manifest"
    /\ command.selFt <= command.maxFt
    /\ command.selCalls <= command.limit
    /\ command.selFunctions <= command.maxFunctions
    /\ command.selUnits <= command.maxUnits
    => ManifestAccepted /\ BudgetAccepted

(* The selection stops for want of room only: a triplet that was left out   *)
(* would have broken one of the limits, however greedily the others were    *)
(* chosen before it.                                                        *)
NothingAffordableLeftOut ==
    phase # "select" /\ command.mode = "manifest" =>
        \A ft \in Ranked :
            \/ \E k \in DOMAIN selected : selected[k] = ft
            \/ Len(selected) = command.selFt
            \/ Sum(selected, Cost) + Cost(ft) > command.selCalls

(* The three counts of a triplet's requests agree, and the selection leaves *)
(* no room, in every state of the types above.  (_cost, the manifest check  *)
(* and the budget check of generation_cli.)                                 *)
CountsAgree ==
    TypeOK /\ FirstPassNeverRefused /\ ManifestNeverRefused /\ NothingAffordableLeftOut

(* The command ends, whatever its triplets' stages do and wherever the      *)
(* budget runs out: each of its loops is bounded.                           *)
CommandEnds == <>(phase = "done")
=============================================================================
