------------------------------ MODULE Assembly ------------------------------
(***************************************************************************)
(* From a Function Triplet to the order in which Stage 3 hands its snippets *)
(* to the model: structural_steps groups the triplet's functions,           *)
(* Stage 2 makes one snippet of every step, and _order_snippets sorts the   *)
(* snippets by what they produce, consume and release.                      *)
(*                                                                         *)
(* A structure is a number, and so is a function: only their order and      *)
(* their equality matter.  A triplet is a record                            *)
(*   functions    the functions of the triplet                              *)
(*   edges        its edges [src, dst, function]                            *)
(*   alternatives metadata["structural_alternatives"], a sequence of sets   *)
(*   ownership    its relations [producer, consumers, cleanup]              *)
(***************************************************************************)
EXTENDS Integers, FiniteSets, SequencesExt

(* The members of a set in the order of a strict total order on them: sorted(). *)
Sorted(S, Before(_, _)) ==
    [k \in 1..Cardinality(S) |->
        CHOOSE x \in S : Cardinality({y \in S : Before(y, x)}) = k - 1]

Null == 0       \* CANONICAL_NULL_NODE; "(null)" sorts before every identifier

-----------------------------------------------------------------------------
(* FunctionTriplet.structural_steps.                                       *)

Uncovered(ft) == ft.functions \ {e.function : e \in ft.edges}

(* The functions between two structures; a function without an edge is a    *)
(* step from nothing to nothing.                                            *)
Between(ft, src, dst) ==
    {e.function : e \in {d \in ft.edges : d.src = src /\ d.dst = dst}}
        \cup (IF src = Null /\ dst = Null THEN Uncovered(ft) ELSE {})

Ends(ft) ==
    {<<e.src, e.dst>> : e \in ft.edges}
        \cup {<<Null, Null>> : f \in Uncovered(ft)}

(* Functions that are proven alternatives of one another make one step, in  *)
(* the order of the evidence; each of the others is a step of its own.      *)
Grouped(names, evidence) ==
    LET Take(st, alternatives) ==
            IF Cardinality(alternatives) > 1 /\ alternatives \subseteq st.rest
            THEN [groups |-> st.groups \cup {alternatives},
                  rest   |-> st.rest \ alternatives]
            ELSE st
        taken == FoldLeft(Take, [groups |-> {}, rest |-> names], evidence)
    IN  taken.groups \cup {{f} : f \in taken.rest}

StructuralSteps(ft) ==
    UNION {{[source |-> end[1], target |-> end[2], functions |-> group] :
                group \in Grouped(Between(ft, end[1], end[2]), ft.alternatives)} :
           end \in Ends(ft)}

(* The sort key (source, target, functions): two steps between the same     *)
(* structures share no function, so their smallest ones decide.             *)
StepBefore(a, b) ==
    \/ a.source < b.source
    \/ a.source = b.source /\ a.target < b.target
    \/ a.source = b.source /\ a.target = b.target /\ Min(a.functions) < Min(b.functions)

(* Stage 2's units: the identifier of a unit is its place in the sort. *)
Units(ft) == Sorted(StructuralSteps(ft), StepBefore)

-----------------------------------------------------------------------------
(* The dependencies of a unit.                                             *)

Produces(unit, structure) == unit.target # Null /\ unit.target = structure

(* _structural_units: the producers of a unit's input, unless they are its  *)
(* peers, and for a cleanup every other use of what it releases.            *)
SnippetDependencies(units, i) ==
    {j \in DOMAIN units :
        \/ /\ Produces(units[j], units[i].source)
           /\ <<units[j].source, units[j].target>> # <<units[i].source, units[i].target>>
        \/ /\ units[i].target = Null
           /\ units[j].source = units[i].source
           /\ units[j].target # Null}

(* _structure_descendants: what is made, directly or not, from a structure. *)
Descendants(units, structure) ==
    LET MadeFrom(structures) ==
            {units[k].target : k \in {k \in DOMAIN units :
                units[k].source \in structures \ {Null} /\ units[k].target # Null}}
        Grow(seen, k) == seen \cup MadeFrom(seen)
    IN  FoldLeft(Grow, MadeFrom({structure}), [k \in DOMAIN units |-> k]) \ {structure}

(* by_function: the last unit that holds the function, 0 without one. *)
UnitOf(units, function) ==
    Max({0} \cup {i \in DOMAIN units : function \in units[i].functions})

OwnershipDependencies(ft, units, i) ==
    (UNION {{UnitOf(units, f) : f \in {r.producer} \cup r.consumers} :
            r \in {o \in ft.ownership : UnitOf(units, o.cleanup) = i}}) \ {0}

(* Mutant: what is made from the released structure may come after it. *)
Uses_Direct(units, i) ==
    {j \in DOMAIN units :
        units[i].target = Null /\ units[j].source = units[i].source /\ units[j].target # Null}

(* What a cleanup has to wait for: the other uses of the structure it       *)
(* releases and everything done with what is made from it.                  *)
Uses(units, i) ==
    LET downstream == Descendants(units, units[i].source)
    IN  {j \in DOMAIN units :
            /\ units[i].target = Null
            /\ \/ units[j].source = units[i].source /\ units[j].target # Null
               \/ units[j].source \in downstream}

(* _order_snippets: the dictionary `dependencies'. *)
Dependencies(ft, units) ==
    [i \in DOMAIN units |->
        (SnippetDependencies(units, i)
            \cup {j \in DOMAIN units : Produces(units[j], units[i].source)}
            \cup OwnershipDependencies(ft, units, i)
            \cup Uses(units, i)) \ {i}]

-----------------------------------------------------------------------------
(* The loop of _order_snippets: each pass appends, in the order of their    *)
(* identifiers, the units whose dependencies are all placed; when there is  *)
(* none, the smallest remaining unit is placed all the same and a cycle is  *)
(* reported.                                                                *)
OrderSnippets(ft) ==
    LET units == Units(ft)
        depends == Dependencies(ft, units)
        Pass(st, k) ==
            LET ready == {i \in st.remaining : depends[i] \cap st.remaining = {}}
                batch == IF ready # {} THEN ready ELSE {Min(st.remaining)}
            IN  IF st.remaining = {} THEN st
                ELSE [remaining |-> st.remaining \ batch,
                      order     |-> st.order \o Sorted(batch, <),
                      forced    |-> st.forced \cup (IF ready = {} THEN batch ELSE {})]
    IN  FoldLeft(Pass, [remaining |-> DOMAIN units, order |-> <<>>, forced |-> {}],
                 [k \in DOMAIN units |-> k])
=============================================================================
