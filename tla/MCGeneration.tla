---------------------------- MODULE MCGeneration ----------------------------
(* Catalogs and command lines for the generation command. *)
EXTENDS GenerationProps

Edge(src, dst, function) == [src |-> src, dst |-> dst, function |-> function]

Triplet(id, functions, edges, alternatives, ownership) ==
    [id |-> id, eligible |-> TRUE, functions |-> functions, edges |-> edges,
     alternatives |-> alternatives, ownership |-> ownership]

-----------------------------------------------------------------------------
(* Triplets around one entry point (1) and one cleanup (5): two functions   *)
(* between any of two structures, which of them is 2 or 3 making no         *)
(* difference, and a third with several edges or none.                      *)

Anywhere == (0..2) \X (0..2)

ThirdFunction ==
    {{}, {Edge(2, 0, 4)}, {Edge(1, 1, 4)}, {Edge(1, 2, 4), Edge(2, 1, 4)}}

Lifecycle == [producer |-> 1, consumers |-> {2, 3}, cleanup |-> 5]

Pairs == {p \in Anywhere \X Anywhere : 3 * p[1][1] + p[1][2] <= 3 * p[2][1] + p[2][2]}

Shapes ==
    {Triplet(1, 1..5,
             {Edge(0, 1, 1), Edge(p[1][1], p[1][2], 2), Edge(p[2][1], p[2][2], 3), Edge(1, 0, 5)}
                 \cup third,
             alternatives, ownership) :
        p \in Pairs, third \in ThirdFunction,
        alternatives \in {<<>>, <<{2, 3}>>}, ownership \in {{}, {Lifecycle}}}

-----------------------------------------------------------------------------
(* Small triplets that share a budget. *)

Chain(id) == Triplet(id, {1, 2}, {Edge(0, 1, 1), Edge(1, 0, 2)}, <<>>, {})
Single(id) == Triplet(id, {1}, {Edge(0, 1, 1)}, <<>>, {})
Wide(id) == Triplet(id, {1}, {Edge(0, 1, 1), Edge(0, 2, 1)}, <<>>, {})
Barred(id) == [Single(id) EXCEPT !.eligible = FALSE]

-----------------------------------------------------------------------------
Command(mode, selCalls, limit, until) ==
    [mode |-> mode, selFt |-> 2, selCalls |-> selCalls, selFunctions |-> 5, selUnits |-> 8,
     maxFt |-> 2, maxFunctions |-> 5, maxUnits |-> 8, limit |-> limit, until |-> until]

Assembling == {Command("one", 0, 12, 3)}

SharedCatalogs == {{Chain(1), Single(2)}, {Wide(1), Single(2), Barred(3)},
                   {Wide(1), Single(2), Chain(3)}}

Sharing ==
    {Command("all", 0, 12, until) : until \in {2, 4}}
        \cup {Command("one", 0, limit, 4) : limit \in {5, 7, 9}}
        \cup {Command("manifest", selCalls, limit, 4) :
                selCalls \in {6, 11, 12}, limit \in {11, 13}}
        \cup {[Command("manifest", 12, 13, 4) EXCEPT !.selUnits = 1],
              [Command("manifest", 12, 13, 4) EXCEPT !.selFt = 1]}

AssemblyRuns == {{ft} : ft \in Shapes} \X Assembling
SharedRuns == SharedCatalogs \X Sharing
AllRuns == AssemblyRuns \cup SharedRuns
=============================================================================
