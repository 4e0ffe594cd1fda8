----------------------------- MODULE Ownership -----------------------------
(***************************************************************************)
(* Which functions return a resource the caller owns, and which function   *)
(* gives it up again, from declarations, comments and bodies alone.        *)
(*                                                                         *)
(* Besides what Detection and UsageMining know of it, a function counts by *)
(*   owned       the cleanup its own comment names, or NoName              *)
(*   contract    whether its comment says it releases its argument, and    *)
(*               how that is passed: "none", "value" or "address"          *)
(*   maker, ender  how many kinds of evidence there are that it makes or   *)
(*               releases something                                        *)
(*   parses      whether its name is a parser's                            *)
(*   borrowed    whether its comment denies ownership                      *)
(*   echoes      whether it returns one of its parameters                  *)
(*   allocates   whether its body calls an allocator                       *)
(*   callees     the names it calls, in order, then the allocators it      *)
(*               installs                                                  *)
(* The functions are a sequence, in the order of the parser.               *)
(***************************************************************************)
EXTENDS Integers, Sequences, SequencesExt

NoName == "none"
Threshold == 80

Relation(f, type, cleanup, how, confidence) ==
    [producer |-> f.id, type |-> type, cleanup |-> cleanup.id, how |-> how,
     confidence |-> confidence]

Linkable(f) == f.defined /\ ~f.static

---------------------------------------------------------------------------
(* Contracts written down in comments.                                      *)

IsContract(f) ==
    /\ Linkable(f) /\ f.contract # "none"
    /\ Len(f.parameters) = 1
    /\ f.parameters[1].depth = 1 /\ ~f.parameters[1].const

(* A promise counts if exactly one function of that name takes the type.    *)
ExplicitRelations(functions) ==
    LET ends(f) == {g \in ToSet(functions) :
                      /\ IsContract(g) /\ g.name = f.owned
                      /\ g.parameters[1].base = f.returns /\ g.contract = "value"}
    IN  {Relation(f, f.returns, CHOOSE g \in ends(f) : TRUE, "value", 90) :
            f \in {h \in ToSet(functions) : h.owned # NoName /\ Cardinality(ends(h)) = 1}}

---------------------------------------------------------------------------
(* Where a parser's result comes from.                                      *)

ResolveCallee(functions, caller, name) ==
    LET named    == {g \in ToSet(functions) : g.name = name /\ g.defined}
        sameFile == {g \in named : g.file = caller.file}
        external == {g \in named : ~g.static}
    IN  IF Cardinality(sameFile) = 1 THEN sameFile
        ELSE IF Cardinality(external) = 1 THEN external ELSE {}

Callees(functions, f) ==
    UNION {ResolveCallee(functions, f, name) : name \in ToSet(f.callees)}

(* What a function says of its result without its callees.                  *)
Denies(f) == f.borrowed \/ (f.owned = NoName /\ f.echoes)
Provides(f) == ~f.borrowed /\ (f.owned # NoName \/ (~f.echoes /\ f.allocates))

(* The depth-first search, of a function, on a path of functions visited.   *)
(* memo holds the answers found so far for a type, also the negative ones   *)
(* of functions met on a path that came back to where it was.  The result   *)
(* is the answer and the new memo.                                          *)
Search(functions) ==
    LET ids == {f.id : f \in ToSet(functions)}
        search[f \in ToSet(functions), visited \in SUBSET ids,
               memo \in [yes : SUBSET ids, no : SUBSET ids]] ==
            LET answer(found, m) ==
                    [found |-> found,
                     memo |-> IF found THEN [m EXCEPT !.yes = @ \cup {f.id}]
                                       ELSE [m EXCEPT !.no = @ \cup {f.id}]]
                next(state, name) ==
                    LET callee == ResolveCallee(functions, f, name) IN
                    IF state.found \/ callee = {} THEN state
                    ELSE search[CHOOSE g \in callee : TRUE, visited \cup {f.id}, state.memo]
                below == FoldLeft(next, [found |-> FALSE, memo |-> memo], f.callees)
            IN  IF f.id \in visited \cup memo.no THEN [found |-> FALSE, memo |-> memo]
                ELSE IF f.id \in memo.yes THEN [found |-> TRUE, memo |-> memo]
                ELSE IF Denies(f) THEN answer(FALSE, memo)
                ELSE IF Provides(f) THEN answer(TRUE, memo)
                ELSE answer(below.found, below.memo)
    IN  search

(* The functions among those of a sequence that have an allocation origin,  *)
(* asked about one after the other with one memo.  (The bounds of 16 levels *)
(* and 256 functions are left out.)                                         *)
Originating(functions, asked) ==
    FoldLeft(LAMBDA state, f :
                LET answer == Search(functions)[f, {}, state.memo] IN
                [memo |-> answer.memo,
                 found |-> IF answer.found THEN state.found \cup {f.id} ELSE state.found],
             [memo |-> [yes |-> {}, no |-> {}], found |-> {}], asked).found

---------------------------------------------------------------------------
(* Relations inferred from signatures and evidence, in per cent.            *)

Confidence(producer, cleanup) ==
    55 + (IF producer.maker > 2 THEN 25 ELSE 10 * producer.maker)
       + (IF cleanup.ender > 2 THEN 20 ELSE 10 * cleanup.ender)

MayProduce(f, type) == Linkable(f) /\ f.returns = type /\ f.depth >= 1 /\ f.maker > 0

MayRelease(f, type) ==
    /\ Linkable(f) /\ f.returns = "void" /\ Len(f.parameters) = 1
    /\ f.parameters[1].base = type /\ f.parameters[1].depth >= 1 /\ ~f.parameters[1].const
    /\ f.ender > 0

(* The release with the most evidence; two of the same are too ambiguous.   *)
Releases(functions, type) ==
    LET all == {f \in ToSet(functions) : MayRelease(f, type)}
        weight(f) == IF f.ender > 2 THEN 2 ELSE f.ender
        best == {f \in all : \A g \in all : weight(g) <= weight(f)}
    IN  IF Cardinality(best) = 1 THEN best ELSE {}

(* Those that promise nothing in a comment, and a parser only if what it    *)
(* returns comes from an allocation.                                        *)
Producers(functions, type) ==
    LET explicit == {r.producer : r \in ExplicitRelations(functions)}
        mayMake(f) == MayProduce(f, type) /\ f.id \notin explicit
        owning == Originating(functions, SelectSeq(functions, LAMBDA f : mayMake(f) /\ f.parses))
    IN  {f \in ToSet(functions) : mayMake(f) /\ (f.parses => f.id \in owning)}

InferredRelations(functions, type) ==
    {r \in {Relation(f, type, g, "value", Confidence(f, g)) :
              f \in Producers(functions, type), g \in Releases(functions, type)} :
        r.confidence >= Threshold}

(* Resources are the struct types and the opaque handles of the project.    *)
OwnershipRelations(functions, types) ==
    ExplicitRelations(functions) \cup UNION {InferredRelations(functions, t) : t \in types}
=============================================================================
