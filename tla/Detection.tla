----------------------------- MODULE Detection -----------------------------
(***************************************************************************)
(* What the SFG builder decides about a C function without asking anybody: *)
(* which parameters may be byte streams, which functions handle a struct,  *)
(* and which struct directions the code itself settles.                    *)
(*                                                                         *)
(* A parameter's name counts only by the words the code looks for, a type  *)
(* only by its base and by how many pointers lead to it.                   *)
(***************************************************************************)
EXTENDS Integers, Sequences, SequencesExt

ByteTypes  == {"char", "signed char", "unsigned char", "uint8_t", "int8_t"}
FloatTypes == {"float", "double", "long double"}

(* The words of a name the code looks for.                                  *)
Words == {"buffer", "opaque", "length", "path", "plain"}

(* reads and writes are what the AST found in the function's own body.      *)
Parameter(Types) ==
    [word : Words, base : Types, depth : 0..2, const : BOOLEAN, struct : BOOLEAN,
     handle : BOOLEAN, reads : BOOLEAN, writes : BOOLEAN]

(* A parameter of no special kind, for others to be an EXCEPT of.           *)
Plain == [word |-> "plain", base |-> "int", depth |-> 0, const |-> FALSE, struct |-> FALSE,
          handle |-> FALSE, reads |-> FALSE, writes |-> FALSE]

IsPointer(p) == p.depth > 0

(* A void pointer is a buffer only next to a length, or with both a length  *)
(* and a name that says so; a cookie never is.                              *)
HasByteBufferLength(f, i) ==
    /\ f.parameters[i].word # "opaque"
    /\ \E j \in DOMAIN f.parameters :
          LET length == f.parameters[j] IN
          /\ ~IsPointer(length) /\ ~length.struct /\ length.base \notin FloatTypes
          /\ length.word = "length"
          /\ j = i + 1 \/ f.parameters[i].word = "buffer"

(* Positions of the parameters that may carry the fuzzer's bytes.           *)
StreamParameters(f) ==
    {i \in DOMAIN f.parameters :
        /\ IsPointer(f.parameters[i])
        /\ \/ f.parameters[i].base \in ByteTypes
           \/ f.parameters[i].base = "void" /\ HasByteBufferLength(f, i)}

StructParameters(f) == {i \in DOMAIN f.parameters : f.parameters[i].struct}

IsStructRelated(f) == StructParameters(f) # {} \/ f.returnStruct

IsCandidate(f) == StreamParameters(f) # {} \/ IsStructRelated(f)

---------------------------------------------------------------------------
(* Directions of struct parameters.                                         *)

NeedsSemanticDirection(p) ==
    /\ p.struct /\ IsPointer(p)
    /\ ~p.const /\ ~p.reads /\ ~p.writes

(* The direction of any other struct parameter.                             *)
StaticDirection(p) ==
    CASE ~IsPointer(p)          -> "input"
      [] p.reads /\ p.writes    -> "both"
      [] p.writes               -> "output"
      [] p.reads \/ p.const     -> "input"
      [] OTHER                  -> "unknown"

(* Mutant: the directions are not counted. *)
RequestsFor_NoDirections(f) ==
    3 * Cardinality(StreamParameters(f)) + (IF IsStructRelated(f) THEN 1 ELSE 0)

(* Semantic requests a build cannot do without: three per possible stream,  *)
(* a role, and the directions the code leaves open.                         *)
RequestsFor(f) ==
    3 * Cardinality(StreamParameters(f))
        + (IF IsStructRelated(f) THEN 1 ELSE 0)
        + Cardinality({i \in DOMAIN f.parameters : NeedsSemanticDirection(f.parameters[i])})

MinimumRequests(candidates) ==
    FoldLeft(+, 0, [k \in DOMAIN candidates |-> RequestsFor(candidates[k])])
=============================================================================
