-------------------------- MODULE MCSemanticBuild --------------------------
(* A parser with a stream, a length and a context, a closing function, and  *)
(* a string helper, in two versions of the sources.                         *)
EXTENDS SemanticBuildProps

Data    == [Plain EXCEPT !.word = "buffer", !.base = "char", !.depth = 1, !.const = TRUE]
Size    == [Plain EXCEPT !.word = "length"]
Context == [Plain EXCEPT !.base = "ctx", !.depth = 1, !.struct = TRUE]

Parse(text) ==
    [id |-> "parse", name |-> "parse", text |-> text, defined |-> TRUE, returnStruct |-> FALSE,
     returns |-> "int", parameters |-> <<Data, Size, Context>>]

Close ==
    [id |-> "close", name |-> "close", text |-> "close", defined |-> TRUE, returnStruct |-> FALSE,
     returns |-> "void", parameters |-> <<[Context EXCEPT !.reads = TRUE]>>]

Compare ==
    [id |-> "compare", name |-> "compare", text |-> "compare", defined |-> TRUE,
     returnStruct |-> FALSE, returns |-> "int", parameters |-> <<Data>>]

Declared == [Close EXCEPT !.id = "open", !.name = "open", !.text = "open", !.defined = FALSE]

MCVersions == {"before", "after"}

MCFunctions ==
    [v \in MCVersions |->
        IF v = "before" THEN <<Parse("short"), Close, Declared>>
        ELSE <<Parse("long"), Declared>>]

Pattern(id, names) ==
    [id |-> id, kind |-> "owned_resource", type |-> "ctx", producer |-> "open", binding |-> "return_value",
     producerAt |-> 0, cleanup |-> "close", cleanupAt |-> 1, cleanupHow |-> "resource",
     path |-> "normal", conditions |-> <<>>, sequence |-> names, support |-> 1]

MCMined ==
    [v \in MCVersions |-> IF v = "before" THEN {Pattern(1, <<"open", "close">>)}
                          ELSE {}]

MCTypes == <<"ctx">>
MCLabels == {"g"}

(* A vote that decides, and failed requests of every kind.                  *)
MCAnswers ==
    [task \in {"stream_parameter", "function_role", "struct_direction"}, variant \in 0..2 |->
        CASE task = "stream_parameter" ->
                (CASE variant = 0 -> {{"other"}}
                   [] variant = 1 -> {{"bytes"}}
                   [] OTHER       -> {{"bytes"}, Error})
          [] task = "function_role"    -> {{"PRF"}}
          [] OTHER                     -> {{"output"}, Error}]

Live(minimal, limit) == [backend |-> "llm", minimal |-> minimal, limit |-> limit]

MCJobs ==
    {Live(TRUE, 5), Live(FALSE, 7),
     [backend |-> "replay", minimal |-> TRUE, limit |-> 1]}
=============================================================================
