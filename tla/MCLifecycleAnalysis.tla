------------------------ MODULE MCLifecycleAnalysis ------------------------
(* Small libraries, each with the difficulty its name says.                 *)
EXTENDS LifecycleAnalysisProps, Detection

Bytes  == [Plain EXCEPT !.word = "buffer", !.base = "char", !.depth = 1, !.const = TRUE]
Handle(type) == [Plain EXCEPT !.base = type, !.depth = 1, !.struct = TRUE, !.handle = TRUE]
SignedBytes == [Bytes EXCEPT !.base = "signed char"]
Cookie == [Plain EXCEPT !.word = "opaque", !.base = "void", !.depth = 1]
Callback(type) == [Plain EXCEPT !.base = type]
Struct(type) == [Plain EXCEPT !.base = type, !.depth = 1, !.struct = TRUE]

(* A function that does nothing special.                                    *)
Fn(rank, name, parameters) ==
    [id |-> name, name |-> name, rank |-> rank, file |-> "a.c", defined |-> TRUE, static |-> FALSE,
     returns |-> "void", depth |-> 0, returnStruct |-> FALSE, returnOpaque |-> FALSE,
     parameters |-> parameters, releases |-> FALSE, retains |-> FALSE, unrefs |-> FALSE,
     constructs |-> FALSE, owned |-> NoName, contract |-> "none", maker |-> 0, ender |-> 0,
     parses |-> FALSE, borrowed |-> FALSE, echoes |-> FALSE, allocates |-> FALSE, callees |-> <<>>, delegates |-> NoName]

Makes(f, type, opaque) ==
    [f EXCEPT !.returns = type, !.depth = 1, !.returnStruct = TRUE, !.returnOpaque = opaque, !.maker = 1]

Ends(f) == [f EXCEPT !.releases = TRUE, !.ender = 2]

Says(labels, directions) == [labels |-> labels, directions |-> directions]

(* Calls of a body: the variable the result goes to and those passed.       *)
Call(name, result, passed) ==
    [name |-> name, result |-> result, exits |-> FALSE, conditions |-> <<>>,
     arguments |-> [i \in DOMAIN passed |-> [variables |-> {passed[i]}, address |-> FALSE]]]

OnError(call, v) ==
    [call EXCEPT !.exits = TRUE,
                 !.conditions = <<[variables |-> {v}, shape |-> "c", guards |-> {}, error |-> FALSE]>>]

---------------------------------------------------------------------------
(* A parser behind a handle, used in three ways.                            *)
ParserFns ==
    <<Ends(Fn(1, "p_free", <<Handle("P")>>)),
      Makes(Fn(2, "p_new", <<>>), "P", TRUE),
      [Fn(3, "p_parse", <<Handle("P"), Bytes>>) EXCEPT !.returns = "int"],
      Fn(4, "p_reset", <<Handle("P"), Bytes>>),
      Fn(5, "main", <<>>)>>

Parser ==
    [functions |-> ParserFns, types |-> <<"P">>,
     bodies |->
        LET main(body) == [caller |-> ParserFns[5], calls |-> body] IN
        <<main(<<Call("p_new", "x", <<>>), Call("p_parse", NoVariable, <<"x", "data">>),
                 Call("p_free", NoVariable, <<"x">>)>>),
          main(<<Call("p_new", "y", <<>>), Call("p_reset", NoVariable, <<"y", "data">>),
                 Call("p_parse", NoVariable, <<"y", "data">>), Call("p_free", NoVariable, <<"y">>)>>),
          main(<<Call("p_new", "z", <<>>), OnError(Call("p_free", NoVariable, <<"z">>), "z"),
                 Call("p_parse", NoVariable, <<"z", "data">>), Call("p_free", NoVariable, <<"z">>)>>)>>,
     annotations |->
        {("p_parse" :> Says({"ISF"}, <<d>>)) @@ ("p_reset" :> Says({r}, <<d>>))
         @@ ("p_free" :> Says({"HPF"}, <<d>>)) @@ ("p_new" :> Says({"PRF"}, <<>>)) :
            d \in {"input", "unknown"}, r \in {"PRF", "ISF"}}]

(* Entries that lead into each other and into structures.                   *)
StreamFns ==
    <<Fn(1, "s_init", <<Bytes, Struct("S")>>), Fn(2, "s_next", <<Bytes, Struct("S"), Struct("T")>>),
      Fn(3, "t_text", <<Struct("T")>>), Fn(4, "s_copy", <<Struct("S"), Struct("S")>>)>>

Stream ==
    [functions |-> StreamFns, types |-> <<"S", "T">>, bodies |-> <<>>,
     annotations |->
        {("s_init" :> Says({"ISF"}, <<"", "output">>))
         @@ ("s_next" :> Says(labels, <<"", "input", "output">>))
         @@ ("t_text" :> Says({"HPF"}, <<"input">>))
         @@ ("s_copy" :> Says({"PRF"}, <<"input", "output">>)) :
            labels \in {{"ISF"}, {"ISF", "PRF"}, {"PRF"}}}]

(* Documents that are made by a parser and its thin wrapper, which two      *)
(* functions can release.                                                   *)
DocumentFns ==
    <<Ends(Fn(1, "d_free", <<Struct("D")>>)),
      Fn(2, "d_get", <<Struct("D"), Struct("N")>>),
      [Makes(Fn(3, "d_load", <<Bytes>>), "D", FALSE) EXCEPT !.parses = TRUE, !.callees = <<"d_load_ex">>,
         !.delegates = "d_load_ex"],
      [Makes(Fn(4, "d_load_ex", <<Bytes, Plain>>), "D", FALSE) EXCEPT !.parses = TRUE, !.allocates = TRUE,
         !.owned = "d_close"],
      [Fn(5, "d_close", <<Struct("D")>>) EXCEPT !.contract = "value", !.releases = TRUE, !.ender = 1],
      Fn(6, "d_add", <<Struct("D"), Bytes>>)>>

Document ==
    [functions |-> DocumentFns, types |-> <<"D", "N">>, bodies |-> <<>>,
     annotations |->
        {("d_load" :> Says({"ISF"} \cup more, <<"">>)) @@ ("d_load_ex" :> Says({"ISF"} \cup more, <<"", "">>))
         @@ ("d_get" :> Says({"PRF"}, <<"input", "output">>)) @@ ("d_free" :> Says({"HPF"}, <<"input">>))
         @@ ("d_close" :> Says({"HPF"}, <<d>>))
         @@ ("d_add" :> Says({"ISF"}, <<d, "">>)) : more \in {{}, {"PRF"}}, d \in {"input", "output", "unknown"}}]

(* Two definitions of one function, of which a compiler sees one.           *)
TwinFns ==
    <<[Fn(1, "load", <<Bytes, Struct("S")>>) EXCEPT !.id = "load:10"],
      [Fn(2, "load", <<Bytes, Struct("S")>>) EXCEPT !.id = "load:20"]>>

Twin ==
    [functions |-> TwinFns, types |-> <<"S">>, bodies |-> <<>>,
     annotations |-> {("load:10" :> Says({"ISF"}, <<"", "output">>)) @@ ("load:20" :> Says({"ISF"}, <<"", "output">>))}]

(* A tree, whose nodes are made one from the other.                         *)
TreeFns ==
    <<Ends(Fn(1, "n_free", <<Handle("N")>>)),
      Makes(Fn(2, "n_new", <<Handle("N")>>), "N", TRUE),
      Fn(3, "n_read", <<Handle("N"), Bytes>>)>>

Tree ==
    [functions |-> TreeFns, types |-> <<"N">>,
     bodies |->
        <<[caller |-> Fn(4, "main", <<>>),
           calls |-> <<Call("n_new", "x", <<NoVariable>>), Call("n_new", "y", <<"x">>),
                       Call("n_read", NoVariable, <<"x", "data">>), Call("n_free", NoVariable, <<"x">>)>>]>>,
     annotations |->
        {("n_read" :> Says({"ISF"}, <<"input">>)) @@ ("n_new" :> Says({"PRF"}, <<"input">>))
         @@ ("n_free" :> Says({"HPF"}, <<"input">>))}]

(* Two structures that are made from each other and released each by a      *)
(* function of its own.                                                     *)
MeshFns ==
    <<Fn(1, "a_init", <<Bytes, Struct("A")>>), Fn(2, "a_to_b", <<Struct("A"), Struct("B")>>),
      Fn(3, "b_to_a", <<Struct("B"), Struct("A")>>), Fn(4, "a_done", <<Struct("A")>>),
      Fn(5, "b_done", <<Struct("B")>>)>>

Mesh ==
    [functions |-> MeshFns, types |-> <<"A", "B">>, bodies |-> <<>>,
     annotations |->
        {("a_init" :> Says({"ISF"}, <<"", "output">>)) @@ ("a_to_b" :> Says({"PRF"}, <<"input", "output">>))
         @@ ("b_to_a" :> Says({"PRF"}, <<"input", "output">>)) @@ ("a_done" :> Says({"HPF"}, <<"input">>))
         @@ ("b_done" :> Says({r}, <<"input">>)) : r \in {"PRF", "HPF"}}]

(* A library with a close of its own, which fclose wraps, and entries with  *)
(* callbacks, the characters of which may be signed.                        *)
LegacyFns ==
    <<[Fn(1, "fclose", <<Struct("L")>>) EXCEPT !.callees = <<"l_close">>, !.delegates = "l_close"],
      Fn(2, "l_close", <<Struct("L")>>),
      Fn(3, "l_load", <<Bytes, Callback("log_fn"), Struct("L")>>),
      Fn(4, "l_make", <<Bytes, Callback("alloc_fn"), Struct("L")>>),
      Fn(5, "l_text", <<SignedBytes, Struct("L")>>),
      Fn(6, "l_user", <<SignedBytes, Cookie, Struct("L")>>)>>

Legacy ==
    [functions |-> LegacyFns, types |-> <<"L">>, bodies |-> <<>>,
     annotations |->
        {("fclose" :> Says(f, <<"input">>)) @@ ("l_close" :> Says(c, <<"input">>))
         @@ ("l_load" :> Says({"ISF"}, <<"", "", "output">>)) @@ ("l_make" :> Says({"ISF"}, <<"", "", "output">>))
         @@ ("l_text" :> Says({"ISF"}, <<"", "output">>)) @@ ("l_user" :> Says({"ISF"}, <<"", "", "output">>)) :
            f \in {{}, {"HPF"}}, c \in {{}, {"HPF"}}}]

MCCallbacks == ("log_fn" :> 0) @@ ("alloc_fn" :> 1)

MCProjects == <<Parser, Stream, Document, Tree, Mesh, Legacy>>
TwinProjects == <<Twin>>

(* The libraries are labelled as a build may label them: an entry has a     *)
(* parameter that may be a stream, any other function with a label handles  *)
(* a struct.                                                                *)
ASSUME LabelsPossible ==
    \A p \in ToSet(MCProjects) \cup ToSet(TwinProjects) : \A f \in ToSet(p.functions), a \in p.annotations :
        f.id \in DOMAIN a =>
            /\ "ISF" \in a[f.id].labels => StreamParameters(f) # {}
            /\ a[f.id].labels \ {"ISF"} # {} => IsStructRelated(f)

MCTypes == <<"P", "N">>
MCLabels == {"g"}

MCOptions == {[minimal |-> FALSE, limit |-> 20], [minimal |-> FALSE, limit |-> 3],
              [minimal |-> TRUE, limit |-> 20]}
=============================================================================
