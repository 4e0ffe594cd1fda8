------------------------- MODULE MCProtocolEvidence -------------------------
(* Parsers and models' answers, each with the difficulty its name says.     *)
EXTENDS ProtocolEvidenceProps

MCAlphabet ==
    <<"APPEND", "FETCH", "STORE", "SWAP", "ctx", "ctx_free", "ctx_make", "ctx_new", "free", "iteration",
      "frame", "old_new">>

MCLibrary == {"free", "malloc"}

---------------------------------------------------------------------------
(* Parsers.                                                                 *)

Le16 == [width |-> 2, order |-> "little"]

Declare(var, value) == [k |-> "declare", var |-> var, value |-> value]
Compare(left, op, right) == [k |-> "compare", op |-> op, left |-> left, right |-> right]
Switch(on) == [k |-> "switch", on |-> on, cases |-> {"A", "B"}]

At(n) == IF n = 0 THEN Name("data") ELSE Plus(Name("data"), Num(n))
Load16(n) == Call("le16", <<At(n)>>)
SizeMinus(n) == Minus(Name("size"), Num(n))

Empty ==
    [entry |-> "parse", data |-> TRUE, size |-> TRUE, helpers |-> ("le16" :> Le16),
     constants |-> ("MAX_PAYLOAD" :> 64 @@ "TABLE" :> 64 @@ "MAGIC" :> 77), limits |-> {"MAX_PAYLOAD"},
     maxima |-> {"MAX_PAYLOAD"}, span |-> 12, body |-> <<>>]

(* magic, opcode, length, checksum and the payload after them.              *)
Framed ==
    [Empty EXCEPT !.body =
        <<Compare(Name("size"), "<", Num(6)),
          Compare(Byte("data", 0), "!=", Name("MAGIC")),
          Declare("len", Load16(2)),
          Compare(Name("len"), ">", Name("MAX_PAYLOAD")),
          Compare(Name("len"), "!=", SizeMinus(6)),
          Compare(Load16(4), "!=", Call("crc", <<At(6), Name("len")>>)),
          Switch(Byte("data", 1))>>]

(* A later version of it, with a longer header.                             *)
Revised ==
    [Empty EXCEPT !.body =
        <<Compare(Name("size"), "<", Num(8)),
          Compare(Byte("data", 0), "!=", Name("MAGIC")),
          Declare("len", Load16(2)),
          Compare(Name("len"), "!=", SizeMinus(8)),
          Compare(Byte("data", 6), "==", Num(1)),
          Compare(Num(2), "==", Byte("data", 6)),
          Declare("p", At(8))>>]

(* The size is never checked, and a byte of the frame is an offset.         *)
Unguarded ==
    [Empty EXCEPT !.body =
        <<Declare("n", Byte("data", 3)),
          Compare(Bytes("data", 4, 2, "little"), "==", Num(7)),
          Declare("w", Bytes("data", 4, 2, "little")),
          Declare("q", Plus(Name("n"), Num(1)))>>]

(* The same with the size checked, and the base inside the header.          *)
Inside ==
    [Unguarded EXCEPT !.body = <<Compare(Name("size"), "<", Num(6)), Compare(Name("w"), "==", SizeMinus(6))>> \o @]

(* Another function of the same file.                                       *)
Other == [Framed EXCEPT !.entry = "other"]

(* Bytes without a frame.                                                   *)
Raw == [Empty EXCEPT !.body = <<>>]

---------------------------------------------------------------------------
(* Functions.                                                               *)

Row(name, at) == [name |-> name, at |-> at, defined |-> TRUE, static |-> FALSE]
Static(name, at) == [Row(name, at) EXCEPT !.static = TRUE]
Declared(name, at) == [Row(name, at) EXCEPT !.defined = FALSE]

Rows == {Row("parse", "p.c"), Row("ctx_new", "c.c"), Row("ctx_free", "c.c"), Static("ctx_make", "c.c"),
         Static("le16", "p.c"), Row("crc", "k.c"), Declared("ctx_new", "c.h")}

(* crc has two definitions, the constructor none.                           *)
Broken == {Row("parse", "p.c"), Row("crc", "k.c"), Row("crc", "l.c"), Declared("ctx_new", "c.h")}

---------------------------------------------------------------------------
(* Samples.                                                                 *)

CallTo(name) == [text |-> name, form |-> "call", name |-> name]
Type == [text |-> "ctx", form |-> "declaration", name |-> "ctx"]
LifetimeOf(x) == [text |-> x, form |-> x, name |-> ""]
Prose == [text |-> "old_new", form |-> "prose", name |-> ""]

Snippet(text, calls, uses) == [text |-> text, code |-> TRUE, names |-> calls, calls |-> calls, uses |-> uses]
Sets(member) == [member |-> member, guarded |-> FALSE, form |-> "assigned"]
Uses(member) == [member |-> member, guarded |-> TRUE, form |-> "used"]

Operation(opcode, uses) == [opcode |-> opcode, evidence |-> {Snippet(opcode, {}, uses)}]

StoreOp == Operation("STORE", {Sets("buf")})
FetchOp == Operation("FETCH", {Uses("buf")})
AppendOp == Operation("APPEND", {Uses("buf"), Sets("buf"), Sets("len")})
SwapOp == Operation("SWAP", {Uses("len"), Sets("buf")})
TakeOp == Operation("APPEND", {Uses("buf"), Sets("len")})

Lifecycle4(init, destroy, lifetime) ==
    [s \in Slots |-> CASE s = "type" -> Type [] s = "init" -> init
                       [] s = "destroy" -> destroy [] OTHER -> lifetime]

Silent ==
    [multi |-> FALSE, steps |-> {}, source |-> {}, sequence |-> {}, context |-> [s \in Slots |-> NoText],
     evidence |-> {}, operations |-> {}]

Sequenced ==
    [multi |-> TRUE, steps |-> {4}, source |-> {"policy"}, sequence |-> {Snippet("loop", {"parse"}, {})},
     context |-> Lifecycle4(CallTo("ctx_new"), CallTo("ctx_free"), LifetimeOf("iteration")),
     evidence |-> {Snippet("make", {"ctx_new"}, {}), Snippet("drop", {"ctx_free"}, {})},
     operations |-> {StoreOp, FetchOp}]

(* It agrees on most and names another constructor without a snippet.       *)
Dissent ==
    [Sequenced EXCEPT !.steps = {8}, !.source = {"constant"}, !.operations = {FetchOp, AppendOp},
                      !.evidence = {Snippet("drop", {"ctx_free"}, {})},
                      !.context = Lifecycle4(CallTo("old_new"), CallTo("free"), NoText)]

(* It leaves open what it has no snippet for.                               *)
Brief ==
    [Sequenced EXCEPT !.steps = {}, !.source = {}, !.sequence = {}, !.operations = {},
                      !.context["lifetime"] = NoText]

Cyclic == [Sequenced EXCEPT !.operations = {TakeOp, SwapOp, FetchOp}]

Alphabetical == [Sequenced EXCEPT !.operations = {AppendOp, FetchOp}]

Hollow == [Silent EXCEPT !.context["init"] = Prose]

---------------------------------------------------------------------------
Base(parsers, answers, asked, runs) ==
    [parsers |-> parsers, isf |-> "parse", rows |-> Rows, answers |-> answers, samples |-> asked,
     commands |-> runs]

MCProjects ==
    <<Base({Framed}, {Sequenced, Dissent, Brief, Alphabetical}, 3, 1),
      Base({Framed, Revised, Other}, {Sequenced}, 1, 3),
      Base({Raw, Unguarded, Inside}, {Cyclic, Alphabetical, Hollow}, 2, 1),
      [Base({Framed}, {Sequenced}, 1, 1) EXCEPT !.rows = Broken]>>
=============================================================================
