--------------------------- MODULE ProtocolMining ---------------------------
(***************************************************************************)
(* The static half of a protocol contract: what the body of a parser shows *)
(* of the frames it accepts.                                               *)
(*                                                                         *)
(* A parser is a record [entry, data, size, helpers, constants, limits,    *)
(* maxima, span, body]: the function, whether its buffer and its size are  *)
(* recognised among the parameters, the load helpers by name with their    *)
(* [width, order], the integer constants by name, those of them that say a *)
(* limit of payloads, those that say MAX, a bound of the offsets, and the  *)
(* statements in source order, each one of                                 *)
(*   [k |-> "declare", var, value]       uint16_t len = le16(data + 2)     *)
(*   [k |-> "compare", op, left, right]  size < 8                          *)
(*   [k |-> "switch", on, cases]         switch (data[1]) { case A: ... }  *)
(* over the expressions below. A number a computation may fail to find is  *)
(* a set of at most one number.                                            *)
(***************************************************************************)
EXTENDS Integers, Sequences, FiniteSets, SequencesExt

Name(x) == [k |-> "name", name |-> x]
Num(n) == [k |-> "num", value |-> n]
Byte(base, n) == [k |-> "byte", name |-> base, index |-> n]
Bytes(base, n, width, order) ==
    [k |-> "bytes", name |-> base, index |-> n, width |-> width, order |-> order]
Plus(a, b) == [k |-> "plus", left |-> a, right |-> b]
Minus(a, b) == [k |-> "minus", left |-> a, right |-> b]
Call(f, args) == [k |-> "call", name |-> f, args |-> args]

Children(e) ==
    CASE e.k \in {"plus", "minus"} -> {e.left, e.right}
      [] e.k = "call" -> ToSet(e.args)
      [] OTHER -> {}

Parts(e) == {e} \cup Children(e) \cup UNION {Children(c) : c \in Children(e)}

Operands(n) ==
    CASE n.k = "declare" -> {n.value}
      [] n.k = "compare" -> {n.left, n.right}
      [] n.k = "switch" -> {n.on}

PartsOf(p) == UNION {UNION {Parts(e) : e \in Operands(n)} : n \in ToSet(p.body)}

Comparisons(p) == SelectSeq(p.body, LAMBDA n : n.k = "compare")

LastOf(s) == IF s = <<>> THEN {} ELSE {s[Len(s)]}

---------------------------------------------------------------------------
(* Numbers and offsets.                                                     *)

LiteralOf(e) == IF e.k = "num" THEN {e.value} ELSE {}

Atom(p, e) ==
    IF e.k = "name" /\ e.name \in DOMAIN p.constants THEN {p.constants[e.name]} ELSE LiteralOf(e)

Resolved(p, e) ==
    CASE e.k = "plus" -> {a + b : a \in Atom(p, e.left), b \in Atom(p, e.right)}
      [] e.k = "minus" -> {a - b : a \in Atom(p, e.left), b \in Atom(p, e.right)}
      [] OTHER -> Atom(p, e)

(* Offsets are from the buffer or from a variable with a known offset.      *)
NoAliases == [x \in {} |-> 0]

WithBuffer(aliases) == [x \in DOMAIN aliases \cup {"data"} |-> IF x = "data" THEN 0 ELSE aliases[x]]

OffsetOf(p, bases, e) ==
    LET from(base, delta) ==
            IF base.k = "name" /\ base.name \in DOMAIN bases
            THEN {bases[base.name] + n : n \in Resolved(p, delta)} ELSE {}
    IN  CASE e.k = "name" -> IF e.name \in DOMAIN bases THEN {bases[e.name]} ELSE {}
          [] e.k = "byte" -> from(Name(e.name), Num(e.index))
          [] e.k = "plus" -> IF from(e.left, e.right) # {} THEN from(e.left, e.right)
                             ELSE from(e.right, e.left)
          [] OTHER -> {}

(* Variables that name a fixed offset. The reader of offsets takes a byte   *)
(* of the buffer for its address, so a variable that was loaded from one is *)
(* among them.                                                              *)
OneMore(p, known, n) ==
    IF n.k = "declare" /\ n.var \notin DOMAIN known
       /\ OffsetOf(p, WithBuffer(known), n.value) # {}
    THEN [x \in DOMAIN known \cup {n.var} |->
             IF x = n.var THEN CHOOSE o \in OffsetOf(p, WithBuffer(known), n.value) : TRUE
             ELSE known[x]]
    ELSE known

(* Over the body, again and again: each time that something is found finds  *)
(* another variable.                                                        *)
Passes(p) == Len(p.body) * Len(p.body)

Pass(p, i) == p.body[1 + ((i - 1) % Len(p.body))]

PointerAliases(p) ==
    LET after[i \in 0..Passes(p)] ==
            IF i = 0 THEN NoAliases ELSE LET known == after[i - 1] IN OneMore(p, known, Pass(p, i))
    IN  after[Passes(p)]

Bases(p) == WithBuffer(PointerAliases(p))

---------------------------------------------------------------------------
(* The sizes.                                                               *)

BoundsFrom(p, var, ops) ==
    LET bounds == SelectSeq(Comparisons(p),
                            LAMBDA n : /\ n.op \in ops /\ n.left = Name(var)
                                       /\ Resolved(p, n.right) # {}
                                       /\ n.op = ">=" => n.right.k = "name" /\ n.right.name \in p.maxima)
    IN  UNION {Resolved(p, n.right) : n \in LastOf(bounds)}

(* `size - K' on the right of a comparison of the size replaces the guard.  *)
MinSizeGuard(p) ==
    LET guarded == BoundsFrom(p, "size", {"<", "<=", ">", ">="})
        offsets == SelectSeq(Comparisons(p),
                             LAMBDA n : /\ n.left = Name("size") /\ n.right.k = "minus"
                                        /\ Resolved(p, n.right.right) # {})
    IN  IF ~p.size THEN {}
        ELSE IF offsets = <<>> THEN guarded
        ELSE UNION {Resolved(p, n.right.right) : n \in LastOf(offsets)}

PayloadRegion(p, bases) ==
    LET offsets == UNION {OffsetOf(p, bases, e) : e \in {q \in PartsOf(p) : q.k = "plus"}}
    IN  IF p.data /\ offsets # {} THEN {Max(offsets)} ELSE {}

---------------------------------------------------------------------------
(* The fields.  `bases' are the names with a known offset, `loaded' the     *)
(* variables that were loaded from one.                                     *)

(* Bytes compared with a constant: the values, and whether they are bare    *)
(* literals.                                                                *)
LiteralGuards(p) ==
    LET guards == {n \in ToSet(Comparisons(p)) : n.op \in {"!=", "=="}}
        at(byte, value) ==
            {[offset |-> byte.index, value |-> v, bare |-> value.k = "num"] :
                v \in IF byte.k = "byte" /\ byte.name = "data" THEN Atom(p, value) ELSE {}}
    IN  IF p.data THEN UNION {at(n.left, n.right) \cup at(n.right, n.left) : n \in guards} ELSE {}

(* What an expression reads as one number: a load helper over an offset, or *)
(* bytes put together in one order.                                         *)
ReadThrough(p, bases, e) ==
    CASE e.k = "call" -> IF e.name \in DOMAIN p.helpers /\ e.args # <<>>
                         THEN OffsetOf(p, bases, e.args[1]) ELSE {}
      [] e.k = "bytes" -> IF e.order = "mixed" \/ e.name \notin DOMAIN bases THEN {}
                          ELSE {bases[e.name] + e.index}
      [] OTHER -> {}

(* One load per offset: of sets one after the other the first that has one. *)
(* (Which of two in one statement counts is not said here.)                 *)
OneEach(loads) == {CHOOSE l \in loads : l.offset = o : o \in {l.offset : l \in loads}}

FirstKept(sets) ==
    UNION {{l \in OneEach(sets[i]) : \A j \in 1..(i - 1) : \A h \in sets[j] : h.offset # l.offset} :
              i \in DOMAIN sets}

PartsIn(n, kind) == {q \in UNION {Parts(e) : e \in Operands(n)} : q.k = kind}

HelperLoadsIn(p, bases, n) ==
    UNION {{[offset |-> o, width |-> p.helpers[c.name].width, order |-> p.helpers[c.name].order,
             through |-> {c.name}] : o \in ReadThrough(p, bases, c)} : c \in PartsIn(n, "call")}

InlineLoadsIn(p, bases, n) ==
    UNION {{[offset |-> o, width |-> e.width, order |-> e.order, through |-> {}] :
               o \in ReadThrough(p, bases, e)} : e \in PartsIn(n, "bytes")}

(* Through a helper, the last load of an offset is kept; inline, the last   *)
(* that a declaration has, and else the first.                              *)
HelperLoads(p, bases) ==
    FirstKept(Reverse([i \in DOMAIN p.body |-> HelperLoadsIn(p, bases, p.body[i])]))

Declarations(p) == SelectSeq(p.body, LAMBDA n : n.k = "declare")

InlineLoads(p, bases) ==
    FirstKept(Reverse([i \in DOMAIN Declarations(p) |-> InlineLoadsIn(p, bases, Declarations(p)[i])])
              \o [i \in DOMAIN p.body |-> InlineLoadsIn(p, bases, p.body[i])])

Loads(p, bases) ==
    IF p.data THEN FirstKept(<<HelperLoads(p, bases), InlineLoads(p, bases)>>) ELSE {}

(* What a declared variable was loaded from; a byte only where its value    *)
(* holds one.                                                               *)
Sole(S) == IF Cardinality(S) = 1 THEN S ELSE {}

LoadedFrom(p, bases, value) ==
    IF value.k \in {"call", "bytes"} THEN ReadThrough(p, bases, value)
    ELSE Sole(UNION {OffsetOf(p, bases, b) : b \in {e \in Parts(value) : e.k = "byte"}})

Variables(p, bases) ==
    IF p.data
    THEN UNION {{[var |-> n.var, offset |-> o] : o \in LoadedFrom(p, bases, n.value)} :
                   n \in {d \in ToSet(p.body) : d.k = "declare"}}
    ELSE {}

(* A literal that is not the header's size refutes the relation; the name   *)
(* of a constant is not looked up here.                                     *)
LengthOffsets(p, loaded, header) ==
    {v.offset : v \in {w \in loaded :
        \E n \in ToSet(Comparisons(p)) :
            /\ n.left = Name(w.var) /\ n.right.k = "minus" /\ n.right.left = Name("size")
            /\ header # {} => LiteralOf(n.right.right) \subseteq header
            /\ p.size}}

(* The bound of the first length, one that was read inline before any that  *)
(* a helper read.                                                           *)
LengthVariables(p, loaded, lengths) ==
    LET reading(n) == n.k = "declare" /\ \E v \in loaded : v.var = n.var /\ v.offset \in lengths IN
    SelectSeq(p.body, LAMBDA n : reading(n) /\ n.value.k # "call")
    \o SelectSeq(p.body, LAMBDA n : reading(n) /\ n.value.k = "call")

MaxPayloadGuard(p, loaded, lengths) ==
    LET variables == LengthVariables(p, loaded, lengths) IN
    IF variables = <<>> THEN {} ELSE BoundsFrom(p, variables[1].var, {">", ">="})

(* A field compared with a call over the payload.                           *)
Compared(p, bases, e) == IF e.k = "byte" THEN OffsetOf(p, bases, e) ELSE ReadThrough(p, bases, e)

Sides(n) == {<<n.left, n.right>>, <<n.right, n.left>>}

Checksums(p, bases, payload) ==
    LET over(call) == /\ call.k = "call" /\ call.args # <<>> /\ payload # {}
                      /\ OffsetOf(p, bases, call.args[1]) = payload
        equalities == {m \in ToSet(Comparisons(p)) : m.op \in {"!=", "=="}}
    IN  UNION {{[offset |-> o, through |-> s[1].name] : o \in Compared(p, bases, s[2])} :
                  s \in {t \in UNION {Sides(n) : n \in equalities} : over(t[1])}}

(* The first switch over a byte or a loaded variable, or else the lowest    *)
(* offset that is compared with two different cases.                        *)
SelectorOffset(p, bases, loaded, e) ==
    CASE e.k = "byte" -> OffsetOf(p, bases, e)
      [] e.k = "name" -> {v.offset : v \in {w \in loaded : w.var = e.name}}
      [] OTHER -> {}

(* The left side is the selector if it can be one.                          *)
CaseOf(p, bases, loaded, n) ==
    LET left == SelectorOffset(p, bases, loaded, n.left) IN
    IF left # {} THEN {<<o, n.right>> : o \in left}
    ELSE {<<o, n.left>> : o \in SelectorOffset(p, bases, loaded, n.right)}

Chained(cases) == {o \in {c[1] : c \in cases} : Cardinality({c \in cases : c[1] = o}) >= 2}

LowestOf(offsets) == IF offsets = {} THEN {} ELSE {Min(offsets)}

Switched(p, bases, loaded) ==
    LET switches == SelectSeq(p.body, LAMBDA n : n.k = "switch" /\ SelectorOffset(p, bases, loaded, n.on) # {})
    IN  IF switches = <<>> THEN {} ELSE SelectorOffset(p, bases, loaded, switches[1].on)

Either(first, second) == IF first # {} THEN first ELSE second

Dispatch(p, bases, loaded) ==
    LET equal == {n \in ToSet(Comparisons(p)) : n.op = "=="} IN
    IF ~p.data THEN {}
    ELSE Either(Switched(p, bases, loaded),
                LowestOf(Chained(UNION {CaseOf(p, bases, loaded, n) : n \in equal})))

(* (A small number counts too where it is written in hexadecimal: here none *)
(* is.)                                                                     *)
LooksLikeMagic(offset, values) ==
    Cardinality(values) = 1 /\ \A v \in values : v \in 32..126 \/ (offset <= 1 /\ v \notin 0..3)

---------------------------------------------------------------------------
(* The facts of a parser. The payload base is the largest fixed offset      *)
(* unless it falls inside the header, and the header ends at the payload    *)
(* where no guard says so. The width 0 is that of the payload.              *)

(* Mutant: the base of the payload may lie inside the header. *)
BaseOutside_Anywhere(largest, header) == largest

BaseOutside(largest, header) ==
    IF \E b \in largest, h \in header : b < h THEN {} ELSE largest

Sizes(p, loaded, largest, header) ==
    LET base == BaseOutside(largest, header)
        lengths == LengthOffsets(p, loaded, header)
    IN  [header |-> header, lengths |-> lengths,
         payload |-> IF base = {} /\ lengths # {} THEN header ELSE base]

Field(offset, width, order, role, value) ==
    [offset |-> offset, width |-> width, order |-> order, role |-> role, value |-> value]

LoadField(l, sizes, checksums, selector) ==
    Field(l.offset, l.width, l.order,
          IF \E c \in checksums : c.offset = l.offset THEN "checksum"
          ELSE IF l.offset \in sizes.lengths THEN "payload_length"
          ELSE IF l.offset \in selector THEN "opcode" ELSE "unknown",
          {})

LiteralField(o, guards, selector) ==
    LET values == {l.value : l \in guards} IN
    Field(o, 1, "none",
          IF o \in selector THEN "opcode" ELSE IF LooksLikeMagic(o, values) THEN "magic" ELSE "version",
          IF Cardinality(guards) = 1 THEN {l.value : l \in {m \in guards : m.bare}} ELSE {})

FactsFrom(p, sizes, loaded, literals, loads, checksums, selector) ==
    LET read == {l.offset : l \in loads}
        fixed == {l.offset : l \in literals} \ read
    IN  [header |-> sizes.header, payload |-> sizes.payload,
         max |-> MaxPayloadGuard(p, loaded, sizes.lengths),
         fields |-> {LoadField(l, sizes, checksums, selector) : l \in loads}
                    \cup {LiteralField(o, {l \in literals : l.offset = o}, selector) : o \in fixed}
                    \cup {Field(o, 0, "none", "payload", {}) : o \in sizes.payload}
                    \cup {Field(o, 1, "none", "opcode", {}) : o \in selector \ (read \cup fixed)},
         quoted |-> (UNION {l.through : l \in loads})
                    \cup {c.through : c \in {d \in checksums : d.offset \in read}}]

FactsWith(p, bases, loaded, sizes) ==
    FactsFrom(p, sizes, loaded, LiteralGuards(p), Loads(p, bases),
              Checksums(p, bases, sizes.payload), Dispatch(p, bases, loaded))

Framing(p, bases, loaded, guarded, largest) ==
    FactsWith(p, bases, loaded, Sizes(p, loaded, largest, Either(guarded, largest)))

FactsOver(p, bases) ==
    Framing(p, bases, Variables(p, bases), MinSizeGuard(p), PayloadRegion(p, bases))

MineProtocolFacts(p) == FactsOver(p, Bases(p))
=============================================================================
