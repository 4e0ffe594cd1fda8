-------------------------- MODULE ProtocolContract --------------------------
(***************************************************************************)
(* A protocol IR between the project it is to be used in and the plan that *)
(* is to keep it: which of the functions it names a harness may call, what *)
(* a plan has to declare, and what it may not.                             *)
(*                                                                         *)
(* The project is a set of rows [name, at, defined, static].  A slot of    *)
(* the context is [text, form, name]: a "call" or a "name" of a function,  *)
(* a "declaration" of a type, "prose"; a lifetime has the form "iteration" *)
(* or "frame" if it says one of these.                                     *)
(***************************************************************************)
EXTENDS ProtocolIR

CONSTANT Library    \* the names of the C library a harness may always call

---------------------------------------------------------------------------
(* The project's functions.                                                 *)

Linkable(row) == row.defined /\ ~row.static

Resolve(rows, name) ==
    LET named == {r \in rows : r.name = name}
        linkable == {r \in named : Linkable(r)}
    IN  CASE named = {} -> "absent"
          [] Cardinality(linkable) > 1 -> "ambiguous"
          [] Cardinality(linkable) = 1 -> "linkable"
          [] linkable = {} /\ (\E r \in named : r.defined) -> "internal"
          [] OTHER -> "declared"

Callable(rows, name) == Resolve(rows, name) = "linkable"

FromLibrary(rows, name) ==
    Resolve(rows, name) \in {"absent", "declared", "internal"} /\ name \in Library

---------------------------------------------------------------------------
(* Reconciliation.  A helper is optional: only one the project owns and     *)
(* cannot deliver is a broken claim.  The lifecycle is not: a slot that     *)
(* cannot be performed costs the run.                                       *)

Lifecycle == {"init", "destroy"}

HelperProblems(ir, rows) ==
    {<<"helper", name>> : name \in {n \in StrongSources(ir) :
        Resolve(rows, n) \in {"declared", "ambiguous"} /\ ~FromLibrary(rows, n)}}

(* Mutant: any evidence of the context backs a slot. *)
Backed_Anything(evidence, name) == evidence # {}

Backed(evidence, name) == \E s \in evidence : name \in s.names

SlotProblems(context, evidence, rows, role) ==
    LET slot == context[role]
        problem(S) == {<<role, x>> : x \in S}
    IN  CASE slot = NoText -> {}
          [] slot.form \in {"call", "name"} ->
                problem((IF Callable(rows, slot.name) \/ FromLibrary(rows, slot.name) THEN {} ELSE {"unlinkable"})
                        \cup IF Backed(evidence, slot.name) THEN {} ELSE {"unbacked"})
          [] slot.form = "declaration" ->
                problem(IF role = "destroy" THEN {"destroys nothing"}
                        ELSE IF context["type"] # NoText /\ slot.name = context["type"].name THEN {}
                        ELSE {"other type"})
          [] OTHER -> problem({"prose"})

Diagnostics(ir, isf, rows) ==
    LET c == ir.conventions IN
    (IF ir.entry = isf THEN {} ELSE {<<"entry", ir.entry>>})
    \cup HelperProblems(ir, rows)
    \cup IF c = NoConventions THEN {}
         ELSE UNION {SlotProblems(c.context, c.evidence, rows, role) : role \in Lifecycle}

(* The one set that the projection, the plan and the harness are widened by.*)
CallableHelpers(ir, rows) ==
    LET c == ir.conventions
        called == IF c = NoConventions THEN {}
                  ELSE {c.context[role].name : role \in {r \in Lifecycle :
                            c.context[r] # NoText /\ c.context[r].form \in {"call", "name"}}}
    IN  {name \in StrongSources(ir) \cup called : Callable(rows, name)}

---------------------------------------------------------------------------
(* The projection: what a plan must keep.                                   *)

(* An opcode that reads what another writes comes after it, unless it       *)
(* writes it itself.                                                        *)
Dependencies(operations) ==
    UNION {{<<w.opcode, r.opcode>> : r \in {o \in operations :
               o.opcode # w.opcode /\ w.writes \cap (o.reads \ o.writes) # {}}} : w \in operations}

Lifetime(slot) == IF slot # NoText /\ slot.form \in {"iteration", "frame"} THEN slot.form ELSE "unknown"

NoContext == [type |-> ""]

ContextProjection(context) ==
    LET function(slot) == IF slot # NoText /\ slot.form \in {"call", "name"} THEN slot.name ELSE "" IN
    IF \A slot \in {"type", "init", "destroy"} : context[slot] = NoText THEN NoContext
    ELSE [type |-> context["type"].text, init |-> function(context["init"]),
          destroy |-> function(context["destroy"]), lifetime |-> Lifetime(context["lifetime"])]

(* Opcodes are listed in the order of the alphabet.                         *)
Sorted(opcodes) ==
    [k \in 1..Cardinality(opcodes) |->
        CHOOSE o \in opcodes : Cardinality({p \in opcodes : Position(p) < Position(o)}) = k - 1]

Projection(ir, helpers) ==
    LET c == ir.conventions
        inferred == c # NoConventions
        roles == {f.role : f \in ir.frame.fields}
        multi == inferred /\ c.multi
    IN  [frame |-> ir.frame,
         multi |-> multi,
         steps |-> IF multi THEN c.steps ELSE {},
         repairs |-> {"payload", "payload_length", "checksum"} \cap roles,
         sampling |-> multi /\ \E f \in ir.frame.fields : f.sized,
         context |-> IF inferred THEN ContextProjection(c.context) ELSE NoContext,
         opcodes |-> IF inferred THEN Sorted({o.opcode : o \in c.operations}) ELSE <<>>,
         dependencies |-> IF inferred THEN Dependencies(c.operations) ELSE {},
         helpers |-> helpers]

---------------------------------------------------------------------------
(* The comparison.  A plan declares bindings like the projection, and in    *)
(* its input strategy the cap of its loop and whether it samples lengths.   *)

FrameKept(bindings, projection) == bindings.frame = projection.frame

(* The caps have to agree with each other; the contract's own cap is not    *)
(* compared.                                                                *)
LoopKept(bindings, strategy, projection) ==
    /\ projection.multi =>
        /\ bindings.multi
        /\ bindings.steps # {} /\ strategy.steps # {}
        /\ bindings.steps = strategy.steps
    /\ projection.repairs \subseteq bindings.repairs
    /\ projection.sampling => bindings.sampling /\ strategy.sampled

ContextKept(bindings, projection) ==
    LET mine == bindings.context  wanted == projection.context IN
    IF wanted = NoContext THEN mine = NoContext
    ELSE /\ mine # NoContext
         /\ \A key \in {"type", "init", "destroy"} : wanted[key] # "" => mine[key] = wanted[key]
         /\ wanted.lifetime # "unknown" => mine.lifetime = wanted.lifetime

(* Mutant: the order of the opcodes is taken over with the dependencies. *)
StatefulKept_SetOnly(bindings, projection) ==
    /\ ToSet(bindings.opcodes) = ToSet(projection.opcodes)
    /\ bindings.dependencies = projection.dependencies

StatefulKept(bindings, projection) ==
    /\ ToSet(bindings.opcodes) = ToSet(projection.opcodes)
    /\ projection.dependencies # {} => bindings.dependencies = projection.dependencies
    /\ \A d \in projection.dependencies :
          \A i, j \in DOMAIN bindings.opcodes :
             bindings.opcodes[i] = d[1] /\ bindings.opcodes[j] = d[2] => i < j

HelpersKept(bindings, projection) == bindings.helpers \subseteq projection.helpers

(* Without an IR there is no projection, and a plan must declare nothing.   *)
NoProjection == [frame |-> "none"]
NoBindings == [declares |-> "nothing"]

Conforms(bindings, strategy, projection) ==
    IF projection = NoProjection THEN bindings = NoBindings
    ELSE /\ bindings # NoBindings
         /\ FrameKept(bindings, projection)
         /\ LoopKept(bindings, strategy, projection)
         /\ ContextKept(bindings, projection)
         /\ StatefulKept(bindings, projection)
         /\ HelpersKept(bindings, projection)
=============================================================================
