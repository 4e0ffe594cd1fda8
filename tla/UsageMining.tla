---------------------------- MODULE UsageMining ----------------------------
(***************************************************************************)
(* Lifecycles read off the calls of the project's own functions: a value   *)
(* one call makes, the calls that use it, and one that gives it up.        *)
(*                                                                         *)
(* A function body is the sequence of its calls of known functions.  An    *)
(* argument counts by the variables in it and by whether it is an address, *)
(* a condition around a call by its shape and the variables in it.         *)
(***************************************************************************)
EXTENDS Integers, Sequences, SequencesExt

NoVariable == "none"

(* call.arguments[i] = [variables, address]                                 *)
(* call.conditions[i] = [variables, shape, guards, error]                   *)

(* The definition a caller sees under a name: one in its own file, else one *)
(* with external linkage, else any definition, else a declaration.          *)
Visible(functions, caller, name) ==
    LET named   == {f \in functions : f.name = name}
        defined == {f \in named : f.defined}
        sameFile == {f \in defined : f.file = caller.file}
        external == {f \in defined : ~f.static}
        pool == IF sameFile # {} THEN sameFile
                ELSE IF external # {} THEN external
                ELSE IF defined # {} THEN defined ELSE named
    IN  CHOOSE f \in pool : \A g \in pool : f.rank <= g.rank

(***************************************************************************)
(* Which argument of a call makes a value.                                 *)
(***************************************************************************)
IsOutProducer(f, i) ==
    /\ i \in DOMAIN f.parameters
    /\ LET p == f.parameters[i] IN
       \/ p.depth >= 2
       \/ /\ p.depth = 1 /\ f.constructs
          /\ p.writes \/ f.returns # "void"

MakesByAddress(call, i) ==
    /\ i \in DOMAIN call.f.parameters /\ call.arguments[i].address
    /\ IsOutProducer(call.f, i)

(* A made value: its variable, its type, and the argument it comes out of,  *)
(* 0 for the returned one.                                                  *)
Made(call) ==
    (IF /\ call.result # NoVariable
        /\ call.f.depth > 0 \/ call.f.returnStruct \/ call.f.returnOpaque
     THEN {<<call.result, call.f.returns, 0>>} ELSE {})
    \cup {<<CHOOSE v \in call.arguments[i].variables : TRUE, call.f.parameters[i].base, i>> :
            i \in {j \in DOMAIN call.arguments :
                      MakesByAddress(call, j) /\ Cardinality(call.arguments[j].variables) = 1}}

(* A call after which the variable holds another value.                     *)
Redefines(call, v) ==
    \/ call.result = v
    \/ \E i \in DOMAIN call.arguments :
          v \in call.arguments[i].variables /\ MakesByAddress(call, i)

UntilRedefined(calls, v) ==
    LET cut == {k \in DOMAIN calls : Redefines(calls[k], v)} IN
    IF cut = {} THEN calls
    ELSE SubSeq(calls, 1, (CHOOSE k \in cut : \A j \in cut : k <= j) - 1)

(* The uses of a variable: the call and the argument it is in.              *)
Uses(calls, v) ==
    FlattenSeq([k \in DOMAIN calls |->
        FlattenSeq([i \in DOMAIN calls[k].arguments |->
            IF v \in calls[k].arguments[i].variables THEN <<<<k, i>>>> ELSE <<>>])])

IsCleanup(call) == call.f.releases /\ call.f.returns = "void"

---------------------------------------------------------------------------
(* Patterns.                                                                *)

PathKind(call) ==
    IF call.conditions = <<>> THEN "normal"
    ELSE IF call.exits \/ \E i \in DOMAIN call.conditions : call.conditions[i].error
    THEN "error" ELSE "conditional"

(* Conditions are compared by their shape and by where the value occurs.    *)
Normalized(conditions, v) ==
    [i \in DOMAIN conditions |->
        <<conditions[i].shape, v \in conditions[i].variables>>]

IsNullable(conditions, v) == \E i \in DOMAIN conditions : v \in conditions[i].guards

(* The patterns of one value, not yet numbered or counted: one for every    *)
(* cleaning use it reaches, with the uses before it that are not cleanups   *)
(* themselves.  A retained value ends only where a reference is dropped.    *)
PatternsOf(producer, kind, type, binding, at, v, rest) ==
    LET calls == UntilRedefined(rest, v)
        uses  == Uses(calls, v)
        pattern(n) ==
            LET end    == calls[uses[n][1]]
                before == FlattenSeq([m \in 1..(n - 1) |->
                              IF IsCleanup(calls[uses[m][1]]) THEN <<>> ELSE <<uses[m]>>])
            IN  [id |-> 0, support |-> 0, kind |-> kind, type |-> type,
                 producer |-> producer.f.id, binding |-> binding, producerAt |-> at,
                 consumers |-> [k \in DOMAIN before |-> calls[before[k][1]].f.id],
                 consumersAt |-> [k \in DOMAIN before |-> before[k][2]],
                 cleanup |-> end.f.id, cleanupAt |-> uses[n][2],
                 cleanupHow |-> IF kind = "owned_resource" /\ end.arguments[uses[n][2]].address
                                THEN "address_of_resource" ELSE "resource",
                 sequence |-> <<producer.f.name>>
                              \o [k \in DOMAIN before |-> calls[before[k][1]].f.name]
                              \o <<end.f.name>>,
                 conditions |-> Normalized(end.conditions, v), path |-> PathKind(end),
                 nullable |-> IsNullable(end.conditions, v)]
    IN  {<<n, pattern(n)>> : n \in {m \in DOMAIN uses :
                                /\ IsCleanup(calls[uses[m][1]])
                                /\ kind = "reference_count" => calls[uses[m][1]].f.unrefs}}

(* A value made by a call, returned or through an address.                  *)
OwnedPatterns(calls, k) ==
    UNION {PatternsOf(calls[k], "owned_resource", made[2],
                      IF made[3] = 0 THEN "return_value" ELSE "out_parameter", made[3],
                      made[1], SubSeq(calls, k + 1, Len(calls)))
            : made \in Made(calls[k])}

(* A value retained, up to where its reference is dropped.                  *)
RetainedPatterns(calls, k) ==
    IF ~calls[k].f.retains THEN {}
    ELSE UNION {
        PatternsOf(calls[k], "reference_count",
                   IF i \in DOMAIN calls[k].f.parameters THEN calls[k].f.parameters[i].base
                   ELSE "unknown",
                   "existing_argument", i, CHOOSE v \in calls[k].arguments[i].variables : TRUE,
                   SubSeq(calls, k + 1, Len(calls)))
            : i \in {j \in DOMAIN calls[k].arguments : Cardinality(calls[k].arguments[j].variables) = 1}}

(* A body with its names resolved.                                          *)
Resolved(functions, body) ==
    [k \in DOMAIN body.calls |->
        LET call == body.calls[k] IN
        [f |-> Visible(functions, body.caller, call.name), result |-> call.result,
         arguments |-> call.arguments, conditions |-> call.conditions, exits |-> call.exits]]

(* What one body shows: the producing call, the cleaning use, the pattern.  *)
Observations(calls) ==
    UNION {{<<k, o[1], o[2]>> : o \in OwnedPatterns(calls, k) \cup RetainedPatterns(calls, k)}
            : k \in DOMAIN calls}

(* Equal patterns of all callers are one, supported by each observation;    *)
(* their number stands for the digest that orders them.                     *)
MinedPatterns(functions, bodies) ==
    LET observed == UNION {{<<b, o[1], o[2], o[3]>> : o \in Observations(Resolved(functions, bodies[b]))}
                            : b \in DOMAIN bodies}
        patterns == SetToSeq({o[4] : o \in observed})
    IN  {[patterns[n] EXCEPT !.id = n, !.support = Cardinality({o \in observed : o[4] = patterns[n]})] :
            n \in DOMAIN patterns}
=============================================================================
