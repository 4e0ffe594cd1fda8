----------------------------- MODULE HarnessPlan -----------------------------
(***************************************************************************)
(* What Stage 4 lets pass: a harness plan for a function triplet, and the  *)
(* harness written from it.  Both go by the names of functions.            *)
(*                                                                         *)
(* A plan is a record of calls, a sequence of names, and cleanup, a        *)
(* sequence of items [name, relation, after]: the relation an item pays    *)
(* for, and the calls it says it comes after.  What else it says, of the   *)
(* input and of arguments, the model can always say as it is asked to.     *)
(*                                                                         *)
(* The entry of a harness is a sequence of calls: the name, the relation   *)
(* whose value is given up, and the positions of the arguments that data   *)
(* reaches, that size reaches, and that are filled, with a function of the *)
(* harness or whatever is not null.                                        *)
(***************************************************************************)
EXTENDS TripletExtraction

CONSTANT Callbacks   \* function types of the headers -> pointers to what they return

ASSUME CallbacksAssumption == \A type \in DOMAIN Callbacks : Callbacks[type] \in Nat

NoRelation == [type |-> "none"]

NameOf(p, id) == Function(p, id).name
MembersOf(p, t) == Names(p, DOMAIN t.roles)
Times(name, s) == Cardinality({i \in DOMAIN s : s[i] = name})

---------------------------------------------------------------------------
(* The structural steps: what has to be called.                             *)

FlowEnds(p, t, name) == {<<e.source, e.target>> : e \in {d \in t.edges : NameOf(p, d.id) = name}}

(* Two functions of the same flow are alternatives if the body of one is    *)
(* nothing but a call of the other; and both release, or neither.           *)
AlternativesOf(p, t) ==
    LET releases(id) == "HPF" \in t.roles[id]
        delegates(f, g) == /\ f.delegates = g.name /\ f.name # g.name
                           /\ FlowEnds(p, t, f.name) = FlowEnds(p, t, g.name) /\ FlowEnds(p, t, f.name) # {}
                           /\ releases(f.id) = releases(g.id)
        pairs == {<<Function(p, i), Function(p, j)>> : i, j \in DOMAIN t.roles}
        first(a) == Min({f.rank : f \in a})
        second(a) == Max({f.rank : f \in a})
    IN  SetToSortSeq({{q[1], q[2]} : q \in {r \in pairs : delegates(r[1], r[2])}},
                     LAMBDA a, b : first(a) < first(b) \/ (first(a) = first(b) /\ second(a) < second(b)))

(* Functions between the same structures are a step each, except that       *)
(* alternatives are one together; a function of no edge is a step.          *)
StepsOf(p, t) ==
    LET apart(names) ==
            LET take(state, pair) ==
                    LET both == {f.name : f \in pair} IN
                    IF both \subseteq state.left
                    THEN [left |-> state.left \ both, steps |-> state.steps \cup {both}] ELSE state
                all == FoldLeft(take, [left |-> names, steps |-> {}], AlternativesOf(p, t))
            IN  all.steps \cup {{name} : name \in all.left}
        flows == UNION {FlowEnds(p, t, name) : name \in MembersOf(p, t)}
    IN  (UNION {apart({name \in MembersOf(p, t) : ends \in FlowEnds(p, t, name)}) : ends \in flows})
        \cup apart({name \in MembersOf(p, t) : FlowEnds(p, t, name) = {}})

Missing(p, t, called) == {step \in StepsOf(p, t) : step \cap called = {}}

---------------------------------------------------------------------------
(* The plan.                                                                *)

Released(p, t) == {NameOf(p, r.cleanup) : r \in t.relations}

(* Mutant: the calls of a plan are compared with a sequence that has the cleanup. *)
PaysFor_Whole(p, plan, item) ==
    LET r == item.relation IN
    /\ item.name = NameOf(p, r.cleanup)
    /\ r.consumers \cup {NameOf(p, r.producer)} \subseteq item.after
    /\ r.sequence # <<>> => SelectSeq(plan.calls, LAMBDA n : n \in ToSet(r.sequence)) = r.sequence

(* What an item that pays for a relation has to say.                        *)
PaysFor(p, plan, item) ==
    LET r == item.relation
        calls == {n \in ToSet(r.sequence) : n # NameOf(p, r.cleanup)}
    IN  /\ item.name = NameOf(p, r.cleanup)
        /\ r.consumers \cup {NameOf(p, r.producer)} \subseteq item.after
        /\ r.sequence # <<>> =>
              SelectSeq(plan.calls, LAMBDA n : n \in calls) = SelectSeq(r.sequence, LAMBDA n : n \in calls)

(* A relation is owed its cleanup by a plan that calls its producer.        *)
Owed(p, t, called) == {r \in t.relations : NameOf(p, r.producer) \in called}

(* A name may come as often as an observed sequence has it, or once for     *)
(* every relation it is the cleanup of.                                     *)
TooOften(p, t, plan) ==
    LET cleanup == [i \in DOMAIN plan.cleanup |-> plan.cleanup[i].name]
        times(name) == Times(name, plan.calls) + Times(name, cleanup)
        observed(name) == \E r \in t.relations : times(name) <= Times(name, r.sequence)
        paying(name) == /\ Times(name, plan.calls) = 0
                        /\ \A i \in DOMAIN cleanup : cleanup[i] = name => plan.cleanup[i].relation # NoRelation
    IN  {name \in ToSet(plan.calls) \cup ToSet(cleanup) :
            times(name) > 1 /\ ~observed(name) /\ ~paying(name)}

PlanAccepted(p, t, plan) ==
    LET items == ToSet(plan.cleanup)
        planned == ToSet(plan.calls) \cup {item.name : item \in items}
        entry == NameOf(p, t.anchor)
    IN  /\ \A item \in items : IF item.relation = NoRelation THEN item.name \notin Released(p, t)
                               ELSE item.relation \in t.relations /\ PaysFor(p, plan, item)
        /\ \A r \in t.relations : Cardinality({i \in DOMAIN plan.cleanup : plan.cleanup[i].relation = r}) <= 1
        /\ Owed(p, t, planned) \subseteq {item.relation : item \in items}
        /\ planned \ MembersOf(p, t) \subseteq {item.name : item \in items} \cap Released(p, t)
        /\ Missing(p, t, planned) = {}
        /\ TooOften(p, t, plan) = {}
        /\ entry \in ToSet(plan.calls) /\ entry \notin {item.name : item \in items}

---------------------------------------------------------------------------
(* The harness.                                                             *)

(* Functions that only release, and the cleanups of the relations.          *)
CleanupNames(p, t) ==
    {NameOf(p, id) : id \in {i \in DOMAIN t.roles \ {t.anchor} :
        /\ "HPF" \in t.roles[i] /\ "PRF" \notin t.roles[i]
        /\ \E e \in t.edges : e.id = i /\ e.target = Null}}
    \cup Released(p, t)

(* What has to be over before a cleanup that no relation asks for: the uses *)
(* of what it releases and of everything made from it, and the cleanups of  *)
(* what was made from it.                                                   *)
Before(p, t, name) ==
    LET own == {e.source : e \in {d \in t.edges : NameOf(p, d.id) = name /\ d.target = Null}}
        derives == {e \in t.edges : e.source # Null /\ e.target # Null}
        reach[n \in 0..Cardinality(t.edges)] ==
            IF n = 0 THEN own
            ELSE LET closer == reach[n - 1] IN closer \cup {e.target : e \in {d \in derives : d.source \in closer}}
        all == reach[Cardinality(t.edges)]
        users(structures) == {NameOf(p, e.id) : e \in {d \in t.edges : d.source \in structures}}
        cleanups == CleanupNames(p, t)
    IN  (users(all) \ cleanups) \cup ((users(all \ own) \cap cleanups) \ {name})

Positions(entry, name) == {i \in DOMAIN entry : entry[i].name = name}

(* One relation: its producer is called once, its value is given up once,   *)
(* after all its uses, and all in the order that was observed.              *)
Honoured(p, plan, entry, r) ==
    LET names == [i \in DOMAIN entry |-> entry[i].name]
        made  == Positions(entry, NameOf(p, r.producer))
        gone  == {i \in Positions(entry, NameOf(p, r.cleanup)) : entry[i].relation = r}
    IN  /\ \E item \in ToSet(plan.cleanup) : item.relation = r
        /\ r.sequence # <<>> => SelectSeq(names, LAMBDA n : n \in ToSet(r.sequence)) = r.sequence
        /\ Cardinality(made) = 1 /\ Cardinality(gone) = 1
        /\ \A i \in made, j \in gone : i < j
        /\ \A n \in r.consumers, j \in gone : \A i \in Positions(entry, n) : i < j

(* Standard output and files, which no harness uses, whoever defines them.  *)
BarredNames ==
    {"fprintf", "perror", "printf", "putchar", "puts", "vfprintf", "vprintf",
     "fopen", "freopen", "fdopen", "fclose", "fread", "fwrite",
     "fseek", "ftell", "fgetpos", "fsetpos", "rewind", "tmpfile"}

(* What Stage 4 takes for a stream; the builder has a list of its own.      *)
TakesData(parameter) ==
    /\ parameter.depth > 0 /\ ~parameter.struct
    /\ parameter.base \in {"void", "char", "unsigned char", "int8_t", "uint8_t"}

(* By its name; one that only the builder knows for a length counts too.    *)
TakesSize(parameter) == parameter.depth = 0 /\ parameter.word = "length"

(* Data goes in, and the size, or a number within the limit of a grammar,   *)
(* if there is a length.                                                    *)
IsFed(f, call) ==
    LET lengths == {i \in DOMAIN f.parameters : TakesSize(f.parameters[i])} IN
    /\ \E i \in call.data : TakesData(f.parameters[i])
    /\ lengths # {} => lengths \cap call.size # {}

(* A function of the harness is taken to return what its type is without    *)
(* the pointers, so that none has the type of a callback that returns one.  *)
(* A table of callbacks may be null, and nothing is asked of it then.       *)
IsBound(f, call) ==
    \A i \in DOMAIN f.parameters :
        LET parameter == f.parameters[i] IN
        /\ parameter.base \in DOMAIN Callbacks => i \in call.filled /\ Callbacks[parameter.base] = 0
        /\ parameter.base = "encodinghandler" /\ parameter.depth > 0 => i \in call.filled

HarnessAccepted(p, t, plan, entry) ==
    LET called == {c.name : c \in ToSet(entry)}
        first == Positions(entry, NameOf(p, t.anchor))
        allowed == {NameOf(p, item.relation.cleanup) :
                        item \in {i \in ToSet(plan.cleanup) : i.relation # NoRelation}}
    IN  /\ called \cap BarredNames = {}
        /\ called \subseteq MembersOf(p, t) \cup allowed
        /\ Missing(p, t, called) = {}
        /\ \E i \in first : IsFed(Function(p, t.anchor), entry[i])
        /\ \A id \in DOMAIN t.roles : \A i \in Positions(entry, NameOf(p, id)) :
              IsBound(Function(p, id), entry[i])
        /\ \A name \in CleanupNames(p, t) : \A i \in Positions(entry, name) : i > Min(first)
        /\ \A name \in CleanupNames(p, t) \ Released(p, t) : \A other \in Before(p, t, name) :
              \A i \in Positions(entry, name), j \in Positions(entry, other) : j <= i
        /\ \A r \in Owed(p, t, called) : Honoured(p, plan, entry, r)
=============================================================================
