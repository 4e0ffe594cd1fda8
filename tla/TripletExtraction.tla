------------------------- MODULE TripletExtraction -------------------------
(***************************************************************************)
(* Function triplets: for every input function of a flow graph, or for     *)
(* every reviewed usage pattern it takes part in, the functions that feed  *)
(* it, follow it and clean up after it.                                    *)
(*                                                                         *)
(* A project p is a record of what the artifact directory holds:           *)
(*   functions   as Ownership has them, a sequence                         *)
(*   labels      [function identity -> roles], the annotations             *)
(*   edges       the flow graph's edges                                    *)
(*   ownership   the ownership relations                                   *)
(*   types       the resource types, in their order                        *)
(*   usage       the reviewed usage patterns                               *)
(***************************************************************************)
EXTENDS FlowGraph, SequencesExt, FiniteSetsExt

NoView == [id |-> {}]

Function(p, id) == CHOOSE f \in ToSet(p.functions) : f.id = id

(* An annotation that is missing has no labels.                             *)
RolesOf(p, id) == IF id \in DOMAIN p.labels THEN p.labels[id] ELSE {}

Entries(p) == {id \in DOMAIN p.labels : "ISF" \in p.labels[id]}

OpaqueTypes(p) ==
    {f.returns : f \in {g \in ToSet(p.functions) : g.returnOpaque}}
    \cup UNION {{f.parameters[i].base : i \in {j \in DOMAIN f.parameters : f.parameters[j].handle}}
                 : f \in ToSet(p.functions)}

---------------------------------------------------------------------------
(* Usage patterns as an entry sees them.                                    *)

(* The function's own signature has the type; a void pointer does not do.   *)
NamesType(f, type) == f.returns = type \/ \E i \in DOMAIN f.parameters : f.parameters[i].base = type

(* The positions of the first occurrences of names, one after the other.    *)
Matched(names, wanted) ==
    LET after(k, name) == {j \in DOMAIN names : j > k /\ names[j] = name}
        at[i \in 0..Len(wanted)] ==
            IF i = 0 THEN 0
            ELSE LET last == at[i - 1]
                     rest == after(last, wanted[i])
                 IN  IF last < 0 \/ rest = {} THEN -1 ELSE Min(rest)
    IN  [i \in DOMAIN wanted |-> at[i]]

Middle(s) == SubSeq(s, 2, Len(s) - 1)

(* A group of patterns becomes one, with the calls the review requires, cut *)
(* from the first member that has them all.                                 *)
View(members) ==
    LET least(S) == CHOOSE u \in S : \A w \in S : u.pattern.id <= w.pattern.id
        required == least(members).review.required
        fitting  == {u \in members : -1 \notin ToSet(Matched(Middle(u.pattern.sequence), Middle(required)))}
        chosen   == least(fitting).pattern
        kept     == Matched(Middle(chosen.sequence), Middle(required))
    IN  [chosen EXCEPT
            !.id = least(members).members,
            !.sequence = required,
            !.consumers = [i \in DOMAIN kept |-> chosen.consumers[kept[i]]],
            !.consumersAt = [i \in DOMAIN kept |-> chosen.consumersAt[kept[i]]],
            !.support = least(members).support]

(* The patterns an entry consumes, unless the review rejected them.         *)
ConsumedBy(p, anchor) ==
    {u \in p.usage :
        /\ anchor \in ToSet(u.pattern.consumers)
        /\ u.review.status # "rejected"
        /\ NamesType(Function(p, anchor), u.pattern.type)}

ViewsOf(p, anchor) ==
    {View({w \in ConsumedBy(p, anchor) : w.members = u.members}) : u \in ConsumedBy(p, anchor)}

---------------------------------------------------------------------------
(* The part of the graph an entry reaches.                                  *)

(* Edges of other entries are not walked.  What else those are they may be, *)
(* within what the entry reaches by itself.                                 *)
Rivals(p, anchor) == Entries(p) \ {anchor}

(* Mutant: other entries are walked for the helpers they may be besides. *)
Walkable_Rivals(p, anchor) ==
    {[e EXCEPT !.labels = IF e.id = anchor THEN @ ELSE @ \ {"ISF"}] : e \in p.edges}

Walkable(p, anchor) == {e \in p.edges : e.id \notin Rivals(p, anchor)}

Masked(p, anchor) ==
    {[e EXCEPT !.labels = @ \ {"ISF"}] :
        e \in {d \in p.edges : d.id \in Rivals(p, anchor) /\ d.labels # {"ISF"}}}

SameShape(f, g) ==
    /\ f.name = g.name /\ f.returns = g.returns /\ f.depth = g.depth
    /\ Len(f.parameters) = Len(g.parameters)
    /\ \A i \in DOMAIN f.parameters :
          /\ f.parameters[i].base = g.parameters[i].base
          /\ f.parameters[i].depth = g.parameters[i].depth
          /\ f.parameters[i].const = g.parameters[i].const

(* The relation with a selected function for its producer, the recorded one *)
(* or one of the same shape.                                                *)
ForSelected(p, relation, ids) ==
    LET same == {id \in ids : SameShape(Function(p, id), Function(p, relation.producer))}
    IN  IF relation.producer \in ids \/ same = {} THEN relation
        ELSE [relation EXCEPT !.producer = CHOOSE id \in same :
                 \A other \in same : Function(p, id).rank <= Function(p, other).rank]

MakesOwned(p, id) == \E r \in p.ownership : ForSelected(p, r, {id}).producer = id

(* Nodes and edges of the entry.  One that makes a resource from nothing    *)
(* does not drag in everything else that uses the resource.                 *)
Reached(p, anchor, view) ==
    LET walk  == Walkable(p, anchor)
        own   == {e \in walk : e.id = anchor}
        stops == OpaqueTypes(p) \cup (IF view = NoView THEN {} ELSE {view.type})
        ends  == Nodes(own)
        alone == MakesOwned(p, anchor) /\ \E e \in own : e.source = Null /\ e.target # Null
        nodes == ends \cup UNION {ReachableWithoutCrossing(walk, e.source, TRUE, stops)
                                  \cup ReachableWithoutCrossing(walk, e.target, FALSE, stops) : e \in own}
        within(e) == {e.source, e.target} \subseteq nodes
        free(e) == {e.source, e.target} \cap stops = {}
    IN  IF alone THEN [nodes |-> ends, edges |-> own]
        ELSE [nodes |-> nodes,
              edges |-> {e \in walk : within(e) /\ (e.id = anchor \/ free(e))}
                        \cup {e \in Masked(p, anchor) : within(e) /\ free(e)}]

---------------------------------------------------------------------------
(* Lifecycles.                                                              *)

LifecycleEdge(id, source, target, labels) ==
    [id |-> id, source |-> source, target |-> target, labels |-> labels]

(* Edges of the same function with the same ends are one.                   *)
Merged(edges) ==
    LET alike(e) == {d \in edges : d.id = e.id /\ d.source = e.source /\ d.target = e.target}
    IN  {LifecycleEdge(e.id, e.source, e.target, UNION {d.labels : d \in alike(e)}) : e \in edges}

Touching(edges, type) == {e \in edges : type \in {e.source, e.target}}

(* Mutant: another entry stays one when it is a consumer. *)
UsageClosure_KeepsEntries(p, view, anchor) ==
    LET consumers == ToSet(view.consumers)
        ids == {view.producer, view.cleanup} \cup consumers
        role(id) == IF id \in consumers \ {anchor} THEN RolesOf(p, id) \cup {"PRF"}
                    ELSE IF id = view.cleanup THEN {"HPF"}
                    ELSE IF id = view.producer THEN {"PRF", "HPF"} ELSE {}
    IN  [roles |-> [id \in ids |-> role(id)], types |-> {view.type},
         edges |-> {LifecycleEdge(id, Null, view.type, role(id)) : id \in ids}]

(* Exactly the functions of one view, whatever else handles its type.       *)
UsageClosure(p, view, anchor) ==
    LET consumers == ToSet(view.consumers)
        ids == {view.producer, view.cleanup} \cup consumers
        role(id) == IF id \in consumers \ {anchor} THEN (RolesOf(p, id) \ {"ISF"}) \cup {"PRF"}
                    ELSE IF id = view.cleanup THEN {"HPF"}
                    ELSE IF id = view.producer THEN {"PRF", "HPF"} ELSE {}
        known == {[e EXCEPT !.labels = @ \cup role(e.id)] :
                    e \in {d \in Touching(p.edges, view.type) : d.id \in ids}}
        bare == ids \ {e.id : e \in known}
    IN  [roles |-> [id \in ids |-> role(id)], types |-> {view.type},
         edges |-> known
            \cup {LifecycleEdge(id, Null, view.type, role(id)) : id \in bare \cap {view.producer}}
            \cup {LifecycleEdge(id, view.type, Null, IF id = anchor THEN {"ISF"} ELSE role(id)) :
                    id \in bare \cap consumers}
            \cup {LifecycleEdge(view.cleanup, view.type, Null, role(view.cleanup)) :
                    id \in bare \cap {view.cleanup}}]

(* Functions that take the opaque handle.                                   *)
HandledBy(p, ids, type) ==
    {id \in ids : \E i \in DOMAIN Function(p, id).parameters :
        LET parameter == Function(p, id).parameters[i] IN
        parameter.handle /\ parameter.depth > 0 /\ parameter.base = type}

(* The relation a type is closed with: a selected producer before others,   *)
(* then confidence, then few parameters.                                    *)
ClosingRelation(p, candidates, ids) ==
    LET chosen == {r \in candidates : r.producer \in ids}
        pool == IF chosen = {} THEN candidates ELSE chosen
        before(r, s) ==
            LET f == Function(p, r.producer)  g == Function(p, s.producer) IN
            \/ r.confidence > s.confidence
            \/ r.confidence = s.confidence /\ Len(f.parameters) < Len(g.parameters)
            \/ r.confidence = s.confidence /\ Len(f.parameters) = Len(g.parameters)
               /\ f.rank <= g.rank
    IN  CHOOSE r \in pool : \A s \in pool : before(r, s)

(* One producer and one cleanup for every type that needs them.  An edge is *)
(* added for a function only if it has none yet, of whatever type.          *)
ClosedWith(p, closure, type, r, users) ==
    LET all == users \cup {r.producer, r.cleanup}
        roles == [id \in DOMAIN closure.roles \cup {r.producer, r.cleanup} |->
                    IF id = r.cleanup THEN {"HPF"}
                    ELSE IF id = r.producer THEN {"PRF", "HPF"} ELSE closure.roles[id]]
        role(id) == IF id \in DOMAIN roles THEN roles[id] ELSE {}
        known == closure.edges \cup
                 {[e EXCEPT !.labels = @ \cup role(e.id)] : e \in {d \in Touching(p.edges, type) : d.id \in all}}
        bare == all \ {e.id : e \in known}
    IN  [roles |-> roles, types |-> closure.types \cup {type},
         edges |-> known
            \cup {LifecycleEdge(id, Null, type, roles[id]) : id \in bare \cap {r.producer}}
            \cup {LifecycleEdge(id, type, Null, roles[id]) : id \in bare \cap {r.cleanup}}
            \cup {LifecycleEdge(id, type, Null, RolesOf(p, id)) : id \in bare \ {r.producer, r.cleanup}}]

Close(p, ids, closure, type, candidates) ==
    IF candidates = {} THEN closure
    ELSE ClosedWith(p, closure, type, ClosingRelation(p, candidates, ids),
                    HandledBy(p, ids, type) \cup {r.producer : r \in {s \in candidates : s.producer \in ids}})

OpaqueClosure(p, ids) ==
    LET candidates(type) ==
            {r \in {ForSelected(p, s, ids) : s \in p.ownership} :
                r.confidence >= 80 /\ r.type = type
                /\ (HandledBy(p, ids, type) # {} \/ r.producer \in ids)}
    IN  FoldLeft(LAMBDA closure, type : Close(p, ids, closure, type, candidates(type)),
                 [roles |-> <<>>, types |-> {}, edges |-> {}], p.types)

---------------------------------------------------------------------------
(* The triplet.                                                             *)

Names(p, ids) == {Function(p, id).name : id \in ids}

UsageRelation(view) ==
    [producer |-> view.producer, type |-> view.type, cleanup |-> view.cleanup,
     sequence |-> view.sequence, consumers |-> ToSet(Middle(view.sequence))]

(* Without a view, the recorded relations whose producer is in the triplet, *)
(* with every function of it that takes the resource and releases nothing.  *)
DeclaredRelations(p, roles) ==
    LET uses(r) == {id \in DOMAIN roles \ {r.producer, r.cleanup} :
                      /\ "HPF" \notin roles[id]
                      /\ \E i \in DOMAIN Function(p, id).parameters :
                            LET parameter == Function(p, id).parameters[i] IN
                            parameter.base = r.type /\ parameter.depth > 0}
    IN  {[producer |-> r.producer, type |-> r.type, cleanup |-> r.cleanup,
          sequence |-> <<>>, consumers |-> Names(p, uses(r))] :
            r \in {s \in p.ownership : s.producer \in DOMAIN roles}}

Selected(anchor, reached) == {anchor} \cup {e.id : e \in reached.edges}

RolesWith(p, anchor, reached, closure) ==
    LET first(id) == (IF id = anchor THEN p.labels[anchor] ELSE {})
                     \cup UNION {e.labels : e \in {d \in reached.edges : d.id = id}}
        added(id) == IF id \in DOMAIN closure.roles THEN closure.roles[id] ELSE {}
    IN  [id \in Selected(anchor, reached) \cup DOMAIN closure.roles |-> first(id) \cup added(id)]

TripletWith(p, anchor, view, reached, closure, roles) ==
    [anchor |-> anchor, view |-> view, roles |-> roles,
     structures |-> (reached.nodes \cup closure.types) \ {Null},
     edges |-> Merged(reached.edges \cup closure.edges),
     relations |-> IF view = NoView THEN DeclaredRelations(p, roles) ELSE {UsageRelation(view)}]

ClosedTriplet(p, anchor, view, reached, closure) ==
    TripletWith(p, anchor, view, reached, closure, RolesWith(p, anchor, reached, closure))

TripletFrom(p, anchor, view, reached) ==
    ClosedTriplet(p, anchor, view, reached,
        IF view = NoView THEN OpaqueClosure(p, Selected(anchor, reached)) ELSE UsageClosure(p, view, anchor))

Triplet(p, anchor, view) == TripletFrom(p, anchor, view, Reached(p, anchor, view))

(* What the constructor insists on; anything else ends the extraction.      *)
WellFormed(p, t) ==
    LET ids == DOMAIN t.roles IN
    /\ {id \in ids : "ISF" \in t.roles[id]} = {t.anchor}
    /\ \A e \in t.edges : e.id \in ids
    /\ \A r \in t.relations :
          /\ r.producer \in ids
          /\ r.consumers \subseteq Names(p, ids)
          /\ r.sequence # <<>> =>
                /\ Head(r.sequence) = Function(p, r.producer).name
                /\ Last(r.sequence) = Function(p, r.cleanup).name

(* Triplets are told apart by the entry's file, name and signature and by   *)
(* the view, not by the entry's identity.                                   *)
TripletId(p, t) ==
    LET f == Function(p, t.anchor) IN <<f.file, f.name, f.returns, f.parameters, t.view.id>>
=============================================================================
