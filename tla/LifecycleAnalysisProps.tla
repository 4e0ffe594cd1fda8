----------------------- MODULE LifecycleAnalysisProps -----------------------
(* What the triplets promise, whatever the model answered about the usage   *)
(* patterns and about the functions.                                        *)
EXTENDS LifecycleAnalysis, HarnessPlan

(* The variables hold values of the kinds the code gives them.              *)
StateTyped ==
    /\ stage \in {"review", "extract", "done"}
    /\ ending \in {"none", "written", "failed"}
    /\ DOMAIN reviews \subseteq {u.id : u \in Patterns}
    /\ calls \in 0..Budget
    /\ \A t \in triplets : t.anchor \in DOMAIN annotation

(* However often the model fails to answer, a batch of n patterns costs at  *)
(* most 2n - 1 requests, and n for every repetition allowed: every failure  *)
(* halves a batch or uses up a repetition.  (review_batch.)                 *)
Worst(request) ==
    IF Len(request.batch) = 1 THEN request.retries + 1
    ELSE (2 + Retries) * Len(request.batch) - 1

WorstOf(requests) == FoldLeft(+, 0, [i \in DOMAIN requests |-> Worst(requests[i])])

RequestsBounded == calls + WorstOf(pending) <= WorstOf(Batches(Patterns))

(* The state has its types, and the requests of the review are bounded.     *)
ReviewInv == StateTyped /\ RequestsBounded

(* Two entries of one file, name and signature.                             *)
Twins(p) ==
    \E a, b \in Entries(p) :
       /\ a # b
       /\ LET f == Function(p, a)  g == Function(p, b) IN
          <<f.file, f.name, f.returns, f.parameters>> = <<g.file, g.name, g.returns, g.parameters>>

(* Only twins make the extraction fail: no triplet it builds is refused by  *)
(* the constructor, and every entry is in a triplet of its own for every    *)
(* view or is excluded for its size.  One refusal would lose all triplets.  *)
(* (FunctionTripletExtractor.extract, FunctionTriplet.__post_init__,        *)
(* triplets_document.)                                                      *)
EveryEntryDescribed ==
    /\ ending = "failed" => Twins(artifacts)
    /\ ending = "written" =>
          \A anchor \in Entries(artifacts) : \A view \in Variants(anchor) :
             \/ <<anchor, view.id>> \in excluded
             \/ \E t \in triplets : t.anchor = anchor /\ t.view = view

(* A triplet of a view has the lifecycle that was observed, as the review   *)
(* lets it be shortened: the entry uses the resource between the producer   *)
(* and the cleanup, every function of the sequence is in the triplet with   *)
(* an edge on the resource, and every member of the group was seen to make  *)
(* at least these calls in this order.                                      *)
(* (_semantic_pattern_view, _usage_lifecycle_closure, IsSafe.)              *)
ViewIsObserved ==
    \A t \in triplets : t.view # NoView =>
        LET anchorName == Function(artifacts, t.anchor).name
            used == {t.view.producer, t.view.cleanup} \cup ToSet(t.view.consumers)
        IN  /\ t.anchor \in ToSet(t.view.consumers)
            /\ anchorName \in ToSet(Middle(t.view.sequence))
            /\ Len(Middle(t.view.sequence)) = Len(t.view.consumers)
            /\ \A id \in used : \E e \in t.edges : e.id = id /\ t.view.type \in {e.source, e.target}
            /\ \A q \in {m \in Patterns : m.id \in t.view.id} :
                  /\ IsSubsequenceOf(t.view.sequence, q.sequence)
                  /\ StaticFacts(q) = StaticFacts(t.view)

(* The resources a triplet does not look behind: those handed around by     *)
(* handles, and that of its view.                                           *)
StopsOf(p, t) == OpaqueTypes(p) \cup (IF t.view = NoView THEN {} ELSE {t.view.type})

(* The resources made by one of its functions, or by one that looks like it.*)
MadeWithin(p, t) ==
    {r.type : r \in {s \in p.ownership : \E id \in DOMAIN t.roles :
                        SameShape(Function(p, id), Function(p, s.producer))}}

(* The edges by which one structure hangs together with another: those of   *)
(* no other entry and of no resource that stops a walk.                     *)
LinksOf(p, t) ==
    {e \in t.edges : e.id \notin Rivals(p, t.anchor) /\ {e.source, e.target} \cap StopsOf(p, t) = {}}

(* Everything a triplet has that is not part of a lifecycle hangs together  *)
(* with its entry by functions that are no entries themselves: what is      *)
(* closed under the links and has the entry's own structures has all the    *)
(* others.  An edge of another entry never leads anywhere, and no resource  *)
(* that is handed around by handles does.  (_role_aware_graph,              *)
(* _reachable_without_crossing.)                                            *)
OnlyThroughAnchor ==
    \A t \in triplets :
        \A S \in SUBSET t.structures :
            /\ Nodes({e \in t.edges : e.id = t.anchor}) \cap t.structures \subseteq S
            /\ \A e \in LinksOf(artifacts, t) :
                  {e.source, e.target} \subseteq t.structures => (e.source \in S <=> e.target \in S)
            => t.structures \subseteq S \cup StopsOf(artifacts, t) \cup MadeWithin(artifacts, t)

(* The ways to call a triplet: the functions called, one for every step,    *)
(* each as often as it was observed, and the cleanups they are owed, with   *)
(* the input wherever it fits and nothing null.                             *)
CallsFor(p, t, called) ==
    LET owed == Owed(p, t, called)
        paid == {NameOf(p, r.cleanup) : r \in owed}
        often(name) == Max({1} \cup {Times(name, r.sequence) : r \in t.relations})
        taking(name) == (CHOOSE f \in ToSet(p.functions) : f.name = name).parameters
        call(name, relation, k) ==
            [name |-> name, relation |-> relation, nth |-> k, filled |-> DOMAIN taking(name),
             data |-> {i \in DOMAIN taking(name) : TakesData(taking(name)[i])},
             size |-> {i \in DOMAIN taking(name) : TakesSize(taking(name)[i])}]
    IN  (UNION {{call(name, NoRelation, k) : k \in 1..often(name)} : name \in called \ paid})
        \cup {call(NameOf(p, r.cleanup), r, 1) : r \in owed}

Orders(wanted) ==
    LET orders[S \in SUBSET wanted] ==
            IF S = {} THEN {<<>>} ELSE UNION {{Append(s, c) : s \in orders[S \ {c}]} : c \in S}
    IN  orders[wanted]

(* The plan a harness follows.                                              *)
PlanOf(entry) ==
    LET pays(i) == entry[i].relation # NoRelation
        paying == SetToSortSeq({i \in DOMAIN entry : pays(i)}, <)
        plain == SetToSortSeq({i \in DOMAIN entry : ~pays(i)}, <)
    IN  [calls |-> [k \in DOMAIN plain |-> entry[plain[k]].name],
         cleanup |-> [k \in DOMAIN paying |->
            [name |-> entry[paying[k]].name, relation |-> entry[paying[k]].relation,
             after |-> {entry[i].name : i \in 1..(paying[k] - 1)}]]]

CanBeHarnessed(p, t) ==
    \E called \in SUBSET MembersOf(p, t) :
        /\ Missing(p, t, called) = {}
        /\ \E entry \in Orders(CallsFor(p, t, called)) :
              PlanAccepted(p, t, PlanOf(entry)) /\ HarnessAccepted(p, t, PlanOf(entry), entry)

(* Two ways for the rules of Stage 4 to contradict each other: a producer   *)
(* must be called as often as was observed and only once, and of two        *)
(* cleanups each must come before the other.  Two ways for Stage 4 to       *)
(* contradict the stages before it: the input of the entry has a type it    *)
(* does not know, as signed char, and every way to call the triplet needs a *)
(* function it never lets a harness call.                                   *)
MakesMany(p, t) == \E r \in t.relations : Times(NameOf(p, r.producer), r.sequence) > 1

CleanupsBlocked(p, t) ==
    \E a, b \in CleanupNames(p, t) \ Released(p, t) : a \in Before(p, t, b) /\ b \in Before(p, t, a)

NoInput(p, t) ==
    ~\E i \in DOMAIN Function(p, t.anchor).parameters : TakesData(Function(p, t.anchor).parameters[i])

Uncallable(p, t) ==
    BarredNames \cup
    {NameOf(p, id) : id \in {k \in DOMAIN t.roles :
        \E i \in DOMAIN Function(p, k).parameters :
            LET type == Function(p, k).parameters[i].base IN type \in DOMAIN Callbacks /\ Callbacks[type] > 0}}

NeedsUncallable(p, t) ==
    \A called \in SUBSET MembersOf(p, t) :
        Missing(p, t, called) = {} /\ NameOf(p, t.anchor) \in called =>
            (called \cup {NameOf(p, r.cleanup) : r \in Owed(p, t, called)}) \cap Uncallable(p, t) # {}

(* For every triplet there are a plan and a harness that Stage 4 accepts,   *)
(* but for these four cases.  Where there are none all requests for it are   *)
(* in vain.  (parse_harness_plan, _validate_harness.)                       *)
OnlyKnownContradictions ==
    ending = "written" =>
        \A t \in triplets :
            CanBeHarnessed(artifacts, t) <=>
                /\ ~MakesMany(artifacts, t) /\ ~CleanupsBlocked(artifacts, t)
                /\ ~NoInput(artifacts, t) /\ ~NeedsUncallable(artifacts, t)

(* "Extract one FT per unique ISF anchor" (FunctionTripletExtractor): a     *)
(* document is written, in which every entry has a triplet unless it was    *)
(* left out for its size.                                                   *)
OnePerEntry ==
    stage = "done" =>
        /\ ending = "written"
        /\ \A anchor \in Entries(artifacts) :
              (\E t \in triplets : t.anchor = anchor) \/ (\E x \in excluded : x[1] = anchor)
=============================================================================
