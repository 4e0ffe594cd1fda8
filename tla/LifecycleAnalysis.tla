------------------------- MODULE LifecycleAnalysis -------------------------
(***************************************************************************)
(* From the parsed functions of a project to its function triplets: usage  *)
(* patterns are mined and reviewed and ownership is derived while the flow *)
(* graph is built; the extraction then reads all of it and makes triplets, *)
(* entry by entry.                                                         *)
(***************************************************************************)
EXTENDS UsageMining, Ownership, TripletExtraction, UsageReview

CONSTANTS
    Projects,    \* sequence of [functions, bodies, types, annotations]
    Options,     \* command lines of the extraction: [minimal, limit]
    Budget       \* requests the review may make

ASSUME LifecycleAnalysisAssumption ==
    /\ \A o \in Options : o.limit \in Nat \ {0}
    /\ Budget \in Nat

(* A project is parsed into finitely many functions, each with an identity  *)
(* of its own and its rank in the order of identities.  Bodies are made of  *)
(* calls of functions of the project, and only those are annotated.         *)
ASSUME ProjectsAssumption ==
    \A i \in DOMAIN Projects :
       LET functions == Projects[i].functions
           bodies == Projects[i].bodies
       IN  /\ functions \in Seq(ToSet(functions))
           /\ \A j, k \in DOMAIN functions :
                 functions[j].id = functions[k].id \/ functions[j].rank = functions[k].rank => j = k
           /\ \A f \in ToSet(functions) :
                 /\ f.rank \in Nat /\ f.maker \in Nat /\ f.ender \in Nat
                 /\ f.parameters \in Seq(ToSet(f.parameters))
           /\ Projects[i].types \in Seq(ToSet(Projects[i].types))
           /\ bodies \in Seq(ToSet(bodies))
           /\ \A body \in ToSet(bodies) :
                 /\ body.calls \in Seq(ToSet(body.calls))
                 /\ \A call \in ToSet(body.calls) :
                       /\ call.name \in {f.name : f \in ToSet(functions)}
                       /\ call.arguments \in Seq(ToSet(call.arguments))
           /\ \A a \in Projects[i].annotations : DOMAIN a \subseteq {f.id : f \in ToSet(functions)}

VARIABLES
    project,     \* index of the project
    annotation,  \* what the language model says of its functions
    artifacts,   \* the artifact directory, once the build is complete
    options,     \* the command line of the extraction
    stage,       \* "review", "extract" or "done"
    entries,     \* entries still to extract, in their order
    triplets,    \* triplets so far
    excluded,    \* variants left out for their size
    ending      \* "none", "written" or "failed"

inputVars == <<project, annotation>>
lifecycleVars == <<inputVars, artifacts, options, stage, entries, triplets, excluded, ending, reviewVars, calls>>

(* What follows from the sources alone.                                     *)
MinedIn ==
    [i \in DOMAIN Projects |-> MinedPatterns(ToSet(Projects[i].functions), Projects[i].bodies)]

OwnedIn ==
    [i \in DOMAIN Projects |-> OwnershipRelations(Projects[i].functions, ToSet(Projects[i].types))]

NoArtifacts == [labels |-> <<>>]

Source == Projects[project]
Patterns == MinedIn[project]

RolesIn(a) == [id \in DOMAIN a |-> a[id].labels]

(* The artifact directory, as the build writes it and the extraction loads  *)
(* it.                                                                      *)
Built ==
    [functions |-> Source.functions, labels |-> RolesIn(annotation), types |-> Source.types,
     edges |-> Edges({Flow(f, annotation[f.id]) :
                         f \in {g \in ToSet(Source.functions) : g.id \in DOMAIN annotation}}),
     ownership |-> OwnedIn[project], usage |-> Reviewed(Patterns)]

(* The entries of a directory, in the order of their identities.            *)
Sorted(p) ==
    LET ranks == InOrder({Function(p, id).rank : id \in Entries(p)})
    IN  [k \in DOMAIN ranks |-> CHOOSE id \in Entries(p) : Function(p, id).rank = ranks[k]]

(* The names of input functions, which the review must not drop.            *)
EntryNames ==
    {f.name : f \in {g \in ToSet(Source.functions) :
                        g.id \in DOMAIN annotation /\ "ISF" \in annotation[g.id].labels}}

---------------------------------------------------------------------------
LifecycleInit ==
    /\ project \in DOMAIN Projects
    /\ annotation \in Projects[project].annotations
    /\ artifacts = NoArtifacts
    /\ options = CHOOSE o \in Options : TRUE
    /\ stage = "review" /\ ending = "none"
    /\ pending = Batches(MinedIn[project]) /\ reviews = NoReviews /\ calls = 0
    /\ entries = <<>> /\ triplets = {} /\ excluded = {}

ReviewPatterns ==
    /\ stage = "review"
    /\ ReviewAnswered(Patterns, EntryNames, Budget) \/ ReviewFailed(Patterns, Budget)
    /\ UNCHANGED <<inputVars, artifacts, options, stage, entries, triplets, excluded, ending>>

(* The build is complete, and somebody starts the extraction.               *)
Load ==
    /\ stage = "review" /\ pending = <<>>
    /\ stage' = "extract" /\ options' \in Options
    /\ artifacts' = Built
    /\ entries' = Sorted(artifacts')
    /\ UNCHANGED <<inputVars, triplets, excluded, ending, reviewVars, calls>>

(* The variants of an entry: one for every view of it, or one without.      *)
Variants(anchor) ==
    LET views == IF options.minimal THEN {} ELSE ViewsOf(artifacts, anchor) IN
    IF views = {} THEN {NoView} ELSE views

Take(all, fitting) ==
    IF \E t \in fitting : ~WellFormed(artifacts, t)
    THEN /\ stage' = "done" /\ ending' = "failed"
         /\ UNCHANGED <<entries, triplets, excluded>>
    ELSE /\ triplets' = triplets \cup fitting
         /\ excluded' = excluded \cup {<<t.anchor, t.view.id>> : t \in all \ fitting}
         /\ entries' = Tail(entries)
         /\ UNCHANGED <<stage, ending>>

Fitting(all) == {t \in all : Cardinality(DOMAIN t.roles) <= options.limit}

Extract ==
    /\ stage = "extract" /\ entries # <<>>
    /\ \E all \in {{Triplet(artifacts, Head(entries), view) : view \in Variants(Head(entries))}} :
          Take(all, Fitting(all))
    /\ UNCHANGED <<inputVars, artifacts, options, reviewVars, calls>>

(* Two triplets with one identity are no document.                          *)
Write ==
    /\ stage = "extract" /\ entries = <<>>
    /\ stage' = "done"
    /\ ending' = IF \E t, u \in triplets : t # u /\ TripletId(artifacts, t) = TripletId(artifacts, u)
                  THEN "failed" ELSE "written"
    /\ UNCHANGED <<inputVars, artifacts, options, entries, triplets, excluded, reviewVars, calls>>

LifecycleNext == ReviewPatterns \/ Load \/ Extract \/ Write

LifecycleSpec == LifecycleInit /\ [][LifecycleNext]_lifecycleVars
=============================================================================
