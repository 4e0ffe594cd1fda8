---------------------------- MODULE SemanticBuild ----------------------------
(***************************************************************************)
(* Builds of the structural flow graph into one artifact directory, one    *)
(* after the other.  A build parses the sources, asks a language model     *)
(* about the functions (or replays the answers another build recorded),    *)
(* has the mined usage patterns reviewed, and writes eight files.          *)
(*                                                                         *)
(* The sources are read once, at the start of a build, and may change      *)
(* before the next.  Functions are records as Detection has them, with an  *)
(* identity, a name and a text, which stands for all that a prompt shows   *)
(* of the function.                                                        *)
(***************************************************************************)
EXTENDS Detection, FlowGraph, UsageReview

CONSTANTS
    Versions,       \* versions of the sources
    Functions,      \* [version -> sequence of the functions parsed]
    Mined,          \* [version -> set of the usage patterns mined]
    Answers,        \* [task, variant -> set of the possible replies, sets of words]
    Jobs,           \* command lines: [backend, minimal, limit]
    MaxBuilds       \* bound on the number of builds

ASSUME SemanticBuildAssumption ==
    /\ \A j \in Jobs : /\ j.backend \in {"llm", "replay"} /\ j.minimal \in BOOLEAN
                       /\ j.limit \in Nat \ {0}
    /\ \A j \in Jobs : j.backend = "replay" => j.minimal
    /\ DOMAIN Answers = {"stream_parameter", "function_role", "struct_direction"} \X (0..2)
    /\ MaxBuilds \in Nat

(* A version is parsed into finitely many functions.  Identities, made of   *)
(* a path, a line and a name, are those of one function of the version; and *)
(* a function is what its text says: the signature, the body and the type   *)
(* definitions a prompt shows are all its parameters are read from.         *)
ASSUME FunctionsAssumption ==
    \A v \in Versions :
       /\ Functions[v] \in Seq(ToSet(Functions[v]))
       /\ \A f \in ToSet(Functions[v]) : f.parameters \in Seq(ToSet(f.parameters))
       /\ \A i, j \in DOMAIN Functions[v] : Functions[v][i].id = Functions[v][j].id => i = j
       /\ \A w \in Versions : \A f \in ToSet(Functions[v]), g \in ToSet(Functions[w]) :
             f.id = g.id /\ f.text = g.text => f = g

ASSUME MinedAssumption ==
    \A v \in Versions : IsFiniteSet(Mined[v]) /\ \A p \in Mined[v] : p.id \in Int

VARIABLES
    job,            \* the command line of the build, with the version it parsed
    phase,          \* "idle", "ask", "review" or "write"
    answers,        \* replies to the first of the build's questions
    recording,      \* what a replaying build loaded
    written,        \* files written so far by the build
    disk,           \* the artifact directory, file by file
    outcome,        \* how the last build ended
    builds          \* number of builds started

buildVars == <<job, recording, builds>>
vars == <<buildVars, phase, answers, written, disk, outcome, reviewVars, calls>>

Files == <<"functions", "ownership", "usage_patterns", "candidates",
           "annotations", "flows", "sfg", "dot">>

Absent == [version |-> "absent"]
(* A reply is a set of words: what the model says, or that it failed.       *)
Error == {"error"}

---------------------------------------------------------------------------
(* The candidates of a build, in the order of the functions.  An SFG        *)
(* connects bytes to a structure, so the paper's build drops the functions  *)
(* without one.                                                             *)
Candidates(functions, paperMinimal) ==
    LET wanted == InOrder({k \in DOMAIN functions :
            /\ functions[k].defined /\ IsCandidate(functions[k])
            /\ paperMinimal => IsStructRelated(functions[k])})
    IN  [k \in DOMAIN wanted |-> functions[wanted[k]]]

(* The questions of a build, in their order: roles of all candidates first, *)
(* directions after.                                                        *)

Question(f, task, at, variant) ==
    [id |-> f.id, text |-> f.text, task |-> task, at |-> at, variant |-> variant]

RoleQuestions(f) ==
    LET streams == InOrder(StreamParameters(f)) IN
    [k \in 1..(3 * Len(streams)) |->
        Question(f, "stream_parameter", streams[(k + 2) \div 3], (k + 2) % 3)]
    \o IF IsStructRelated(f) THEN <<Question(f, "function_role", 0, 0)>> ELSE <<>>

DirectionQuestions(f) ==
    LET open == InOrder({i \in DOMAIN f.parameters : NeedsSemanticDirection(f.parameters[i])}) IN
    [k \in DOMAIN open |-> Question(f, "struct_direction", open[k], 0)]

Questions(candidates) ==
    FlattenSeq([k \in DOMAIN candidates |-> RoleQuestions(candidates[k])])
    \o FlattenSeq([k \in DOMAIN candidates |-> DirectionQuestions(candidates[k])])

(* Both by version and mode, for they depend on nothing else.               *)
CandidatesBy == [v \in Versions |-> [minimal \in BOOLEAN |-> Candidates(Functions[v], minimal)]]
QuestionsBy  == [v \in Versions |-> [minimal \in BOOLEAN |-> Questions(CandidatesBy[v][minimal])]]

CandidatesOf(b) == CandidatesBy[b.version][b.minimal]
QuestionsOf(b) == QuestionsBy[b.version][b.minimal]

---------------------------------------------------------------------------
(* What the answers make of a function.  b is a build: its version, whether *)
(* it is minimal, its answers and its reviews.                              *)

Decisions(b) ==
    LET questions == QuestionsOf(b) IN
    {<<questions[k], b.answers[k]>> : k \in DOMAIN b.answers}

(* Two of three votes make a byte stream, unless the name is a path's.      *)
IsByteStream(decisions, f, i) ==
    /\ f.parameters[i].word # "path"
    /\ Cardinality({d \in decisions : /\ d[1].id = f.id /\ d[1].task = "stream_parameter"
                                      /\ d[1].at = i /\ d[2] = {"bytes"}}) >= 2

LabelsOf(decisions, f) ==
    (IF \E i \in StreamParameters(f) : IsByteStream(decisions, f, i) THEN {"ISF"} ELSE {})
    \cup UNION {d[2] : d \in {e \in decisions : e[1].id = f.id /\ e[1].task = "function_role"
                                                /\ e[2] # Error}}

(* A pointer the code says nothing about goes by the answer, or is unknown. *)
DirectionOf(decisions, f, i) ==
    IF ~NeedsSemanticDirection(f.parameters[i]) THEN StaticDirection(f.parameters[i])
    ELSE LET answer == CHOOSE a \in {d[2] : d \in {e \in decisions :
                            e[1].id = f.id /\ e[1].task = "struct_direction" /\ e[1].at = i}} : TRUE
         IN  IF answer = Error THEN "unknown" ELSE CHOOSE direction \in answer : TRUE

Annotation(decisions, f) ==
    [id |-> f.id, labels |-> LabelsOf(decisions, f),
     directions |-> [i \in StructParameters(f) |-> DirectionOf(decisions, f, i)]]

Annotations(b) ==
    LET decisions == Decisions(b) IN
    {Annotation(decisions, f) : f \in ToSet(CandidatesOf(b))}

FlowsOf(b) ==
    LET decisions == Decisions(b) IN
    {Flow(f, Annotation(decisions, f)) : f \in ToSet(CandidatesOf(b))}

---------------------------------------------------------------------------
Init ==
    /\ job \in {[backend |-> "llm", minimal |-> FALSE, limit |-> 1, version |-> v] : v \in Versions}
    /\ phase = "idle" /\ outcome = "none"
    /\ answers = <<>> /\ recording = {} /\ builds = 0
    /\ written = 0 /\ disk = [i \in 1..Len(Files) |-> Absent]
    /\ pending = <<>> /\ reviews = NoReviews /\ calls = 0

(* The replies a recording holds.  One that holds a failed reply is refused *)
(* as a whole, as is a missing one.                                         *)
Recorded == IF disk[5] = Absent THEN {} ELSE Decisions(disk[5])

Replayable == disk[5] # Absent /\ \A d \in Recorded : d[2] # Error

Affords(j) ==
    j.backend = "llm" => MinimumRequests(CandidatesOf(j)) <= j.limit

(* A build of the sources as they are now.                                  *)
Begin ==
    /\ phase = "idle" /\ builds < MaxBuilds
    /\ builds' = builds + 1 /\ calls' = 0 /\ written' = 0
    /\ answers' = <<>> /\ pending' = <<>> /\ reviews' = NoReviews
    /\ \E j \in Jobs, v \in Versions :
          /\ job' = [backend |-> j.backend, minimal |-> j.minimal, limit |-> j.limit, version |-> v]
          /\ recording' = IF j.backend = "replay" THEN Recorded ELSE {}
          /\ LET end == IF j.backend = "replay" /\ ~Replayable THEN "unusable"
                        ELSE IF ~Affords(job') THEN "refused" ELSE "none"
             IN  /\ outcome' = end
                 /\ phase' = IF end = "none" THEN "ask" ELSE "idle"
    /\ UNCHANGED disk

Stop(how) ==
    /\ phase' = "idle" /\ outcome' = how
    /\ UNCHANGED <<buildVars, answers, written, disk, reviewVars, calls>>

Build == [version |-> job.version, minimal |-> job.minimal,
          answers |-> answers, reviews |-> reviews]

Open == Len(answers) < Len(QuestionsOf(job))

Asked == QuestionsOf(job)[Len(answers) + 1]

(* A request to the model, counted before it is made.  A failure of any     *)
(* kind is a reply the build goes on with.                                  *)
Ask ==
    /\ phase = "ask" /\ job.backend = "llm" /\ Open
    /\ calls < job.limit
    /\ \E reply \in Answers[<<Asked.task, Asked.variant>>] : answers' = Append(answers, reply)
    /\ calls' = calls + 1
    /\ UNCHANGED <<buildVars, phase, written, disk, outcome, reviewVars>>

(* Mutant: the text is not compared. *)
Matching_ById(question) == {d \in recording : [d[1] EXCEPT !.text = question.text] = question}

(* A reply looked up in the recording, by function, task and prompt.        *)
Matching(question) == {d \in recording : d[1] = question}

Replay ==
    /\ phase = "ask" /\ job.backend = "replay" /\ Open
    /\ LET matching == Matching(Asked) IN
       IF matching = {} THEN Stop("mismatch")
       ELSE /\ answers' = Append(answers, (CHOOSE d \in matching : TRUE)[2])
            /\ UNCHANGED <<buildVars, phase, written, disk, outcome, reviewVars, calls>>

(* All is answered: the flows and the graph follow, the usage patterns are  *)
(* mined for review unless the build is minimal.                            *)
Annotate ==
    /\ phase = "ask" /\ ~Open
    /\ IF job.minimal
       THEN phase' = "write" /\ UNCHANGED reviewVars
       ELSE phase' = "review" /\ StartReview(Mined[job.version])
    /\ UNCHANGED <<buildVars, answers, written, disk, outcome, calls>>

(* Names of the input functions; the review knows functions by name.        *)
InputNames ==
    {f.name : f \in {g \in ToSet(CandidatesOf(job)) : "ISF" \in LabelsOf(Decisions(Build), g)}}

Review ==
    /\ phase = "review"
    /\ \/ ReviewAnswered(Mined[job.version], InputNames, job.limit)
       \/ ReviewFailed(Mined[job.version], job.limit)
    /\ UNCHANGED <<buildVars, phase, answers, written, disk, outcome>>

(* Mutant: the limit is not noticed during the review. *)
BudgetSpent_AskOnly ==
    /\ phase = "ask" /\ job.backend = "llm" /\ Open
    /\ calls >= job.limit
    /\ Stop("budget")

(* The limit is reached with a request still to make.                       *)
BudgetSpent ==
    /\ \/ phase = "ask" /\ job.backend = "llm" /\ Open
       \/ phase = "review" /\ pending # <<>>
    /\ calls >= job.limit
    /\ Stop("budget")

EndReview ==
    /\ phase = "review" /\ pending = <<>>
    /\ phase' = "write"
    /\ UNCHANGED <<buildVars, answers, written, disk, outcome, reviewVars, calls>>

(* Mutant: a file that is there is not replaced. *)
WriteFile_KeepsOld ==
    /\ phase = "write" /\ written < Len(Files)
    /\ disk' = IF disk[written + 1] = Absent THEN [disk EXCEPT ![written + 1] = Build] ELSE disk
    /\ written' = written + 1
    /\ UNCHANGED <<buildVars, phase, answers, outcome, reviewVars, calls>>

(* Each file replaces its predecessor as a whole.                           *)
WriteFile ==
    /\ phase = "write" /\ written < Len(Files)
    /\ disk' = [disk EXCEPT ![written + 1] = Build]
    /\ written' = written + 1
    /\ UNCHANGED <<buildVars, phase, answers, outcome, reviewVars, calls>>

Finish ==
    /\ phase = "write" /\ written = Len(Files)
    /\ Stop("done")

(* The process is killed, or a file cannot be written: only files stay.     *)
Interrupted ==
    /\ phase # "idle"
    /\ phase' = "idle" /\ outcome' = "interrupted"
    /\ answers' = <<>> /\ pending' = <<>> /\ reviews' = NoReviews
    /\ calls' = 0 /\ written' = 0
    /\ UNCHANGED <<buildVars, disk>>

Step ==
    \/ Ask \/ Replay \/ Annotate \/ Review \/ BudgetSpent \/ EndReview
    \/ WriteFile \/ Finish

Next == Begin \/ Step \/ Interrupted

Spec == Init /\ [][Next]_vars

(* A build that is not killed takes its steps; a request is answered or     *)
(* times out.                                                               *)
FairSpec == Spec /\ WF_vars(Step)
=============================================================================
