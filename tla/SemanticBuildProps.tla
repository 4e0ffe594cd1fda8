------------------------- MODULE SemanticBuildProps -------------------------
(* What a build of the flow graph promises about its budget, its replays    *)
(* and its files.                                                           *)
EXTENDS SemanticBuild

(* The variables hold values of the kinds the code gives them.              *)
TypeOK ==
    /\ job.version \in Versions
    /\ phase \in {"idle", "ask", "review", "write"}
    /\ Len(answers) <= Len(QuestionsOf(job))
    /\ written \in 0..Len(Files) /\ (written > 0 => phase \in {"write", "idle"})
    /\ DOMAIN reviews \subseteq {p.id : p \in Mined[job.version]}
    /\ calls \in 0..job.limit
    /\ outcome \in {"none", "unusable", "refused", "mismatch", "budget", "done", "interrupted"}

(* The count made before the first request is the number of requests the    *)
(* annotation then makes, so a build it lets through can only run out in    *)
(* the review, after every question about functions, and never when it is   *)
(* minimal.  (SFGPipeline.run against FunctionAnnotator.annotate.)          *)
PreflightExact ==
    /\ outcome = "budget" => ~Open /\ ~job.minimal
    /\ phase = "write" /\ job.backend = "llm" /\ job.minimal =>
          calls = MinimumRequests(CandidatesOf(job))

(* The state has its types, and the preflight is exact.                     *)
BudgetInv == TypeOK /\ PreflightExact

(* A replay goes through only if every function it must know about has the  *)
(* text it had when its answers were recorded, and stops for a mismatch     *)
(* only if one has not; it then annotates every function as the recorded    *)
(* build did, without a failed reply among its answers.                     *)
(* (ReplayedSemanticAnalyzer.)                                              *)
AsRecorded(f) == \E d \in recording : d[1].id = f.id /\ d[1].text = f.text

ReplayReproduces ==
    LET asked == {f \in ToSet(CandidatesOf(job)) : RequestsFor(f) > 0} IN
    /\ phase = "write" /\ job.backend = "replay" =>
          /\ \A f \in asked : AsRecorded(f)
          /\ Error \notin ToSet(answers)
          /\ \A f \in ToSet(CandidatesOf(job)) :
                Annotation(Decisions(Build), f) = Annotation(recording, f)
    /\ outcome = "mismatch" => \E f \in asked : ~AsRecorded(f)

(* The functions a version declares, as the artifact of it lists them.      *)
Listed(b) == ToSet(Functions[b.version])

(* What the loader makes of the directory.                                  *)
DirectoryLoads ==
    /\ \A i \in {1, 5, 6, 7} : disk[i] # Absent
    /\ Loads(Listed(disk[1]), Annotations(disk[5]), FlowsOf(disk[6]), Graph(FlowsOf(disk[7])))

(* After a completed build every file is that build's, whatever earlier     *)
(* builds left there, and the loader accepts them.  (SFGPipeline.run,       *)
(* SFGArtifacts.__post_init__.)                                             *)
CompletedIsWhole ==
    outcome = "done" =>
        /\ \A i \in DOMAIN disk : disk[i] = Build
        /\ DirectoryLoads

(* Every build ends.                                                        *)
BuildEnds == phase # "idle" ~> phase = "idle"
=============================================================================
