--------------------------- MODULE MCFeedbackLoop ---------------------------
(* The feedback loop with one round of two children of a given candidate,   *)
(* and two rounds of one child that start from a harness.                   *)
EXTENDS FeedbackLoopProps

CommandLine(depth, children, rounds, parentHarness) ==
    [depth |-> depth, children |-> children, rounds |-> rounds, parentHarness |-> parentHarness]

Siblings    == {CommandLine("fuzzing", 2, 1, FALSE)}
Generations == {CommandLine("smoke", 1, 2, TRUE)}
Both        == Siblings \cup Generations
Unexecuted  == {CommandLine("none", 2, 1, FALSE)}
=============================================================================
