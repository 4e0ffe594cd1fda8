CONSTANTS
    MaxCandidates = 2
    MaxRuns = 2
    Options <- UnvalidatedLines
SPECIFICATION Spec
INVARIANT
    StableFilesEarned
CHECK_DEADLOCK FALSE
