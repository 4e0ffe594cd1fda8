CONSTANTS
    MaxCandidates = 2
    MaxRuns = 2
    Options <- PublishingLines
SPECIFICATION Spec
INVARIANTS
    EvidenceInv
    StableFilesEarned
    ReportIsTrue
CHECK_DEADLOCK FALSE
