CONSTANTS
    MaxRegen = 1
    MaxRuns = 3
    UntilStages = {1, 2, 3, 4}
SPECIFICATION FairSpec
INVARIANTS
    SettledPrefixSound
    CheckpointsArePrefix
    IInv
PROPERTIES
    JournalOnlyGrows
    RunEnds
    ImplementsBoundedPipeline
CHECK_DEADLOCK FALSE
