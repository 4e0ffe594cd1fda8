CONSTANTS
    MaxRegen = 1
    Invocations <- AllRuns
SPECIFICATION FairSpec
INVARIANTS
    OrderSound
    CountsAgree
PROPERTY
    CommandEnds
CHECK_DEADLOCK FALSE
