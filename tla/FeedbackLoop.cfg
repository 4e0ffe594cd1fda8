CONSTANTS
    Setups <- Both
    Scores = {1, 2}
SPECIFICATION FairSpec
INVARIANTS
    NoBetterChildLost
    ExperimentSettled
    LineageInv
PROPERTIES
    NoRequestAfterRefusal
    LoopEnds
CHECK_DEADLOCK FALSE
