CONSTANTS
    Projects <- MCProjects
    Options <- MCOptions
    Types <- MCTypes
    Labels <- MCLabels
    Callbacks <- MCCallbacks
    BatchSize = 2
    Retries = 1
    Budget = 20
SPECIFICATION LifecycleSpec
INVARIANTS
    ReviewInv
    EveryEntryDescribed
    ViewIsObserved
    OnlyThroughAnchor
    OnlyKnownContradictions
CHECK_DEADLOCK FALSE
