CONSTANTS
    Projects <- TwinProjects
    Options <- MCOptions
    Types <- MCTypes
    Labels <- MCLabels
    Callbacks <- MCCallbacks
    BatchSize = 2
    Retries = 1
    Budget = 20
SPECIFICATION LifecycleSpec
INVARIANT
    OnePerEntry
CHECK_DEADLOCK FALSE
