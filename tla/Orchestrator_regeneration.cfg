CONSTANTS
    MaxRegen = 2
    MaxRuns = 2
    UntilStages = {4}
SPECIFICATION Spec
INVARIANTS
    RollbacksAnswered
CHECK_DEADLOCK FALSE
