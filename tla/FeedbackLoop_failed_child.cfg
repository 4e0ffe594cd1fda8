CONSTANTS
    Setups <- Unexecuted
    Scores = {1}
SPECIFICATION Spec
INVARIANT
    FailedNeverSelected
CHECK_DEADLOCK FALSE
