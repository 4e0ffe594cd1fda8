CONSTANTS
    Projects <- MCProjects
    Alphabet <- MCAlphabet
    Library <- MCLibrary
SPECIFICATION Spec
INVARIANTS
    GuardedFrameIsDisjoint
    VotedTogether
    ConfidenceShowsDissent
    WholeUnlessInterrupted
    PlansAsContracted
    CallsAreAnchored
CHECK_DEADLOCK FALSE
