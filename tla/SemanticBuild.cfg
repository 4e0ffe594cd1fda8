CONSTANTS
    Versions <- MCVersions
    Functions <- MCFunctions
    Mined <- MCMined
    Answers <- MCAnswers
    Jobs <- MCJobs
    Types <- MCTypes
    Labels <- MCLabels
    BatchSize = 12
    Retries = 1
    MaxBuilds = 2
SPECIFICATION FairSpec
INVARIANTS
    BudgetInv
    ReplayReproduces
    CompletedIsWhole
PROPERTY
    BuildEnds
CHECK_DEADLOCK FALSE
