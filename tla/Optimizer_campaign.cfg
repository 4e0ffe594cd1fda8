SPECIFICATION FairSpec
CONSTANTS
    Rounds = 2
    Children = 2
    Seeds = 2
    Scores = {0, 1}
    HoldoutModes = {"none", "runner", "no_runner"}
CHECK_DEADLOCK FALSE
INVARIANTS
    SelectedIsBest
    NeverTainted
    CompletedIsHeldOut
    ReturnedIsSaved
PROPERTIES
    ReplacedOnlyByBetter
    ImplementsGreedyCampaign
    CampaignEnds
