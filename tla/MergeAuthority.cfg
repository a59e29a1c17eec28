SPECIFICATION MCSpec
CONSTANTS
    a = a
    b = b
    PromoteAfter = 2
    MaxDecisions = 3
    MaxHeads = 3
    MaxCrashes = 1
    Runs <- MCRuns
    Configs <- MCConfigs
CHECK_DEADLOCK FALSE
INVARIANTS PromotionEarned DeployedOnce RevertedIsUndone
