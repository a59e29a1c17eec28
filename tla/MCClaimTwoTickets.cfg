\* Two tickets that compete for one slot, under fairness.
SPECIFICATION FairSpec
CONSTANTS
    Issue <- TwoIssues
    WipLimit = 1
    SweepEvery = 2
    Stages = 1
    BoardHas <- BareBoard
    HumanTargets <- Canceled
    Failures = {"lost"}
    MaxFaults = 1
    MaxEdits = 0
    MaxCrashes = 0
    MaxTrouble = 1
PROPERTIES
    QueuedStarts
