\* One ticket in depth: failed calls, human edits and a crash in every order.
SPECIFICATION FairSpec
CONSTANTS
    Issue <- OneIssue
    WipLimit = 2
    SweepEvery = 2
    Stages = 1
    BoardHas <- FullBoard
    HumanTargets <- AnyTarget
    Failures = {"lost", "late"}
    MaxFaults = 2
    MaxEdits = 1
    MaxCrashes = 1
    MaxTrouble = 3
PROPERTIES
    NeverStartedTwice
    TerminalMovesAreRaces
    OrphansHeal
