\* Two requests, two runs, the pass; a failed call, a human and a crash.
\* When all runs are used up and nobody clicks, the system rests.
SPECIFICATION FairSpec
CONSTANTS
    Owner = {o1, o2}
    InsertAttempts = 2
    MaxRuns = 2
    MaxSaid = 1
    MaxFaults = 1
    MaxByHand = 1
    MaxTrouble = 2
    MaxCrashes = 1
INVARIANTS
    DecidedOnce
    ApprovedIsMerged
PROPERTIES
    CardsRetire
CHECK_DEADLOCK FALSE
