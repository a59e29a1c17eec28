SPECIFICATION Spec
CONSTANTS
    MaxTickets = 4
    Starts <- MCStarts
    Plans <- MCPlans
    FollowUps <- MCFollowUps
    Globs <- MCGlobs
    Glue <- MCGlue
    WipLimit = 2
    MaxImplicit = 8
    HoldColumns = FALSE
    MaxHuman = 1
    MaxFaults = 1
    MaxTrouble = 1
INVARIANTS  NoWedge FiledOnce ClosedAfterCloseout
PROPERTIES CalledOffStays EpicsSettle QueueDrains
