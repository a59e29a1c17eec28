SPECIFICATION MissionSpec
CONSTANTS
    Scripts <- TheScripts
    RingCap = 2
    FeedCap = 2
    MaxFinished = 1
    MaxTrouble = 2
INVARIANTS
    MirrorExact
    FeedsInOrder
    
CHECK_DEADLOCK FALSE
