\* One run with a failed call, a stop and its resume; each loop goes round and runs out.
SPECIFICATION FairSpec
CONSTANTS
    TasteRounds = 2
    VerifierIterations = 1
    MergeAttempts = 2
    MaxFaults = 1
    MaxStops = 1
    MaxTrouble = 2
INVARIANTS
    MergedIsGated
    MergedIsReviewed
    StopHaltsSoon
    OutcomeTruthful
PROPERTIES
    RunEnds
