SPECIFICATION Spec
CONSTANTS
    e1 = e1
    e2 = e2
    Editors <- MCEditors
    Texts = {"a", "b", "secret"}
    Refused = {"secret"}
    Routes = {"plain", "specialist"}
    Tools = {"narrow", "wide"}
    Attaches = {"implementers"}
    Files <- MCFiles
    Histories <- MCHistories
    MaxWriteAttempts = 2
    MaxOps = 2
    MaxFaults = 1
INVARIANTS SnapshotMirrors CardsFollow
PROPERTIES WiringKept
