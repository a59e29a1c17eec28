SPECIFICATION ConfigSpec
CONSTANTS
    q1 = q1
    q2 = q2
    a = a
    b = b
    Requests <- MCRequests
    Repos <- MCRepos
    Cards <- MCCards
    Keys = {"merge"}
    Values <- MCValues
    MaxPolicyActivateAttempts = 2
    MaxOps = 4
    MaxFaults = 1
INVARIANTS ForceStands ProjectionMirrorsCard
