SPECIFICATION FairSpec
CONSTANTS
    Ops = {"a", "b"}
    Plans <- MCPlans
    Slots = {s1}
    MaxRequests = 2
    MaxFaults = 2
    MaxChanges = 1
INVARIANTS
    OwnAnswer
    PoolIsSound
    RetriedOnce
PROPERTIES
    EveryOperationEnds
