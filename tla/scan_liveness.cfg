SPECIFICATION FairSpec
CONSTANTS
    Engine = {e1}
    Request = {q1, q2}
    Keys = {}
    Grace = 1
    MaxCount = 1
    MaxArtifacts = 1
    Batch = 1
    MaxRuns = 2
    MaxLag = 1
    MaxFaults = 2
INVARIANTS
    RetentionMakesRoom
PROPERTIES
    DeadLeaseIsReplaced
CHECK_DEADLOCK FALSE
