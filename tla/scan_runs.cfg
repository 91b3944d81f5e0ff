SPECIFICATION Spec
CONSTANTS
    Engine = {e1, e2}
    Request = {q1, q2}
    Keys = {"k"}
    Grace = 1
    MaxCount = 2
    MaxArtifacts = 1
    Batch = 1
    MaxRuns = 2
    MaxLag = 1
    MaxFaults = 1
SYMMETRY EngineSymmetry
INVARIANTS
    StoreIsSound
    ResultsReplay
PROPERTIES
    LiveLeaseIsKept
    ResultsStay
CHECK_DEADLOCK FALSE
