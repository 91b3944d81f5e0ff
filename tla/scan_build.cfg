SPECIFICATION Spec
CONSTANTS
    Files <- MCFile
    Requests = {q1, q2, q3}
    Windowed = {q1, q2}
    Engines = {e1, e2}
    MaxRuns = 2
    MaxRewrites = 1
    MaxFaults = 1
    MaxTime = 1
INVARIANTS
    TextsAreOfTheirFiles
    SnapshotsAreClean
    SourcesAreSound
    ResultsPassTheirChecks
PROPERTIES
    CommitsShowWhatTheySaw
SYMMETRY MCSymmetry
CHECK_DEADLOCK FALSE
