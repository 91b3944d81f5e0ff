SPECIFICATION Spec
CONSTANTS
    Files <- MCFiles
    Pdfs = {"paper"}
    Rank <- MCRank
    Pages <- MCPages
    Size <- MCSize
    Profiles = {p1, p2}
    Engines = {e1, e2}
    Policies = {TRUE, FALSE}
    Cap = 3
    BatchSize = 1
    DayLength = 10
    MaxScans = 2
    MaxChanges = 1
    MaxDays = 0
    MaxFaults = 1
INVARIANTS
    HitsAreCurrent
    WithinCap
    NewIsReportedOnce
SYMMETRY MCSymmetry
CHECK_DEADLOCK FALSE
