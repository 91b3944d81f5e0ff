SPECIFICATION Spec
CONSTANTS
    MaxRuns = 3
    Bodies = {b0, b1}
    Full = {b1}
    Linked = {b1}
    NoText = NoText
    Proc = {p1, p2}
    Commands = {"daily", "regenerate", "repair_id"}
    Edits = {u}
    MaxEdits = 0
    MaxFaults = 1
    MaxDays = 0
    Heavy = {0}
INVARIANTS
    LinearHistory
    ItemsNeverLost
    NeverStale
PROPERTIES
    ImplementsPublishedReport
SYMMETRY ProcSymmetry
