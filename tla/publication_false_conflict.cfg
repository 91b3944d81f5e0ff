SPECIFICATION Spec
CONSTANTS
    MaxRuns = 2
    Bodies = {b0, b1}
    Full = {b1}
    Linked = {b1}
    NoText = NoText
    Proc = {p1}
    Commands = {"daily", "regenerate"}
    Edits = {u}
    MaxEdits = 0
    MaxFaults = 1
    MaxDays = 0
    Heavy = {0}
INVARIANTS
    ConflictMeansExternalEdit
