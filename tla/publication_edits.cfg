SPECIFICATION Spec
CONSTANTS
    MaxRuns = 2
    Bodies = {b0, b1}
    Full = {b1}
    Linked = {b1}
    NoText = NoText
    Proc = {p1}
    Commands = {"daily", "regenerate", "repair_date"}
    Edits = {u}
    MaxEdits = 2
    MaxFaults = 1
    MaxDays = 1
    Heavy = {0, 2}
INVARIANTS
    EvidenceBeforeSummary
PROPERTIES
    EditsSurvive
    SucceededIsFinal
    CapturedAwaitsUser
