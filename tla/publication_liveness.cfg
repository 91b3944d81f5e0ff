SPECIFICATION FairSpec
CONSTANTS
    MaxRuns = 2
    Bodies = {b0, b1}
    Full = {b1}
    Linked = {b1}
    NoText = NoText
    Proc = {p1}
    Commands = {"daily", "no_save", "dry_run"}
    Edits = {u}
    MaxEdits = 1
    MaxFaults = 2
    MaxDays = 0
    Heavy = {0}
INVARIANTS
    RowsAreSound
PROPERTIES
    CommittedGetsPublished
