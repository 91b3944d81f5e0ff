SPECIFICATION FairSpec
CONSTANTS
    Scans <- SmallScans
    Workers = 2
    MaxChanges = 1
    PerFile = 100
    MaxFileSize = 1000
    LargeFile = 500
    MaxCandidates = 2
    PdfPages = 2
    TotalPages = 3
    MaxExtractions = 1
    TextExcerpt = 150
    OfficeExcerpt = 150
    PdfExcerpt = 150
INVARIANTS
    SourcesAreUnchanged
    BudgetsHold
    OutcomeIsSound
PROPERTIES
    RefillKeepsWork
    ScanEnds
