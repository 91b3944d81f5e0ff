SPECIFICATION Spec
CONSTANTS
    n1 = n1
    n2 = n2
    Names = {n1, n2}
    Temps = {t1, t2, t3, t4}
    Size <- SmallSizes
    Limit = 6
    Response = 2
    MaxFaults = 3
    MaxDays = 1
SYMMETRY TempSymmetry
INVARIANTS
    LedgerIsSound
    BytesAreAccounted
PROPERTIES
    CommittedStays
