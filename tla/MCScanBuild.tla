----------------------------- MODULE MCScanBuild -----------------------------
EXTENDS ScanBuild, TLC
MCFile == <<"a">>
MCFiles == <<"a", "b">>
MCSymmetry == Permutations(Engines) \cup Permutations(Windowed)
=============================================================================
