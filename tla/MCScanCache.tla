----------------------------- MODULE MCScanCache -----------------------------
EXTENDS ScanCache, TLC
MCFiles == <<"note", "paper">>
MCRank == [f \in Names |-> IF f = "paper" THEN 10 ELSE 1]
MCPages == [f \in Names |-> 1]
MCSize == [f \in Names |-> IF f = "paper" THEN 2 ELSE 4]
MCSymmetry == Permutations(Engines) \cup Permutations(Profiles)
=============================================================================
