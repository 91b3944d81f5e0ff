------------------------- MODULE MCProcessingCache -------------------------
(* Small instances of ProcessingCache for TLC.                              *)
EXTENDS ProcessingCache, TLC

CONSTANTS n1, n2

SmallSizes == [n \in {n1, n2} |-> IF n = n1 THEN 1 ELSE 2]

(* Names of temporary files are interchangeable.                            *)
TempSymmetry == Permutations(Temps)
=============================================================================
