--------------------------- MODULE MCPublication ---------------------------
(* Small instances of Publication for TLC.                                  *)
EXTENDS Publication, TLC

(* The processes run the same code and no constant names one of them.       *)
ProcSymmetry == Permutations(Proc)
=============================================================================
