---------------------------- MODULE MCModelCalls ----------------------------
(* Small instances of ModelCalls for TLC.                                   *)
EXTENDS ModelCalls
=============================================================================
