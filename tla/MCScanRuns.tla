----------------------------- MODULE MCScanRuns -----------------------------
(* Small instances of ScanRuns for TLC.                                     *)
EXTENDS ScanRuns, TLC

(* Engines and requests are interchangeable.                                *)
EngineSymmetry == Permutations(Engine) \cup Permutations(Request)
=============================================================================
