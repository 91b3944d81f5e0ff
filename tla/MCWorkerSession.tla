--------------------------- MODULE MCWorkerSession ---------------------------
EXTENDS WorkerSession
MCPlans == {[o \in Ops |-> IF o = "a" THEN kind ELSE "parse"] : kind \in {"classify", "light"}}
=============================================================================
