--------------------------- MODULE MCWorkerBundle ---------------------------
(* The builds, by one builder or by two into the same output.              *)
EXTENDS WorkerBundle

CONSTANTS tested, newer
=============================================================================
