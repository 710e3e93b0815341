--------------------------- MODULE MCWorkerSlots ---------------------------
(* Engines, lanes and approvals, for TLC. *)
EXTENDS WorkerSlots, TLC
=============================================================================
