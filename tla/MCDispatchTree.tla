--------------------------- MODULE MCDispatchTree ---------------------------
(* Instances of DispatchTree for TLC. *)
EXTENDS DispatchTree, TLC
=============================================================================
