-------------------------- MODULE MCBranchFinalize --------------------------
(* Model values for the run of BranchFinalize. *)
EXTENDS BranchFinalize, TLC
=============================================================================
