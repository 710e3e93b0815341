----------------------------- MODULE MCPreempt -----------------------------
(* Instances of Preempt for TLC. *)
EXTENDS Preempt, TLC

Symmetry == Permutations(Users)
=============================================================================
