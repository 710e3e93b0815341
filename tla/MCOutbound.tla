----------------------------- MODULE MCOutbound -----------------------------
(* The delivery of replies by two bot processes, for TLC. *)
EXTENDS Outbound, TLC
=============================================================================
