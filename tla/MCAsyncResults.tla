--------------------------- MODULE MCAsyncResults ---------------------------
(* The ledger of asynchronous dispatches, for TLC. *)
EXTENDS AsyncResults, TLC
=============================================================================
