---------------------------- MODULE MCTxTimers ------------------------------
(* Instances of the timers of a connection for TLC. *)
EXTENDS TxTimers
=============================================================================
