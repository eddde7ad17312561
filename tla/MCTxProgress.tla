---------------------------- MODULE MCTxProgress ----------------------------
(* Instances of the sending half with its clocks for TLC. *)
EXTENDS TxProgress
=============================================================================
