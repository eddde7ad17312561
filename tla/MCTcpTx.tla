------------------------------ MODULE MCTcpTx -------------------------------
(* Instances of the sending half of a TCP connection for TLC. *)
EXTENDS TcpTx
=============================================================================
