------------------------------ MODULE MCTcpRx -------------------------------
(* Instances of the receiving half of a TCP connection for TLC. *)
EXTENDS TcpRx
=============================================================================
