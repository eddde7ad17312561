------------------------------ MODULE MCIngress -----------------------------
(* Instances of the front of the packet loop for TLC. *)
EXTENDS Ingress
=============================================================================
