------------------------------ MODULE MCEgress ------------------------------
(* Instances of the Forwarder's sending for TLC. *)
EXTENDS Egress
=============================================================================
