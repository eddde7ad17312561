------------------------------ MODULE MCWindow ------------------------------
(* Instances of the receive window for TLC. *)
EXTENDS Window
=============================================================================
