------------------------- MODULE MCStreamLifecycle --------------------------
(* Instances of the stream lifecycle for TLC. *)
EXTENDS StreamLifecycle
=============================================================================
