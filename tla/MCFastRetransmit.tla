------------------------ MODULE MCFastRetransmit ----------------------------
(* Instances of fast retransmission for TLC. *)
EXTENDS FastRetransmit
=============================================================================
