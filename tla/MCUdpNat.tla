------------------------------ MODULE MCUdpNat ------------------------------
(* Instances of UdpNat for TLC: more sources than ports, more ports than   *)
(* the LRU holds, so that binding, eviction and rebinding all happen.      *)
EXTENDS UdpNat
=============================================================================
