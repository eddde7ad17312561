----------------------------- MODULE Reassembly -----------------------------
(***************************************************************************)
(* What a receive window promises, without buffers or sequence numbers:    *)
(* the bytes of a stream, numbered from 1, arrive in segments of any order *)
(* and are handed out in order, each once, and only after they arrived. A  *)
(* segment that continues the bytes handed out is handed out at once.      *)
(***************************************************************************)
EXTENDS Integers, Sequences, FiniteSetsExt

CONSTANT StreamLen

VARIABLES
    arrived,   \* bytes of the accepted segments
    output     \* bytes handed out so far

Segments ==
    {i .. j : i \in 1 .. StreamLen, j \in 1 .. StreamLen} \ {{}}

\* The number of bytes an in-order receiver could hand out.
Contiguous(S) == Max({n \in 0 .. StreamLen : 1 .. n \subseteq S})

Init == arrived = {} /\ output = <<>>

Accept(seg) ==
    /\ arrived' = arrived \cup seg
    /\ \E n \in Len(output) .. Contiguous(arrived') :
        /\ Len(output) + 1 \in seg => n >= Max(seg)
        /\ output' = [i \in 1 .. n |-> i]

Next == \E seg \in Segments : Accept(seg)

Spec == Init /\ [][Next]_<<arrived, output>>
=============================================================================
