----------------------------- MODULE ByteQueue ------------------------------
(***************************************************************************)
(* What a send cache promises: a bounded queue of consecutive bytes of a   *)
(* stream. Bytes enter at the end, leave from the front when they are      *)
(* acknowledged, and are never altered in between.                         *)
(***************************************************************************)
EXTENDS Integers, Sequences

CONSTANTS Capacity, StreamLen

VARIABLES
    sent,      \* bytes of the stream that have entered
    pending    \* the ones still held

Consecutive(first, n) == [i \in 1 .. n |-> first + i - 1]

Put ==
    \E n \in 1 .. Capacity - Len(pending) :
        /\ sent + n <= StreamLen
        /\ sent' = sent + n
        /\ pending' = pending \o Consecutive(sent + 1, n)

Drop ==
    /\ \E n \in 1 .. Len(pending) :
        pending' = SubSeq(pending, n + 1, Len(pending))
    /\ UNCHANGED sent

Init == sent = 0 /\ pending = <<>>
Next == Put \/ Drop
Spec == Init /\ [][Next]_<<sent, pending>>
=============================================================================
