-------------------------------- MODULE Ring --------------------------------
(***************************************************************************)
(* The growing ring buffer that cache::Queue and cache::Window both        *)
(* implement in place. A buffer is a sequence; indices count from 0 as in  *)
(* the code, and the vector's fill value is 0.                             *)
(***************************************************************************)
EXTENDS Integers, Sequences

Smaller(a, b) == IF a <= b THEN a ELSE b
Larger(a, b) == IF a >= b THEN a ELSE b

\* buf with data written from index at, wrapping at the end.
CopyRing(buf, at, data) ==
    [i \in DOMAIN buf |->
        LET d == (i - 1 - at) % Len(buf) IN
        IF d < Len(data) THEN data[d + 1] ELSE buf[i]]

\* The n bytes from index at, wrapping at the end.
ReadRing(buf, at, n) == [i \in 1 .. n |-> buf[((at + i - 1) % Len(buf)) + 1]]

\* tail(): the index behind the last byte.
TailIndex(buf, head, size) ==
    IF head + size >= Len(buf) THEN head + size - Len(buf) ELSE head + size

\* Mutant: wrapped contents stay where they are.
Extend_InPlace(buf, head, size, capacity, need) ==
    LET new == Smaller(capacity, Larger((Len(buf) * 3) \div 2, need)) IN
    IF need <= Len(buf) THEN buf
    ELSE [i \in 1 .. new |-> IF i <= Len(buf) THEN buf[i] ELSE 0]

\* The buffer once it has room for need bytes. If the contents had wrapped,
\* their front part is moved behind the old end, and what does not fit there
\* is moved down to the front.
Extend(buf, head, size, capacity, need) ==
    LET old == Len(buf)
        tail == TailIndex(buf, head, size)
        new == Smaller(capacity, Larger((old * 3) \div 2, need))
        resized == [i \in 1 .. new |-> IF i <= old THEN buf[i] ELSE 0]
        lenA == Smaller(tail, new - old)
        lenB == tail - lenA
        behind == CopyRing(resized, old, SubSeq(resized, 1, lenA))
    IN  IF need <= old THEN buf
        ELSE IF tail > head THEN resized
        ELSE IF lenB = 0 THEN behind
        ELSE CopyRing(behind, 0, SubSeq(behind, lenA + 1, lenA + lenB))
=============================================================================
