----------------------------- MODULE SackRanges -----------------------------
(***************************************************************************)
(* The ranges of the send cache that are left when SACK blocks are taken   *)
(* off it. A range <<a, b>> is the sequence numbers a .. b - 1. The order  *)
(* of the ranges is that in which they are sent, and is left out.          *)
(***************************************************************************)
EXTENDS SeqArith, Sequences

\* The n bytes from a on, as TCP numbers them.
BytesFrom(a, n) == {AsU32(a + i) : i \in 0 .. n - 1}
BytesOf(r) == BytesFrom(r[1], Distance(r[2], r[1]))

\* Mutant: a block that overlaps the right end is taken to lie beyond it.
DisjointU32Range_Beyond(main, sub) ==
    LET first == IsAtOrAfter(sub[1], main[1])
        second == IsAtOrAfter(sub[2], main[2])
    IN  CASE first /\ ~second -> {<<main[1], sub[1]>>, <<sub[2], main[2]>>}
          [] first /\ second -> {main}
          [] ~first /\ ~second -> IF IsAtOrAfter(sub[2], main[1])
                                  THEN {<<sub[2], main[2]>>} ELSE {main}
          [] OTHER -> {}

\* disjoint_u32_range: sub inside main, overlapping its right end or to the
\* right of it, to the left or overlapping the left end, and covering it.
DisjointU32Range(main, sub) ==
    LET first == IsAtOrAfter(sub[1], main[1])
        second == IsAtOrAfter(sub[2], main[2])
    IN  CASE first /\ ~second -> {<<main[1], sub[1]>>, <<sub[2], main[2]>>}
          [] first /\ second -> IF Distance(sub[1], main[1]) >= Distance(main[2], main[1])
                                THEN {main} ELSE {<<main[1], sub[1]>>}
          [] ~first /\ ~second -> IF IsAtOrAfter(sub[2], main[1])
                                  THEN {<<sub[2], main[2]>>} ELSE {main}
          [] OTHER -> {}

\* One block taken off all ranges, and all blocks one after the other.
TakeOff(ranges, sack) == UNION {DisjointU32Range(r, sack) : r \in ranges}
Without(cache, sacks) ==
    LET left[k \in 0 .. Len(sacks)] ==
            IF k = 0 THEN {cache} ELSE TakeOff(left[k - 1], sacks[k])
    IN  left[Len(sacks)]
=============================================================================
