------------------------------ MODULE SeqArith ------------------------------
(***************************************************************************)
(* The u32 arithmetic on TCP sequence numbers as cache/mod.rs and lib.rs   *)
(* write it, with the width as a constant so that TLC can reach the wrap.  *)
(*                                                                         *)
(*   U32_MAX              u32::MAX                                         *)
(*   MAX_U32_WINDOW_SIZE  the largest distance that counts as "ahead"      *)
(***************************************************************************)
EXTENDS Integers

CONSTANTS U32_MAX, MAX_U32_WINDOW_SIZE

ASSUME WidthAssumption ==
    /\ U32_MAX \in Nat
    /\ MAX_U32_WINDOW_SIZE \in Nat
    /\ 2 * MAX_U32_WINDOW_SIZE < U32_MAX

U32 == 0 .. U32_MAX

\* a.checked_add(n).unwrap_or_else(|| n - (u32::MAX - a))
WrappingAdd(a, n) == IF a + n <= U32_MAX THEN a + n ELSE n - (U32_MAX - a)

\* a.checked_sub(b).unwrap_or_else(|| a + (u32::MAX - b))
Distance(a, b) == IF a >= b THEN a - b ELSE a + (U32_MAX - b)

\* The test by which the code takes a to be at or after b.
IsAtOrAfter(a, b) == Distance(a, b) <= MAX_U32_WINDOW_SIZE

\* x as u32, and the sequence number n bytes after a in the ring TCP peers use.
AsU32(x) == x % (U32_MAX + 1)
=============================================================================
