---------------------------- MODULE WindowProofs ----------------------------
(***************************************************************************)
(* Proofs that the receive window implements Reassembly, that the ranges   *)
(* it reports are held, and that its size spans what arrived, for every    *)
(* capacity, stream and segment size, as long as the sequence numbers of   *)
(* the stream do not wrap.                                                 *)
(***************************************************************************)
EXTENDS Window, RingProofs, NaturalsInduction, WellFoundedInduction, TLAPS

\* The stream ends before its sequence numbers wrap, and is too short for an
\* old segment to be taken for one ahead. (Across the wrap the code's distance
\* is one short: OutputIsStream fails there.)
NoWrap ==
    /\ ISN + StreamLen <= U32_MAX
    /\ StreamLen + MAX_U32_WINDOW_SIZE < U32_MAX

-----------------------------------------------------------------------------
(* The greatest and the least of a set *)

\* A set of naturals has a least element.
LEMMA LeastExists ==
    ASSUME NEW S \in SUBSET Nat, S # {}
    PROVE  \E x \in S : \A y \in S : x <= y
<1> DEFINE R == {ss \in Nat \X Nat : ss[1] < ss[2]}
<1>1. IsWellFoundedOn(R, Nat)
  BY NatLessThanWellFounded, Zenon DEF OpToRel
<1>2. PICK x \in S : \A y \in S : ~(<<y, x>> \in R)
  <2> HIDE DEF R
  <2> QED
    BY <1>1, WFMin, Zenon
<1>3. ASSUME NEW y \in S PROVE x <= y
  <2>1. y \in Nat /\ x \in Nat
    OBVIOUS
  <2>2. ~(<<y, x>> \in R)
    BY <1>2
  <2> QED
    BY <2>1, <2>2
<1> QED
  BY <1>3

LEMMA MinIs ==
    ASSUME NEW S \in SUBSET Nat, S # {}
    PROVE  Min(S) \in S /\ \A y \in S : Min(S) <= y
  BY LeastExists, Zenon DEF Min

\* And a greatest one if it has a bound.
LEMMA MaxIs ==
    ASSUME NEW S \in SUBSET Nat, S # {}, NEW e \in Nat, \A x \in S : x <= e
    PROVE  Max(S) \in S /\ \A y \in S : y <= Max(S)
<1> DEFINE T == {e - x : x \in S}
<1>1. T \in SUBSET Nat /\ T # {}
  <2>1. \A x \in S : e - x \in Nat
    OBVIOUS
  <2> QED
    BY <2>1, Zenon
<1>2. PICK t \in T : \A u \in T : t <= u
  <2> HIDE DEF T
  <2> QED
    BY <1>1, LeastExists
<1>3. PICK x \in S : t = e - x
  OBVIOUS
<1>4. \A y \in S : e - x <= e - y
  BY <1>2, <1>3, Zenon
<1>5. \A y \in S : x >= y
  BY <1>4
<1> QED
  BY <1>5, Zenon DEF Max

\* The element that none exceeds is the greatest.
LEMMA MaxIsThe ==
    ASSUME NEW S \in SUBSET Nat, NEW m \in S, \A x \in S : x <= m
    PROVE  Max(S) = m
<1>1. S # {} /\ m \in Nat
  OBVIOUS
<1>2. Max(S) \in S /\ \A y \in S : y <= Max(S)
  BY <1>1, MaxIs
<1>3. PICK k \in S : k = Max(S)
  BY <1>2, Zenon
<1>4. k \in Nat /\ m <= k /\ k <= m
  BY <1>2, <1>3
<1> QED
  BY <1>1, <1>3, <1>4

-----------------------------------------------------------------------------
(* The filled ranges *)

\* Ranges: a function from the first number of each to its length.
AreRanges(e) == \A k \in DOMAIN e : k \in Nat /\ e[k] \in Nat \ {0}

\* They lie at or behind lo and end at or before hi.
Inside(e, lo, hi) == \A k \in DOMAIN e : lo <= k /\ k + e[k] <= hi

\* There is a gap between any two.
Apart(e) == \A j, k \in DOMAIN e : j < k => j + e[j] < k

\* All their numbers are in S.
Within(e, S) == \A k \in DOMAIN e : \A q \in Nat : k <= q /\ q < k + e[k] => q \in S

\* One of them has all of [a, b).
Spans(e, a, b) == \E k \in DOMAIN e : k <= a /\ b <= k + e[k]

\* What insert and merge make of a segment that lies inside the window: ranges
\* with gaps between them that hold nothing but the old ones and the segment,
\* and one that begins where it does or before and reaches to its end.
LEMMA InsertIs ==
    ASSUME NEW lo \in Nat, NEW hi \in Nat, AreRanges(edges), Inside(edges, lo + 1, hi),
           Apart(edges), NEW S, Within(edges, S), sequence = lo,
           NEW seq \in Nat, lo <= seq, NEW len \in Nat \ {0}, seq + len <= hi,
           \A q \in Nat : seq <= q /\ q < seq + len => q \in S,
           NEW ranges, ranges = Insert(seq, len)
    PROVE  /\ AreRanges(ranges) /\ Inside(ranges, lo, hi) /\ Apart(ranges)
           /\ Within(ranges, S) /\ Spans(ranges, seq, seq + len)
<1> DEFINE D == DOMAIN edges
<1>1. PICK absorbed : absorbed = {k \in D : k \in seq .. seq + len}
  BY Zenon
<1>2. PICK ends : ends = {seq + len} \cup {k + edges[k] : k \in absorbed}
  BY Zenon
<1>3. /\ \A k \in D : k \in Nat /\ edges[k] \in Nat /\ edges[k] > 0 /\ lo < k /\ k + edges[k] <= hi
      /\ \A j, k \in D : j < k => j + edges[j] < k
  BY DEF AreRanges, Inside, Apart
<1>4. ends \in SUBSET Nat /\ ends # {} /\ \A x \in ends : x <= hi
  BY <1>1, <1>2, <1>3
<1>5. PICK end : end = Max(ends)
  OBVIOUS
<1>6. end \in ends /\ \A x \in ends : x <= end
  BY <1>4, <1>5, MaxIs, Zenon
<1>7. /\ end \in Nat /\ end <= hi /\ seq + len <= end
      /\ end = seq + len \/ \E a \in absorbed : end = a + edges[a]
  BY <1>2, <1>4, <1>6
<1>8. PICK before : before = {k \in D \ absorbed : k < seq}
  BY Zenon
<1>9. PICK last : last = Max(before)
  OBVIOUS
<1>10. before # {} => last \in before /\ \A x \in before : x <= last
  <2>1. before \in SUBSET Nat /\ \A x \in before : x <= seq
    BY <1>3, <1>8
  <2> QED
    BY <1>9, <2>1, MaxIs
<1>11. PICK first : first = IF before # {} /\ last + edges[last] >= seq THEN last ELSE seq
  OBVIOUS
<1>12. ranges = [k \in {first} \cup (D \ absorbed) |->
                    IF k = first THEN end - first ELSE edges[k]]
  <2>1. PICK rest : rest = Restrict(edges, D \ absorbed)
    OBVIOUS
  <2>2. DOMAIN rest = D \ absorbed /\ \A k \in D \ absorbed : rest[k] = edges[k]
    BY <2>1 DEF Restrict
  <2>3. ~(seq < sequence)
    OBVIOUS
  <2>4. {k \in DOMAIN rest : k < seq} = before
    BY <1>8, <2>2
  <2>5. before # {} => rest[last] = edges[last]
    BY <1>8, <1>10, <2>2
  <2>6. first = IF before # {} /\ last + rest[last] >= seq THEN last ELSE seq
    BY <1>11, <2>5
  <2>7. ranges = [k \in {first} \cup DOMAIN rest |-> IF k = first THEN end - first ELSE rest[k]]
    BY <1>1, <1>2, <1>5, <1>9, <2>1, <2>3, <2>4, <2>6, Zenon DEF Insert
  <2> QED
    BY <2>2, <2>7
<1>13. /\ first \in Nat /\ lo <= first /\ first <= seq
       /\ first = seq \/ (first \in D /\ first + edges[first] >= seq)
  BY <1>3, <1>8, <1>10, <1>11
<1>14. ASSUME NEW k \in D \ absorbed, k # first
       PROVE  k + edges[k] < first \/ end < k
  <2>1. CASE k < seq
    <3>1. k \in before /\ last \in before /\ k <= last /\ last \in D /\ last \in Nat /\ k \in D
      BY <1>3, <1>8, <1>10, <2>1
    <3>2. k = last \/ k + edges[k] < last
      BY <1>3, <3>1
    <3> QED
      BY <1>3, <1>11, <1>14, <2>1, <3>1, <3>2
  <2>2. CASE ~(k < seq)
    <3>1. k \in Nat /\ k > seq + len
      BY <1>1, <1>3, <2>2
    <3>2. CASE end = seq + len
      BY <3>1, <3>2
    <3>3. ASSUME NEW a \in absorbed, end = a + edges[a]
          PROVE  end < k
      <4>1. a \in D /\ a < k
        BY <1>1, <1>3, <3>1
      <4> QED
        BY <1>3, <3>3, <4>1
    <3> QED
      BY <1>7, <3>2, <3>3
  <2> QED
    BY <2>1, <2>2
<1>15. /\ DOMAIN ranges = {first} \cup (D \ absorbed)
       /\ ranges[first] = end - first
       /\ \A k \in D \ absorbed : k # first => ranges[k] = edges[k]
  BY <1>12
<1>16. end - first \in Nat \ {0} /\ first + (end - first) = end
  BY <1>7, <1>13
<1>17. AreRanges(ranges) /\ Inside(ranges, lo, hi)
  BY <1>3, <1>7, <1>13, <1>15, <1>16 DEF AreRanges, Inside
<1>18. Apart(ranges)
  <2> SUFFICES ASSUME NEW j \in DOMAIN ranges, NEW k \in DOMAIN ranges, j < k
               PROVE  j + ranges[j] < k
    BY DEF Apart
  <2>1. CASE j = first
    <3>1. k \in D \ absorbed /\ k # first /\ k \in Nat /\ edges[k] \in Nat
      BY <1>3, <1>13, <1>15, <2>1
    <3> QED
      BY <1>13, <1>14, <1>15, <1>16, <2>1, <3>1
  <2>2. CASE j # first /\ k = first
    <3>1. j \in D \ absorbed /\ j \in Nat /\ edges[j] \in Nat /\ ranges[j] = edges[j]
      BY <1>3, <1>15, <2>2
    <3> QED
      BY <1>7, <1>13, <1>14, <2>2, <3>1
  <2>3. CASE j # first /\ k # first
    BY <1>3, <1>15, <2>3
  <2> QED
    BY <2>1, <2>2, <2>3
<1>19. Within(ranges, S)
  <2> SUFFICES ASSUME NEW k \in DOMAIN ranges, NEW q \in Nat, k <= q, q < k + ranges[k]
               PROVE  q \in S
    BY DEF Within
  <2>1. \A j \in D : j <= q /\ q < j + edges[j] => q \in S
    BY DEF Within
  <2>2. CASE k # first
    BY <1>15, <2>1, <2>2
  <2>3. CASE k = first
    <3>1. q < end /\ first <= q
      BY <1>15, <1>16, <2>3
    <3>2. CASE q < seq
      BY <1>13, <2>1, <3>1, <3>2, <1>3
    <3>3. CASE seq <= q /\ q < seq + len
      BY <3>3
    <3>4. CASE seq + len <= q
      <4>1. PICK a \in absorbed : end = a + edges[a]
        BY <1>7, <3>1, <3>4
      <4>2. a \in D /\ a <= seq + len /\ a \in Nat
        BY <1>1, <1>3, <4>1
      <4> QED
        BY <2>1, <3>1, <3>4, <4>1, <4>2
    <3> QED
      BY <3>2, <3>3, <3>4
  <2> QED
    BY <2>2, <2>3
<1>20. Spans(ranges, seq, seq + len)
  BY <1>7, <1>13, <1>15, <1>16 DEF Spans
<1> QED
  BY <1>17, <1>18, <1>19, <1>20
-----------------------------------------------------------------------------
(* Storing into the ring *)

\* The payload is at its offset, and the bytes beside it are where they were.
Placed(new, new_len, buf, len, head_, size_, offset, n, data) ==
    /\ \A j \in 1 .. n : new[Place(new_len, head_ + (offset + (j - 1))) + 1] = data[j]
    /\ \A d \in 0 .. size_ - 1 :
          d < offset \/ offset + n <= d =>
              new[Place(new_len, head_ + d) + 1] = buf[Place(len, head_ + d) + 1]

LEMMA StorePlaces ==
    ASSUME NEW len \in Nat, NEW buf, IsArray(buf, len),
           NEW size_ \in 0 .. len, NEW head_ \in Nat, head_ < len \/ head_ = 0,
           NEW cap \in Nat, len <= cap,
           NEW offset \in Nat, NEW n \in Nat \ {0}, offset + n <= cap,
           NEW data, IsArray(data, n),
           NEW grown, grown = Extend(buf, head_, size_, cap, offset + n),
           NEW new, new = CopyRing(grown, (head_ + offset) % Len(grown), data)
    PROVE  \E new_len \in 1 .. cap :
              /\ IsArray(grown, new_len) /\ IsArray(new, new_len)
              /\ offset + n <= new_len /\ len <= new_len /\ head_ < new_len
              /\ Placed(new, new_len, buf, len, head_, size_, offset, n, data)
<1>1. offset + n \in 1 .. cap
  OBVIOUS
<1>2. PICK new_len \in 1 .. cap :
        /\ IsArray(grown, new_len) /\ offset + n <= new_len /\ len <= new_len
        /\ SameRing(grown, new_len, buf, len, head_, size_)
  BY <1>1, ExtendKeeps, Zenon
<1>3. new_len \in Nat \ {0} /\ head_ < new_len /\ n \in 0 .. new_len
      /\ head_ + offset \in Nat /\ head_ + offset < 2 * new_len
  BY <1>2
<1>4. Len(grown) = new_len
  BY <1>2, ArrayLen
<1>5. PICK at : at = (head_ + offset) % new_len
  OBVIOUS
<1>6. at = Place(new_len, head_ + offset) /\ at \in 0 .. new_len - 1
  BY <1>3, <1>5, ModPlace, Zenon
<1>7. new = CopyRing(grown, at, data)
  BY <1>4, <1>5
<1>8. IsArray(new, new_len) /\ Copied(new, new_len, grown, at, n, data)
  BY <1>2, <1>3, <1>6, <1>7, CopyRingIs
<1>9. ASSUME NEW j \in 1 .. n
      PROVE  new[Place(new_len, head_ + (offset + (j - 1))) + 1] = data[j]
  <2>1. /\ j - 1 \in 0 .. new_len - 1 /\ j - 1 < n /\ (j - 1) + 1 = j
        /\ Place(new_len, at + (j - 1)) = Place(new_len, head_ + (offset + (j - 1)))
    BY <1>2, <1>3, <1>6 DEF Place
  <2> QED
    BY <1>8, <2>1, Zenon DEF Copied
<1>10. ASSUME NEW d \in 0 .. size_ - 1, d < offset \/ offset + n <= d
       PROVE  new[Place(new_len, head_ + d) + 1] = buf[Place(len, head_ + d) + 1]
  <2>1. PICK k : k = IF d < offset THEN d - offset + new_len ELSE d - offset
    OBVIOUS
  <2>2. k \in 0 .. new_len - 1 /\ ~(k < n) /\ Place(new_len, at + k) = Place(new_len, head_ + d)
    BY <1>2, <1>3, <1>6, <1>10, <2>1 DEF Place
  <2>3. new[Place(new_len, head_ + d) + 1] = grown[Place(new_len, head_ + d) + 1]
    BY <1>8, <2>2, Zenon DEF Copied
  <2> QED
    BY <1>2, <2>3 DEF SameRing
<1> QED
  BY <1>2, <1>3, <1>8, <1>9, <1>10, Zenon DEF Placed

\* A vector of n members of S.
ArrayIn(f, n, S) == f \in [1 .. n -> S]

\* Nothing but the values that were there, 0 and the payload comes into the ring.
LEMMA CopyWithin ==
    ASSUME NEW S, NEW len \in Nat, NEW buf, ArrayIn(buf, len, S), NEW at \in Int,
           NEW n \in Nat, NEW data, ArrayIn(data, n, S)
    PROVE  ArrayIn(CopyRing(buf, at, data), len, S)
<1>1. Len(buf) = len /\ DOMAIN buf = 1 .. len /\ Len(data) = n
  BY DEF ArrayIn
<1>2. ASSUME NEW i \in 1 .. len
      PROVE  (IF (i - 1 - at) % len < n THEN data[((i - 1 - at) % len) + 1] ELSE buf[i]) \in S
  <2>1. (i - 1 - at) % len \in Nat
    OBVIOUS
  <2> QED
    BY <2>1 DEF ArrayIn
<1> QED
  BY <1>1, <1>2 DEF CopyRing, ArrayIn

LEMMA SubSeqWithin ==
    ASSUME NEW S, NEW len \in Nat, NEW f, ArrayIn(f, len, S),
           NEW a \in Nat, NEW b \in Nat, a + b <= len
    PROVE  ArrayIn(SubSeq(f, a + 1, a + b), b, S)
<1>1. f \in Seq(S) /\ Len(f) = len
  BY DEF ArrayIn
<1>2. SubSeq(f, a + 1, a + b) = [j \in 1 .. b |-> f[a + j]]
  BY <1>1
<1>3. \A j \in 1 .. b : f[a + j] \in S
  BY DEF ArrayIn
<1>4. PICK g : g = SubSeq(f, a + 1, a + b)
  BY Zenon
<1>5. ArrayIn(g, b, S)
  BY <1>2, <1>3, <1>4, Zenon DEF ArrayIn
<1> QED
  BY <1>4, <1>5

LEMMA ExtendWithin ==
    ASSUME NEW S, 0 \in S, NEW len \in Nat, NEW buf, ArrayIn(buf, len, S),
           NEW size_ \in 0 .. len, NEW head_ \in Nat, head_ < len \/ head_ = 0,
           NEW cap \in Nat, len <= cap, NEW need \in 1 .. cap,
           NEW new_len \in Nat, NEW new, new = Extend(buf, head_, size_, cap, need),
           IsArray(new, new_len)
    PROVE  ArrayIn(new, new_len, S)
<1>1. Len(buf) = len /\ Len(new) = new_len
  BY ArrayLen DEF ArrayIn
<1>2. CASE need <= len
  BY <1>1, <1>2 DEF Extend
<1>3. CASE need > len
  <2>1. PICK to \in Nat : to = Smaller(cap, Larger((len * 3) \div 2, need))
    BY DEF Smaller, Larger
  <2>2. len < to
    <3>1. (len * 3) \div 2 \in Nat
      OBVIOUS
    <3> QED
      BY <1>3, <2>1, <3>1 DEF Smaller, Larger
  <2>3. PICK resized : resized = [i \in 1 .. to |-> IF i <= len THEN buf[i] ELSE 0]
    BY Zenon
  <2>4. ArrayIn(resized, to, S)
    BY <2>2, <2>3 DEF ArrayIn
  <2>5. PICK tail : tail = TailIndex(buf, head_, size_)
    OBVIOUS
  <2>6. tail \in Nat /\ tail <= len
    BY <1>1, <2>5 DEF TailIndex
  <2>7. PICK lenA : lenA = Smaller(tail, to - len)
    OBVIOUS
  <2>8. lenA \in Nat /\ lenA <= tail
    BY <2>2, <2>6, <2>7 DEF Smaller
  <2>9. PICK behind : behind = CopyRing(resized, len, SubSeq(resized, 1, lenA))
    OBVIOUS
  <2>10. ArrayIn(behind, to, S)
    <3>1. 0 \in Nat /\ 0 + lenA <= to /\ 0 + 1 = 1 /\ 0 + lenA = lenA /\ len \in Int
      BY <2>2, <2>6, <2>8
    <3>2. ArrayIn(SubSeq(resized, 0 + 1, 0 + lenA), lenA, S)
      BY <2>4, <2>8, <3>1, SubSeqWithin, Zenon
    <3>3. ArrayIn(SubSeq(resized, 1, lenA), lenA, S)
      BY <3>1, <3>2
    <3> QED
      BY <2>4, <2>8, <2>9, <3>1, <3>3, CopyWithin
  <2>11. PICK lenB \in Nat : lenB = tail - lenA
    BY <2>6, <2>8
  <2>12. ArrayIn(CopyRing(behind, 0, SubSeq(behind, lenA + 1, lenA + lenB)), to, S)
    <3>1. lenA + lenB <= to /\ 0 \in Int
      BY <2>2, <2>6, <2>8, <2>11
    <3>2. ArrayIn(SubSeq(behind, lenA + 1, lenA + lenB), lenB, S)
      BY <2>8, <2>10, <3>1, SubSeqWithin, Zenon
    <3> QED
      BY <2>10, <3>1, <3>2, CopyWithin
  <2>13. new \in {resized, behind, CopyRing(behind, 0, SubSeq(behind, lenA + 1, lenA + lenB))}
    BY <1>1, <1>3, <2>1, <2>3, <2>5, <2>7, <2>9, <2>11 DEF Extend
  <2>14. ArrayIn(new, to, S)
    BY <2>4, <2>10, <2>12, <2>13
  <2>15. to = new_len
    BY <1>1, <2>14 DEF ArrayIn
  <2> QED
    BY <2>14, <2>15
<1> QED
  BY <1>2, <1>3

-----------------------------------------------------------------------------
(* The invariant *)

\* The ring has its form.
RingForm(buf, h, sz) ==
    /\ Len(buf) \in 0 .. Capacity /\ ArrayIn(buf, Len(buf), 0 .. StreamLen)
    /\ h \in Nat /\ (h < Len(buf) \/ h = 0)
    /\ sz \in 0 .. Len(buf)

\* o bytes were handed out, and the last one that arrived is sz behind them.
Spanned(arr, o, sz) ==
    /\ o \in 0 .. StreamLen /\ arr \subseteq Byte /\ 1 .. o \subseteq arr
    /\ \A b \in arr : b <= o + sz
    /\ sz > 0 => o + sz \in arr

\* The sequence numbers whose byte has arrived and is in its place.
HeldAt(buf, h, o, arr) ==
    {q \in Nat : /\ q - ISN + 1 \in arr
                 /\ buf[Place(Len(buf), h + (q - (ISN + o))) + 1] = q - ISN + 1}

\* The ranges from lo on are held.
RangesHeld(e, lo, buf, h, sz, arr, o) ==
    /\ AreRanges(e) /\ Inside(e, lo, ISN + o + sz) /\ Apart(e)
    /\ Within(e, HeldAt(buf, h, o, arr))

WindowInv ==
    /\ RingForm(buffer, head, size)
    /\ Spanned(arrived, Len(output), size)
    /\ RangesHeld(edges, ISN + Len(output) + 1, buffer, head, size, arrived, Len(output))
    /\ output = [i \in 1 .. Len(output) |-> i]
    /\ sequence = ISN + Len(output)
    /\ panicked \in BOOLEAN

\* Bounds of what is compared.
LEMMA Bounds ==
    ASSUME NoWrap
    PROVE  /\ U32_MAX \in Nat /\ MAX_U32_WINDOW_SIZE \in Nat /\ ISN \in Nat
           /\ StreamLen \in Nat \ {0} /\ Capacity \in Nat /\ Capacity <= MAX_U32_WINDOW_SIZE
           /\ 2 * MAX_U32_WINDOW_SIZE < U32_MAX
           /\ ISN + StreamLen <= U32_MAX /\ StreamLen + MAX_U32_WINDOW_SIZE < U32_MAX
           /\ MaxSegment \in 1 .. StreamLen
  BY WidthAssumption, WindowAssumption DEF NoWrap, U32

LEMMA InitInv ==
    ASSUME NoWrap, Init
    PROVE  WindowInv
<1>1. /\ buffer = <<>> /\ Len(buffer) = 0 /\ output = <<>> /\ Len(output) = 0
      /\ edges = <<>> /\ DOMAIN edges = {} /\ head = 0 /\ size = 0 /\ arrived = {}
      /\ sequence = ISN /\ panicked = FALSE
  BY DEF Init
<1>2. RingForm(buffer, head, size)
  BY <1>1, Bounds DEF RingForm, ArrayIn
<1>3. Spanned(arrived, Len(output), size)
  BY <1>1, Bounds DEF Spanned
<1>4. RangesHeld(edges, ISN + Len(output) + 1, buffer, head, size, arrived, Len(output))
  BY <1>1 DEF RangesHeld, AreRanges, Inside, Apart, Within
<1>5. output = [i \in 1 .. Len(output) |-> i] /\ sequence = ISN + Len(output)
  BY <1>1, Bounds
<1> QED
  BY <1>1, <1>2, <1>3, <1>4, <1>5, Zenon DEF WindowInv

-----------------------------------------------------------------------------
(* Storing a segment *)

\* The bytes from b on, n of them.
Payload(b, n) == [i \in 1 .. n |-> b + i - 1]

LEMMA PayloadIs ==
    ASSUME NEW b \in Byte, NEW n \in Nat \ {0}, b + n - 1 <= StreamLen, StreamLen \in Nat
    PROVE  /\ IsArray(Payload(b, n), n) /\ Len(Payload(b, n)) = n
           /\ ArrayIn(Payload(b, n), n, 0 .. StreamLen)
           /\ Range(Payload(b, n)) = b .. b + n - 1
<1>1. \A i \in 1 .. n : b + i - 1 \in 0 .. StreamLen /\ b + i - 1 \in Nat
  BY DEF Byte
<1>2. /\ IsArray(Payload(b, n), n) /\ ArrayIn(Payload(b, n), n, 0 .. StreamLen)
  BY <1>1 DEF Payload, IsArray, ArrayIn
<1>3. Range(Payload(b, n)) = {b + i - 1 : i \in 1 .. n}
  BY DEF Range, Payload
<1>4. \A x \in b .. b + n - 1 : (x - b) + 1 \in 1 .. n /\ b + ((x - b) + 1) - 1 = x
  BY DEF Byte
<1>5. \A i \in 1 .. n : b + i - 1 \in b .. b + n - 1
  BY DEF Byte
<1> QED
  BY <1>2, <1>3, <1>4, <1>5, ArrayLen

\* What the ring holds after the bytes are copied into it: what it held, and the
\* segment.
LEMMA BufferHolds ==
    ASSUME NoWrap, NEW buf, NEW h, NEW sz, RingForm(buf, h, sz),
           NEW arr, NEW o, Spanned(arr, o, sz),
           NEW e, RangesHeld(e, ISN + o + 1, buf, h, sz, arr, o),
           NEW b \in Byte, o < b, NEW n \in Nat \ {0}, b + n - 1 <= StreamLen,
           b - 1 - o + n <= Capacity,
           NEW grown, grown = Extend(buf, h, sz, Capacity, b - 1 - o + n),
           NEW new, new = CopyRing(grown, (h + (b - 1 - o)) % Len(grown), Payload(b, n))
    PROVE  /\ RingForm(new, h, Larger(sz, b - 1 - o + n)) /\ h < Len(new)
           /\ Within(e, HeldAt(new, h, o, arr \cup (b .. b + n - 1)))
           /\ \A q \in Nat : ISN + b - 1 <= q /\ q < ISN + b - 1 + n =>
                                q \in HeldAt(new, h, o, arr \cup (b .. b + n - 1))
<1> DEFINE L == Len(buf)
           data == Payload(b, n)
           offset == b - 1 - o
           got == arr \cup (b .. b + n - 1)
<1>1. /\ L \in Nat /\ L <= Capacity /\ ArrayIn(buf, L, 0 .. StreamLen) /\ IsArray(buf, L)
      /\ h \in Nat /\ (h < L \/ h = 0) /\ sz \in 0 .. L
  BY Bounds, SMTT(60) DEF RingForm, IsArray, ArrayIn
<1>2. o \in Nat /\ b \in Nat /\ offset \in Nat /\ StreamLen \in Nat /\ Capacity \in Nat /\ ISN \in Nat
  BY Bounds DEF Spanned, Byte
<1>3. IsArray(data, n) /\ ArrayIn(data, n, 0 .. StreamLen) /\ \A j \in 1 .. n : data[j] = b + (j - 1)
  BY <1>2, PayloadIs DEF Payload
<1>4. grown = Extend(buf, h, sz, Capacity, offset + n)
      /\ new = CopyRing(grown, (h + offset) % Len(grown), data) /\ offset + n <= Capacity
  OBVIOUS
<1> HIDE DEF L, data, offset
<1>5. PICK new_len \in 1 .. Capacity :
              /\ IsArray(grown, new_len) /\ IsArray(new, new_len)
              /\ offset + n <= new_len /\ L <= new_len /\ h < new_len
              /\ Placed(new, new_len, buf, L, h, sz, offset, n, data)
  BY <1>1, <1>2, <1>3, <1>4, StorePlaces, Zenon
<1>6. Len(new) = new_len /\ Len(grown) = new_len /\ new_len \in Nat
  BY <1>2, <1>5, ArrayLen
<1>7. ArrayIn(new, new_len, 0 .. StreamLen)
  <2>1. offset + n \in 1 .. Capacity /\ 0 \in 0 .. StreamLen
    BY <1>2, <1>4
  <2>2. ArrayIn(grown, new_len, 0 .. StreamLen)
    BY <1>1, <1>2, <1>4, <1>5, <1>6, <2>1, ExtendWithin, Zenon
  <2>3. (h + offset) % Len(grown) \in Int
    BY <1>1, <1>2, <1>5, <1>6
  <2> QED
    BY <1>3, <1>4, <1>6, <2>2, <2>3, CopyWithin
<1>8. RingForm(new, h, Larger(sz, offset + n)) /\ h < Len(new)
  <2>1. PICK t : t = Larger(sz, offset + n)
    OBVIOUS
  <2>2. t \in 0 .. new_len /\ new_len \in 0 .. Capacity
    BY <1>1, <1>2, <1>5, <2>1 DEF Larger
  <2> QED
    BY <1>1, <1>5, <1>6, <1>7, <2>1, <2>2 DEF RingForm
<1>9. ASSUME NEW q \in Nat, ISN + b - 1 <= q, q < ISN + b - 1 + n
      PROVE  q \in HeldAt(new, h, o, got)
  <2>1. PICK j \in 1 .. n : j = q - (ISN + b - 1) + 1
    BY <1>2, <1>9
  <2>2. offset + (j - 1) = q - (ISN + o) /\ b + (j - 1) = q - ISN + 1
    BY <1>2, <1>9, <2>1 DEF offset
  <2>3. new[Place(new_len, h + (offset + (j - 1))) + 1] = b + (j - 1)
    BY <1>3, <1>5, Zenon DEF Placed
  <2>4. q - ISN + 1 \in got
    BY <1>2, <2>1, <2>2
  <2> QED
    BY <1>6, <2>2, <2>3, <2>4 DEF HeldAt
<1>10. ASSUME NEW k \in DOMAIN e, NEW q \in Nat, k <= q, q < k + e[k]
       PROVE  q \in HeldAt(new, h, o, got)
  <2>1. /\ q - ISN + 1 \in arr
        /\ buf[Place(L, h + (q - (ISN + o))) + 1] = q - ISN + 1
    BY <1>10 DEF RangesHeld, Within, HeldAt, L
  <2>2. k \in Nat /\ e[k] \in Nat /\ ISN + o + 1 <= k /\ k + e[k] <= ISN + o + sz
    BY DEF RangesHeld, AreRanges, Inside
  <2>3. PICK d \in 0 .. sz - 1 : d = q - (ISN + o)
    BY <1>1, <1>2, <1>10, <2>2
  <2>4. CASE d < offset \/ offset + n <= d
    <3>1. new[Place(new_len, h + d) + 1] = buf[Place(L, h + d) + 1]
      BY <1>5, <2>4 DEF Placed
    <3> QED
      BY <1>6, <2>1, <2>3, <3>1 DEF HeldAt
  <2>5. CASE offset <= d /\ d < offset + n
    <3>1. ISN + b - 1 <= q /\ q < ISN + b - 1 + n
      BY <1>2, <2>3, <2>5 DEF offset
    <3> QED
      BY <1>9, <3>1, Zenon
  <2> QED
    BY <1>2, <2>3, <2>4, <2>5
<1>11. Within(e, HeldAt(new, h, o, got))
  BY <1>10, Zenon DEF Within
<1> QED
  BY <1>8, <1>9, <1>11, Zenon DEF offset

\* The size covers the segment as well.
LEMMA SpannedGrows ==
    ASSUME NoWrap, NEW arr, NEW o, NEW sz \in Nat, Spanned(arr, o, sz),
           NEW b \in Byte, o < b, NEW n \in Nat \ {0}, b + n - 1 <= StreamLen
    PROVE  Spanned(arr \cup (b .. b + n - 1), o, Larger(sz, b - 1 - o + n))
<1>1. PICK t : t = Larger(sz, b - 1 - o + n)
  OBVIOUS
<1>2. o \in Nat /\ b \in Nat /\ StreamLen \in Nat
  BY Bounds DEF Spanned, Byte
<1>3. /\ t \in Nat /\ sz <= t /\ b - 1 - o + n <= t
      /\ t = sz \/ t = b - 1 - o + n
  BY <1>1, <1>2 DEF Larger
<1>4. b .. b + n - 1 \subseteq Byte
  BY <1>2 DEF Byte
<1>5. \A x \in b .. b + n - 1 : x <= o + t
  BY <1>2, <1>3
<1>6. \A x \in arr : x <= o + t
  BY <1>2, <1>3 DEF Spanned, Byte
<1>7. t > 0 => o + t \in arr \cup (b .. b + n - 1)
  <2>1. CASE t = b - 1 - o + n
    BY <1>2, <2>1
  <2>2. CASE t = sz
    BY <2>2 DEF Spanned
  <2> QED
    BY <1>3, <2>1, <2>2
<1>8. Spanned(arr \cup (b .. b + n - 1), o, t)
  BY <1>4, <1>5, <1>6, <1>7 DEF Spanned
<1> QED
  BY <1>1, <1>8

\* The code computes it by comparing ends in u32.
LEMMA GrownIs ==
    ASSUME NoWrap, NEW o, sequence = ISN + o, NEW arr, Spanned(arr, o, size),
           RingForm(buffer, head, size),
           NEW b \in Byte, o < b, NEW n \in Nat \ {0}, b + n - 1 <= StreamLen,
           b - 1 - o + n <= Capacity
    PROVE  Grown(ISN + b - 1, n) = Larger(size, b - 1 - o + n)
<1>1. /\ o \in Nat /\ b \in Nat /\ size \in Nat /\ size <= Capacity /\ ISN \in Nat
      /\ o + size <= StreamLen
  <2>1. o \in 0 .. StreamLen /\ StreamLen \in Nat /\ Capacity \in Nat /\ ISN \in Nat
    BY Bounds DEF Spanned
  <2>2. size \in Nat /\ size <= Capacity
    BY <2>1 DEF RingForm
  <2>3. size > 0 => o + size \in 1 .. StreamLen
    BY Zenon DEF Spanned, Byte
  <2>4. o + size <= StreamLen
    BY <2>1, <2>2, <2>3
  <2> QED
    BY <2>1, <2>2, <2>4 DEF Byte
<1>2. PICK x \in Nat : x = ISN + b - 1 + n
  BY <1>1
<1>3. PICK y \in Nat : y = ISN + o + size
  BY <1>1
<1>4. WrappingAdd(ISN + b - 1, n) = x /\ WrappingAdd(sequence, size) = y
  BY <1>1, <1>2, <1>3, Bounds DEF WrappingAdd
<1>5. PICK z : z = Distance(x, y)
  OBVIOUS
<1>6. IF x >= y THEN z = x - y /\ z <= MAX_U32_WINDOW_SIZE ELSE z > MAX_U32_WINDOW_SIZE
  BY <1>1, <1>2, <1>3, <1>5, Bounds DEF Distance
<1>7. Grown(ISN + b - 1, n) = IF z <= MAX_U32_WINDOW_SIZE THEN size + z ELSE size
  BY <1>4, <1>5 DEF Grown
<1>8. PICK need \in Nat : need = b - 1 - o + n
  BY <1>1
<1>9. x - y = need - size
  BY <1>1, <1>2, <1>3, <1>8
<1>10. CASE x >= y
  <2>1. need >= size /\ size + z = need
    BY <1>1, <1>6, <1>10, <1>9
  <2> QED
    BY <1>1, <1>6, <1>7, <1>10, <1>8, <2>1 DEF Larger
<1>11. CASE ~(x >= y)
  <2>1. size >= need /\ ~(z <= MAX_U32_WINDOW_SIZE)
    <3>1. z \in Int
      BY <1>5, Bounds DEF Distance
    <3> QED
      BY <1>1, <1>6, <1>11, <1>9, <3>1, Bounds
  <2> QED
    BY <1>1, <1>7, <1>8, <2>1 DEF Larger
<1> QED
  BY <1>10, <1>11

-----------------------------------------------------------------------------
(* Handing out the first range *)

\* Places counted from a head that has moved on.
LEMMA PlaceOn ==
    ASSUME NEW len \in Nat \ {0}, NEW h \in Nat, h < len
    PROVE  \A m, d \in Nat : m <= len /\ m <= d /\ d < len =>
                Place(len, Place(len, h + m) + (d - m)) = Place(len, h + d)
  BY DEF Place

\* If no range begins at the head, all begin behind it.
LEMMA NothingDue ==
    ASSUME NEW e, NEW lo \in Nat, NEW hi, AreRanges(e), Inside(e, lo, hi), lo \notin DOMAIN e
    PROVE  Inside(e, lo + 1, hi)
  BY DEF AreRanges, Inside

\* If one does, its bytes are the next ones of the stream, and the others stay
\* held when the head moves on.
LEMMA PopKeeps ==
    ASSUME NoWrap, NEW buf, NEW h, NEW sz, RingForm(buf, h, sz), h < Len(buf),
           NEW arr, NEW o, Spanned(arr, o, sz),
           NEW e, RangesHeld(e, ISN + o, buf, h, sz, arr, o), ISN + o \in DOMAIN e,
           NEW m, m = e[ISN + o],
           NEW to, to = (h + (m % Len(buf))) % Len(buf),
           NEW f, f = Restrict(e, DOMAIN e \ {ISN + o})
    PROVE  /\ m \in 1 .. sz /\ RingForm(buf, to, sz - m) /\ Spanned(arr, o + m, sz - m)
           /\ RangesHeld(f, ISN + (o + m) + 1, buf, to, sz - m, arr, o + m)
           /\ ReadRing(buf, h, m) = [i \in 1 .. m |-> o + i]
<1>1. PICK len : len = Len(buf)
  OBVIOUS
<1>2. /\ len \in Nat \ {0} /\ len <= Capacity /\ ArrayIn(buf, len, 0 .. StreamLen) /\ IsArray(buf, len)
      /\ h \in Nat /\ h < len /\ sz \in 0 .. len
  BY <1>1, Bounds DEF RingForm, IsArray, ArrayIn
<1>3. o \in Nat /\ StreamLen \in Nat /\ Capacity \in Nat /\ ISN \in Nat
  BY Bounds DEF Spanned
<1>4. PICK lo \in Nat : lo = ISN + o
  BY <1>3
<1>5. /\ m \in Nat \ {0} /\ lo + m <= lo + sz
  BY <1>4 DEF RangesHeld, AreRanges, Inside
<1>6. m \in 1 .. sz
  BY <1>2, <1>5
<1>7. \A q \in Nat : lo <= q /\ q < lo + m =>
            q - ISN + 1 \in arr /\ buf[Place(len, h + (q - lo)) + 1] = q - ISN + 1
  BY <1>1, <1>4 DEF RangesHeld, Within, HeldAt
<1>8. to = Place(len, h + m) /\ to \in 0 .. len - 1
  <2>1. CASE m < len
    <3>1. m \in Int /\ 0 <= m /\ h + m \in Nat /\ h + m < 2 * len
      BY <1>2, <1>5, <2>1, SMTT(60)
    <3>2. m % len = m
      BY <1>2, <2>1, <3>1, ModOnce, Zenon
    <3> QED
      BY <1>1, <1>2, <3>1, <3>2, ModPlace, Zenon
  <2>2. CASE m = len
    <3>1. m % len = 0 /\ h + 0 = h
      BY <1>2, <2>2
    <3>2. h % len = h
      BY <1>2, ModOnce
    <3>3. to = h
      BY <1>1, <3>1, <3>2
    <3> QED
      BY <1>2, <2>2, <3>3 DEF Place
  <2> QED
    BY <1>2, <1>6, <2>1, <2>2
<1>9. \A x, y \in Nat : x <= len /\ x <= y /\ y < len =>
                Place(len, Place(len, h + x) + (y - x)) = Place(len, h + y)
  BY <1>2, PlaceOn, Zenon
<1>10. RingForm(buf, to, sz - m)
  <2>1. to \in Nat /\ to < len /\ sz - m \in 0 .. len /\ len \in 0 .. Capacity
    BY <1>2, <1>3, <1>6, <1>8, SMTT(60)
  <2> QED
    BY <1>1, <1>2, <2>1 DEF RingForm
<1>11. Spanned(arr, o + m, sz - m)
  <2>1. (o + m) + (sz - m) = o + sz
    BY <1>2, <1>3, <1>6
  <2>2. ASSUME NEW b \in 1 .. o + m
        PROVE  b \in arr
    <3>1. CASE b <= o
      BY <3>1, <1>3, <1>6 DEF Spanned
    <3>2. CASE b > o
      <4>1. PICK q \in Nat : q = ISN + (b - 1)
        BY <1>3, <1>6, <3>2
      <4>2. lo <= q /\ q < lo + m /\ q - ISN + 1 = b
        BY <1>3, <1>4, <1>6, <3>2, <4>1
      <4> QED
        BY <1>7, <4>2
    <3> QED
      BY <1>3, <1>6, <3>1, <3>2
  <2>3. o + m \in 0 .. StreamLen
    <3>1. o + m \in 1 .. o + m
      BY <1>3, <1>5
    <3>2. o + m \in arr
      BY <2>2, <3>1
    <3>3. PICK x : x = o + m
      OBVIOUS
    <3>4. x \in 1 .. StreamLen
      BY <3>2, <3>3 DEF Spanned, Byte
    <3> QED
      BY <1>3, <3>3, <3>4
  <2>4. sz - m > 0 => sz > 0
    BY <1>2, <1>6
  <2> QED
    BY <2>1, <2>2, <2>3, <2>4 DEF Spanned
<1>12. DOMAIN f = DOMAIN e \ {lo} /\ \A k \in DOMAIN f : f[k] = e[k]
  BY <1>4 DEF Restrict
<1>13. /\ \A k \in DOMAIN e : k \in Nat /\ e[k] \in Nat \ {0} /\ lo <= k /\ k + e[k] <= lo + sz
       /\ \A j, k \in DOMAIN e : j < k => j + e[j] < k
  BY <1>4 DEF RangesHeld, AreRanges, Inside, Apart
<1>14. \A k \in DOMAIN f : lo + m < k
  BY <1>4, <1>12, <1>13
<1>15. lo + m \in Nat /\ (lo + m) + (sz - m) = lo + sz /\ ISN + (o + m) = lo + m
  BY <1>2, <1>3, <1>4, <1>6, SMTT(60)
<1>16. AreRanges(f) /\ Apart(f)
  BY <1>12, <1>13, Zenon DEF AreRanges, Apart
<1>17. Inside(f, ISN + (o + m) + 1, ISN + (o + m) + (sz - m))
  <2> SUFFICES ASSUME NEW k \in DOMAIN f
               PROVE  ISN + (o + m) + 1 <= k /\ k + f[k] <= ISN + (o + m) + (sz - m)
    BY Zenon DEF Inside
  <2>1. k \in Nat /\ lo + m < k /\ k + f[k] <= lo + sz
    BY <1>12, <1>13, <1>14, Zenon
  <2> QED
    BY <1>15, <2>1
<1>18. Within(f, HeldAt(buf, to, o + m, arr))
  <2> SUFFICES ASSUME NEW k \in DOMAIN f, NEW q \in Nat, k <= q, q < k + f[k]
               PROVE  q \in HeldAt(buf, to, o + m, arr)
    BY Zenon DEF Within
  <2>1. k \in DOMAIN e /\ f[k] = e[k] /\ k \in Nat /\ e[k] \in Nat /\ lo + m < k /\ k + e[k] <= lo + sz
    BY <1>12, <1>13, <1>14, Zenon
  <2>2. q - ISN + 1 \in arr /\ buf[Place(len, h + (q - lo)) + 1] = q - ISN + 1
    BY <1>1, <1>4, <2>1 DEF RangesHeld, Within, HeldAt
  <2>3. PICK d \in Nat : d = q - lo
    BY <1>6, <2>1
  <2>4. m < d /\ d < len
    BY <1>2, <1>6, <2>1, <2>3, SMTT(60)
  <2>5. Place(len, to + (d - m)) = Place(len, h + d)
    <3>1. m \in Nat /\ m <= len /\ m <= d
      BY <1>2, <1>6, <2>3, <2>4
    <3>2. Place(len, Place(len, h + m) + (d - m)) = Place(len, h + d)
      BY <1>9, <2>4, <3>1, Zenon
    <3> QED
      BY <1>8, <3>2
  <2>6. q - (lo + m) = d - m
    BY <1>6, <2>3
  <2> QED
    BY <1>1, <1>15, <2>2, <2>3, <2>5, <2>6 DEF HeldAt
<1>19. ReadRing(buf, h, m) = [i \in 1 .. m |-> o + i]
  <2>1. Holds(buf, len, h, m, o + 1)
    <3> SUFFICES ASSUME NEW k \in 0 .. m - 1
                 PROVE  buf[Place(len, h + k) + 1] = o + 1 + k
      BY DEF Holds
    <3>1. PICK q \in Nat : q = lo + k
      OBVIOUS
    <3>2. lo <= q /\ q < lo + m /\ q - lo = k /\ q - ISN + 1 = o + 1 + k
      BY <1>3, <1>4, <1>6, <3>1
    <3> QED
      BY <1>7, <3>2
  <2>2. m \in 0 .. len /\ o + 1 \in Nat /\ len \in Nat
    BY <1>2, <1>3, <1>6
  <2>3. PICK first : first = o + 1
    OBVIOUS
  <2>4. first \in Nat /\ Holds(buf, len, h, m, first) /\ (h < len \/ h = 0)
    BY <1>2, <2>1, <2>2, <2>3
  <2>5. ReadRing(buf, h, m) = [i \in 1 .. m |-> first + i - 1]
    BY <1>2, <2>2, <2>4, ReadHolds
  <2>6. \A i \in 1 .. m : first + i - 1 = o + i
    BY <1>3, <1>6, <2>3
  <2> QED
    BY <2>5, <2>6
<1> QED
  BY <1>6, <1>10, <1>11, <1>16, <1>17, <1>18, <1>19 DEF RangesHeld

-----------------------------------------------------------------------------
(* The step *)

\* What a stored segment of n bytes from b on does to the window's promise.
Accepted(b, n) ==
    /\ arrived' = arrived \cup (b .. b + n - 1)
    /\ Len(output) <= Len(output')
    /\ b = Len(output) + 1 => b + n - 1 <= Len(output')

\* Counting to o and then m further.
LEMMA CountOn ==
    ASSUME NEW o \in Nat, NEW m \in Nat, NEW out,
           out = [i \in 1 .. o |-> i] \o [i \in 1 .. m |-> o + i]
    PROVE  out = [i \in 1 .. o + m |-> i] /\ Len(out) = o + m
<1>1. PICK s : s = [i \in 1 .. o |-> i]
  BY Zenon
<1>2. PICK t : t = [i \in 1 .. m |-> o + i]
  BY Zenon
<1>3. s \in Seq(Nat) /\ Len(s) = o
  BY <1>1
<1>4. t \in Seq(Nat) /\ Len(t) = m
  BY <1>2
<1>5. out = s \o t
  BY <1>1, <1>2
<1>6. out \in Seq(Nat) /\ Len(out) = o + m
  BY <1>3, <1>4, <1>5
<1>7. \A i \in 1 .. o + m : out[i] = i
  BY <1>1, <1>2, <1>3, <1>4, <1>5
<1> QED
  BY <1>6, <1>7

LEMMA StoreKeeps ==
    ASSUME NoWrap, WindowInv, NEW b \in Byte, NEW n \in Nat \ {0}, Len(output) < b,
           b + n - 1 <= StreamLen, Store(ISN + b - 1, Payload(b, n))
    PROVE  WindowInv' /\ Accepted(b, n)
<1>1. PICK o : o = Len(output)
  OBVIOUS
<1>2. /\ RingForm(buffer, head, size) /\ Spanned(arrived, o, size)
      /\ RangesHeld(edges, ISN + o + 1, buffer, head, size, arrived, o)
      /\ output = [i \in 1 .. o |-> i] /\ sequence = ISN + o /\ o < b
  BY <1>1 DEF WindowInv
<1>3. /\ o \in Nat /\ o <= StreamLen /\ b \in Nat /\ ISN \in Nat /\ size \in Nat /\ StreamLen \in Nat
      /\ Capacity \in Nat /\ ISN + StreamLen <= U32_MAX /\ U32_MAX \in Nat /\ panicked \in BOOLEAN
      /\ size <= Capacity
  <2>1. panicked \in BOOLEAN
    BY DEF WindowInv
  <2>2. /\ ISN \in Nat /\ StreamLen \in Nat /\ Capacity \in Nat
        /\ ISN + StreamLen <= U32_MAX /\ U32_MAX \in Nat
    BY Bounds
  <2>3. o \in Nat /\ o <= StreamLen /\ b \in Nat
    BY <1>2, <2>2 DEF Spanned, Byte
  <2>4. size \in Nat /\ size <= Capacity
    BY <1>2, <2>2 DEF RingForm
  <2> QED
    BY <2>1, <2>2, <2>3, <2>4, Zenon
<1>4. PICK need \in Nat : need = b - 1 - o + n
  BY <1>2, <1>3
<1>5. Distance(ISN + b - 1, sequence) = b - 1 - o
  BY <1>2, <1>3 DEF Distance
<1>6. Len(Payload(b, n)) = n /\ Range(Payload(b, n)) = b .. b + n - 1
  BY <1>3, PayloadIs
<1>7. PICK grown : grown = Extend(buffer, head, size, Capacity, b - 1 - o + n)
  OBVIOUS
<1>8. PICK stored : stored = CopyRing(grown, (head + (b - 1 - o)) % Len(grown), Payload(b, n))
  OBVIOUS
<1>9. PICK ranges : ranges = Insert(ISN + b - 1, n)
  OBVIOUS
<1>10. PICK first : first = Min(DOMAIN ranges)
  OBVIOUS
<1>11. PICK m : m = ranges[first]
  OBVIOUS
<1>12. PICK total : total = Larger(size, b - 1 - o + n)
  OBVIOUS
<1>13. PICK got : got = arrived \cup (b .. b + n - 1)
  BY Zenon
<1>14. /\ b - 1 - o + n <= Capacity /\ arrived' = got /\ buffer' = stored /\ panicked' = panicked
       /\ IF AsU32(first) = sequence
          THEN /\ edges' = Shrink(Restrict(ranges, DOMAIN ranges \ {first}), m)
               /\ output' = output \o ReadRing(stored, head, m)
               /\ sequence' = WrappingAdd(sequence, m)
               /\ head' = (head + (m % Len(stored))) % Len(stored)
               /\ size' = Grown(ISN + b - 1, n) - m
          ELSE /\ edges' = ranges /\ size' = Grown(ISN + b - 1, n)
               /\ output' = output /\ sequence' = sequence /\ head' = head
  BY <1>5, <1>6, <1>7, <1>8, <1>9, <1>10, <1>11, <1>13, Zenon DEF Store
<1>15. Grown(ISN + b - 1, n) = total
  BY <1>2, <1>12, <1>14, GrownIs
<1>16. /\ RingForm(stored, head, total) /\ head < Len(stored)
       /\ Within(edges, HeldAt(stored, head, o, got))
       /\ \A q \in Nat : ISN + b - 1 <= q /\ q < ISN + b - 1 + n => q \in HeldAt(stored, head, o, got)
  BY <1>2, <1>7, <1>8, <1>12, <1>13, <1>14, BufferHolds, Zenon
<1>17. Spanned(got, o, total)
  BY <1>2, <1>3, <1>12, <1>13, SpannedGrows, Zenon
<1>18. total \in Nat /\ size <= total /\ need <= total /\ o + total <= StreamLen
  <2>1. total \in Nat /\ size <= total /\ need <= total
    BY <1>3, <1>4, <1>12 DEF Larger
  <2>2. total > 0 => o + total \in 1 .. StreamLen
    BY <1>17, Zenon DEF Spanned, Byte
  <2> QED
    BY <1>3, <2>1, <2>2
<1>19. PICK lo \in Nat : lo = ISN + o
  BY <1>3
<1>20. PICK seq \in Nat : seq = ISN + b - 1
  BY <1>3
<1>21. PICK hi \in Nat : hi = lo + total
  BY <1>18
<1>22. /\ AreRanges(ranges) /\ Inside(ranges, lo, hi) /\ Apart(ranges)
       /\ Within(ranges, HeldAt(stored, head, o, got)) /\ Spans(ranges, seq, seq + n)
  <2>1. AreRanges(edges) /\ Apart(edges) /\ sequence = lo /\ ranges = Insert(seq, n)
    BY <1>2, <1>9, <1>19, <1>20 DEF RangesHeld
  <2>2. lo <= seq /\ seq + n <= hi
    BY <1>2, <1>3, <1>4, <1>18, <1>19, <1>20, <1>21
  <2>3. Inside(edges, lo + 1, hi)
    <3> SUFFICES ASSUME NEW k \in DOMAIN edges
                 PROVE  lo + 1 <= k /\ k + edges[k] <= hi
      BY DEF Inside
    <3>1. /\ k \in Nat /\ edges[k] \in Nat /\ lo + 1 <= k /\ k + edges[k] <= lo + size
      BY <1>2, <1>19 DEF RangesHeld, Inside, AreRanges
    <3> QED
      BY <1>3, <1>18, <1>21, <3>1
  <2>4. \A q \in Nat : seq <= q /\ q < seq + n => q \in HeldAt(stored, head, o, got)
    BY <1>16, <1>20
  <2> QED
    BY <1>16, <2>1, <2>2, <2>3, <2>4, InsertIs, Zenon
<1>23. /\ DOMAIN ranges \in SUBSET Nat /\ DOMAIN ranges # {}
       /\ \A k \in DOMAIN ranges : lo <= k /\ k <= U32_MAX
  <2>1. DOMAIN ranges # {}
    BY <1>22 DEF Spans
  <2>2. ASSUME NEW k \in DOMAIN ranges
        PROVE  k \in Nat /\ lo <= k /\ k <= U32_MAX
    <3>1. k \in Nat /\ ranges[k] \in Nat /\ lo <= k /\ k + ranges[k] <= hi
      BY <1>22 DEF AreRanges, Inside
    <3> QED
      BY <1>3, <1>18, <1>19, <1>21, <3>1
  <2> QED
    BY <2>1, <2>2
<1>24. first \in DOMAIN ranges /\ \A k \in DOMAIN ranges : first <= k
  BY <1>10, <1>23, MinIs
<1>25. AsU32(first) = first
  <2>1. first \in Nat /\ first <= U32_MAX
    BY <1>23, <1>24
  <2> QED
    BY <1>3, <2>1 DEF AsU32
<1>26. lo \in DOMAIN ranges => first = lo
  BY <1>19, <1>23, <1>24
<1>27. b = o + 1 => lo \in DOMAIN ranges /\ n <= ranges[lo]
  <2> SUFFICES ASSUME b = o + 1
               PROVE  lo \in DOMAIN ranges /\ n <= ranges[lo]
    OBVIOUS
  <2>1. PICK k \in DOMAIN ranges : k <= seq /\ seq + n <= k + ranges[k]
    BY <1>22 DEF Spans
  <2>2. seq = lo /\ k \in Nat /\ lo <= k /\ ranges[k] \in Nat
    BY <1>3, <1>19, <1>20, <1>22, <1>23, <2>1 DEF AreRanges
  <2>3. k = lo
    BY <1>19, <2>1, <2>2
  <2> QED
    BY <1>19, <2>1, <2>2, <2>3
<1>28. RangesHeld(ranges, lo, stored, head, total, got, o)
  BY <1>19, <1>21, <1>22 DEF RangesHeld
<1>29. CASE lo \notin DOMAIN ranges
  <2>1. first # lo /\ AsU32(first) # sequence
    BY <1>2, <1>19, <1>24, <1>25, <1>29
  <2>2. /\ buffer' = stored /\ edges' = ranges /\ size' = total /\ output' = output
        /\ sequence' = sequence /\ head' = head /\ arrived' = got /\ panicked' = panicked
    BY <1>14, <1>15, <2>1
  <2>3. RangesHeld(ranges, ISN + o + 1, stored, head, total, got, o)
    BY <1>19, <1>28, <1>29, NothingDue DEF RangesHeld
  <2>4. Len(output') = o
    BY <1>1, <2>2
  <2>5. WindowInv'
    BY <1>2, <1>3, <1>16, <1>17, <2>2, <2>3, <2>4 DEF WindowInv
  <2>6. Accepted(b, n)
    BY <1>1, <1>3, <1>13, <1>27, <1>29, <2>2, <2>4 DEF Accepted
  <2> QED
    BY <2>5, <2>6
<1>30. CASE lo \in DOMAIN ranges
  <2>1. first = lo /\ AsU32(first) = sequence /\ m = ranges[lo]
    BY <1>2, <1>11, <1>19, <1>25, <1>26, <1>30
  <2>2. PICK left : left = Restrict(ranges, DOMAIN ranges \ {lo})
    OBVIOUS
  <2>3. PICK to : to = (head + (m % Len(stored))) % Len(stored)
    OBVIOUS
  <2>4. /\ buffer' = stored /\ edges' = Shrink(left, m) /\ size' = total - m /\ head' = to
        /\ output' = output \o ReadRing(stored, head, m) /\ sequence' = WrappingAdd(sequence, m)
        /\ arrived' = got /\ panicked' = panicked
    BY <1>14, <1>15, <2>1, <2>2, <2>3
  <2>5. /\ m \in 1 .. total /\ RingForm(stored, to, total - m) /\ Spanned(got, o + m, total - m)
        /\ RangesHeld(left, ISN + (o + m) + 1, stored, to, total - m, got, o + m)
        /\ ReadRing(stored, head, m) = [i \in 1 .. m |-> o + i]
    BY <1>16, <1>17, <1>19, <1>28, <1>30, <2>1, <2>2, <2>3, PopKeeps, SMTT(60)
  <2>6. m \in Nat /\ sequence + m <= U32_MAX
    BY <1>2, <1>3, <1>18, <2>5
  <2>7. edges' = left /\ sequence' = ISN + (o + m)
    <3>1. ~(U32_MAX - sequence < m)
      BY <1>2, <1>3, <2>6
    <3>2. edges' = left
      BY <2>4, <3>1 DEF Shrink
    <3>3. sequence' = sequence + m
      BY <2>4, <2>6 DEF WrappingAdd
    <3> QED
      BY <1>2, <1>3, <2>6, <3>2, <3>3
  <2>8. output' = [i \in 1 .. o + m |-> i] /\ Len(output') = o + m
    BY <1>2, <1>3, <2>4, <2>5, <2>6, CountOn
  <2>9. WindowInv'
    BY <1>3, <2>4, <2>5, <2>7, <2>8, Zenon DEF WindowInv
  <2>10. Accepted(b, n)
    <3>1. o <= o + m /\ (b = o + 1 => b + n - 1 <= o + m)
      BY <1>3, <1>27, <2>1, <2>6
    <3> QED
      BY <1>1, <1>13, <2>4, <2>8, <3>1, Zenon DEF Accepted
  <2> QED
    BY <2>9, <2>10
<1> QED
  BY <1>29, <1>30

\* Where nothing wraps, append() takes a segment that begins in the window as it
\* is, cuts one that overlaps its beginning, and leaves or panics on an old one.
LEMMA AppendStores ==
    ASSUME NoWrap, WindowInv, NEW b \in Byte, NEW n \in 1 .. MaxSegment,
           b + n - 1 <= StreamLen, AppendSegment(SequenceOf(b), Payload(b, n))
    PROVE  \/ UNCHANGED vars
           \/ panicked' = TRUE /\ UNCHANGED <<buffer, sequence, head, size, edges, arrived, output>>
           \/ \E c \in Byte, k \in Nat \ {0} :
                 /\ Len(output) < c /\ c + k - 1 <= StreamLen
                 /\ Store(ISN + c - 1, Payload(c, k))
<1>1. PICK o : o = Len(output)
  BY Zenon
<1>2. /\ o \in Nat /\ o <= StreamLen /\ sequence = ISN + o
      /\ b \in Nat /\ b >= 1 /\ n \in Nat \ {0}
  BY <1>1, Bounds DEF WindowInv, Spanned, Byte
<1>3. /\ ISN \in Nat /\ U32_MAX \in Nat /\ StreamLen \in Nat /\ ISN + StreamLen <= U32_MAX
      /\ MAX_U32_WINDOW_SIZE \in Nat /\ StreamLen + MAX_U32_WINDOW_SIZE < U32_MAX
  BY Bounds
<1>4. SequenceOf(b) = ISN + b - 1
  BY <1>2, <1>3 DEF SequenceOf, AsU32
<1>5. Len(Payload(b, n)) = n
  BY <1>2, <1>3, PayloadIs
<1>6. ASSUME AppendAhead(ISN + b - 1, Payload(b, n))
      PROVE  UNCHANGED vars \/ (o < b /\ Store(ISN + b - 1, Payload(b, n)))
  <2>1. CASE o < b
    BY <1>6, <2>1 DEF AppendAhead, Full
  <2>2. CASE ~(o < b)
    <3>1. Distance(ISN + b - 1, sequence) = ISN + b - 1 + (U32_MAX - sequence)
      BY <1>2, <1>3, <2>2 DEF Distance
    <3>2. Distance(ISN + b - 1, sequence) > MAX_U32_WINDOW_SIZE
      BY <1>2, <1>3, <2>2, <3>1
    <3> QED
      BY <1>2, <1>3, <1>6, <3>1, <3>2 DEF AppendAhead, IsStale, IsAtOrAfter
  <2> QED
    BY <2>1, <2>2
<1>7. ASSUME AppendOverlap(ISN + b - 1, Payload(b, n))
      PROVE  \/ UNCHANGED vars
             \/ \E k \in Nat \ {0} : /\ o + 1 \in Byte /\ (o + 1) + k - 1 <= StreamLen
                                     /\ Store(ISN + (o + 1) - 1, Payload(o + 1, k))
  <2>1. PICK skip : skip = AsU32(sequence - (ISN + b - 1))
    OBVIOUS
  <2>2. ~(skip > n) /\ StaleRest(ISN + b - 1, n) > 0
    BY <1>5, <1>7, <2>1 DEF AppendOverlap, SkipPanics
  <2>3. b <= o + 1 /\ skip = o + 1 - b
    <3>1. sequence - (ISN + b - 1) = o + 1 - b
      BY <1>2, <1>3
    <3>2. CASE b <= o + 1
      BY <1>2, <1>3, <2>1, <3>1, <3>2 DEF AsU32
    <3>3. CASE b > o + 1
      <4>1. PICK a \in Nat : a = b - (o + 1)
        BY <1>2, <3>3
      <4>2. a >= 1 /\ a <= U32_MAX /\ o + 1 - b = -a
        BY <1>2, <1>3, <3>3, <4>1 DEF Byte
      <4>3. (-a) % (U32_MAX + 1) = U32_MAX + 1 - a
        BY <1>3, <4>1, <4>2
      <4>4. skip = U32_MAX + 1 - a
        BY <2>1, <3>1, <4>2, <4>3 DEF AsU32
      <4> QED
        BY <1>2, <1>3, <2>2, <4>1, <4>4
    <3> QED
      BY <1>2, <3>2, <3>3
  <2>4. skip \in Nat /\ skip < n
    <3>1. WrappingAdd(ISN + b - 1, n) = ISN + b - 1 + n
      BY <1>2, <1>3 DEF WrappingAdd
    <3>2. skip = n => StaleRest(ISN + b - 1, n) = 0
      BY <1>2, <1>3, <2>3, <3>1 DEF StaleRest
    <3> QED
      BY <1>2, <2>2, <2>3, <3>2
  <2>5. PICK k \in Nat \ {0} : k = n - skip
    BY <1>2, <2>4
  <2>6. SubSeq(Payload(b, n), skip + 1, n) = Payload(o + 1, k)
    <3>1. Payload(b, n) \in Seq(Nat) /\ Len(Payload(b, n)) = n
          /\ \A i \in 1 .. n : Payload(b, n)[i] = b + i - 1
      BY <1>2, <1>5 DEF Payload
    <3>2. SubSeq(Payload(b, n), skip + 1, n) = [i \in 1 .. k |-> Payload(b, n)[i + skip]]
      BY <1>2, <2>4, <2>5, <3>1
    <3>3. \A i \in 1 .. k : Payload(b, n)[i + skip] = (o + 1) + i - 1
      BY <1>2, <2>3, <2>4, <2>5, <3>1
    <3> QED
      BY <3>2, <3>3, Zenon DEF Payload
  <2>7. o + 1 \in Byte /\ (o + 1) + k - 1 <= StreamLen /\ sequence = ISN + (o + 1) - 1
    BY <1>2, <1>3, <2>3, <2>4, <2>5 DEF Byte
  <2> QED
    BY <1>5, <1>7, <2>1, <2>5, <2>6, <2>7, Zenon DEF AppendOverlap, Full
<1>8. CASE AppendAhead(ISN + b - 1, Payload(b, n))
  BY <1>1, <1>2, <1>6, <1>8
<1>9. CASE AppendOverlap(ISN + b - 1, Payload(b, n))
  <2>1. o < o + 1
    BY <1>2
  <2> QED
    BY <1>1, <1>7, <1>9, <2>1
<1>10. CASE AppendOld(ISN + b - 1, Payload(b, n))
  BY <1>10 DEF AppendOld
<1>11. CASE AppendPanic(ISN + b - 1, Payload(b, n))
  BY <1>11 DEF AppendPanic
<1> QED
  BY <1>4, <1>8, <1>9, <1>10, <1>11, Zenon DEF AppendSegment

-----------------------------------------------------------------------------
(* Theorems *)

LEMMA WindowStep ==
    ASSUME NoWrap, WindowInv, [Next]_vars
    PROVE  /\ WindowInv'
           /\ \/ UNCHANGED <<arrived, output>>
              \/ \E c \in Byte, k \in Nat \ {0} :
                    Len(output) < c /\ c + k - 1 <= StreamLen /\ Accepted(c, k)
<1>1. CASE UNCHANGED vars
  BY <1>1 DEF vars, WindowInv
<1>2. CASE panicked' = TRUE /\ UNCHANGED <<buffer, sequence, head, size, edges, arrived, output>>
  BY <1>2 DEF WindowInv
<1>3. ASSUME NEW c \in Byte, NEW k \in Nat \ {0}, Len(output) < c, c + k - 1 <= StreamLen,
             Store(ISN + c - 1, Payload(c, k))
      PROVE  WindowInv' /\ Accepted(c, k)
  BY <1>3, StoreKeeps
<1>4. CASE Next
  <2>1. PICK b \in Byte, n \in 1 .. MaxSegment :
            b + n - 1 <= StreamLen /\ AppendSegment(SequenceOf(b), Payload(b, n))
    BY <1>4, Zenon DEF Next, Payload
  <2>2. \/ UNCHANGED vars
        \/ panicked' = TRUE /\ UNCHANGED <<buffer, sequence, head, size, edges, arrived, output>>
        \/ \E c \in Byte, k \in Nat \ {0} :
              /\ Len(output) < c /\ c + k - 1 <= StreamLen
              /\ Store(ISN + c - 1, Payload(c, k))
    BY <2>1, AppendStores, Zenon
  <2> QED
    BY <1>1, <1>2, <1>3, <2>2, Zenon
<1> QED
  BY <1>1, <1>4

LEMMA WindowReaches == Spec /\ NoWrap => [](NoWrap /\ WindowInv)
<1>1. NoWrap /\ Init => NoWrap /\ WindowInv
  BY InitInv
<1>2. NoWrap /\ WindowInv /\ [Next]_vars => (NoWrap /\ WindowInv)'
  BY WindowStep DEF NoWrap
<1> QED
  BY <1>1, <1>2, PTL DEF Spec

\* Where the ranges lie: behind the head and before the end of the stream, so
\* that no number of them wraps.
LEMMA RangeBounds ==
    ASSUME NoWrap, WindowInv, NEW k \in DOMAIN edges
    PROVE  /\ k \in Nat /\ edges[k] \in Nat \ {0} /\ sequence < k
           /\ k + edges[k] <= sequence + size
           /\ sequence \in Nat /\ size \in Nat /\ sequence + size <= U32_MAX
           /\ U32_MAX \in Nat
<1>1. PICK o : o = Len(output)
  BY Zenon
<1>2. /\ ISN \in Nat /\ StreamLen \in Nat /\ Capacity \in Nat
      /\ ISN + StreamLen <= U32_MAX /\ U32_MAX \in Nat
  BY Bounds
<1>3. o \in 0 .. StreamLen /\ (size > 0 => o + size \in 1 .. StreamLen) /\ sequence = ISN + o
  BY <1>1, Zenon DEF WindowInv, Spanned, Byte
<1>4. size \in Nat
  BY <1>2 DEF WindowInv, RingForm
<1>5. /\ k \in Nat /\ edges[k] \in Nat \ {0} /\ ISN + o + 1 <= k
      /\ k + edges[k] <= ISN + o + size
  BY <1>1 DEF WindowInv, RangesHeld, AreRanges, Inside
<1>6. o + size <= StreamLen
  BY <1>2, <1>3, <1>4
<1> QED
  BY <1>2, <1>3, <1>4, <1>5, <1>6

\* Window: all variables keep their types. In particular the ring never exceeds
\* its capacity, and every range that append() keeps is shorter than it.
THEOREM WindowTypeOK == Spec /\ NoWrap => []TypeOK
<1>1. NoWrap /\ WindowInv => TypeOK
  <2> SUFFICES ASSUME NoWrap, WindowInv PROVE TypeOK
    OBVIOUS
  <2>1. PICK o : o = Len(output)
    BY Zenon
  <2>2. /\ ISN \in Nat /\ StreamLen \in Nat /\ Capacity \in Nat
        /\ ISN + StreamLen <= U32_MAX /\ U32_MAX \in Nat
    BY Bounds
  <2>3. /\ o \in 0 .. StreamLen /\ sequence = ISN + o /\ output = [i \in 1 .. o |-> i]
        /\ arrived \subseteq Byte /\ panicked \in BOOLEAN
    BY <2>1 DEF WindowInv, Spanned
  <2>4. PICK len : len = Len(buffer)
    BY Zenon
  <2>5. /\ len \in 0 .. Capacity /\ buffer \in [1 .. len -> 0 .. StreamLen]
        /\ head \in Nat /\ (head < len \/ head = 0) /\ size \in 0 .. len
    BY <2>4 DEF WindowInv, RingForm, ArrayIn
  <2>6. buffer \in Seq(0 .. StreamLen)
    BY <2>2, <2>5
  <2>7. head \in 0 .. Larger(len - 1, 0)
    BY <2>2, <2>5 DEF Larger
  <2>8. sequence \in U32
    BY <2>2, <2>3 DEF U32
  <2>9. ASSUME NEW k \in DOMAIN edges
        PROVE  k \in 0 .. 2 * U32_MAX /\ edges[k] \in 1 .. Capacity
    <3>1. /\ k \in Nat /\ edges[k] \in Nat \ {0} /\ sequence < k
          /\ k + edges[k] <= sequence + size
          /\ sequence \in Nat /\ size \in Nat /\ sequence + size <= U32_MAX
      BY RangeBounds
    <3> QED
      BY <2>2, <2>5, <3>1
  <2>10. output \in Seq(0 .. StreamLen)
    BY <2>2, <2>3
  <2> QED
    BY <2>2, <2>3, <2>4, <2>5, <2>6, <2>7, <2>8, <2>9, <2>10 DEF TypeOK
<1> QED
  BY <1>1, WindowReaches, PTL

\* Every byte in a range that filled() reports is in the buffer at its place, so
\* a SACK block never acknowledges a byte that is lost.
THEOREM WindowFilledIsHeld == Spec /\ NoWrap => []FilledIsHeld
<1>1. NoWrap /\ WindowInv => FilledIsHeld
  <2> SUFFICES ASSUME NoWrap, WindowInv, NEW r \in Filled, NEW q \in r[1] .. r[2] - 1
               PROVE  /\ q - ISN + 1 \in arrived
                      /\ buffer[((head + (q - ISN + 1) - NextByte) % Len(buffer)) + 1] = q - ISN + 1
    BY DEF FilledIsHeld
  <2>1. PICK k \in DOMAIN edges :
            r = (LET b == IF k >= U32_MAX THEN k - U32_MAX ELSE k
                 IN  <<b, WrappingAdd(b, edges[k])>>)
    BY DEF Filled
  <2>2. /\ k \in Nat /\ edges[k] \in Nat \ {0} /\ sequence < k
        /\ k + edges[k] <= sequence + size
        /\ sequence \in Nat /\ size \in Nat /\ sequence + size <= U32_MAX /\ U32_MAX \in Nat
    BY RangeBounds
  <2>3. ~(k >= U32_MAX) /\ WrappingAdd(k, edges[k]) = k + edges[k]
    BY <2>2 DEF WrappingAdd
  <2>4. r = <<k, k + edges[k]>>
    BY <2>1, <2>3
  <2>5. q \in Nat /\ k <= q /\ q < k + edges[k]
    BY <2>2, <2>4
  <2>6. PICK o : o = Len(output)
    BY Zenon
  <2>7. PICK len : len = Len(buffer)
    BY Zenon
  <2>8. /\ q - ISN + 1 \in arrived
        /\ buffer[Place(len, head + (q - (ISN + o))) + 1] = q - ISN + 1
    BY <2>5, <2>6, <2>7 DEF WindowInv, RangesHeld, Within, HeldAt
  <2>9. /\ len \in Nat /\ head \in Nat /\ (head < len \/ head = 0) /\ size \in 0 .. len
        /\ ISN \in Nat /\ o \in Nat /\ sequence = ISN + o
    <3>1. Capacity \in Nat /\ StreamLen \in Nat /\ ISN \in Nat
      BY Bounds
    <3> QED
      BY <2>6, <2>7, <3>1 DEF WindowInv, RingForm, Spanned
  <2>10. PICK p \in Nat : p = head + (q - (ISN + o))
    BY <2>2, <2>5, <2>9
  <2>11. len \in Nat \ {0} /\ p < 2 * len
    BY <2>2, <2>5, <2>9, <2>10
  <2>12. head + (q - ISN + 1) - NextByte = p
    BY <2>5, <2>6, <2>9, <2>10 DEF NextByte
  <2>13. p % len = Place(len, p)
    BY <2>11, ModPlace, Zenon
  <2> QED
    BY <2>7, <2>8, <2>10, <2>12, <2>13
<1> QED
  BY <1>1, WindowReaches, PTL

\* size spans from the head to the end of the last byte stored, so that
\* remaining(), which the Forwarder advertises, is exact.
THEOREM WindowSizeSpans == Spec /\ NoWrap => []SizeSpansArrived
<1>1. NoWrap /\ WindowInv => SizeSpansArrived
  <2> SUFFICES ASSUME NoWrap, WindowInv PROVE SizeSpansArrived
    OBVIOUS
  <2>1. PICK o : o = Len(output)
    BY Zenon
  <2>2. Capacity \in Nat /\ StreamLen \in Nat
    BY Bounds
  <2>3. size \in Nat /\ o \in Nat
    BY <2>1, <2>2 DEF WindowInv, RingForm, Spanned
  <2>4. arrived \subseteq Nat /\ (\A b \in arrived : b <= o + size) /\ (size > 0 => o + size \in arrived)
    BY <2>1, <2>2 DEF WindowInv, Spanned, Byte
  <2>5. PICK S : S = {o} \cup arrived
    BY Zenon
  <2>6. S \in SUBSET Nat /\ o + size \in S /\ \A x \in S : x <= o + size
    BY <2>3, <2>4, <2>5
  <2>7. Max(S) = o + size
    BY <2>6, MaxIsThe, Zenon
  <2> QED
    BY <2>1, <2>3, <2>5, <2>7 DEF SizeSpansArrived
<1> QED
  BY <1>1, WindowReaches, PTL

\* The window implements Reassembly: whatever is lost, repeated or reordered on
\* the way, append() hands the stream out in order, each byte once and only
\* after it arrived, and a segment that continues it at once.
THEOREM WindowRefines == Spec /\ NoWrap => ImplementsReassembly
<1>1. Init => Abstract!Init
  BY DEF Init, Abstract!Init
<1>2. NoWrap /\ WindowInv /\ [Next]_vars => [Abstract!Next]_<<arrived, output>>
  <2> SUFFICES ASSUME NoWrap, WindowInv, [Next]_vars
               PROVE  Abstract!Next \/ UNCHANGED <<arrived, output>>
    OBVIOUS
  <2>1. WindowInv'
    BY WindowStep
  <2>2. CASE UNCHANGED <<arrived, output>>
    BY <2>2
  <2>3. ASSUME NEW c \in Byte, NEW k \in Nat \ {0}, Len(output) < c, c + k - 1 <= StreamLen,
               Accepted(c, k)
        PROVE  Abstract!Next
    <3>1. PICK o : o = Len(output)
      BY Zenon
    <3>2. PICK p : p = Len(output')
      BY Zenon
    <3>3. PICK seg : seg = c .. c + k - 1
      OBVIOUS
    <3>4. PICK got : got = arrived'
      OBVIOUS
    <3>5. StreamLen \in Nat /\ o \in Nat /\ c \in Nat /\ c >= 1
      BY <3>1, Bounds DEF WindowInv, Spanned, Byte
    <3>6. p \in 0 .. StreamLen /\ 1 .. p \subseteq got /\ output' = [i \in 1 .. p |-> i]
      BY <2>1, <3>2, <3>4 DEF WindowInv, Spanned
    <3>7. got = arrived \cup seg /\ o <= p /\ (c = o + 1 => c + k - 1 <= p)
      BY <2>3, <3>1, <3>2, <3>3, <3>4 DEF Accepted
    <3>8. seg \in Abstract!Segments
      <4>1. c + k - 1 \in 1 .. StreamLen /\ c \in 1 .. StreamLen /\ c \in seg
        BY <2>3, <3>3, <3>5 DEF Byte
      <4> QED
        BY <3>3, <4>1 DEF Abstract!Segments
    <3>9. p <= Abstract!Contiguous(got) /\ Abstract!Contiguous(got) \in Nat
      <4>1. PICK T : T = {n \in 0 .. StreamLen : 1 .. n \subseteq got}
        BY Zenon
      <4>2. T \in SUBSET Nat /\ p \in T /\ \A x \in T : x <= StreamLen
        BY <3>5, <3>6, <4>1
      <4>3. p <= Max(T)
        BY <3>5, <4>2, MaxIs
      <4>4. Abstract!Contiguous(got) = Max(T)
        BY <4>1 DEF Abstract!Contiguous, Abstract!Max, Max
      <4>5. Max(T) \in Nat
        BY <3>5, <4>2, MaxIs, Zenon
      <4> QED
        BY <4>3, <4>4, <4>5
    <3>10. o + 1 \in seg => p >= Abstract!Max(seg)
      <4>1. PICK e \in Nat : e = c + k - 1
        BY <3>5
      <4>2. seg \in SUBSET Nat /\ e \in seg /\ \A x \in seg : x <= e
        BY <3>3, <3>5, <4>1
      <4>3. Max(seg) = e
        BY <4>2, MaxIsThe
      <4>4. Abstract!Max(seg) = e
        BY <4>3 DEF Abstract!Max, Max
      <4>5. o + 1 \in seg => c = o + 1
        BY <2>3, <3>1, <3>3, <3>5
      <4> QED
        BY <3>6, <3>7, <4>1, <4>4, <4>5
    <3>11. p \in o .. Abstract!Contiguous(got)
      BY <3>5, <3>6, <3>7, <3>9
    <3>12. Abstract!Accept(seg)
      BY <3>1, <3>4, <3>6, <3>7, <3>10, <3>11 DEF Abstract!Accept
    <3> QED
      BY <3>8, <3>12 DEF Abstract!Next
  <2> QED
    BY <2>2, <2>3, WindowStep
<1> QED
  BY <1>1, <1>2, WindowReaches, PTL DEF Spec, ImplementsReassembly, Abstract!Spec
=============================================================================
