----------------------------- MODULE RingProofs -----------------------------
(***************************************************************************)
(* The ring buffer of cache::Queue and cache::Window keeps what it holds:  *)
(* when it grows, is written to behind its contents, and is read or left   *)
(* from the front.                                                         *)
(***************************************************************************)
EXTENDS Ring, TLAPS

-----------------------------------------------------------------------------
(* Copying *)

\* Index p, counted on from the end of a ring of length len.
Place(len, p) == IF p < len THEN p ELSE p - len

LEMMA ModOnce ==
    ASSUME NEW len \in Nat \ {0}, NEW x \in Int
    PROVE  /\ 0 <= x /\ x < len => x % len = x
           /\ len <= x /\ x < 2 * len => x % len = x - len
           /\ -len <= x /\ x < 0 => x % len = x + len
<1>1. 0 <= x /\ x < len => x % len = x
  OBVIOUS
<1>2. len <= x /\ x < 2 * len => x % len = x - len
  OBVIOUS
<1>3. -len <= x /\ x < 0 => x % len = x + len
  OBVIOUS
<1> QED
  BY <1>1, <1>2, <1>3

LEMMA ModPlace ==
    ASSUME NEW len \in Nat \ {0}, NEW x \in Nat, x < 2 * len
    PROVE  x % len = Place(len, x) /\ Place(len, x) \in 0 .. len - 1
<1>1. CASE x < len
  BY <1>1, ModOnce DEF Place
<1>2. CASE x >= len
  <2>1. len <= x
    BY <1>2
  <2>2. x % len = x - len
    BY <2>1
  <2> QED
    BY <1>2, <2>2 DEF Place
<1> QED
  BY <1>1, <1>2

\* A vector of n numbers is a sequence of that length.
IsArray(f, n) == f \in [1 .. n -> Nat]

LEMMA ArrayLen ==
    ASSUME NEW n \in Nat, NEW f, IsArray(f, n)
    PROVE  f \in Seq(Nat) /\ Len(f) = n /\ DOMAIN f = 1 .. n
  BY DEF IsArray

\* What copying into the ring changes, counted from where it begins.
Copied(new, len, buf, at, n, data) ==
    \A k \in 0 .. len - 1 :
        new[Place(len, at + k) + 1] =
            IF k < n THEN data[k + 1] ELSE buf[Place(len, at + k) + 1]

LEMMA CopyRingIs ==
    ASSUME NEW len \in Nat \ {0}, NEW buf, IsArray(buf, len),
           NEW at \in 0 .. len - 1, NEW n \in 0 .. len, NEW data, IsArray(data, n),
           NEW new, new = CopyRing(buf, at, data)
    PROVE  IsArray(new, len) /\ Copied(new, len, buf, at, n, data)
<1>1. Len(buf) = len /\ DOMAIN buf = 1 .. len /\ Len(data) = n /\ n \in Nat
  BY ArrayLen
<1>2. new = [i \in 1 .. len |-> IF (i - 1 - at) % len < n THEN data[((i - 1 - at) % len) + 1]
                                ELSE buf[i]]
  BY <1>1 DEF CopyRing
<1>3. \A i \in 1 .. len : (i - 1 - at) % len \in 0 .. len - 1
  OBVIOUS
<1>4. IsArray(new, len)
  BY <1>2, <1>3 DEF IsArray
<1>5. ASSUME NEW k \in 0 .. len - 1
      PROVE  new[Place(len, at + k) + 1] =
                IF k < n THEN data[k + 1] ELSE buf[Place(len, at + k) + 1]
  <2> DEFINE i == Place(len, at + k) + 1
  <2>1. i \in 1 .. len
    BY DEF Place
  <2>2. (i - 1 - at) % len = k
    <3>1. CASE at + k < len
      <4>1. i - 1 - at = k
        BY <3>1 DEF Place
      <4> QED
        BY <4>1, ModOnce
    <3>2. CASE at + k >= len
      <4>1. i - 1 - at = k - len
        BY <3>2 DEF Place
      <4>2. k - len \in Int /\ -len <= k - len /\ k - len < 0
        OBVIOUS
      <4>3. (k - len) % len = (k - len) + len
        BY <4>2, ModOnce, Zenon
      <4> QED
        BY <4>1, <4>3
    <3> QED
      BY <3>1, <3>2
  <2> HIDE DEF i
  <2>3. new[i] = IF k < n THEN data[k + 1] ELSE buf[i]
    BY <1>2, <2>1, <2>2
  <2> QED
    BY <2>3 DEF i
<1> QED
  BY <1>4, <1>5 DEF Copied

\* What is read from the ring.
LEMMA ReadRingIs ==
    ASSUME NEW len \in Nat \ {0}, NEW buf, IsArray(buf, len),
           NEW at \in 0 .. len - 1, NEW n \in 0 .. len
    PROVE  ReadRing(buf, at, n) = [i \in 1 .. n |-> buf[Place(len, at + i - 1) + 1]]
<1>1. Len(buf) = len
  BY ArrayLen
<1>2. \A i \in 1 .. n : (at + i - 1) % len = Place(len, at + i - 1)
  <2> SUFFICES ASSUME NEW i \in 1 .. n
               PROVE  (at + i - 1) % len = Place(len, at + i - 1)
    BY Zenon
  <2>1. at + i - 1 \in Nat /\ at + i - 1 < 2 * len
    OBVIOUS
  <2> QED
    BY <2>1, ModPlace, Zenon
<1> QED
  BY <1>1, <1>2, Zenon DEF ReadRing

\* new has n numbers of old, from other places on.
Same(new, at, old, from, n) == \A j \in 1 .. n : new[at + j] = old[from + j]

\* The copy at the beginning of the ring.
LEMMA CopyFront ==
    ASSUME NEW len \in Nat \ {0}, NEW buf, IsArray(buf, len),
           NEW n \in 0 .. len, NEW data, IsArray(data, n),
           NEW new, new = CopyRing(buf, 0, data)
    PROVE  IsArray(new, len) /\ Same(new, 0, data, 0, n) /\ Same(new, n, buf, n, len - n)
<1>1. 0 \in 0 .. len - 1
  OBVIOUS
<1>2. IsArray(new, len) /\ Copied(new, len, buf, 0, n, data)
  BY <1>1, CopyRingIs
<1>3. ASSUME NEW j \in 1 .. len
      PROVE  new[j] = IF j <= n THEN data[j] ELSE buf[j]
  <2>1. j - 1 \in 0 .. len - 1 /\ Place(len, 0 + (j - 1)) + 1 = j /\ (j - 1) + 1 = j
    BY DEF Place
  <2>2. new[Place(len, 0 + (j - 1)) + 1] =
            IF j - 1 < n THEN data[(j - 1) + 1] ELSE buf[Place(len, 0 + (j - 1)) + 1]
    BY <1>2, <2>1 DEF Copied
  <2> QED
    BY <2>1, <2>2
<1>4. Same(new, 0, data, 0, n)
  BY <1>3 DEF Same
<1>5. Same(new, n, buf, n, len - n)
  BY <1>3 DEF Same
<1> QED
  BY <1>2, <1>4, <1>5

\* A part of a sequence.
LEMMA SubSeqIs ==
    ASSUME NEW len \in Nat, NEW f, IsArray(f, len),
           NEW a \in Nat, NEW b \in Nat, a + b <= len,
           NEW g, g = SubSeq(f, a + 1, a + b)
    PROVE  IsArray(g, b) /\ Same(g, 0, f, a, b)
<1>1. f \in Seq(Nat) /\ Len(f) = len
  BY ArrayLen
<1>2. g = [j \in 1 .. b |-> f[a + j]]
  BY <1>1
<1>3. \A j \in 1 .. b : f[a + j] \in Nat
  BY DEF IsArray
<1>4. IsArray(g, b)
  BY <1>2, <1>3, Zenon DEF IsArray
<1>5. Same(g, 0, f, a, b)
  BY <1>2 DEF Same
<1> QED
  BY <1>4, <1>5

\* The wrapped part is moved behind the old end as far as it fits: the old
\* places stay, and the first lenA come again behind them.
LEMMA MovedBehind ==
    ASSUME NEW len \in Nat, NEW new_len \in Nat, len < new_len,
           NEW resized, IsArray(resized, new_len),
           NEW lenA \in Nat, lenA <= len, lenA <= new_len - len,
           NEW behind, behind = CopyRing(resized, len, SubSeq(resized, 1, lenA))
    PROVE  /\ IsArray(behind, new_len) /\ Same(behind, 0, resized, 0, len)
           /\ Same(behind, len, resized, 0, lenA)
<1>1. PICK data : data = SubSeq(resized, 0 + 1, 0 + lenA)
  BY Zenon
<1>2. 0 \in Nat /\ 0 + lenA <= new_len
  OBVIOUS
<1>3. IsArray(data, lenA) /\ Same(data, 0, resized, 0, lenA)
  BY <1>1, <1>2, SubSeqIs, Zenon
<1>4. new_len \in Nat \ {0} /\ len \in 0 .. new_len - 1 /\ lenA \in 0 .. new_len
  OBVIOUS
<1>5. behind = CopyRing(resized, len, data)
  BY <1>1
<1>6. IsArray(behind, new_len) /\ Copied(behind, new_len, resized, len, lenA, data)
  BY <1>3, <1>4, <1>5, CopyRingIs
<1>7. ASSUME NEW j \in 1 .. len
      PROVE  behind[j] = resized[j]
  <2> DEFINE k == j - 1 + (new_len - len)
  <2>1. k \in 0 .. new_len - 1 /\ ~(k < lenA) /\ Place(new_len, len + k) + 1 = j
    BY DEF Place
  <2> HIDE DEF k
  <2> QED
    BY <1>6, <2>1 DEF Copied
<1>8. ASSUME NEW j \in 1 .. lenA
      PROVE  behind[len + j] = resized[j]
  <2> DEFINE k == j - 1
  <2>1. /\ k \in 0 .. new_len - 1 /\ k < lenA /\ k + 1 = j
        /\ Place(new_len, len + k) + 1 = len + j
    BY DEF Place
  <2>2. data[j] = resized[j]
    BY <1>3 DEF Same
  <2> HIDE DEF k
  <2> QED
    BY <1>6, <2>1, <2>2 DEF Copied
<1>9. Same(behind, 0, resized, 0, len) /\ Same(behind, len, resized, 0, lenA)
  BY <1>7, <1>8 DEF Same
<1> QED
  BY <1>6, <1>9

-----------------------------------------------------------------------------
(* Growing *)

\* A ring of another length that holds the same.
SameRing(new, new_len, buf, len, head, size) ==
    \A k \in 0 .. size - 1 :
        new[Place(new_len, head + k) + 1] = buf[Place(len, head + k) + 1]

\* extend() of a ring whose contents end before its own end.
LEMMA ExtendStraight ==
    ASSUME NEW len \in Nat, NEW new_len \in Nat, len < new_len, NEW buf, NEW new,
           Same(new, 0, buf, 0, len), NEW head \in Nat, NEW size \in Nat, head + size < len
    PROVE  SameRing(new, new_len, buf, len, head, size)
<1> SUFFICES ASSUME NEW k \in 0 .. size - 1
             PROVE  new[Place(new_len, head + k) + 1] = buf[Place(len, head + k) + 1]
  BY DEF SameRing
<1>1. /\ Place(new_len, head + k) = head + k /\ Place(len, head + k) = head + k
      /\ head + k + 1 \in 1 .. len
  BY DEF Place
<1> QED
  BY <1>1 DEF Same

\* extend() of a ring whose contents go on at its beginning: tail of them are
\* there, lenA are moved behind the old end and the rest is moved down.
LEMMA ExtendWrapped ==
    ASSUME NEW len \in Nat, NEW new_len \in Nat, len < new_len,
           NEW buf, NEW behind, NEW new,
           NEW head \in Nat, NEW size \in Nat, size <= len, head < len,
           NEW tail \in Nat, tail = head + size - len,
           NEW lenA \in Nat, lenA <= tail, lenA <= new_len - len,
           lenA = tail \/ lenA = new_len - len,
           NEW lenB \in Nat, lenB = tail - lenA,
           Same(behind, 0, buf, 0, len), Same(behind, len, buf, 0, lenA),
           Same(new, 0, behind, lenA, lenB), Same(new, lenB, behind, lenB, new_len - lenB)
    PROVE  SameRing(new, new_len, buf, len, head, size)
<1> SUFFICES ASSUME NEW k \in 0 .. size - 1
             PROVE  new[Place(new_len, head + k) + 1] = buf[Place(len, head + k) + 1]
  BY DEF SameRing
<1>1. /\ \A j \in 1 .. len : behind[j] = buf[j]
      /\ \A j \in 1 .. lenA : behind[len + j] = buf[j]
  BY DEF Same
<1>2. /\ \A j \in 1 .. lenB : new[j] = behind[lenA + j]
      /\ \A j \in 1 .. new_len : j > lenB => new[j] = behind[j]
  <2>1. \A j \in 1 .. lenB : new[j] = behind[lenA + j]
    BY DEF Same
  <2>2. ASSUME NEW j \in 1 .. new_len, j > lenB
        PROVE  new[j] = behind[j]
    <3>1. j - lenB \in 1 .. new_len - lenB /\ lenB + (j - lenB) = j
      BY <2>2
    <3> QED
      BY <3>1, Zenon DEF Same
  <2> QED
    BY <2>1, <2>2
<1>3. CASE head + k < len
  <2> DEFINE j == head + k + 1
  <2>1. /\ Place(new_len, head + k) + 1 = j /\ Place(len, head + k) + 1 = j
        /\ j \in 1 .. len /\ j \in 1 .. new_len /\ j > lenB
    BY <1>3 DEF Place
  <2> HIDE DEF j
  <2> QED
    BY <1>1, <1>2, <2>1
<1>4. CASE head + k >= len
  <2> DEFINE m == head + k - len + 1
  <2>1. /\ Place(len, head + k) + 1 = m /\ m \in 1 .. tail /\ m \in 1 .. len
        /\ m \in Nat /\ head + k + 1 = len + m
    BY <1>4 DEF Place
  <2> HIDE DEF m
  <2>2. CASE head + k < new_len
    <3>1. /\ Place(new_len, head + k) + 1 = len + m /\ m \in 1 .. lenA
          /\ len + m \in 1 .. new_len /\ len + m > lenB
      BY <2>1, <2>2 DEF Place
    <3> QED
      BY <1>1, <1>2, <2>1, <3>1
  <2>3. CASE head + k >= new_len
    <3>1. lenA = new_len - len
      BY <2>1, <2>3
    <3>2. /\ Place(new_len, head + k) + 1 = m - lenA /\ m - lenA \in 1 .. lenB
          /\ lenA + (m - lenA) = m
      BY <2>1, <2>3, <3>1 DEF Place
    <3> QED
      BY <1>1, <1>2, <2>1, <3>2
  <2> QED
    BY <2>2, <2>3
<1> QED
  BY <1>3, <1>4

\* extend() gives room for what is needed, within the capacity, and keeps what
\* the ring holds in its order.
LEMMA ExtendKeeps ==
    ASSUME NEW len \in Nat, NEW buf, IsArray(buf, len),
           NEW size \in 0 .. len, NEW head \in Nat, head < len \/ head = 0,
           NEW cap \in Nat, len <= cap, NEW need \in 1 .. cap,
           NEW new, new = Extend(buf, head, size, cap, need)
    PROVE  \E new_len \in 1 .. cap :
              /\ IsArray(new, new_len) /\ need <= new_len /\ len <= new_len
              /\ SameRing(new, new_len, buf, len, head, size)
<1>1. Len(buf) = len
  BY ArrayLen
<1>2. CASE need <= len
  <2>1. new = buf /\ len \in 1 .. cap
    BY <1>1, <1>2 DEF Extend
  <2> QED
    BY <1>2, <2>1 DEF SameRing
<1>3. CASE need > len
  <2>1. PICK new_len \in Nat : new_len = Smaller(cap, Larger((len * 3) \div 2, need))
    BY DEF Smaller, Larger
  <2>2. new_len \in 1 .. cap /\ need <= new_len /\ len < new_len
    <3>1. (len * 3) \div 2 \in Nat
      OBVIOUS
    <3> QED
      BY <1>3, <2>1, <3>1 DEF Smaller, Larger
  <2>3. PICK resized : resized = [i \in 1 .. new_len |-> IF i <= len THEN buf[i] ELSE 0]
    BY Zenon
  <2>4. IsArray(resized, new_len) /\ Same(resized, 0, buf, 0, len)
    BY <2>2, <2>3 DEF IsArray, Same
  <2>5. PICK tail : tail = TailIndex(buf, head, size)
    OBVIOUS
  <2>6. tail \in Nat /\ tail = IF head + size >= len THEN head + size - len ELSE head + size
    BY <1>1, <2>5 DEF TailIndex
  <2>7. CASE tail > head
    <3>1. new = resized
      BY <1>1, <1>3, <2>1, <2>3, <2>5, <2>7 DEF Extend
    <3>2. head + size < len
      BY <2>6, <2>7
    <3>3. SameRing(new, new_len, buf, len, head, size)
      BY <2>2, <2>4, <3>1, <3>2, ExtendStraight
    <3> QED
      BY <2>2, <2>4, <3>1, <3>3
  <2>8. CASE tail <= head
    <3>1. PICK lenA : lenA = Smaller(tail, new_len - len)
      OBVIOUS
    <3>2. lenA \in Nat /\ lenA <= tail /\ lenA <= new_len - len
          /\ (lenA = tail \/ lenA = new_len - len)
      BY <2>2, <2>6, <3>1 DEF Smaller
    <3>3. tail <= len /\ (size > 0 => head + size >= len /\ head < len)
      BY <2>6, <2>8
    <3>4. PICK behind : behind = CopyRing(resized, len, SubSeq(resized, 1, lenA))
      OBVIOUS
    <3>5. lenA <= len
      BY <2>6, <3>2, <3>3
    <3>6. /\ IsArray(behind, new_len) /\ Same(behind, 0, resized, 0, len)
          /\ Same(behind, len, resized, 0, lenA)
      BY <2>2, <2>4, <3>2, <3>4, <3>5, MovedBehind
    <3>7. Same(behind, 0, buf, 0, len) /\ Same(behind, len, buf, 0, lenA)
      BY <2>4, <3>2, <3>5, <3>6 DEF Same
    <3>8. PICK lenB \in Nat : lenB = tail - lenA
      BY <2>6, <3>2
    <3>9. /\ IsArray(new, new_len) /\ Same(new, 0, behind, lenA, lenB)
          /\ Same(new, lenB, behind, lenB, new_len - lenB)
      <4>1. new = IF lenB = 0 THEN behind
                  ELSE CopyRing(behind, 0, SubSeq(behind, lenA + 1, lenA + lenB))
        <5>1. ~(need <= len) /\ ~(tail > head)
          BY <1>3, <2>6, <2>8
        <5> QED
          BY <1>1, <2>1, <2>3, <2>5, <3>1, <3>4, <3>8, <5>1 DEF Extend
      <4>2. CASE lenB = 0
        BY <3>6, <4>1, <4>2 DEF Same
      <4>3. CASE lenB # 0
        <5>1. PICK data : data = SubSeq(behind, lenA + 1, lenA + lenB)
          BY Zenon
        <5>2. lenA + lenB <= new_len /\ lenB \in 0 .. new_len /\ new_len \in Nat \ {0}
          BY <2>2, <2>6, <3>2, <3>3, <3>8
        <5>3. IsArray(data, lenB) /\ Same(data, 0, behind, lenA, lenB)
          BY <3>2, <3>6, <3>8, <5>1, <5>2, SubSeqIs, Zenon
        <5>4. new = CopyRing(behind, 0, data)
          BY <4>1, <4>3, <5>1
        <5>5. /\ IsArray(new, new_len) /\ Same(new, 0, data, 0, lenB)
              /\ Same(new, lenB, behind, lenB, new_len - lenB)
          BY <3>6, <5>2, <5>3, <5>4, CopyFront
        <5>6. Same(new, 0, behind, lenA, lenB)
          BY <5>3, <5>5 DEF Same
        <5> QED
          BY <5>5, <5>6
      <4> QED
        BY <4>2, <4>3
    <3>10. SameRing(new, new_len, buf, len, head, size)
      <4>1. CASE size = 0
        BY <4>1 DEF SameRing
      <4>2. CASE size > 0
        <5>1. head < len /\ tail = head + size - len /\ size \in Nat /\ size <= len
          BY <2>6, <3>3, <4>2
        <5> QED
          BY <2>2, <2>6, <3>2, <3>7, <3>8, <3>9, <5>1, ExtendWrapped, Zenon
      <4> QED
        BY <4>1, <4>2
    <3> QED
      BY <2>2, <3>9, <3>10
  <2> QED
    BY <2>6, <2>7, <2>8
<1> QED
  BY <1>2, <1>3
-----------------------------------------------------------------------------
(* Holding consecutive bytes *)

\* The ring holds size bytes from first on, starting at index head.
Holds(buf, len, head, size, first) ==
    \A k \in 0 .. size - 1 : buf[Place(len, head + k) + 1] = first + k

\* Bytes written from tail() on follow the ones that are there.
LEMMA WriteHolds ==
    ASSUME NEW len \in Nat \ {0}, NEW buf, IsArray(buf, len),
           NEW head \in Nat, head < len, NEW size \in Nat, NEW n \in Nat \ {0},
           size + n <= len, NEW first \in Nat, Holds(buf, len, head, size, first),
           NEW data, IsArray(data, n), \A i \in 1 .. n : data[i] = first + size + i - 1,
           NEW new, new = CopyRing(buf, TailIndex(buf, head, size), data)
    PROVE  IsArray(new, len) /\ Holds(new, len, head, size + n, first)
<1>1. PICK at : at = TailIndex(buf, head, size)
  OBVIOUS
<1>2. Len(buf) = len
  BY ArrayLen
<1>3. /\ at \in 0 .. len - 1 /\ n \in 0 .. len
      /\ at = IF head + size >= len THEN head + size - len ELSE head + size
  BY <1>1, <1>2 DEF TailIndex
<1>4. IsArray(new, len) /\ Copied(new, len, buf, at, n, data)
  BY <1>1, <1>3, CopyRingIs
<1>5. ASSUME NEW k \in 0 .. size + n - 1
      PROVE  new[Place(len, head + k) + 1] = first + k
  <2>1. CASE k < size
    <3> DEFINE d == len - size + k
    <3>1. d \in 0 .. len - 1 /\ ~(d < n) /\ k \in 0 .. size - 1
      BY <2>1
    <3>2. Place(len, at + d) = Place(len, head + k)
      BY <1>3, <2>1 DEF Place
    <3> HIDE DEF d
    <3>3. new[Place(len, head + k) + 1] = buf[Place(len, head + k) + 1]
      BY <1>4, <3>1, <3>2 DEF Copied
    <3> QED
      BY <3>1, <3>3 DEF Holds
  <2>2. CASE k >= size
    <3> DEFINE d == k - size
    <3>1. d \in 0 .. len - 1 /\ d < n /\ d + 1 \in 1 .. n /\ first + size + (d + 1) - 1 = first + k
      BY <2>2
    <3>2. Place(len, at + d) = Place(len, head + k)
      BY <1>3, <2>2 DEF Place
    <3> HIDE DEF d
    <3>3. new[Place(len, head + k) + 1] = data[d + 1]
      BY <1>4, <3>1, <3>2 DEF Copied
    <3> QED
      BY <3>1, <3>3
  <2> QED
    BY <2>1, <2>2
<1> QED
  BY <1>4, <1>5 DEF Holds

\* append() of either cache: the ring grows if it has to and takes the bytes.
LEMMA AppendHolds ==
    ASSUME NEW len \in Nat, NEW buf, IsArray(buf, len),
           NEW size \in 0 .. len, NEW head \in Nat, head < len \/ head = 0,
           NEW cap \in Nat, len <= cap,
           NEW n \in Nat \ {0}, size + n <= cap,
           NEW first \in Nat, Holds(buf, len, head, size, first),
           NEW data, IsArray(data, n), \A i \in 1 .. n : data[i] = first + size + i - 1,
           NEW grown, grown = Extend(buf, head, size, cap, size + n),
           NEW new, new = CopyRing(grown, TailIndex(grown, head, size), data)
    PROVE  \E new_len \in 1 .. cap :
              /\ IsArray(new, new_len) /\ size + n <= new_len /\ head < new_len
              /\ Holds(new, new_len, head, size + n, first)
<1>1. size + n \in 1 .. cap
  OBVIOUS
<1>2. PICK new_len \in 1 .. cap :
        /\ IsArray(grown, new_len) /\ size + n <= new_len /\ len <= new_len
        /\ SameRing(grown, new_len, buf, len, head, size)
  BY <1>1, ExtendKeeps
<1>3. Holds(grown, new_len, head, size, first)
  BY <1>2 DEF SameRing, Holds
<1>4. new_len \in Nat \ {0} /\ head < new_len
  BY <1>2
<1>5. IsArray(new, new_len) /\ Holds(new, new_len, head, size + n, first)
  BY <1>2, <1>3, <1>4, WriteHolds
<1> QED
  BY <1>2, <1>4, <1>5

\* Leaving out the first n bytes moves the head on.
LEMMA DropHolds ==
    ASSUME NEW len \in Nat, NEW buf, NEW head \in Nat, head < len,
           NEW size \in 0 .. len, NEW n \in Nat, n < size,
           NEW first \in Nat, Holds(buf, len, head, size, first),
           NEW to, to = (head + (n % len)) % len
    PROVE  to \in 0 .. len - 1 /\ Holds(buf, len, to, size - n, first + n)
<1>1. len \in Nat \ {0} /\ 0 <= n /\ n < len /\ n \in Int
  OBVIOUS
<1>2. n % len = n
  BY <1>1, ModOnce, Zenon
<1>3. head + n \in Nat /\ head + n < 2 * len
  OBVIOUS
<1>4. to = Place(len, head + n) /\ to \in 0 .. len - 1
  BY <1>1, <1>2, <1>3, ModPlace, Zenon
<1>5. ASSUME NEW k \in 0 .. (size - n) - 1
      PROVE  buf[Place(len, to + k) + 1] = (first + n) + k
  <2>1. Place(len, to + k) = Place(len, head + (n + k))
    BY <1>4 DEF Place
  <2>2. n + k \in 0 .. size - 1 /\ first + (n + k) = (first + n) + k
    OBVIOUS
  <2> QED
    BY <2>1, <2>2 DEF Holds
<1> QED
  BY <1>4, <1>5 DEF Holds

\* get_all() and its like read the bytes in their order.
LEMMA ReadHolds ==
    ASSUME NEW len \in Nat, NEW buf, IsArray(buf, len), NEW head \in Nat,
           head < len \/ head = 0, NEW size \in 0 .. len, NEW first \in Nat,
           Holds(buf, len, head, size, first)
    PROVE  ReadRing(buf, head, size) = [i \in 1 .. size |-> first + i - 1]
<1>1. CASE size = 0
  BY <1>1 DEF ReadRing
<1>2. CASE size > 0
  <2>1. len \in Nat \ {0} /\ head \in 0 .. len - 1
    BY <1>2
  <2>2. ReadRing(buf, head, size) = [i \in 1 .. size |-> buf[Place(len, head + i - 1) + 1]]
    BY <2>1, ReadRingIs
  <2>3. ASSUME NEW i \in 1 .. size
        PROVE  buf[Place(len, head + i - 1) + 1] = first + i - 1
    <3>1. i - 1 \in 0 .. size - 1 /\ head + (i - 1) = head + i - 1 /\ first + (i - 1) = first + i - 1
      OBVIOUS
    <3> QED
      BY <3>1 DEF Holds
  <2> QED
    BY <2>2, <2>3, Zenon
<1> QED
  BY <1>1, <1>2
=============================================================================
