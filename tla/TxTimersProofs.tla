--------------------------- MODULE TxTimersProofs ---------------------------
(***************************************************************************)
(* The send cache and the timers of a connection, for every size of the    *)
(* cache, stream and append and every sequence of acknowledgements and     *)
(* ticks: the queue keeps its bytes, its clocks stay in it, and the        *)
(* retransmission timeout covers the last round trip time.                 *)
(***************************************************************************)
EXTENDS TxTimers, RingProofs, NaturalsInduction, WellFoundedInduction, TLAPS

-----------------------------------------------------------------------------
(* The queue *)

\* The stream ends before its sequence numbers wrap, and is too short for an
\* old acknowledgement to be taken for one ahead. (Across the wrap the code's
\* distance is one short, and the properties below fail.)
NoWrap ==
    /\ ISN + StreamLen + 1 <= U32_MAX
    /\ StreamLen + 2 + MAX_U32_WINDOW_SIZE < U32_MAX

Stamp == [sequence : Nat, left : Nat]

InOrder(cl, lo, hi) ==
    /\ \A i \in 1 .. Len(cl) : cl[i].sequence \in lo .. hi
    /\ \A i, j \in 1 .. Len(cl) : i < j => cl[i].sequence <= cl[j].sequence

\* The ring holds the last size bytes of what was sent.
RingInv ==
    /\ IsArray(buffer, Len(buffer)) /\ Len(buffer) \in 0 .. Capacity
    /\ size \in 0 .. Len(buffer) /\ head \in Nat
    /\ head < Len(buffer) \/ head = 0
    /\ size = 0 => head = 0
    /\ sent \in 0 .. StreamLen /\ size <= sent
    /\ Holds(buffer, Len(buffer), head, size, sent - size + 1)

\* Where the queue is: before the SYN is acknowledged, with the bytes up to
\* the last one sent, or one further when a FIN is acknowledged.
PositionInv ==
    /\ sequence \in Nat
    /\ \/ cache_syn /\ closed = "no" /\ sequence = ISN - 1 /\ size = 0 /\ sent = 0
       \/ ~cache_syn /\ sequence + size = ISN + sent
       \/ ~cache_syn /\ closed # "no" /\ sequence + size = ISN + sent + 1

ClockInv ==
    /\ clocks \in Seq(Stamp) /\ InOrder(clocks, sequence, sequence + size)
    /\ retrans = None \/ retrans \in sequence .. sequence + size

QueueInv == NoWrap /\ RingInv /\ PositionInv /\ ClockInv

\* Where nothing wraps, the tests on sequence numbers compare them.
LEMMA AtOrAfterIs ==
    ASSUME NEW a \in Nat, NEW b \in Nat, b <= a => a - b <= MAX_U32_WINDOW_SIZE,
           a < b => b - a + MAX_U32_WINDOW_SIZE < U32_MAX
    PROVE  IsAtOrAfter(a, b) <=> b <= a
  BY WidthAssumption DEF IsAtOrAfter, Distance

LEMMA SequenceIs ==
    ASSUME NoWrap, NEW n \in 0 .. StreamLen + 1
    PROVE  AsU32(ISN + n) = ISN + n
<1>1. ISN + n \in 0 .. U32_MAX
  BY QueueAssumption, WidthAssumption DEF NoWrap, U32
<1>2. \A m, x \in Nat : x <= m => x % (m + 1) = x
  OBVIOUS
<1>3. (ISN + n) % (U32_MAX + 1) = ISN + n
  BY <1>1, <1>2, WidthAssumption
<1> QED
  BY <1>3 DEF AsU32

\* What the invariant says of the numbers.
LEMMA Bounds ==
    ASSUME QueueInv
    PROVE  /\ sequence \in Nat /\ size \in Nat /\ sent \in Nat /\ size <= sent
           /\ size <= MAX_U32_WINDOW_SIZE /\ MAX_U32_WINDOW_SIZE \in Nat \ {0}
           /\ sequence + size <= ISN + sent + 1 /\ ISN - 1 <= sequence
           /\ ISN \in Nat \ {0} /\ sequence + size <= U32_MAX
<1>1. ISN \in Nat \ {0} /\ U32_MAX \in Nat /\ Capacity \in 1 .. MAX_U32_WINDOW_SIZE
      /\ MAX_U32_WINDOW_SIZE \in Nat /\ StreamLen \in Nat
  BY QueueAssumption, WidthAssumption DEF U32
<1>2. /\ Len(buffer) \in 0 .. Capacity /\ size \in 0 .. Len(buffer)
      /\ sent \in 0 .. StreamLen /\ size <= sent
  BY DEF QueueInv, RingInv
<1>3. size \in Nat /\ sent \in Nat /\ size <= MAX_U32_WINDOW_SIZE
      /\ MAX_U32_WINDOW_SIZE \in Nat \ {0}
  BY <1>1, <1>2
<1>4. \/ sequence = ISN - 1 /\ sent = 0
      \/ sequence + size = ISN + sent
      \/ sequence + size = ISN + sent + 1
  BY Zenon DEF QueueInv, PositionInv
<1>5. sequence \in Nat
  BY DEF QueueInv, PositionInv
<1>6. ISN + StreamLen + 1 <= U32_MAX
  BY DEF QueueInv, NoWrap
<1> QED
  BY <1>1, <1>2, <1>3, <1>4, <1>5, <1>6

\* The length of the longest prefix whose places are all in T.
LEMMA LongestPrefix ==
    ASSUME NEW n \in Nat, NEW T, NEW m,
           m = Max({k \in 0 .. n : \A i \in 1 .. k : i \in T})
    PROVE  m \in 0 .. n /\ (m < n => m + 1 \notin T)
<1> DEFINE S == {k \in 0 .. n : \A i \in 1 .. k : i \in T}
           R == OpToRel(<, Nat)
           D == {n - k : k \in S}
<1>1. S \subseteq 0 .. n /\ 0 \in S
  OBVIOUS
<1>2. D \subseteq Nat /\ D # {}
  <2>1. \A k \in S : n - k \in Nat
    OBVIOUS
  <2> QED
    BY <1>1, <2>1
<1>3. IsWellFoundedOn(R, Nat)
  BY NatLessThanWellFounded, Zenon
<1>4. PICK d \in D : \A u \in D : ~(<<u, d>> \in R)
  <2> HIDE DEF R, D
  <2> QED
    BY <1>2, <1>3, WFMin, Zenon
<1>5. ASSUME NEW u \in D PROVE d <= u
  <2>1. u \in Nat /\ d \in Nat
    BY <1>2
  <2>2. ~(<<u, d>> \in R)
    BY <1>4, Zenon
  <2> QED
    BY <2>1, <2>2 DEF OpToRel
<1>6. PICK x \in S : d = n - x
  OBVIOUS
<1>7. \A y \in S : x >= y
  <2>1. \A y \in S : n - x <= n - y
    BY <1>5, <1>6, Zenon
  <2>2. \A y \in S : y \in Nat
    BY <1>1
  <2> QED
    BY <2>1, <2>2
<1>8. m \in S /\ \A y \in S : m >= y
  <2> HIDE DEF S
  <2>1. m = CHOOSE z \in S : \A y \in S : z >= y
    BY DEF Max, S
  <2> QED
    BY <1>7, <2>1
<1>9. ASSUME m < n, m + 1 \in T PROVE FALSE
  <2>1. m \in 0 .. n /\ \A i \in 1 .. m : i \in T
    BY <1>8
  <2>2. m + 1 \in S
    BY <1>9, <2>1
  <2> QED
    BY <1>8, <2>1, <2>2
<1> QED
  BY <1>8, <1>9

-----------------------------------------------------------------------------
(* Clocks *)

LEMMA SuffixInOrder ==
    ASSUME NEW cl \in Seq(Stamp), NEW lo \in Nat, NEW hi \in Nat, InOrder(cl, lo, hi),
           NEW m \in 0 .. Len(cl), NEW rest, rest = DropFirst(cl, m)
    PROVE  /\ rest \in Seq(Stamp) /\ Len(rest) = Len(cl) - m
           /\ \A i \in 1 .. Len(rest) : rest[i] = cl[m + i]
           /\ InOrder(rest, lo, hi)
<1>1. /\ rest \in Seq(Stamp) /\ Len(rest) = Len(cl) - m
      /\ \A i \in 1 .. Len(rest) : rest[i] = cl[m + i]
  BY DEF DropFirst
<1>2. \A i \in 1 .. Len(rest) : m + i \in 1 .. Len(cl)
  BY <1>1
<1>3. \A i \in 1 .. Len(rest) : rest[i].sequence \in lo .. hi
  BY <1>1, <1>2 DEF InOrder
<1>4. ASSUME NEW i \in 1 .. Len(rest), NEW j \in 1 .. Len(rest), i < j
      PROVE  rest[i].sequence <= rest[j].sequence
  <2>1. m + i \in 1 .. Len(cl) /\ m + j \in 1 .. Len(cl) /\ m + i < m + j
    BY <1>2, <1>4
  <2>2. cl[m + i].sequence <= cl[m + j].sequence
    BY <2>1 DEF InOrder
  <2> QED
    BY <1>1, <2>2, Zenon
<1>5. InOrder(rest, lo, hi)
  BY <1>3, <1>4 DEF InOrder
<1> QED
  BY <1>1, <1>5

\* Cutting off what is acknowledged leaves the clocks of the rest.
LEMMA CutInOrder ==
    ASSUME NEW rest \in Seq(Stamp), NEW lo \in Nat, NEW hi \in Nat, InOrder(rest, lo, hi),
           NEW ack \in Nat, lo <= ack, NEW end \in Nat, ack <= end, hi <= end,
           ack - lo <= MAX_U32_WINDOW_SIZE, hi - lo <= MAX_U32_WINDOW_SIZE,
           Len(rest) > 1 => ack <= rest[1].sequence \/ ack <= rest[2].sequence,
           NEW new, new = Cut(rest, ack)
    PROVE  new \in Seq(Stamp) /\ InOrder(new, ack, end)
<1>1. CASE rest = <<>>
  BY <1>1 DEF Cut, InOrder
<1>2. CASE rest # <<>>
  <2>1. /\ Len(rest) \in Nat \ {0} /\ \A i \in 1 .. Len(rest) : rest[i] \in Stamp
        /\ \A i \in 1 .. Len(rest) : rest[i].sequence \in Nat
    <3>1. Len(rest) \in Nat \ {0} /\ \A i \in 1 .. Len(rest) : rest[i] \in Stamp
      BY <1>2
    <3>2. \A r \in Stamp : r.sequence \in Nat
      BY DEF Stamp
    <3> QED
      BY <3>1, <3>2
  <2>2. IsAtOrAfter(ack, rest[1].sequence) <=> rest[1].sequence <= ack
    <3>1. rest[1].sequence \in lo .. hi /\ rest[1].sequence \in Nat
      BY <2>1 DEF InOrder
    <3> QED
      BY <3>1, AtOrAfterIs, WidthAssumption
  <2>3. /\ new \in Seq(Stamp) /\ Len(new) = Len(rest)
        /\ new[1].sequence = IF rest[1].sequence <= ack THEN ack ELSE rest[1].sequence
        /\ \A i \in 2 .. Len(rest) : new[i] = rest[i]
    <3>1. CASE rest[1].sequence <= ack
      <4>1. PICK first : first = [rest[1] EXCEPT !.sequence = ack]
        BY Zenon
      <4>2. first \in Stamp /\ first.sequence = ack
        <5>1. rest[1] \in Stamp
          BY <2>1
        <5> QED
          BY <4>1, <5>1, Zenon DEF Stamp
      <4>3. new = [rest EXCEPT ![1] = first]
        BY <1>2, <2>2, <3>1, <4>1 DEF Cut
      <4> QED
        BY <2>1, <3>1, <4>2, <4>3
    <3>2. CASE ~(rest[1].sequence <= ack)
      BY <1>2, <2>1, <2>2, <3>2 DEF Cut
    <3> QED
      BY <3>1, <3>2
  <2>4. \A i \in 2 .. Len(rest) : ack <= rest[i].sequence
    <3> SUFFICES ASSUME NEW i \in 2 .. Len(rest) PROVE ack <= rest[i].sequence
      OBVIOUS
    <3>1. /\ rest[1].sequence <= rest[i].sequence
          /\ i > 2 => rest[2].sequence <= rest[i].sequence
      BY <2>1 DEF InOrder
    <3>2. /\ rest[1].sequence \in Nat /\ rest[2].sequence \in Nat /\ rest[i].sequence \in Nat
          /\ ack <= rest[1].sequence \/ ack <= rest[2].sequence
      <4>1. Len(rest) > 1 /\ 1 \in 1 .. Len(rest) /\ 2 \in 1 .. Len(rest) /\ i \in 1 .. Len(rest)
        BY <2>1
      <4> QED
        BY <2>1, <4>1, Zenon
    <3>3. i = 2 \/ i > 2
      OBVIOUS
    <3>4. PICK a, b, c : a = rest[1].sequence /\ b = rest[2].sequence /\ c = rest[i].sequence
      BY Zenon
    <3>5. /\ a \in Nat /\ b \in Nat /\ c \in Nat /\ (ack <= a \/ ack <= b)
          /\ a <= c /\ (i > 2 => b <= c) /\ (i = 2 => b = c)
      BY <3>1, <3>2, <3>4, Zenon
    <3>6. ack <= c
      BY <3>3, <3>5
    <3> QED
      BY <3>4, <3>6, Zenon
  <2>5. \A i \in 1 .. Len(new) : new[i].sequence \in ack .. end
    BY <2>1, <2>3, <2>4 DEF InOrder
  <2>6. \A i, j \in 1 .. Len(new) : i < j => new[i].sequence <= new[j].sequence
    <3> SUFFICES ASSUME NEW i \in 1 .. Len(new), NEW j \in 1 .. Len(new), i < j
                 PROVE  new[i].sequence <= new[j].sequence
      OBVIOUS
    <3>1. j \in 2 .. Len(rest) /\ new[j] = rest[j]
      BY <2>1, <2>3
    <3>2. CASE i = 1
      BY <2>1, <2>3, <2>4, <3>1, <3>2 DEF InOrder
    <3>3. CASE i # 1
      BY <2>1, <2>3, <3>1, <3>3 DEF InOrder
    <3> QED
      BY <3>2, <3>3
  <2> QED
    BY <2>3, <2>5, <2>6 DEF InOrder
<1> QED
  BY <1>1, <1>2

\* A clock of the whole queue comes before all others.
LEMMA FirstInOrder ==
    ASSUME NEW rest \in Seq(Stamp), NEW lo \in Nat, NEW hi \in Nat, InOrder(rest, lo, hi),
           lo <= hi, NEW ticks \in Nat, NEW new, new = <<Clock(lo, ticks)>> \o rest
    PROVE  new \in Seq(Stamp) /\ InOrder(new, lo, hi)
<1>1. PICK first : first = Clock(lo, ticks)
  OBVIOUS
<1>2. first \in Stamp /\ first.sequence = lo
  BY <1>1 DEF Clock, Stamp
<1>3. <<first>> \in Seq(Stamp) /\ Len(<<first>>) = 1 /\ <<first>>[1] = first
  BY <1>2
<1>4. /\ new \in Seq(Stamp) /\ Len(new) = Len(rest) + 1 /\ new[1] = first
      /\ \A i \in 2 .. Len(new) : new[i] = rest[i - 1]
  BY <1>1, <1>3
<1>5. \A i \in 2 .. Len(new) : i - 1 \in 1 .. Len(rest) /\ new[i].sequence = rest[i - 1].sequence
  BY <1>4
<1>6. \A i \in 1 .. Len(rest) : rest[i].sequence \in lo .. hi /\ rest[i].sequence \in Nat
  BY DEF InOrder
<1>7. \A i \in 1 .. Len(new) : new[i].sequence \in lo .. hi
  BY <1>2, <1>4, <1>5, <1>6
<1>8. ASSUME NEW i \in 1 .. Len(new), NEW j \in 1 .. Len(new), i < j
      PROVE  new[i].sequence <= new[j].sequence
  <2>1. CASE i = 1
    BY <1>2, <1>4, <1>7, <1>8, <2>1
  <2>2. CASE i # 1
    <3>1. i - 1 \in 1 .. Len(rest) /\ j - 1 \in 1 .. Len(rest) /\ i - 1 < j - 1
      BY <1>4, <1>8, <2>2
    <3>2. rest[i - 1].sequence <= rest[j - 1].sequence
      BY <3>1, Zenon DEF InOrder
    <3> QED
      BY <1>4, <1>5, <1>8, <2>2, <3>2
  <2> QED
    BY <2>1, <2>2
<1> QED
  BY <1>4, <1>7, <1>8, Zenon DEF InOrder

\* The clocks an acknowledgement leaves.
LEMMA ClocksLeft ==
    ASSUME QueueInv, NEW ack \in Nat, sequence <= ack,
           ack - sequence <= MAX_U32_WINDOW_SIZE, NEW end \in Nat, ack <= end,
           sequence + size <= end, end - sequence <= MAX_U32_WINDOW_SIZE,
           NEW new, new = Cut(DropFirst(clocks, Ended(ack, end)), ack)
    PROVE  new \in Seq(Stamp) /\ InOrder(new, ack, end)
<1> DEFINE T == {i \in 1 .. Len(clocks) : /\ IsAtOrAfter(ack, clocks[i].sequence)
                                         /\ IsAtOrAfter(ack, ClockEnd(i, end))}
<1>1. PICK m : m = Ended(ack, end)
  OBVIOUS
<1>2. clocks \in Seq(Stamp) /\ Len(clocks) \in Nat /\ InOrder(clocks, sequence, sequence + size)
  BY DEF QueueInv, ClockInv
<1>3. m \in 0 .. Len(clocks) /\ (m < Len(clocks) => m + 1 \notin T)
  <2>1. m = Max({k \in 0 .. Len(clocks) : \A i \in 1 .. k : i \in T})
    <3>1. {k \in 0 .. Len(clocks) : \A i \in 1 .. k : i \in T} =
          {k \in 0 .. Len(clocks) : \A i \in 1 .. k : /\ IsAtOrAfter(ack, clocks[i].sequence)
                                                      /\ IsAtOrAfter(ack, ClockEnd(i, end))}
      BY <1>2
    <3> QED
      BY <1>1, <3>1, Zenon DEF Ended, Leading
  <2> HIDE DEF T
  <2> QED
    BY <1>2, <2>1, LongestPrefix, Zenon
<1>4. sequence \in Nat /\ size \in Nat /\ sequence + size \in Nat /\ size <= MAX_U32_WINDOW_SIZE
  BY Bounds
<1>5. PICK rest : rest = DropFirst(clocks, m)
  OBVIOUS
<1>6. /\ rest \in Seq(Stamp) /\ Len(rest) = Len(clocks) - m
      /\ \A i \in 1 .. Len(rest) : rest[i] = clocks[m + i]
      /\ InOrder(rest, sequence, sequence + size)
  <2>1. m \in 0 .. Len(clocks)
    BY <1>3
  <2>2. PICK hi : hi = sequence + size
    BY Zenon
  <2>3. hi \in Nat /\ InOrder(clocks, sequence, hi) /\ sequence \in Nat /\ clocks \in Seq(Stamp)
    BY <1>2, <1>4, <2>2, Zenon
  <2>4. InOrder(rest, sequence, hi)
    BY <1>5, <2>1, <2>3, SuffixInOrder, Zenon
  <2>5. rest \in Seq(Stamp) /\ Len(rest) = Len(clocks) - m
    BY <1>5, <2>1, <2>3, SuffixInOrder, Zenon
  <2>6. \A i \in 1 .. Len(rest) : rest[i] = clocks[m + i]
    BY <1>2, <1>5, <2>1 DEF DropFirst
  <2> QED
    BY <2>2, <2>4, <2>5, <2>6, Zenon
<1>7. ASSUME Len(rest) > 1
      PROVE  ack <= rest[1].sequence \/ ack <= rest[2].sequence
  <2>1. m + 1 \in 1 .. Len(clocks) /\ m + 2 \in 1 .. Len(clocks) /\ m + 1 # Len(clocks)
        /\ rest[1] = clocks[m + 1] /\ rest[2] = clocks[m + 2] /\ m + 1 \notin T
    BY <1>2, <1>3, <1>6, <1>7
  <2>2. ClockEnd(m + 1, end) = rest[2].sequence
    <3>1. (m + 1) + 1 = m + 2
      BY <1>3
    <3> QED
      BY <2>1, <3>1 DEF ClockEnd
  <2>3. ~IsAtOrAfter(ack, rest[1].sequence) \/ ~IsAtOrAfter(ack, rest[2].sequence)
    BY <2>1, <2>2
  <2>4. rest[1].sequence \in sequence .. sequence + size
        /\ rest[2].sequence \in sequence .. sequence + size
    BY <1>6, <1>7 DEF InOrder
  <2>5. \A x \in sequence .. sequence + size : IsAtOrAfter(ack, x) <=> x <= ack
    <3> SUFFICES ASSUME NEW x \in sequence .. sequence + size
                 PROVE  IsAtOrAfter(ack, x) <=> x <= ack
      OBVIOUS
    <3>1. x \in Nat /\ (x <= ack => ack - x <= MAX_U32_WINDOW_SIZE)
          /\ (ack < x => x - ack + MAX_U32_WINDOW_SIZE < U32_MAX)
      BY <1>4, WidthAssumption
    <3> QED
      BY <3>1, AtOrAfterIs
  <2> QED
    BY <1>4, <2>3, <2>4, <2>5
<1>8. new = Cut(rest, ack)
  BY <1>1, <1>5
<1> QED
  BY <1>4, <1>6, <1>7, <1>8, CutInOrder

\* The clocks a tick leaves.
LEMMA ClocksTicked ==
    ASSUME QueueInv, NEW ticks \in Nat, GetTimedOutAndUpdate(ticks)
    PROVE  ClockInv'
<1>1. /\ clocks \in Seq(Stamp) /\ Len(clocks) \in Nat /\ DOMAIN clocks = 1 .. Len(clocks)
      /\ InOrder(clocks, sequence, sequence + size)
  BY DEF QueueInv, ClockInv
<1>2. /\ sequence \in Nat /\ size \in Nat /\ sequence + size \in Nat
      /\ sequence <= sequence + size /\ sequence + size <= U32_MAX
  BY Bounds
<1> DEFINE aged == [i \in DOMAIN clocks |->
                      [clocks[i] EXCEPT !.left = Older(clocks[i].left)]]
           expired == Max({k \in 0 .. Len(aged) : \A i \in 1 .. k : aged[i].left = 0})
           recv_next == IF expired = Len(aged) THEN RecvNext ELSE aged[expired + 1].sequence
           past == Max({k \in 0 .. Len(aged) :
                          \A i \in 1 .. k : IsAtOrAfter(recv_next, aged[i].sequence)})
           rest == IF expired = Len(aged) THEN <<>> ELSE DropFirst(aged, past)
<1>3. /\ clocks' = IF expired = Len(aged) \/ rest # <<>>
                   THEN <<Clock(sequence, ticks)>> \o rest ELSE <<>>
      /\ retrans' = recv_next /\ UNCHANGED ring
  <2>1. PICK timed_out : timed_out = TimedOut(ticks)
    OBVIOUS
  <2>2. clocks' = timed_out.clocks /\ retrans' = timed_out.recv_next /\ UNCHANGED ring
    BY <2>1 DEF GetTimedOutAndUpdate
  <2>3. timed_out = [recv_next |-> recv_next,
                     clocks |-> IF expired = Len(aged) \/ rest # <<>>
                                THEN <<Clock(sequence, ticks)>> \o rest ELSE <<>>]
    BY <2>1, Zenon DEF TimedOut, Rearmed, Leading
  <2> HIDE DEF aged, recv_next, past, rest, expired
  <2> QED
    BY <2>2, <2>3
<1> HIDE DEF recv_next, past, rest, expired
<1>4. /\ aged \in Seq(Stamp) /\ Len(aged) = Len(clocks)
      /\ InOrder(aged, sequence, sequence + size)
  <2>1. \A i \in 1 .. Len(clocks) : clocks[i] \in Stamp
    BY <1>1
  <2>2. \A r \in Stamp : /\ [r EXCEPT !.left = Older(r.left)] \in Stamp
                         /\ [r EXCEPT !.left = Older(r.left)].sequence = r.sequence
    BY DEF Stamp, Older, Larger
  <2>3. \A i \in 1 .. Len(clocks) : aged[i] \in Stamp /\ aged[i].sequence = clocks[i].sequence
    BY <1>1, <2>1, <2>2, Zenon
  <2>4. aged \in [1 .. Len(clocks) -> Stamp]
    BY <1>1, <2>3
  <2>5. aged \in Seq(Stamp) /\ Len(aged) = Len(clocks)
    BY <1>1, <2>4
  <2> QED
    BY <1>1, <2>3, <2>5 DEF InOrder
<1> HIDE DEF aged
<1>6. expired \in 0 .. Len(aged)
  <2> DEFINE T == {i \in 1 .. Len(aged) : aged[i].left = 0}
  <2>1. {k \in 0 .. Len(aged) : \A i \in 1 .. k : i \in T} =
        {k \in 0 .. Len(aged) : \A i \in 1 .. k : aged[i].left = 0}
    BY <1>1, <1>4
  <2>2. expired = Max({k \in 0 .. Len(aged) : \A i \in 1 .. k : i \in T})
    BY <2>1, Zenon DEF expired
  <2> HIDE DEF T
  <2> QED
    BY <1>1, <1>4, <2>2, LongestPrefix, Zenon
<1>8. recv_next \in sequence .. sequence + size
  <2>1. RecvNext = sequence + size
    BY <1>2 DEF RecvNext, WrappingAdd
  <2>2. CASE expired = Len(aged)
    BY <1>2, <2>1, <2>2 DEF recv_next
  <2>3. CASE expired # Len(aged)
    <3>1. expired + 1 \in 1 .. Len(aged)
      <4>1. Len(aged) \in Nat
        BY <1>1, <1>4
      <4> QED
        BY <1>6, <2>3, <4>1
    <3> QED
      BY <1>4, <2>3, <3>1 DEF InOrder, recv_next
  <2> QED
    BY <2>2, <2>3
<1>10. past \in 0 .. Len(aged)
  <2> DEFINE T == {i \in 1 .. Len(aged) : IsAtOrAfter(recv_next, aged[i].sequence)}
  <2>1. {k \in 0 .. Len(aged) : \A i \in 1 .. k : i \in T} =
        {k \in 0 .. Len(aged) : \A i \in 1 .. k : IsAtOrAfter(recv_next, aged[i].sequence)}
    BY <1>1, <1>4
  <2>2. past = Max({k \in 0 .. Len(aged) : \A i \in 1 .. k : i \in T})
    BY <2>1, Zenon DEF past
  <2> HIDE DEF T
  <2> QED
    BY <1>1, <1>4, <2>2, LongestPrefix, Zenon
<1>12. rest \in Seq(Stamp) /\ InOrder(rest, sequence, sequence + size)
  <2>1. <<>> \in Seq(Stamp) /\ InOrder(<<>>, sequence, sequence + size)
    BY DEF InOrder
  <2>2. DropFirst(aged, past) \in Seq(Stamp)
        /\ InOrder(DropFirst(aged, past), sequence, sequence + size)
    BY <1>2, <1>4, <1>10, SuffixInOrder
  <2> QED
    BY <2>1, <2>2 DEF rest
<1>14. clocks' \in Seq(Stamp) /\ InOrder(clocks', sequence, sequence + size)
  <2>1. <<>> \in Seq(Stamp) /\ InOrder(<<>>, sequence, sequence + size)
    BY DEF InOrder
  <2>2. /\ <<Clock(sequence, ticks)>> \o rest \in Seq(Stamp)
        /\ InOrder(<<Clock(sequence, ticks)>> \o rest, sequence, sequence + size)
    BY <1>2, <1>12, FirstInOrder, Zenon
  <2> QED
    BY <1>3, <2>1, <2>2
<1>15. sequence' = sequence /\ size' = size
  BY <1>3 DEF ring
<1> QED
  BY <1>8, <1>3, <1>14, <1>15 DEF ClockInv

-----------------------------------------------------------------------------
(* Every step keeps the invariant *)

\* append(): what is taken from the stream follows what is held.
LEMMA AppendKeeps ==
    ASSUME QueueInv, NEW n \in 1 .. MaxAppend, NEW ticks \in Nat, sent + n <= StreamLen,
           AppendBytes(n, ticks), ~cache_syn, cache_syn' = cache_syn,
           closed' = closed \/ closed = "no"
    PROVE  QueueInv'
<1>1. /\ sequence \in Nat /\ size \in Nat /\ sent \in Nat /\ size <= sent
      /\ sequence + size <= U32_MAX /\ n \in Nat \ {0}
  BY Bounds
<1>2. /\ n <= Capacity - size /\ size' = size + n /\ sent' = sent + n
      /\ sequence' = sequence /\ head' = head /\ retrans' = retrans
      /\ clocks' = Append(clocks, Clock(RecvNext, ticks))
  BY DEF AppendBytes
<1>3. \/ sequence + size = ISN + sent
      \/ sequence + size = ISN + sent + 1 /\ closed' # "no"
  BY Zenon DEF QueueInv, PositionInv
<1>4. RingInv'
  <2>1. PICK data : data = [i \in 1 .. n |-> sent + i]
    BY Zenon
  <2>2. PICK grown : grown = Extend(buffer, head, size, Capacity, size + n)
    OBVIOUS
  <2>3. PICK new : new = CopyRing(grown, TailIndex(grown, head, size), data)
    OBVIOUS
  <2>4. buffer' = new
    BY <2>1, <2>2, <2>3 DEF AppendBytes
  <2>5. PICK first \in Nat : first = sent - size + 1
    BY <1>1
  <2>6. IsArray(data, n) /\ \A i \in 1 .. n : data[i] = first + size + i - 1
    BY <1>1, <2>1, <2>5 DEF IsArray
  <2>7. /\ Len(buffer) \in Nat /\ IsArray(buffer, Len(buffer)) /\ size \in 0 .. Len(buffer)
        /\ head \in Nat /\ (head < Len(buffer) \/ head = 0) /\ (size = 0 => head = 0)
        /\ Len(buffer) <= Capacity /\ Capacity \in Nat
        /\ Holds(buffer, Len(buffer), head, size, first)
    BY <2>5, QueueAssumption DEF QueueInv, RingInv
  <2>8. size + n <= Capacity
    BY <1>1, <1>2, <2>7
  <2>9. PICK new_len \in 1 .. Capacity :
          /\ IsArray(new, new_len) /\ size + n <= new_len /\ head < new_len
          /\ Holds(new, new_len, head, size + n, first)
    BY <1>1, <2>2, <2>3, <2>5, <2>6, <2>7, <2>8, AppendHolds, Zenon
  <2>10. Len(new) = new_len /\ new_len \in Nat
    BY <2>9, ArrayLen
  <2>11. first = sent' - size' + 1
    BY <1>1, <1>2, <2>5
  <2>12. /\ size' \in 0 .. new_len /\ size' # 0 /\ sent' \in 0 .. StreamLen /\ size' <= sent'
    BY <1>1, <1>2, <2>9, <2>10
  <2>13. Holds(new, new_len, head, size', sent' - size' + 1)
    BY <1>2, <2>9, <2>11
  <2> QED
    BY <1>2, <2>4, <2>7, <2>9, <2>10, <2>12, <2>13 DEF RingInv
<1>5. PositionInv'
  <2>1. ISN \in Nat /\ sequence' \in Nat
    BY <1>1, <1>2, Bounds
  <2>2. /\ sequence + size = ISN + sent => sequence' + size' = ISN + sent'
        /\ sequence + size = ISN + sent + 1 => sequence' + size' = ISN + sent' + 1
    BY <1>1, <1>2, <2>1
  <2> QED
    BY <1>3, <2>1, <2>2, Zenon DEF PositionInv
<1>6. ClockInv'
  <2>1. RecvNext = sequence + size
    BY <1>1 DEF RecvNext, WrappingAdd
  <2>2. PICK last : last = Clock(sequence + size, ticks)
    OBVIOUS
  <2>3. last \in Stamp /\ last.sequence = sequence + size
    BY <1>1, <2>2 DEF Clock, Stamp
  <2>4. clocks \in Seq(Stamp) /\ InOrder(clocks, sequence, sequence + size)
    BY DEF QueueInv, ClockInv
  <2>5. /\ clocks' \in Seq(Stamp) /\ Len(clocks') = Len(clocks) + 1
        /\ clocks'[Len(clocks) + 1] = last
        /\ \A i \in 1 .. Len(clocks) : clocks'[i] = clocks[i]
    BY <1>2, <2>1, <2>2, <2>3, <2>4
  <2>6. Len(clocks) \in Nat
    BY <2>4
  <2>7. \A i \in 1 .. Len(clocks') : clocks'[i].sequence \in sequence .. sequence + size
    BY <1>1, <2>3, <2>4, <2>5, <2>6 DEF InOrder
  <2>8. ASSUME NEW i \in 1 .. Len(clocks'), NEW j \in 1 .. Len(clocks'), i < j
        PROVE  clocks'[i].sequence <= clocks'[j].sequence
    <3>1. i \in 1 .. Len(clocks)
      BY <2>5, <2>6, <2>8
    <3>2. CASE j = Len(clocks) + 1
      BY <1>1, <2>3, <2>5, <2>7, <3>2
    <3>3. CASE j # Len(clocks) + 1
      <4>1. j \in 1 .. Len(clocks)
        BY <2>5, <2>6, <3>3
      <4> QED
        BY <2>4, <2>5, <2>8, <3>1, <4>1 DEF InOrder
    <3> QED
      BY <3>2, <3>3
  <2>9. \A x \in sequence .. sequence + size : x \in sequence' .. sequence' + size'
    BY <1>1, <1>2
  <2>10. InOrder(clocks', sequence', sequence' + size')
    BY <2>7, <2>8, <2>9 DEF InOrder
  <2>11. retrans' = None \/ retrans' \in sequence' .. sequence' + size'
    BY <1>2, <2>9 DEF QueueInv, ClockInv
  <2> QED
    BY <2>5, <2>10, <2>11 DEF ClockInv
<1> QED
  BY <1>4, <1>5, <1>6 DEF QueueInv, NoWrap

\* What an acknowledgement leaves of the ring.
LEMMA InvalidateRing ==
    ASSUME QueueInv, NEW ack \in Nat, sequence <= ack, InvalidateTo(ack)
    PROVE  /\ RingInv' /\ sequence' = ack /\ sent' = sent
           /\ size' = IF ack - sequence <= size THEN size - (ack - sequence) ELSE 0
<1>1. /\ sequence \in Nat /\ size \in Nat /\ sent \in Nat /\ size <= sent
  BY Bounds
<1>2. PICK n \in Nat : n = ack - sequence
  BY <1>1
<1>3. Distance(ack, sequence) = n
  BY <1>1, <1>2 DEF Distance
<1>4. /\ sequence' = ack /\ sent' = sent /\ buffer' = buffer
      /\ size' = Larger(size - n, 0)
      /\ head' = IF size' = 0 THEN 0 ELSE (head + (n % Len(buffer))) % Len(buffer)
  BY <1>3 DEF InvalidateTo
<1>5. size' = IF n <= size THEN size - n ELSE 0
  BY <1>1, <1>4 DEF Larger
<1>6. RingInv'
  <2>1. RingInv
    BY DEF QueueInv
  <2>2. CASE size' = 0
    BY <1>1, <1>4, <2>1, <2>2 DEF RingInv, Holds
  <2>3. CASE size' # 0
    <3>1. n < size /\ size' = size - n
      BY <1>1, <1>5, <2>3
    <3>2. PICK first \in Nat : first = sent - size + 1
      BY <1>1
    <3>3. /\ Len(buffer) \in Nat /\ head \in Nat /\ head < Len(buffer)
          /\ size \in 0 .. Len(buffer) /\ Holds(buffer, Len(buffer), head, size, first)
      BY <1>1, <2>1, <3>1, <3>2 DEF RingInv
    <3>4. head' = (head + (n % Len(buffer))) % Len(buffer)
      BY <1>4, <2>3
    <3>5. /\ head' \in 0 .. Len(buffer) - 1
          /\ Holds(buffer, Len(buffer), head', size - n, first + n)
      BY <3>1, <3>2, <3>3, <3>4, DropHolds, Zenon
    <3>6. first + n = sent' - size' + 1 /\ size' \in 0 .. Len(buffer) /\ size' <= sent'
      <4>1. sent' = sent
        BY <1>4
      <4>2. first + n = sent - (size - n) + 1 /\ size - n \in Nat /\ size - n <= size
        BY <1>1, <3>1, <3>2
      <4>3. size <= Len(buffer) /\ Len(buffer) \in Nat
        BY <3>3
      <4> QED
        BY <1>1, <3>1, <4>1, <4>2, <4>3
    <3>7. Holds(buffer', Len(buffer'), head', size', sent' - size' + 1)
      BY <1>4, <3>1, <3>5, <3>6
    <3>8. head' \in Nat /\ head' < Len(buffer')
      BY <1>4, <3>3, <3>5
    <3> QED
      BY <1>4, <2>1, <2>3, <3>6, <3>7, <3>8 DEF RingInv
  <2> QED
    BY <2>2, <2>3
<1> QED
  BY <1>1, <1>2, <1>4, <1>5, <1>6

\* invalidate_to() within acknowledge: the source acknowledges n bytes, or the
\* FIN behind them all.
LEMMA AcknowledgeKeeps ==
    ASSUME QueueInv, NEW n \in 0 .. sent + 1, n = sent + 1 => closed # "no",
           Acknowledge(AsU32(ISN + n))
    PROVE  QueueInv'
<1>1. /\ sequence \in Nat /\ size \in Nat /\ sent \in Nat /\ size <= sent
      /\ size <= MAX_U32_WINDOW_SIZE /\ MAX_U32_WINDOW_SIZE \in Nat \ {0}
      /\ sequence + size <= ISN + sent + 1 /\ ISN - 1 <= sequence
      /\ ISN \in Nat \ {0} /\ sequence + size <= U32_MAX
  BY Bounds
<1>2. /\ sent <= StreamLen /\ StreamLen \in Nat /\ U32_MAX \in Nat
      /\ ISN + StreamLen + 1 <= U32_MAX
      /\ StreamLen + 2 + MAX_U32_WINDOW_SIZE < U32_MAX
  BY QueueAssumption, WidthAssumption DEF QueueInv, RingInv, NoWrap
<1>3. PICK ack \in Nat : ack = ISN + n
  BY <1>1
<1>4. AsU32(ISN + n) = ack
  <2>1. n \in 0 .. StreamLen + 1 /\ NoWrap
    BY <1>1, <1>2 DEF QueueInv
  <2> QED
    BY <1>3, <2>1, SequenceIs
<1>5. (InvalidateTo(ack) \/ InvalidateOld(ack)) /\ cache_syn' = FALSE /\ closed' = closed
  BY <1>4 DEF Acknowledge
<1>6. IsAtOrAfter(ack, sequence) <=> sequence <= ack /\ ack - sequence <= MAX_U32_WINDOW_SIZE
  <2>1. CASE sequence <= ack
    BY <1>1, <2>1 DEF IsAtOrAfter, Distance
  <2>2. CASE ack < sequence
    <3>1. sequence - ack + MAX_U32_WINDOW_SIZE < U32_MAX
      BY <1>1, <1>2, <1>3, <2>2
    <3> QED
      BY <1>1, <1>2, <2>2, <3>1 DEF IsAtOrAfter, Distance
  <2> QED
    BY <1>1, <2>1, <2>2
<1>7. CASE InvalidateOld(ack)
  <2>1. ~(sequence <= ack /\ ack - sequence <= MAX_U32_WINDOW_SIZE)
    BY <1>6, <1>7 DEF InvalidateOld
  <2>2. ~cache_syn
    <3>1. ASSUME sequence = ISN - 1, sent = 0, closed = "no" PROVE FALSE
      <4>1. n = 0
        BY <3>1
      <4> QED
        BY <1>1, <1>3, <2>1, <3>1, <4>1
    <3> QED
      BY <3>1, Zenon DEF QueueInv, PositionInv
  <2>3. UNCHANGED <<buffer, sequence, head, size, clocks, retrans, sent>>
    BY <1>7 DEF InvalidateOld, ring
  <2>4. PositionInv'
    BY <1>5, <2>2, <2>3, Zenon DEF QueueInv, PositionInv
  <2> QED
    BY <2>3, <2>4 DEF QueueInv, NoWrap, RingInv, ClockInv
<1>8. CASE InvalidateTo(ack)
  <2>1. sequence <= ack /\ ack - sequence <= MAX_U32_WINDOW_SIZE
    BY <1>6, <1>8 DEF InvalidateTo
  <2>2. /\ RingInv' /\ sequence' = ack /\ sent' = sent
        /\ size' = IF ack - sequence <= size THEN size - (ack - sequence) ELSE 0
    BY <1>8, <2>1, InvalidateRing
  <2>3. PICK end \in Nat : end = ack + size'
    BY <1>1, <2>1, <2>2
  <2>4. size' \in Nat /\ ack <= end /\ sequence + size <= end
        /\ end - sequence <= MAX_U32_WINDOW_SIZE /\ end <= U32_MAX
    <3>1. ack <= ISN + sent + 1
      BY <1>1, <1>3
    <3> QED
      BY <1>1, <1>2, <2>1, <2>2, <2>3, <3>1
  <2>5. PositionInv'
    <3>1. \/ sequence' + size' = ISN + sent'
          \/ closed # "no" /\ sequence' + size' = ISN + sent' + 1
      <4>1. CASE ack <= sequence + size
        <5>1. sequence' + size' = sequence + size
          BY <1>1, <2>1, <2>2, <4>1
        <5>2. \/ sequence + size = ISN + sent
              \/ closed # "no" /\ sequence + size = ISN + sent + 1
          <6>1. sequence = ISN - 1 /\ size = 0 => ~(ack <= sequence + size)
            BY <1>1, <1>3
          <6> QED
            BY <4>1, <6>1, Zenon DEF QueueInv, PositionInv
        <5> QED
          BY <2>2, <5>1, <5>2
      <4>2. CASE ~(ack <= sequence + size)
        <5>1. size' = 0 /\ sequence' = ISN + n /\ sent' = sent
          BY <1>1, <1>3, <2>1, <2>2, <4>2
        <5>2. n = sent \/ n = sent + 1
          <6>1. \/ sequence = ISN - 1 /\ size = 0 /\ sent = 0
                \/ sequence + size = ISN + sent
                \/ sequence + size = ISN + sent + 1
            BY Zenon DEF QueueInv, PositionInv
          <6> QED
            BY <1>1, <1>3, <4>2, <6>1
        <5> QED
          BY <1>1, <5>1, <5>2
      <4> QED
        BY <4>1, <4>2
    <3>2. sequence' \in Nat
      BY <2>2
    <3> QED
      BY <1>5, <3>1, <3>2, Zenon DEF PositionInv
  <2>6. ClockInv'
    <3>1. WrappingAdd(ack, size') = end
      BY <2>3, <2>4 DEF WrappingAdd
    <3>2. Larger(size - Distance(ack, sequence), 0) = size'
      BY <1>8 DEF InvalidateTo
    <3>3. clocks' = Cut(DropFirst(clocks, Ended(ack, end)), ack) /\ retrans' = Unmarked(ack)
      BY <1>8, <3>1, <3>2, Zenon DEF InvalidateTo
    <3>4. clocks' \in Seq(Stamp) /\ InOrder(clocks', ack, end)
      BY <2>1, <2>3, <2>4, <3>3, ClocksLeft
    <3>5. retrans' = None \/ retrans' \in ack .. end
      <4>1. CASE retrans = None
        BY <3>3, <4>1 DEF Unmarked
      <4>2. CASE retrans # None
        <5>1. retrans \in sequence .. sequence + size /\ retrans \in Nat
          BY <1>1, <4>2 DEF QueueInv, ClockInv
        <5>2. IsAtOrAfter(ack, retrans) <=> retrans <= ack
          <6>1. /\ retrans <= ack => ack - retrans <= MAX_U32_WINDOW_SIZE
                /\ ack < retrans => retrans - ack + MAX_U32_WINDOW_SIZE < U32_MAX
            BY <1>1, <2>1, <5>1, WidthAssumption
          <6> QED
            BY <5>1, <6>1, AtOrAfterIs
        <5>3. retrans' = IF retrans <= ack THEN None ELSE retrans
          BY <3>3, <4>2, <5>2 DEF Unmarked
        <5>4. ~(retrans <= ack) => retrans \in ack .. end
          <6>1. retrans <= end
            BY <1>1, <2>4, <5>1
          <6> QED
            BY <5>1, <6>1
        <5> QED
          BY <5>3, <5>4
      <4> QED
        BY <4>1, <4>2
    <3> QED
      BY <2>2, <2>3, <3>4, <3>5 DEF ClockInv
  <2> QED
    BY <2>2, <2>5, <2>6 DEF QueueInv, NoWrap
<1> QED
  BY <1>5, <1>7, <1>8

LEMMA TicksType == ASSUME NEW ms, NEW n \in Ticks(ms) PROVE n \in Nat
  BY DEF Ticks

LEMMA QueueStep == QueueInv /\ [Next]_allVars => QueueInv'
<1> SUFFICES ASSUME QueueInv, [Next]_allVars PROVE QueueInv'
  OBVIOUS
<1>1. ASSUME UNCHANGED vars, cache_syn' = cache_syn,
             closed' = closed \/ (~cache_syn /\ closed = "no")
      PROVE  QueueInv'
  <2>1. UNCHANGED <<buffer, sequence, head, size, clocks, retrans, sent>>
    BY <1>1 DEF vars, ring
  <2>2. ASSUME closed' = closed PROVE PositionInv'
    BY <1>1, <2>1, <2>2, Zenon DEF QueueInv, PositionInv
  <2>3. ASSUME ~cache_syn, closed = "no" PROVE PositionInv'
    BY <1>1, <2>1, <2>3, Zenon DEF QueueInv, PositionInv
  <2>4. PositionInv'
    BY <1>1, <2>2, <2>3, Zenon
  <2> QED
    BY <2>1, <2>4 DEF QueueInv, NoWrap, RingInv, ClockInv
<1>2. CASE AppendCache
  <2>1. PICK n \in 1 .. MaxAppend, ticks \in Ticks(rto) :
          /\ sent + n <= StreamLen
          /\ \/ AppendBytes(n, ticks) /\ (closed' = closed \/ closed = "no")
             \/ AppendFull(n) /\ UNCHANGED finVars
    BY <1>2, Zenon DEF AppendCache, finVars
  <2>2. ~cache_syn /\ cache_syn' = cache_syn
    BY <1>2 DEF AppendCache
  <2>3. CASE AppendBytes(n, ticks) /\ (closed' = closed \/ closed = "no")
    BY <2>1, <2>2, <2>3, TicksType, AppendKeeps
  <2>4. CASE AppendFull(n) /\ UNCHANGED finVars
    BY <1>1, <2>2, <2>4 DEF AppendFull, finVars
  <2> QED
    BY <2>1, <2>3, <2>4
<1>3. CASE AppendCacheFin
  BY <1>1, <1>3, Zenon DEF AppendCacheFin
<1>4. CASE DoAcknowledge
  <2>1. PICK n \in 0 .. sent + (IF closed = "no" THEN 0 ELSE 1) : Acknowledge(AsU32(ISN + n))
    BY <1>4 DEF DoAcknowledge
  <2>2. n \in 0 .. sent + 1 /\ (n = sent + 1 => closed # "no")
    BY <2>1, Bounds
  <2> QED
    BY <2>1, <2>2, AcknowledgeKeeps
<1>5. CASE Tick
  <2>1. PICK ticks \in Ticks(RetransmitTimeout) : GetTimedOutAndUpdate(ticks)
    BY <1>5 DEF Tick
  <2>2. ClockInv'
    BY <2>1, TicksType, ClocksTicked
  <2>3. UNCHANGED <<buffer, sequence, head, size, sent>>
    BY <2>1, Zenon DEF GetTimedOutAndUpdate, ring
  <2>4. cache_syn' = cache_syn /\ closed' = closed
    BY <1>5, Zenon DEF Tick, UpdateFinTimer
  <2>5. PositionInv'
    BY <2>3, <2>4, Zenon DEF QueueInv, PositionInv
  <2> QED
    BY <2>2, <2>3, <2>5 DEF QueueInv, NoWrap, RingInv
<1>6. CASE UNCHANGED allVars
  BY <1>1, <1>6 DEF allVars, finVars
<1> QED
  BY <1>2, <1>3, <1>4, <1>5, <1>6 DEF Next

LEMMA QueueStarts == TimersInit /\ NoWrap => QueueInv
<1> SUFFICES ASSUME TimersInit, NoWrap PROVE QueueInv
  OBVIOUS
<1>1. /\ buffer = <<>> /\ sequence = ISN - 1 /\ head = 0 /\ size = 0 /\ sent = 0
      /\ clocks = <<>> /\ retrans = None /\ cache_syn = TRUE /\ closed = "no"
  BY DEF TimersInit, Init
<1>2. Len(buffer) = 0 /\ IsArray(buffer, 0)
  BY <1>1 DEF IsArray
<1>3. Capacity \in Nat /\ StreamLen \in Nat /\ ISN \in Nat \ {0}
  BY QueueAssumption, WidthAssumption DEF U32
<1>4. RingInv
  BY <1>1, <1>2, <1>3 DEF RingInv, Holds
<1>5. sequence \in Nat
  BY <1>1, <1>3
<1>6. PositionInv
  BY <1>1, <1>5, Zenon DEF PositionInv
<1>7. ClockInv
  BY <1>1 DEF ClockInv, InOrder
<1> QED
  BY <1>4, <1>6, <1>7 DEF QueueInv

LEMMA QueueReaches == Spec /\ NoWrap => []QueueInv
  BY QueueStarts, QueueStep, PTL DEF Spec

\* In every run of append_cache, acknowledge and the tick, for caches and
\* streams of any size before the wrap: the clocks are in order and in the
\* queue, so the get(..).unwrap() of get_timed_out_and_update cannot fail.
THEOREM QueueClocksInside == Spec /\ NoWrap => []ClocksInside
<1>1. QueueInv => ClocksInside
  <2> SUFFICES ASSUME QueueInv PROVE ClocksInside
    OBVIOUS
  <2>1. /\ sequence \in Nat /\ size \in Nat /\ size <= MAX_U32_WINDOW_SIZE
        /\ MAX_U32_WINDOW_SIZE \in Nat
    BY Bounds
  <2>2. /\ DOMAIN clocks = 1 .. Len(clocks) /\ InOrder(clocks, sequence, sequence + size)
    BY DEF QueueInv, ClockInv
  <2>3. \A i \in DOMAIN clocks : clocks[i].sequence \in sequence .. sequence + size
    BY <2>2 DEF InOrder
  <2>4. ASSUME NEW i \in DOMAIN clocks
        PROVE  /\ IsAtOrAfter(clocks[i].sequence, sequence)
               /\ Distance(clocks[i].sequence, sequence) <= size
    <3>1. clocks[i].sequence \in sequence .. sequence + size
      BY <2>3
    <3> QED
      BY <2>1, <3>1 DEF IsAtOrAfter, Distance
  <2>5. ASSUME NEW i \in DOMAIN clocks, NEW j \in DOMAIN clocks, i < j
        PROVE  IsAtOrAfter(clocks[j].sequence, clocks[i].sequence)
    <3>1. clocks[i].sequence <= clocks[j].sequence
      BY <2>2, <2>5 DEF InOrder
    <3>2. /\ clocks[i].sequence \in sequence .. sequence + size
          /\ clocks[j].sequence \in sequence .. sequence + size
      BY <2>3
    <3> QED
      BY <2>1, <3>1, <3>2 DEF IsAtOrAfter, Distance
  <2> QED
    BY <2>4, <2>5 DEF ClocksInside
<1> QED
  BY <1>1, QueueReaches, PTL

\* The same for the mark of a retransmission: it is never behind the queue, so
\* a round trip time is withheld only while resent bytes are unacknowledged.
THEOREM QueueRetransAhead == Spec /\ NoWrap => []RetransAhead
<1>1. QueueInv => RetransAhead
  <2> SUFFICES ASSUME QueueInv, retrans # None PROVE Distance(retrans, sequence) <= size
    BY DEF RetransAhead
  <2>1. retrans \in sequence .. sequence + size
    BY DEF QueueInv, ClockInv
  <2> QED
    BY <2>1, Bounds DEF Distance
<1> QED
  BY <1>1, QueueReaches, PTL

-----------------------------------------------------------------------------
(* The queue implements ByteQueue *)

\* get_all() is the last size bytes of what was sent.
LEMMA GetAllIs ==
    QueueInv => /\ GetAll = Abstract!Consecutive(sent - size + 1, size)
                /\ GetAll \in Seq(Nat) /\ Len(GetAll) = size
<1> SUFFICES ASSUME QueueInv
             PROVE  /\ GetAll = Abstract!Consecutive(sent - size + 1, size)
                    /\ GetAll \in Seq(Nat) /\ Len(GetAll) = size
  OBVIOUS
<1>1. sent \in Nat /\ size \in Nat /\ size <= sent
  BY Bounds
<1>2. PICK first \in Nat : first = sent - size + 1
  BY <1>1
<1>3. /\ Len(buffer) \in Nat /\ IsArray(buffer, Len(buffer)) /\ head \in Nat
      /\ (head < Len(buffer) \/ head = 0) /\ size \in 0 .. Len(buffer)
      /\ Holds(buffer, Len(buffer), head, size, first)
  BY <1>2 DEF QueueInv, RingInv
<1>4. GetAll = [i \in 1 .. size |-> first + i - 1]
  BY <1>2, <1>3, ReadHolds DEF GetAll
<1>5. GetAll \in [1 .. size -> Nat]
  BY <1>1, <1>2, <1>4
<1> QED
  BY <1>1, <1>2, <1>4, <1>5 DEF Abstract!Consecutive

LEMMA GetAllNext == QueueInv' => (GetAll = Abstract!Consecutive(sent - size + 1, size))'
  BY GetAllIs, PTL

\* append() puts, invalidate_to() drops, and nothing else changes the bytes.
LEMMA QueueImplements ==
    QueueInv /\ QueueInv' /\ [Next]_allVars => [Abstract!Next]_<<sent, GetAll>>
<1> SUFFICES ASSUME QueueInv, QueueInv', [Next]_allVars
             PROVE  [Abstract!Next]_<<sent, GetAll>>
  OBVIOUS
<1>1. sent \in Nat /\ size \in Nat /\ size <= sent /\ sequence \in Nat
  BY Bounds
<1>2. /\ GetAll = [i \in 1 .. size |-> (sent - size + 1) + i - 1]
      /\ GetAll \in Seq(Nat) /\ Len(GetAll) = size
  BY GetAllIs DEF Abstract!Consecutive
<1>3. GetAll' = [i \in 1 .. size' |-> (sent' - size' + 1) + i - 1]
  BY GetAllNext DEF Abstract!Consecutive
<1>4. ASSUME sent' = sent, size' = size PROVE UNCHANGED <<sent, GetAll>>
  BY <1>2, <1>3, <1>4
<1>5. CASE AppendCache
  <2>1. PICK n \in 1 .. MaxAppend, ticks \in Ticks(rto) :
          /\ sent + n <= StreamLen
          /\ AppendBytes(n, ticks) \/ (AppendFull(n) /\ UNCHANGED finVars)
    BY <1>5, Zenon DEF AppendCache
  <2>2. CASE AppendBytes(n, ticks)
    <3>1. n \in Nat \ {0} /\ n <= Capacity - size /\ size' = size + n /\ sent' = sent + n
      BY <2>2 DEF AppendBytes
    <3>2. PICK more : more = [i \in 1 .. n |-> (sent + 1) + i - 1]
      BY Zenon
    <3>3. more \in [1 .. n -> Nat]
      BY <1>1, <3>1, <3>2
    <3>4. more \in Seq(Nat) /\ Len(more) = n
      BY <3>1, <3>3
    <3>5. GetAll' = GetAll \o more
      <4>1. PICK whole : whole = GetAll \o more
        BY Zenon
      <4>2. whole \in Seq(Nat) /\ Len(whole) = size + n /\ DOMAIN whole = 1 .. size + n
        <5>1. GetAll \in Seq(Nat) /\ Len(GetAll) = size
          BY <1>2, Zenon
        <5>2. \A f, g \in Seq(Nat) : f \o g \in Seq(Nat) /\ Len(f \o g) = Len(f) + Len(g)
          OBVIOUS
        <5>3. whole \in Seq(Nat) /\ Len(whole) = size + n
          BY <3>4, <4>1, <5>1, <5>2, Zenon
        <5> QED
          BY <5>3
      <4>3. ASSUME NEW i \in 1 .. size + n
            PROVE  whole[i] = (sent' - size' + 1) + i - 1
        <5>1. CASE i <= size
          <6>1. whole[i] = GetAll[i] /\ i \in 1 .. size
            BY <1>1, <1>2, <3>4, <4>1, <5>1
          <6> QED
            BY <1>1, <1>2, <3>1, <6>1
        <5>2. CASE i > size
          <6>1. whole[i] = more[i - size] /\ i - size \in 1 .. n
            BY <1>1, <1>2, <3>1, <3>4, <4>1, <5>2
          <6> QED
            BY <1>1, <3>1, <3>2, <6>1
        <5> QED
          BY <1>1, <5>1, <5>2
      <4>4. whole = [i \in 1 .. size + n |-> (sent' - size' + 1) + i - 1]
        BY <4>2, <4>3
      <4> QED
        BY <1>3, <3>1, <4>1, <4>4
    <3>6. n \in 1 .. Capacity - Len(GetAll)
      BY <1>1, <1>2, <3>1, QueueAssumption, WidthAssumption
    <3>7. Abstract!Put
      BY <2>1, <3>1, <3>2, <3>5, <3>6, Zenon DEF Abstract!Put, Abstract!Consecutive
    <3> QED
      BY <3>7 DEF Abstract!Next
  <2>3. CASE AppendFull(n)
    BY <1>4, <2>3 DEF AppendFull, vars, ring
  <2> QED
    BY <2>1, <2>2, <2>3
<1>6. CASE DoAcknowledge
  <2>1. PICK ack : InvalidateTo(ack) \/ InvalidateOld(ack)
    BY <1>6 DEF DoAcknowledge, Acknowledge
  <2>2. CASE InvalidateTo(ack)
    <3>1. sent' = sent /\ size' = Larger(size - Distance(ack, sequence), 0)
      BY <2>2 DEF InvalidateTo
    <3>2. size' \in 0 .. size
      <4>1. sequence' = ack
        BY <2>2 DEF InvalidateTo
      <4>2. sequence' \in Nat /\ sequence \in 0 .. U32_MAX
        <5>1. sequence' \in Nat
          BY DEF QueueInv, PositionInv
        <5>2. sequence + size <= U32_MAX
          BY Bounds
        <5> QED
          BY <1>1, <5>1, <5>2, WidthAssumption
      <4>3. Distance(ack, sequence) \in Nat
        BY <1>1, <4>1, <4>2, WidthAssumption DEF Distance
      <4> QED
        BY <1>1, <3>1, <4>3 DEF Larger
    <3>3. CASE size' = size
      BY <1>4, <3>1, <3>3
    <3>4. CASE size' < size
      <4>1. PICK n \in 1 .. size : n = size - size'
        <5>1. \A x \in 0 .. size : x < size => size - x \in 1 .. size
          BY <1>1
        <5> QED
          BY <3>2, <3>4, <5>1
      <4>2. PICK left : left = SubSeq(GetAll, n + 1, Len(GetAll))
        BY Zenon
      <4>3. left = [i \in 1 .. size - n |-> GetAll[n + i]]
        <5>1. GetAll \in Seq(Nat) /\ Len(GetAll) = size
          BY <1>2, Zenon
        <5>2. n \in Nat
          BY <1>1
        <5> QED
          BY <1>1, <4>2, <5>1, <5>2
      <4>4. \A i \in 1 .. size - n : GetAll[n + i] = (sent - size + 1) + (n + i) - 1
        <5>1. \A i \in 1 .. size - n : n + i \in 1 .. size
          BY <1>1
        <5> QED
          BY <1>2, <5>1
      <4>5. GetAll' = left
        <5>1. \A x \in 0 .. size : n = size - x => x = size - n
          BY <1>1
        <5>2. size' = size - n
          BY <3>2, <4>1, <5>1
        <5>3. \A i \in 1 .. size - n : (sent - (size - n) + 1) + i - 1 = (sent - size + 1) + (n + i) - 1
          BY <1>1
        <5>4. GetAll' = [i \in 1 .. size - n |-> (sent - (size - n) + 1) + i - 1]
          BY <1>3, <3>1, <5>2
        <5> QED
          BY <4>3, <4>4, <5>3, <5>4
      <4>6. Abstract!Drop
        BY <1>2, <3>1, <4>1, <4>2, <4>5, Zenon DEF Abstract!Drop
      <4> QED
        BY <4>6 DEF Abstract!Next
    <3> QED
      BY <1>1, <3>2, <3>3, <3>4
  <2>3. CASE InvalidateOld(ack)
    BY <1>4, <2>3 DEF InvalidateOld, ring
  <2> QED
    BY <2>1, <2>2, <2>3
<1>7. CASE AppendCacheFin
  BY <1>4, <1>7 DEF AppendCacheFin, vars, ring
<1>8. CASE Tick
  BY <1>4, <1>8, Zenon DEF Tick, GetTimedOutAndUpdate, ring
<1>9. CASE UNCHANGED allVars
  BY <1>4, <1>9 DEF allVars, vars, ring
<1> QED
  BY <1>5, <1>6, <1>7, <1>8, <1>9 DEF Next

\* The send cache with its timers implements ByteQueue, for caches and streams
\* of any size before the wrap: growing, wrapping and acknowledging never lose,
\* repeat, reorder or overwrite a byte that may have to be sent again.
THEOREM QueueRefines == Spec /\ NoWrap => ImplementsByteQueue
<1>1. TimersInit /\ NoWrap => Abstract!Init
  <2> SUFFICES ASSUME TimersInit, NoWrap PROVE Abstract!Init
    OBVIOUS
  <2>1. GetAll = [i \in 1 .. 0 |-> 0] /\ sent = 0
    BY DEF TimersInit, Init, GetAll, ReadRing
  <2>2. GetAll = <<>>
    BY <2>1
  <2> QED
    BY <2>1, <2>2 DEF Abstract!Init
<1> QED
  BY <1>1, QueueReaches, QueueImplements, PTL DEF Spec, ImplementsByteQueue, Abstract!Spec

-----------------------------------------------------------------------------
(* The retransmission timeout *)

RtoInv == RtoTypeOK /\ VarianceKeepsUp /\ RtoCoversSample

\* Division rounds down by less than its divisor.
LEMMA Rounding ==
    ASSUME NEW x \in Nat
    PROVE  /\ x \div 2 \in Nat /\ 2 * (x \div 2) <= x /\ x <= 2 * (x \div 2) + 1
           /\ x \div 4 \in Nat /\ 4 * (x \div 4) <= x /\ x <= 4 * (x \div 4) + 3
           /\ x \div 8 \in Nat /\ 8 * (x \div 8) <= x /\ x <= 8 * (x \div 8) + 7
  BY SMT

\* set_rto keeps the timeout within its bounds and above what is asked for,
\* up to MAX_RTO.
LEMMA SetRtoBounds ==
    ASSUME NEW x \in Nat
    PROVE  SetRto(x) \in MIN_RTO .. MAX_RTO /\ SetRto(x) >= MinOf(MAX_RTO, x)
  BY RtoAssumption DEF SetRto, MinOf, MaxOf

LEMMA SaturatedType == ASSUME NEW x \in Nat PROVE Saturated(x) \in Nat
  BY RtoAssumption DEF Saturated, MinOf

LEMMA InitRtoInv == RtoInit => RtoInv
  BY RtoAssumption
  DEF RtoInit, RtoInv, RtoTypeOK, VarianceKeepsUp, RtoCoversSample, NoSample, Time, MinOf

\* double_rto never lowers the timeout.
LEMMA DoublePreserves == RtoInv /\ DoubleRto => RtoInv'
<1> SUFFICES ASSUME RtoInv, DoubleRto PROVE RtoInv'
  OBVIOUS
<1>1. Saturated(rto * 2) \in Nat /\ Saturated(rto * 2) >= rto
  BY RtoAssumption DEF RtoInv, RtoTypeOK, Saturated, MinOf
<1>2. rto' \in MIN_RTO .. MAX_RTO /\ rto' >= MinOf(MAX_RTO, Saturated(rto * 2))
  BY <1>1, SetRtoBounds DEF DoubleRto
<1>3. rto' >= rto
  BY <1>1, <1>2, RtoAssumption DEF RtoInv, RtoTypeOK, MinOf
<1>4. RtoTypeOK' /\ VarianceKeepsUp'
  BY <1>2 DEF RtoInv, RtoTypeOK, VarianceKeepsUp, DoubleRto
<1>5. RtoCoversSample'
  BY <1>2, <1>3, RtoAssumption
  DEF RtoInv, RtoTypeOK, RtoCoversSample, DoubleRto, MinOf, Time, NoSample
<1> QED
  BY <1>4, <1>5 DEF RtoInv

\* The first sample.
LEMMA FirstSample ==
    ASSUME RtoInv, NEW rtt \in Time, UpdateRto(rtt), srtt = NoSample
    PROVE  RtoInv'
<1>1. rtt \in Nat /\ rtt <= U64_MAX
  BY RtoAssumption DEF Time
<1>2. srtt' = rtt /\ rttvar' = rtt \div 2 /\ last_rtt' = rtt
  BY DEF UpdateRto, NextSrtt, NextRttvar
<1>3. rttvar' \in Nat /\ 2 * rttvar' <= rtt /\ rtt <= 2 * rttvar' + 1
  BY <1>1, <1>2, Rounding
<1>4. Saturated(srtt' + MaxOf(1, Saturated(4 * rttvar'))) \in Nat
      /\ Saturated(srtt' + MaxOf(1, Saturated(4 * rttvar'))) >= rtt
  BY <1>1, <1>2, <1>3, RtoAssumption DEF Saturated, MinOf, MaxOf
<1>5. rto' \in MIN_RTO .. MAX_RTO /\ rto' >= MinOf(MAX_RTO, rtt)
  <2>1. rto' = SetRto(Saturated(srtt' + MaxOf(1, Saturated(4 * rttvar'))))
    BY DEF UpdateRto, NextRto
  <2> QED
    BY <1>1, <1>4, <2>1, SetRtoBounds, RtoAssumption DEF MinOf
<1>6. RtoTypeOK'
  BY <1>1, <1>2, <1>3, <1>5, RtoAssumption DEF RtoTypeOK, Time, NoSample
<1>7. VarianceKeepsUp' /\ RtoCoversSample'
  BY <1>1, <1>2, <1>3, <1>5 DEF VarianceKeepsUp, RtoCoversSample
<1> QED
  BY <1>6, <1>7 DEF RtoInv

\* The arithmetic of a later sample, before anything saturates: with d, g and
\* r the rounded quotients, RTTVAR keeps up and the sum covers the sample.
LEMMA SampleArithmetic ==
    ASSUME NEW s \in Nat, NEW v \in Nat, NEW rtt \in Nat, 2 * v + 14 >= s,
           NEW d \in Nat, 8 * d <= v, v <= 8 * d + 7,
           NEW r \in Nat, 8 * r <= rtt, rtt <= 8 * r + 7,
           NEW g \in Nat, 4 * g <= Gap(s, rtt), Gap(s, rtt) <= 4 * g + 3
    PROVE  /\ 2 * (d * 7 + g) + 14 >= d * 7 + r
           /\ rtt > 1000 => d * 7 + r + 4 * (d * 7 + g) >= rtt
  BY DEF Gap

\* Any later sample.
LEMMA LaterSample ==
    ASSUME RtoInv, NEW rtt \in Time, UpdateRto(rtt), srtt # NoSample
    PROVE  RtoInv'
<1> DEFINE d == rttvar \div 8
           r == rtt \div 8
           g == Gap(srtt, rtt) \div 4
<1>1. rtt \in Nat /\ rtt <= U64_MAX /\ srtt \in Nat /\ srtt <= U64_MAX /\ rttvar \in Nat
  BY RtoAssumption DEF RtoInv, RtoTypeOK, Time, NoSample
<1>2. Gap(srtt, rtt) \in Nat
  BY <1>1 DEF Gap
<1>3. /\ d \in Nat /\ 8 * d <= rttvar /\ rttvar <= 8 * d + 7
      /\ r \in Nat /\ 8 * r <= rtt /\ rtt <= 8 * r + 7
      /\ g \in Nat /\ 4 * g <= Gap(srtt, rtt) /\ Gap(srtt, rtt) <= 4 * g + 3
  BY <1>1, <1>2, Rounding
<1>4. srtt' = Saturated(d * 7 + r) /\ rttvar' = Saturated(d * 7 + g) /\ last_rtt' = rtt
  BY DEF UpdateRto, NextSrtt, NextRttvar
<1>5. rto' = SetRto(Saturated(srtt' + MaxOf(1, Saturated(4 * rttvar'))))
  BY DEF UpdateRto, NextRto
<1> HIDE DEF d, r, g
<1>6. /\ 2 * (d * 7 + g) + 14 >= d * 7 + r
      /\ rtt > 1000 => d * 7 + r + 4 * (d * 7 + g) >= rtt
  BY <1>1, <1>3, SampleArithmetic, ZenonT(60) DEF RtoInv, VarianceKeepsUp
<1>7. srtt' \in Time /\ rttvar' \in Time /\ 2 * rttvar' + 14 >= srtt'
  BY <1>3, <1>4, <1>6, RtoAssumption DEF Saturated, MinOf, Time
<1>8. Saturated(srtt' + MaxOf(1, Saturated(4 * rttvar'))) \in Nat
  <2>1. srtt' \in Nat /\ rttvar' \in Nat
    BY <1>7, RtoAssumption DEF Time
  <2>2. Saturated(4 * rttvar') \in Nat
    BY <2>1, SaturatedType
  <2>3. MaxOf(1, Saturated(4 * rttvar')) \in Nat
    BY <2>2 DEF MaxOf
  <2> QED
    BY <2>1, <2>3, SaturatedType
<1>9. rtt > 1000 => Saturated(srtt' + MaxOf(1, Saturated(4 * rttvar'))) >= rtt
  BY <1>1, <1>3, <1>4, <1>6, RtoAssumption DEF Saturated, MinOf, MaxOf
<1>10. rto' \in MIN_RTO .. MAX_RTO /\ rto' >= MinOf(MAX_RTO, rtt)
  <2>1. /\ rto' \in MIN_RTO .. MAX_RTO
        /\ rto' >= MinOf(MAX_RTO, Saturated(srtt' + MaxOf(1, Saturated(4 * rttvar'))))
    BY <1>5, <1>8, SetRtoBounds
  <2> QED
    BY <1>1, <1>8, <1>9, <2>1, RtoAssumption DEF MinOf
<1>11. RtoTypeOK'
  BY <1>1, <1>4, <1>7, <1>10 DEF RtoTypeOK, Time, NoSample
<1>12. VarianceKeepsUp' /\ RtoCoversSample'
  BY <1>4, <1>7, <1>10 DEF VarianceKeepsUp, RtoCoversSample
<1> QED
  BY <1>11, <1>12 DEF RtoInv

LEMMA RtoStep == RtoInv /\ [RtoNext]_rtoVars => RtoInv'
<1> SUFFICES ASSUME RtoInv, [RtoNext]_rtoVars PROVE RtoInv'
  OBVIOUS
<1>1. CASE DoubleRto
  BY <1>1, DoublePreserves
<1>2. ASSUME NEW rtt \in Time, UpdateRto(rtt) PROVE RtoInv'
  BY <1>2, FirstSample, LaterSample
<1>3. CASE UNCHANGED rtoVars
  BY <1>3 DEF RtoInv, RtoTypeOK, VarianceKeepsUp, RtoCoversSample, rtoVars
<1> QED
  BY <1>1, <1>2, <1>3 DEF RtoNext

\* Every step of the connection leaves the timeout alone, doubles it or
\* updates it from a round trip time.
LEMMA TimersRtoStep == [Next]_allVars => [RtoNext]_rtoVars
<1> SUFFICES ASSUME [Next]_allVars PROVE [RtoNext]_rtoVars
  OBVIOUS
<1>1. CASE AppendCache \/ AppendCacheFin
  BY <1>1, Zenon DEF AppendCache, AppendCacheFin
<1>2. CASE DoAcknowledge
  <2>1. (\E rtt \in Rtts : UpdateRto(rtt)) \/ UNCHANGED rtoVars
    BY <1>2, Zenon DEF DoAcknowledge, Acknowledge
  <2> QED
    BY <2>1, TimersAssumption DEF RtoNext
<1>3. CASE Tick
  <2>1. DoubleRto \/ UNCHANGED rtoVars
    BY <1>3, Zenon DEF Tick
  <2> QED
    BY <2>1 DEF RtoNext
<1>4. CASE UNCHANGED allVars
  BY <1>4 DEF allVars
<1> QED
  BY <1>1, <1>2, <1>3, <1>4 DEF Next

\* In every run of a connection, with any samples and back-offs and whatever
\* the width of u64, the timeout stays within its bounds and at or above the
\* last round trip time, up to MAX_RTO.
THEOREM TimersRtoCovers == Spec => [](RtoTypeOK /\ RtoCoversSample)
<1>1. TimersInit => RtoInv
  BY InitRtoInv DEF TimersInit
<1>2. RtoInv /\ [Next]_allVars => RtoInv'
  BY TimersRtoStep, RtoStep
<1>3. RtoInv => RtoTypeOK /\ RtoCoversSample
  BY DEF RtoInv
<1> QED
  BY <1>1, <1>2, <1>3, PTL DEF Spec
=============================================================================
