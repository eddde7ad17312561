---------------------------- MODULE TcpTxProofs -----------------------------
(***************************************************************************)
(* The sending half of a TCP connection, for streams, segments, caches and *)
(* windows of every size, whether the remote closes or not, and for every  *)
(* interleaving of the reader, the tick task and the packet loop, with     *)
(* packets that are lost and sends that fail.                              *)
(*                                                                         *)
(* The types hold in every state; what says where bytes and packets are    *)
(* holds until a FIN is sent ahead of bytes of the stream.                 *)
(***************************************************************************)
EXTENDS TcpTx, FiniteSetTheorems, WellFoundedInduction, TLAPS

-----------------------------------------------------------------------------
(* The greatest and the least of a set *)

\* A set of naturals with an upper bound has a greatest element.
LEMMA GreatestExists ==
    ASSUME NEW S \in SUBSET Nat, S # {}, NEW e \in Nat, \A x \in S : x <= e
    PROVE  \E x \in S : \A y \in S : x >= y
<1> DEFINE T == {e - x : x \in S}
           R == {ss \in Nat \X Nat : ss[1] < ss[2]}
<1>1. T \subseteq Nat /\ T # {}
  <2>1. \A x \in S : e - x \in Nat
    OBVIOUS
  <2> QED
    BY <2>1, Zenon
<1>2. IsWellFoundedOn(R, Nat)
  BY NatLessThanWellFounded, Zenon DEF OpToRel
<1>3. PICK t \in T : \A u \in T : ~(<<u, t>> \in R)
  <2> HIDE DEF R, T
  <2> QED
    BY <1>1, <1>2, WFMin, Zenon
<1>4. ASSUME NEW u \in T PROVE t <= u
  <2>1. u \in Nat /\ t \in Nat
    BY <1>1
  <2>2. ~(<<u, t>> \in R)
    BY <1>3
  <2> QED
    BY <2>1, <2>2
<1>5. PICK x \in S : t = e - x
  OBVIOUS
<1>6. \A y \in S : e - x <= e - y
  BY <1>4, <1>5, Zenon
<1> QED
  BY <1>6

\* CHOOSE finds it.
LEMMA MaxOfBounded ==
    ASSUME NEW S \in SUBSET Nat, S # {}, NEW e \in Nat, \A x \in S : x <= e
    PROVE  Max(S) \in S /\ \A y \in S : Max(S) >= y
  BY GreatestExists, Zenon DEF Max

\* Of two numbers, either is the greatest or the least.
LEMMA MaxOfTwo ==
    ASSUME NEW a \in Int, NEW b \in Int
    PROVE  Max({a, b}) = IF a >= b THEN a ELSE b
  BY DEF Max

LEMMA MinOfTwo ==
    ASSUME NEW a \in Int, NEW b \in Int
    PROVE  Min({a, b}) = IF a <= b THEN a ELSE b
  BY DEF Min

LEMMA MinOfThree ==
    ASSUME NEW a \in Int, NEW b \in Int, NEW c \in Int, NEW m, m = Min({a, b, c})
    PROVE  m \in {a, b, c} /\ m <= a /\ m <= b /\ m <= c
<1>1. PICK x \in {a, b, c} : \A y \in {a, b, c} : x <= y
  OBVIOUS
<1> QED
  BY <1>1 DEF Min

-----------------------------------------------------------------------------
(* Segments *)

\* The segments of n bytes from seq on lie between seq and seq + n, and carry
\* the bytes from first on in their order.
LEMMA SegmentsInside ==
    ASSUME NEW seq \in Nat, NEW first \in Nat, NEW n \in Nat, mss \in Nat \ {0},
           NEW f
    PROVE  \A p \in Segments(seq, first, n, f) :
               /\ p.seq \in Nat /\ p.first \in Nat /\ p.len \in Nat \ {0} /\ p.fin = f
               /\ p.seq >= seq /\ p.seq + p.len <= seq + n
               /\ p.first - first = p.seq - seq
<1> TAKE p \in Segments(seq, first, n, f)
<1>1. PICK i \in 0 .. n :
        /\ i * mss < n
        /\ p = [seq |-> seq + i * mss, first |-> first + i * mss,
                len |-> Min({mss, n - i * mss}), fin |-> f]
  BY Zenon DEF Segments
<1> DEFINE k == i * mss
<1>2. k \in Nat
  OBVIOUS
<1>3. k < n /\ p = [seq |-> seq + k, first |-> first + k, len |-> Min({mss, n - k}), fin |-> f]
  BY <1>1
<1> HIDE DEF k
<1>4. Min({mss, n - k}) = IF mss <= n - k THEN mss ELSE n - k
  BY <1>2, MinOfTwo
<1> QED
  BY <1>2, <1>3, <1>4

\* One of them ends where the bytes end.
LEMMA LastSegment ==
    ASSUME NEW seq \in Nat, NEW first \in Nat, NEW n \in Nat \ {0}, mss \in Nat \ {0},
           NEW f
    PROVE  \E p \in Segments(seq, first, n, f) : p.seq + p.len = seq + n
<1> DEFINE i == (n - 1) \div mss
           k == i * mss
<1>1. i \in Nat /\ k <= n - 1 /\ n - 1 < k + mss
  BY Z3T(30)
<1>2. i <= k
  BY <1>1
<1>3. i \in 0 .. n /\ i * mss < n
  BY <1>1, <1>2
<1> DEFINE p == [seq |-> seq + i * mss, first |-> first + i * mss,
                 len |-> Min({mss, n - i * mss}), fin |-> f]
<1>4. p \in Segments(seq, first, n, f)
  BY <1>3, Zenon DEF Segments
<1>5. Min({mss, n - k}) = n - k
  BY <1>1, MinOfTwo
<1>6. p.seq + p.len = seq + n
  BY <1>1, <1>5
<1> QED
  BY <1>4, <1>6

-----------------------------------------------------------------------------
(* The types *)

CacheEnd == cache_seq + cache_len

\* TypeOK, and no more is cached and queued than was forwarded.
TxTypes == TypeOK /\ queue + cache_len <= forwarded

\* What every step does: it keeps the types, and moves the front of the cache
\* and the sequence on, if at all.
Moves == TxTypes' /\ cache_seq <= cache_seq' /\ sequence <= sequence'

\* The numbers, without the flags.
LEMMA Numbers ==
    ASSUME TxTypes
    PROVE  /\ sequence \in Nat /\ cache_seq \in Nat /\ cache_len \in Nat /\ CacheEnd \in Nat
           /\ queue \in Nat /\ forwarded \in Nat /\ queue + cache_len <= forwarded
           /\ send_window \in Nat /\ send_window <= Capacity /\ mss \in Nat \ {0}
           /\ errors \in Nat /\ src_next \in Nat /\ granted \in Nat
           /\ QueueFirst \in Nat /\ QueueFirst >= 1 /\ QueueFirst + queue = forwarded + 1
           /\ CacheFirst \in Nat /\ CacheFirst + cache_len = QueueFirst
<1>1. /\ sequence \in Nat /\ cache_seq \in Nat /\ cache_len \in Nat
      /\ queue \in Nat /\ forwarded \in Nat /\ queue + cache_len <= forwarded
      /\ src_next \in Nat /\ granted \in Nat
  BY TxAssumption DEF TxTypes, TypeOK
<1>2. send_window \in Nat /\ send_window <= Capacity /\ mss \in Nat \ {0} /\ errors \in Nat
  BY TxAssumption DEF TxTypes, TypeOK
<1> QED
  BY <1>1, <1>2 DEF CacheEnd, CacheFirst, QueueFirst

\* The flags, without the numbers.
LEMMA Flags ==
    ASSUME TxTypes
    PROVE  /\ cache_syn \in BOOLEAN /\ cache_fin \in BOOLEAN /\ queue_fin \in BOOLEAN
           /\ fin_early \in BOOLEAN /\ reader \in {"open", "closed", "done"}
  BY Zenon DEF TxTypes, TypeOK

\* The largest of the segment sizes is a number.
LEMMA MssTop == Max(MSSes) \in Nat /\ \A m \in MSSes : m <= Max(MSSes)
<1>1. PICK top \in MSSes : \A m \in MSSes : m <= top
  BY TxAssumption
<1>2. MSSes \in SUBSET Nat /\ MSSes # {} /\ top \in Nat
  BY TxAssumption
<1>3. Max(MSSes) \in MSSes /\ \A m \in MSSes : Max(MSSes) >= m
  BY <1>1, <1>2, MaxOfBounded, Zenon
<1> QED
  BY <1>2, <1>3, Zenon

\* Segments are packets.
LEMMA SegmentsArePackets ==
    ASSUME mss \in MSSes, NEW seq \in Nat, NEW first \in Nat, NEW n \in Nat, NEW f \in BOOLEAN
    PROVE  Segments(seq, first, n, f) \subseteq Packet
<1>1. mss \in Nat \ {0} /\ Max(MSSes) \in Nat /\ mss <= Max(MSSes)
  BY MssTop, TxAssumption
<1> SUFFICES ASSUME NEW i \in 0 .. n, i * mss < n
             PROVE  [seq |-> seq + i * mss, first |-> first + i * mss,
                     len |-> Min({mss, n - i * mss}), fin |-> f] \in Packet
  BY Zenon DEF Segments
<1> DEFINE k == i * mss
<1>2. k \in Nat /\ k < n
  BY <1>1
<1> HIDE DEF k
<1>3. Min({mss, n - k}) = IF mss <= n - k THEN mss ELSE n - k
  BY <1>1, <1>2, MinOfTwo
<1>4. seq + k \in Nat /\ first + k \in Nat /\ Min({mss, n - k}) \in 0 .. Max(MSSes)
  BY <1>1, <1>2, <1>3
<1>5. [seq |-> seq + k, first |-> first + k, len |-> Min({mss, n - k}), fin |-> f] \in Packet
  BY <1>4 DEF Packet
<1> QED
  BY <1>5 DEF k

\* Packets end at a number, behind their bytes and their FIN.
LEMMA PacketEnds ==
    ASSUME NEW p \in Packet
    PROVE  /\ p.seq \in Nat /\ p.first \in Nat /\ p.len \in Nat /\ p.fin \in BOOLEAN
           /\ PacketEnd(p) \in Nat
           /\ p.seq + p.len <= PacketEnd(p) /\ PacketEnd(p) <= p.seq + p.len + 1
           /\ p.fin # TRUE => PacketEnd(p) = p.seq + p.len
<1>1. p.seq \in Nat /\ p.first \in Nat /\ p.len \in 0 .. Max(MSSes) /\ p.fin \in BOOLEAN
  BY DEF Packet
<1>2. p.len \in Nat
  BY <1>1, MssTop
<1>3. PacketEnd(p) = p.seq + p.len + 1 \/ (p.fin = FALSE /\ PacketEnd(p) = p.seq + p.len + 0)
  BY <1>1, Zenon DEF PacketEnd
<1>4. p.fin # TRUE => PacketEnd(p) = p.seq + p.len + 0
  BY <1>1, Zenon DEF PacketEnd
<1> DEFINE e == PacketEnd(p)
<1>5. /\ e \in Nat /\ p.seq + p.len <= e /\ e <= p.seq + p.len + 1
  <2> HIDE DEF e
  <2>1. e = p.seq + p.len + 1 \/ e = p.seq + p.len + 0
    BY <1>3, Zenon DEF e
  <2> QED
    BY <1>1, <1>2, <2>1
<1>6. p.seq + p.len + 0 = p.seq + p.len
  BY <1>1, <1>2
<1> QED
  BY <1>1, <1>2, <1>4, <1>5, <1>6, Zenon

-----------------------------------------------------------------------------
(* Sending keeps the types *)

\* The sequence is moved on, as far as the packets reach.
LEMMA AdvanceBounds ==
    ASSUME sequence \in Nat, NEW e \in Nat, sequence <= e,
           NEW sent, \A p \in sent : PacketEnd(p) \in Nat /\ PacketEnd(p) <= e
    PROVE  /\ Advance(sent) \in Nat
           /\ sequence <= Advance(sent) /\ Advance(sent) <= e
           /\ \A p \in sent : PacketEnd(p) <= Advance(sent)
<1> DEFINE S == {PacketEnd(p) : p \in sent} \cup {sequence}
<1>1. S \in SUBSET Nat /\ S # {} /\ sequence \in S /\ \A x \in S : x <= e
  OBVIOUS
<1>2. \A p \in sent : PacketEnd(p) \in S
  OBVIOUS
<1>3. Advance(sent) = Max(S)
  BY DEF Advance
<1> HIDE DEF S
<1>4. Max(S) \in S /\ \A y \in S : Max(S) >= y
  BY <1>1, MaxOfBounded, Zenon
<1>5. Max(S) \in Nat /\ Max(S) <= e
  BY <1>1, <1>4, Zenon
<1>6. sequence <= Max(S) /\ \A p \in sent : PacketEnd(p) <= Max(S)
  BY <1>1, <1>2, <1>4, <1>5
<1> QED
  BY <1>3, <1>5, <1>6

\* What a call that may fail leaves behind.
LEMMA SendBounds ==
    ASSUME TxTypes, NEW e \in Nat, sequence <= e,
           NEW segments \in SUBSET Packet, \A p \in segments : PacketEnd(p) <= e,
           Send(segments)
    PROVE  /\ net' \subseteq net \cup segments
           /\ sequence' \in Nat /\ sequence <= sequence' /\ sequence' <= e
           /\ errors' \in 0 .. MaxErrors /\ errors <= errors'
           /\ errors' = 0 => errors = 0 /\ \A p \in segments : PacketEnd(p) <= sequence'
<1>1. PICK sent \in Sent(segments) :
        /\ net' = net \cup sent /\ sequence' = Advance(sent)
        /\ errors' = IF sent = segments THEN errors ELSE errors + 1
  BY DEF Send
<1>2. sent \subseteq segments /\ (sent = segments \/ errors < MaxErrors)
  BY <1>1 DEF Sent
<1>3. \A p \in segments : PacketEnd(p) \in Nat
  BY PacketEnds, Zenon
<1>4. sequence \in Nat
  BY Numbers
<1>5. /\ sequence' \in Nat /\ sequence <= sequence' /\ sequence' <= e
      /\ \A p \in sent : PacketEnd(p) <= sequence'
  BY <1>1, <1>2, <1>3, <1>4, AdvanceBounds
<1>6. errors \in 0 .. MaxErrors /\ MaxErrors \in Nat
  BY TxAssumption DEF TxTypes, TypeOK
<1>7. errors' \in 0 .. MaxErrors /\ errors <= errors'
      /\ (errors' = 0 => errors = 0 /\ sent = segments)
  BY <1>1, <1>2, <1>6
<1> QED
  BY <1>1, <1>2, <1>5, <1>7

\* The FIN alone, at the connection's sequence.
FinAlone == [seq |-> sequence, first |-> 0, len |-> 0, fin |-> TRUE]

LEMMA SendTcpFinBounds ==
    ASSUME TxTypes, SendTcpFin
    PROVE  /\ FinAlone \in Packet /\ net' \subseteq net \cup {FinAlone}
           /\ sequence' = sequence
           /\ errors' \in 0 .. MaxErrors /\ (errors' = 0 => errors = 0)
<1>1. PICK sent \in Sent({FinAlone}) :
        net' = net \cup sent /\ errors' = errors + (1 - Cardinality(sent))
  BY DEF SendTcpFin, FinAlone
<1>2. sent = {FinAlone} \/ (sent = {} /\ errors < MaxErrors)
  <2>1. sequence \in Nat /\ FinAlone.seq = sequence
    BY Numbers DEF FinAlone
  <2> QED
    BY <1>1, <2>1 DEF Sent
<1>3. Cardinality({FinAlone}) = 1 /\ Cardinality({}) = 0
  BY FS_Singleton, FS_EmptySet, Zenon
<1>4. errors \in 0 .. MaxErrors /\ MaxErrors \in Nat
  BY TxAssumption DEF TxTypes, TypeOK
<1>5. errors' \in 0 .. MaxErrors /\ (errors' = 0 => errors = 0)
  <2>1. errors' = errors \/ (errors < MaxErrors /\ errors' = errors + 1)
    <3>1. CASE sent = {FinAlone}
      BY <1>1, <1>3, <1>4, <3>1
    <3>2. CASE sent = {} /\ errors < MaxErrors
      <4>1. errors' = errors + (1 - 0)
        BY <1>1, <1>3, <3>2, Zenon
      <4> QED
        BY <1>4, <3>2, <4>1
    <3> QED
      BY <1>2, <3>1, <3>2
  <2> QED
    BY <1>4, <2>1
<1>6. FinAlone \in Packet
  BY MssTop, Numbers DEF Packet, FinAlone
<1>7. sequence' = sequence
  BY DEF SendTcpFin
<1> QED
  BY <1>1, <1>2, <1>5, <1>6, <1>7

\* Bytes from .. from + n - 1 of the cache, sent again.
LEMMA AgainPackets ==
    ASSUME TxTypes, NEW from \in Nat, NEW n \in Nat, cache_seq <= from, from + n <= CacheEnd
    PROVE  /\ Again(from, n) \in SUBSET Packet
           /\ \A p \in Again(from, n) :
                /\ p.seq + p.len <= CacheEnd /\ p.fin = WithFin(from, n)
                /\ p.first - CacheFirst = p.seq - cache_seq
                /\ PacketEnd(p) <= CacheEnd + 1
<1>1. /\ cache_seq \in Nat /\ CacheEnd \in Nat /\ CacheFirst \in Nat
      /\ mss \in Nat \ {0} /\ mss \in MSSes
  BY Numbers DEF TxTypes, TypeOK
<1> DEFINE f == WithFin(from, n)
           first == CacheFirst + (from - cache_seq)
<1>2. f \in BOOLEAN
  BY Flags, Zenon DEF WithFin
<1>3. first \in Nat
  BY <1>1
<1>4. Again(from, n) = Segments(from, first, n, f)
  BY DEF Again
<1>5. first - CacheFirst = from - cache_seq
  BY <1>1
<1> HIDE DEF f, first
<1>6. Segments(from, first, n, f) \subseteq Packet
  BY <1>1, <1>2, <1>3, SegmentsArePackets
<1>7. ASSUME NEW p \in Segments(from, first, n, f)
      PROVE  /\ p.seq + p.len <= CacheEnd /\ p.fin = f
             /\ p.first - CacheFirst = p.seq - cache_seq
             /\ PacketEnd(p) <= CacheEnd + 1
  <2>1. /\ p.seq \in Nat /\ p.first \in Nat /\ p.len \in Nat /\ p.fin = f
        /\ p.seq + p.len <= from + n
        /\ p.first - first = p.seq - from
    BY <1>1, <1>3, SegmentsInside
  <2>2. PacketEnd(p) \in Nat /\ PacketEnd(p) <= p.seq + p.len + 1
    BY <1>6, PacketEnds, Zenon
  <2>3. p.seq + p.len <= CacheEnd /\ p.first - CacheFirst = p.seq - cache_seq
    BY <1>1, <1>3, <1>5, <2>1
  <2>4. PacketEnd(p) <= CacheEnd + 1
    BY <1>1, <2>1, <2>2, <2>3
  <2> QED
    BY <2>1, <2>3, <2>4
<1> QED
  BY <1>4, <1>6, <1>7, Zenon DEF f

\* Sending cached bytes again keeps the types.
LEMMA ResendMoves ==
    ASSUME TxTypes, NEW segments \in SUBSET Packet,
           \A p \in segments : PacketEnd(p) <= CacheEnd + 1,
           Send(segments), UNCHANGED <<cache_seq, cache_len, cache_fin, queue, queue_fin, syns>>,
           UNCHANGED <<cache_syn, send_window, mss, is_read_closed, reader, forwarded>>,
           UNCHANGED <<sourceVars, acked>>, ticking' \in BOOLEAN,
           acking' \in {"idle", "retransmit", "send"}
    PROVE  Moves
<1> DEFINE e == sequence + CacheEnd + 1
<1>1. sequence \in Nat /\ CacheEnd \in Nat /\ cache_seq \in Nat
  BY Numbers
<1>2. e \in Nat /\ sequence <= e /\ CacheEnd + 1 <= e
  BY <1>1
<1> HIDE DEF e
<1>3. \A p \in segments : PacketEnd(p) <= e
  <2> TAKE p \in segments
  <2>1. PacketEnd(p) \in Nat /\ PacketEnd(p) <= CacheEnd + 1
    BY PacketEnds, Zenon
  <2> QED
    BY <1>1, <1>2, <2>1
<1>4. /\ net' \subseteq net \cup segments
      /\ sequence' \in Nat /\ sequence <= sequence' /\ errors' \in 0 .. MaxErrors
  BY <1>2, <1>3, SendBounds
<1>5. fin_early' \in BOOLEAN
  BY Zenon DEF Send
<1>6. TypeOK'
  BY <1>4, <1>5 DEF TxTypes, TypeOK, sourceVars
<1> QED
  BY <1>1, <1>4, <1>6 DEF Moves, TxTypes

\* So does sending the FIN alone, whoever does it.
LEMMA FinMoves ==
    ASSUME TxTypes, SendTcpFin, NEW q \in Nat, queue' = q,
           forwarded' \in 0 .. StreamLen, q + cache_len <= forwarded',
           cache_fin' \in BOOLEAN, queue_fin' \in BOOLEAN, fin_early' \in BOOLEAN,
           UNCHANGED <<cache_seq, cache_len, syns>>,
           UNCHANGED <<cache_syn, send_window, mss, is_read_closed>>,
           UNCHANGED <<sourceVars, acked>>, ticking' \in BOOLEAN,
           reader' \in {"open", "closed", "done"}, acking' \in {"idle", "retransmit", "send"}
    PROVE  Moves
<1>1. /\ FinAlone \in Packet /\ net' \subseteq net \cup {FinAlone}
      /\ sequence' = sequence /\ errors' \in 0 .. MaxErrors
  BY SendTcpFinBounds
<1>2. TypeOK'
  BY <1>1 DEF TxTypes, TypeOK, sourceVars
<1>3. sequence \in Nat /\ cache_seq \in Nat
  BY Numbers
<1> QED
  BY <1>1, <1>2, <1>3 DEF Moves, TxTypes

\* What is sendable fits the queue and the window, so the cache takes it.
LEMMA SendableFits ==
    ASSUME TxTypes, NEW q \in Nat
    PROVE  /\ Sendable(q) \in Nat /\ Sendable(q) <= q
           /\ Sendable(q) > 0 => /\ cache_len + Sendable(q) <= send_window
                                 /\ Sendable(q) <= Capacity - cache_len
<1> DEFINE room == Max({send_window - cache_len, 0})
           size == Min({room, U16_MAX, q})
<1>1. /\ send_window \in Nat /\ cache_len \in Nat /\ send_window <= Capacity
      /\ Capacity \in Nat
  BY Numbers, TxAssumption
<1>2. room = IF send_window - cache_len >= 0 THEN send_window - cache_len ELSE 0
  BY <1>1, MaxOfTwo
<1>3. room \in Nat /\ (room > 0 => cache_len + room = send_window)
  BY <1>1, <1>2
<1>4. Sendable(q) = 0 \/ Sendable(q) = size
  BY DEF Sendable
<1> HIDE DEF room
<1>5. size \in Nat /\ size <= room /\ size <= q
  <2>1. U16_MAX \in Nat
    BY TxAssumption
  <2>2. room \in Int /\ U16_MAX \in Int /\ q \in Int
    BY <1>3, <2>1
  <2> HIDE DEF size
  <2>3. PICK m : m = Min({room, U16_MAX, q})
    OBVIOUS
  <2>4. m \in {room, U16_MAX, q} /\ m <= room /\ m <= q
    BY <2>2, <2>3, MinOfThree, Zenon
  <2>5. size = m
    BY <2>3 DEF size
  <2> QED
    BY <1>3, <2>1, <2>4, <2>5
<1> HIDE DEF size
<1> QED
  BY <1>1, <1>3, <1>4, <1>5

\* What send_tcp_ack finds when it sends from the queue: the cache takes it all.
LEMMA SendFromQueueIs ==
    ASSUME TxTypes, NEW q \in Nat, NEW q_fin \in BOOLEAN, SendFromQueue(q, q_fin)
    PROVE  \E n \in Nat \ {0}, f \in BOOLEAN :
              /\ n <= q /\ cache_len + n <= send_window
              /\ f = (n = q /\ q_fin)
              /\ queue' = q - n /\ cache_len' = cache_len + n /\ cache_seq' = cache_seq
              /\ queue_fin' = (q_fin /\ ~f) /\ cache_fin' = (cache_fin \/ f)
              /\ syns' = syns
              /\ Send(Segments(sequence, QueueFirst, n, f))
<1> DEFINE n == Sendable(q)
           f == n <= Capacity - cache_len /\ n = q /\ q_fin
<1>1. n \in Nat \ {0} /\ n <= q /\ cache_len + n <= send_window /\ n <= Capacity - cache_len
  BY SendableFits DEF SendFromQueue
<1>2. f \in BOOLEAN /\ f = (n = q /\ q_fin)
  BY <1>1, Zenon
<1>3. /\ queue' = q - n /\ cache_len' = cache_len + n /\ cache_seq' = cache_seq
      /\ queue_fin' = (q_fin /\ ~f) /\ cache_fin' = (cache_fin \/ f)
      /\ syns' = syns
      /\ Send(Segments(sequence, QueueFirst, n, f))
  BY <1>1, Zenon DEF SendFromQueue
<1> HIDE DEF n, f
<1> QED
  BY <1>1, <1>2, <1>3, Zenon

\* What the callers of send_tcp_ack leave alone, and what they give it.
Called(q, q_fin) ==
    /\ q \in Nat /\ q_fin \in BOOLEAN
    /\ forwarded' \in 0 .. StreamLen /\ forwarded' = q + (forwarded - queue)
    /\ UNCHANGED <<cache_syn, send_window, mss, is_read_closed, ticking, sourceVars, acked>>
    /\ reader' \in {"open", "closed", "done"} /\ acking' \in {"idle", "retransmit", "send"}

\* send_tcp_ack, whichever task calls it, keeps the types.
LEMMA SendTcpAckMoves ==
    ASSUME TxTypes, NEW q, NEW q_fin, Called(q, q_fin), SendTcpAck(q, q_fin)
    PROVE  Moves
<1>1. /\ sequence \in Nat /\ cache_seq \in Nat /\ cache_len \in Nat /\ queue \in Nat
      /\ forwarded \in Nat /\ queue + cache_len <= forwarded /\ QueueFirst \in Nat
      /\ mss \in MSSes
  BY Numbers DEF TxTypes, TypeOK
<1>2. q \in Nat /\ q_fin \in BOOLEAN /\ forwarded' \in Nat /\ q + cache_len <= forwarded'
  <2>1. q \in Nat /\ forwarded' = q + (forwarded - queue)
    BY DEF Called
  <2> QED
    BY <1>1, <2>1 DEF Called
<1>3. CASE SendFromQueue(q, q_fin)
  <2>1. PICK n \in Nat \ {0}, f \in BOOLEAN :
              /\ n <= q
              /\ queue' = q - n /\ cache_len' = cache_len + n /\ cache_seq' = cache_seq
              /\ queue_fin' = (q_fin /\ ~f) /\ cache_fin' = (cache_fin \/ f)
              /\ syns' = syns
              /\ Send(Segments(sequence, QueueFirst, n, f))
    BY <1>2, <1>3, SendFromQueueIs
  <2>2. Segments(sequence, QueueFirst, n, f) \in SUBSET Packet
    BY <1>1, SegmentsArePackets
  <2>3. PICK e \in Nat : e = sequence + n + 1
    BY <1>1
  <2>4. \A p \in Segments(sequence, QueueFirst, n, f) : PacketEnd(p) <= e
    <3> TAKE p \in Segments(sequence, QueueFirst, n, f)
    <3>1. p.seq \in Nat /\ p.len \in Nat /\ p.seq + p.len <= sequence + n
      BY <1>1, TxAssumption, SegmentsInside
    <3>2. PacketEnd(p) \in Nat /\ PacketEnd(p) <= p.seq + p.len + 1
      BY <2>2, PacketEnds, Zenon
    <3> QED
      BY <1>1, <2>3, <3>1, <3>2
  <2>5. /\ net' \subseteq net \cup Segments(sequence, QueueFirst, n, f)
        /\ sequence' \in Nat /\ sequence <= sequence' /\ errors' \in 0 .. MaxErrors
    BY <1>1, <2>1, <2>2, <2>3, <2>4, SendBounds
  <2>6. queue_fin' \in BOOLEAN /\ cache_fin' \in BOOLEAN /\ fin_early' \in BOOLEAN
    BY <2>1, Zenon DEF Send
  <2>7. queue' \in Nat /\ cache_len' \in Nat /\ queue' + cache_len' <= forwarded'
    BY <1>1, <1>2, <2>1
  <2>8. TypeOK'
    BY <2>1, <2>2, <2>5, <2>6, <2>7 DEF TxTypes, TypeOK, Called, sourceVars
  <2> QED
    BY <1>1, <2>1, <2>5, <2>7, <2>8 DEF Moves, TxTypes
<1>4. CASE SendFinAlone(q, q_fin)
  <2>1. /\ SendTcpFin /\ queue' = q /\ UNCHANGED <<cache_seq, cache_len, syns>>
        /\ queue_fin' = FALSE /\ cache_fin' = TRUE
    BY <1>4 DEF SendFinAlone
  <2>2. fin_early' \in BOOLEAN
    BY <1>4, Zenon DEF SendFinAlone
  <2>3. ticking' \in BOOLEAN
    BY Zenon DEF Called, TxTypes, TypeOK
  <2> QED
    BY <1>2, <2>1, <2>2, <2>3, FinMoves, Zenon DEF Called
<1>5. CASE SendNothing(q, q_fin)
  BY <1>1, <1>2, <1>5 DEF SendNothing, Called, Moves, TxTypes, TypeOK, sourceVars
<1>6. CASE SendSynAgain(q, q_fin)
  <2>1. errors' \in 0 .. MaxErrors /\ syns' \in 1 .. 2
    BY <1>6, TxAssumption DEF SendSynAgain, TxTypes, TypeOK
  <2>2. TypeOK'
    BY <1>2, <1>6, <2>1 DEF SendSynAgain, Called, TxTypes, TypeOK, sourceVars
  <2> QED
    BY <1>1, <1>2, <1>6, <2>2 DEF SendSynAgain, Moves, TxTypes
<1> QED
  BY <1>3, <1>4, <1>5, <1>6 DEF SendTcpAck

\* What an acknowledgement makes of the cache, in all cases.
LEMMA AcknowledgeMoves ==
    ASSUME TxTypes, NEW a \in Nat, Acknowledge(a)
    PROVE  /\ cache_syn' \in BOOLEAN /\ cache_fin' \in BOOLEAN /\ acked' \in Nat
           /\ cache_seq' \in Nat /\ cache_len' \in Nat /\ sequence' \in Nat
           /\ cache_seq <= cache_seq' /\ cache_len' <= cache_len /\ sequence <= sequence'
<1>1. sequence \in Nat /\ cache_seq \in Nat /\ cache_len \in Nat /\ acked \in Nat
  BY Numbers DEF TxTypes, TypeOK
<1>2. cache_syn' \in BOOLEAN /\ cache_fin' \in BOOLEAN
  BY Zenon DEF Acknowledge
<1>3. Max({acked, a}) = IF acked >= a THEN acked ELSE a
  BY <1>1, MaxOfTwo
<1>4. acked' \in Nat
  <2>1. acked' = Max({acked, a})
    BY DEF Acknowledge
  <2> QED
    BY <1>1, <1>3, <2>1
<1>5. \E s, f \in {0, 1} : sequence' = sequence + s + f
  BY Zenon DEF Acknowledge
<1>6. /\ cache_seq' \in Nat /\ cache_len' \in Nat
      /\ cache_seq <= cache_seq' /\ cache_len' <= cache_len
  <2>1. CASE a >= cache_seq
    <3> DEFINE l == cache_len - (a - cache_seq)
    <3>1. l \in Int /\ l <= cache_len
      BY <1>1, <2>1
    <3>2. cache_seq' = a /\ cache_len' = Max({l, 0})
      BY <2>1 DEF Acknowledge
    <3> HIDE DEF l
    <3>3. Max({l, 0}) = IF l >= 0 THEN l ELSE 0
      BY <3>1, MaxOfTwo
    <3> QED
      BY <1>1, <2>1, <3>1, <3>2, <3>3
  <2>2. CASE ~(a >= cache_seq)
    BY <1>1, <2>2 DEF Acknowledge
  <2> QED
    BY <2>1, <2>2
<1> QED
  BY <1>1, <1>2, <1>4, <1>5, <1>6

LEMMA HandleAckMoves ==
    ASSUME TxTypes, NEW a \in Nat, NEW w \in Windows, HandleAck(a, w), granted' \in Nat
    PROVE  Moves
<1>1. /\ Acknowledge(a) /\ send_window' = w /\ acking' \in {"retransmit", "send", "idle"}
      /\ UNCHANGED <<queue, queue_fin, net, syns, errors, fin_early, mss, losses, src_next>>
      /\ UNCHANGED <<is_read_closed, reader, ticking, forwarded>>
  BY DEF HandleAck, workerVars
<1>2. /\ cache_syn' \in BOOLEAN /\ cache_fin' \in BOOLEAN /\ acked' \in Nat
      /\ cache_seq' \in Nat /\ cache_len' \in Nat /\ sequence' \in Nat
      /\ cache_seq <= cache_seq' /\ cache_len' <= cache_len /\ sequence <= sequence'
  BY <1>1, AcknowledgeMoves
<1>3. TypeOK'
  BY <1>1, <1>2, TxAssumption DEF TxTypes, TypeOK
<1>4. queue' + cache_len' <= forwarded'
  BY <1>1, <1>2, Numbers
<1> QED
  BY <1>2, <1>3, <1>4 DEF Moves, TxTypes

\* The ranges that SACK blocks leave lie in the cache.
LEMMA RangesInside ==
    ASSUME TxTypes, NEW S \in SUBSET (cache_seq .. cache_seq + cache_len - 1),
           NEW r \in RangesOf(S)
    PROVE  /\ r[1] \in Nat /\ r[2] \in Nat \ {0} /\ cache_seq <= r[1]
           /\ r[1] + r[2] <= CacheEnd
<1>1. cache_seq \in Nat /\ cache_len \in Nat
  BY Numbers
<1>2. r[1] \in S /\ r[2] \in 1 .. cache_len /\ r[1] .. r[1] + r[2] - 1 \subseteq S
  BY DEF RangesOf
<1>3. r[1] \in Nat /\ cache_seq <= r[1]
  <2>1. r[1] \in cache_seq .. cache_seq + cache_len - 1
    BY <1>2, Zenon
  <2> QED
    BY <1>1, <2>1
<1>4. r[1] + r[2] - 1 \in r[1] .. r[1] + r[2] - 1
  BY <1>1, <1>2, <1>3
<1>5. r[1] + r[2] - 1 <= cache_seq + cache_len - 1
  BY <1>2, <1>4
<1> QED
  BY <1>1, <1>2, <1>3, <1>5 DEF CacheEnd

\* How the callers call send_tcp_ack.
LEMMA ForwardCalls ==
    ASSUME TxTypes, Forward
    PROVE  \E n \in Nat \ {0} :
              /\ Called(queue + n, queue_fin) /\ SendTcpAck(queue + n, queue_fin)
              /\ reader = "open" /\ reader' = reader
<1>1. PICK n \in 1 .. MaxRead :
        /\ forwarded + n <= StreamLen /\ forwarded' = forwarded + n
        /\ SendTcpAck(queue + n, queue_fin)
  BY DEF Forward
<1>2. /\ UNCHANGED <<cache_syn, send_window, mss, is_read_closed, reader, ticking,
                     acking, sourceVars, acked>>
      /\ reader = "open"
  BY DEF Forward
<1>3. forwarded \in Nat /\ queue \in Nat /\ n \in Nat \ {0} /\ StreamLen \in Nat
  BY Numbers, TxAssumption
<1>4. /\ queue + n \in Nat /\ forwarded + n \in 0 .. StreamLen
      /\ forwarded + n = (queue + n) + (forwarded - queue)
  BY <1>1, <1>3
<1>5. queue_fin \in BOOLEAN /\ acking \in {"idle", "retransmit", "send"}
  BY Zenon DEF TxTypes, TypeOK
<1>6. Called(queue + n, queue_fin)
  BY <1>1, <1>2, <1>4, <1>5 DEF Called
<1> QED
  BY <1>1, <1>2, <1>3, <1>6

LEMMA CloseCalls ==
    ASSUME TxTypes, Close, NEW q_fin, q_fin = TRUE
    PROVE  /\ Called(queue, q_fin) /\ SendTcpAck(queue, q_fin)
           /\ RemoteCloses /\ reader = "open" /\ reader' = "closed"
<1>1. /\ UNCHANGED <<is_read_closed, ticking, forwarded>>
      /\ UNCHANGED <<cache_syn, send_window, mss, acking, sourceVars, acked>>
      /\ RemoteCloses /\ reader = "open" /\ reader' = "closed" /\ SendTcpAck(queue, q_fin)
  BY Zenon DEF Close
<1>2. forwarded \in Nat /\ queue \in Nat
  BY Numbers
<1>3. forwarded = queue + (forwarded - queue)
  BY <1>2
<1>4. forwarded \in 0 .. StreamLen /\ acking \in {"idle", "retransmit", "send"}
  BY Zenon DEF TxTypes, TypeOK
<1>5. Called(queue, q_fin)
  BY <1>1, <1>2, <1>3, <1>4 DEF Called
<1> QED
  BY <1>1, <1>5

LEMMA SendRemainingCalls ==
    ASSUME TxTypes, SendRemaining
    PROVE  /\ Called(queue, queue_fin) /\ SendTcpAck(queue, queue_fin)
           /\ reader' = reader
<1>1. /\ UNCHANGED <<cache_syn, send_window, mss, is_read_closed, reader, ticking,
                     sourceVars, acked>>
      /\ acking' = "idle" /\ UNCHANGED forwarded /\ SendTcpAck(queue, queue_fin)
  BY DEF SendRemaining
<1>2. forwarded \in Nat /\ queue \in Nat
  BY Numbers
<1>3. forwarded = queue + (forwarded - queue)
  BY <1>2
<1>4. forwarded \in 0 .. StreamLen /\ queue_fin \in BOOLEAN /\ reader \in {"open", "closed", "done"}
  BY Zenon DEF TxTypes, TypeOK
<1>5. Called(queue, queue_fin)
  BY <1>1, <1>2, <1>3, <1>4 DEF Called
<1> QED
  BY <1>1, <1>5

\* The retransmissions: of the front of the cache, of ranges of it, of the FIN.
LEMMA TickMoves == ASSUME TxTypes, Tick PROVE Moves
<1>1. /\ UNCHANGED <<cache_syn, send_window, mss, is_read_closed, reader, forwarded>>
      /\ UNCHANGED <<acking, sourceVars, acked>> /\ ticking' = FALSE
  BY DEF Tick, RetransmitTimedOut
<1>2. acking \in {"idle", "retransmit", "send"} /\ reader \in {"open", "closed", "done"}
  BY Zenon DEF TxTypes, TypeOK
<1>3. ASSUME NEW n \in 0 .. cache_len, Resend(cache_seq, n) PROVE Moves
  <2>1. cache_seq \in Nat /\ n \in Nat /\ cache_seq <= cache_seq /\ cache_seq + n <= CacheEnd
    BY Numbers DEF CacheEnd
  <2>2. /\ Again(cache_seq, n) \in SUBSET Packet
        /\ \A p \in Again(cache_seq, n) : PacketEnd(p) <= CacheEnd + 1
    BY <2>1, AgainPackets
  <2>3. /\ Send(Again(cache_seq, n))
        /\ UNCHANGED <<cache_seq, cache_len, cache_fin, queue, queue_fin, syns>>
    BY <1>3 DEF Resend
  <2> QED
    BY <1>1, <1>2, <2>2, <2>3, ResendMoves, Zenon
<1>4. ASSUME ResendFin PROVE Moves
  <2>1. /\ SendTcpFin /\ UNCHANGED <<cache_seq, cache_len, syns>>
        /\ queue' = queue /\ UNCHANGED <<cache_fin, queue_fin, fin_early>>
    BY <1>4 DEF ResendFin
  <2>2. /\ queue \in Nat /\ queue + cache_len <= forwarded'
        /\ forwarded' \in 0 .. StreamLen
    BY <1>1, Numbers DEF TxTypes, TypeOK
  <2>3. cache_fin' \in BOOLEAN /\ queue_fin' \in BOOLEAN /\ fin_early' \in BOOLEAN
    BY <2>1, Flags
  <2> QED
    BY <1>1, <1>2, <2>1, <2>2, <2>3, FinMoves, Zenon
<1>5. ASSUME UNCHANGED txVars PROVE Moves
  <2>1. sequence \in Nat /\ cache_seq \in Nat
    BY Numbers
  <2>2. /\ UNCHANGED <<sequence, cache_seq, cache_len, cache_fin, queue, queue_fin>>
        /\ UNCHANGED <<net, syns, errors, fin_early, losses, src_next, granted>>
    BY <1>1, <1>5 DEF txVars, sourceVars
  <2>3. TypeOK'
    BY <1>1, <2>2, Zenon DEF TxTypes, TypeOK
  <2> QED
    BY <1>1, <2>1, <2>2, <2>3 DEF Moves, TxTypes
<1> QED
  BY <1>3, <1>4, <1>5 DEF Tick, RetransmitTimedOut

LEMMA FastRetransmitMoves == ASSUME TxTypes, FastRetransmit PROVE Moves
<1>1. /\ UNCHANGED <<cache_syn, send_window, mss, is_read_closed, reader, forwarded>>
      /\ UNCHANGED <<ticking, sourceVars, acked>> /\ acking' \in {"idle", "retransmit", "send"}
  BY DEF FastRetransmit, workerVars
<1>2. ticking' \in BOOLEAN /\ reader \in {"open", "closed", "done"}
  BY <1>1, Zenon DEF TxTypes, TypeOK
<1>3. ASSUME NEW S \in SUBSET (cache_seq .. cache_seq + cache_len - 1),
             Send(UNION {Again(r[1], r[2]) : r \in RangesOf(S)}),
             UNCHANGED <<cache_seq, cache_len, cache_fin, queue, queue_fin, syns>>
      PROVE  Moves
  <2>1. PICK segments : segments = UNION {Again(r[1], r[2]) : r \in RangesOf(S)}
    BY Zenon
  <2>2. ASSUME NEW r \in RangesOf(S)
        PROVE  /\ Again(r[1], r[2]) \in SUBSET Packet
               /\ \A p \in Again(r[1], r[2]) : PacketEnd(p) <= CacheEnd + 1
    <3>1. /\ r[1] \in Nat /\ r[2] \in Nat /\ cache_seq <= r[1] /\ r[1] + r[2] <= CacheEnd
      BY RangesInside
    <3> QED
      BY <3>1, AgainPackets
  <2>3. segments \in SUBSET Packet /\ \A p \in segments : PacketEnd(p) <= CacheEnd + 1
    BY <2>1, <2>2, Zenon
  <2> QED
    BY <1>1, <1>2, <1>3, <2>1, <2>3, ResendMoves
<1>4. ASSUME ResendFin PROVE Moves
  <2>1. /\ SendTcpFin /\ UNCHANGED <<cache_seq, cache_len, syns>>
        /\ queue' = queue /\ UNCHANGED <<cache_fin, queue_fin, fin_early>>
    BY <1>4 DEF ResendFin
  <2>2. /\ queue \in Nat /\ queue + cache_len <= forwarded'
        /\ forwarded' \in 0 .. StreamLen
    BY <1>1, Numbers DEF TxTypes, TypeOK
  <2>3. cache_fin' \in BOOLEAN /\ queue_fin' \in BOOLEAN /\ fin_early' \in BOOLEAN
    BY <2>1, Flags
  <2> QED
    BY <1>1, <1>2, <2>1, <2>2, <2>3, FinMoves
<1> QED
  BY <1>3, <1>4, Zenon DEF FastRetransmit

\* Every step keeps the types, and moves cache and sequence on, if at all.
LEMMA NextMoves == TxTypes /\ [Next]_vars => Moves
<1> SUFFICES ASSUME TxTypes, [Next]_vars PROVE Moves
  OBVIOUS
<1>1. /\ cache_seq \in Nat /\ sequence \in Nat /\ src_next \in Nat /\ granted \in Nat
  BY Numbers
<1>2. CASE Forward
  BY <1>2, ForwardCalls, SendTcpAckMoves
<1>3. CASE Close
  <2>1. PICK q_fin : q_fin = TRUE
    OBVIOUS
  <2> QED
    BY <1>3, <2>1, CloseCalls, SendTcpAckMoves, Zenon
<1>4. CASE SendRemaining
  BY <1>4, SendRemainingCalls, SendTcpAckMoves
<1>5. CASE SourceAck
  <2>1. PICK w \in Windows : granted' = src_next + w /\ HandleAck(src_next, w)
    BY <1>5 DEF SourceAck
  <2>2. granted' \in Nat
    BY <1>1, <2>1, TxAssumption
  <2> QED
    BY <1>1, <2>1, <2>2, HandleAckMoves
<1>6. CASE LateAck
  <2>1. PICK a \in 1 .. src_next, w \in Windows : HandleAck(a, w)
    BY <1>6 DEF LateAck
  <2>2. granted' \in Nat
    BY <1>1, <1>6 DEF LateAck
  <2>3. a \in Nat
    BY <1>1
  <2> QED
    BY <2>1, <2>2, <2>3, HandleAckMoves
<1>7. CASE \E p \in net : Deliver(p) \/ Lose(p)
  <2>1. PICK p \in net : Deliver(p) \/ Lose(p)
    BY <1>7
  <2>2. p \in Packet
    BY DEF TxTypes, TypeOK
  <2>3. src_next' \in Nat
    <3>1. PacketEnd(p) \in Nat
      BY <2>2, PacketEnds, Zenon
    <3>2. src_next' = PacketEnd(p) \/ src_next' = src_next
      BY <2>1 DEF Deliver, Lose
    <3> QED
      BY <1>1, <3>1, <3>2
  <2>4. losses' \in 0 .. MaxLoss
    <3>1. losses' = losses \/ (losses < MaxLoss /\ losses' = losses + 1)
      BY <2>1 DEF Deliver, Lose
    <3>2. losses \in 0 .. MaxLoss /\ MaxLoss \in Nat
      BY TxAssumption DEF TxTypes, TypeOK
    <3> QED
      BY <3>1, <3>2
  <2>5. /\ UNCHANGED <<sequence, cache_seq, cache_len, cache_fin, queue, queue_fin,
                       syns, errors, fin_early, cache_syn, send_window, mss,
                       acking, granted, acked>>
        /\ UNCHANGED <<is_read_closed, reader, ticking, forwarded>>
        /\ net' \subseteq net
    BY <2>1 DEF Deliver, Lose, workerVars
  <2>6. TypeOK'
    BY <2>3, <2>4, <2>5 DEF TxTypes, TypeOK
  <2> QED
    BY <1>1, <2>5, <2>6 DEF Moves, TxTypes
<1>8. CASE DeliverSyn
  BY <1>1, <1>8 DEF DeliverSyn, Moves, TxTypes, TypeOK, txVars, workerVars
<1>9. CASE StoreClosed
  BY <1>1, <1>9 DEF StoreClosed, Moves, TxTypes, TypeOK, txVars, sourceVars
<1>10. CASE LoadFlag
  BY <1>1, <1>10 DEF LoadFlag, Moves, TxTypes, TypeOK, txVars, sourceVars
<1>11. CASE SetSrcMtu
  BY <1>1, <1>11 DEF SetSrcMtu, Moves, TxTypes, TypeOK, txVars, workerVars, sourceVars
<1>12. CASE UNCHANGED vars
  BY <1>1, <1>12 DEF Moves, TxTypes, TypeOK, vars, txVars, workerVars, sourceVars
<1> QED
  BY <1>2, <1>3, <1>4, <1>5, <1>6, <1>7, <1>8, <1>9, <1>10, <1>11, <1>12, TickMoves,
     FastRetransmitMoves, Zenon DEF Next

-----------------------------------------------------------------------------
(* The invariant *)

\* The remote has closed its stream, and its FIN has left the queue.
FinSent == reader # "open" /\ queue_fin = FALSE

\* There is no FIN while the remote keeps its stream open.
Opened ==
    /\ reader = "open" => queue_fin = FALSE /\ cache_fin = FALSE /\ fin_early = FALSE
    /\ RemoteCloses = FALSE => reader = "open"

\* Until the SYN is acknowledged, bytes are queued only.
Handshake ==
    cache_syn = TRUE =>
        /\ sequence = 0 /\ cache_seq = 0 /\ cache_len = 0 /\ net = {}
        /\ queue = forwarded /\ src_next <= 1 /\ cache_fin = FALSE /\ ~FinSent

\* Then the cache ends where the queue begins, until the FIN is acknowledged,
\* which takes the number behind it; and the source is somewhere in the cache.
\* The sequence is at the end of the cache or, when a send has failed, behind
\* it. Once the FIN has left the queue that is so only while the FIN waits in an
\* empty cache: acknowledge moves the sequence on for a FIN that was counted
\* when it was sent with data.
Sending ==
    cache_syn = FALSE =>
        /\ 1 <= cache_seq /\ cache_seq <= src_next
        /\ src_next <= QueueFirst \/ (FinSent /\ src_next = QueueFirst + 1)
        /\ \/ CacheEnd = QueueFirst
           \/ cache_seq = QueueFirst + 1 /\ cache_len = 0 /\ cache_fin = FALSE
        /\ FinSent => queue = 0
        /\ cache_fin = TRUE => FinSent
        /\ ~FinSent \/ (cache_fin = TRUE /\ cache_len = 0) =>
              sequence <= QueueFirst /\ (errors = 0 => sequence = QueueFirst)

\* A packet with bytes that have left the queue, or the FIN behind all of them.
Carries(p) ==
    /\ p.seq + p.len <= QueueFirst
    /\ p.fin = TRUE => FinSent
    /\ errors = 0 => /\ p.len > 0 => p.first = p.seq
                     /\ p.fin = TRUE => p.seq + p.len = QueueFirst

OnTheWay == \A p \in net : Carries(p)

\* Acknowledgements that keep their order never widen the window the source
\* has granted, and the cache is inside it.
InsideGrant ==
    ReorderAcks = FALSE /\ cache_syn = FALSE =>
        QueueFirst <= granted /\ cache_seq + send_window <= granted

Ordered == Handshake /\ Sending /\ OnTheWay /\ InsideGrant

\* All of it is claimed until a FIN is sent ahead of bytes of the stream.
TxInv == TxTypes /\ Opened /\ (fin_early = FALSE => Ordered)

\* What a step does that keeps it.
Kept == Opened' /\ (fin_early' = FALSE => fin_early = FALSE /\ Ordered')

\* The invariant holds when the ACK/SYN has been sent.
LEMMA InitInv == Init => TxInv
<1> SUFFICES ASSUME Init PROVE TxInv
  OBVIOUS
<1>1. TypeOK
  <2>1. /\ sequence = 0 /\ cache_seq = 0 /\ cache_len = 0 /\ queue = 0 /\ forwarded = 0
        /\ syns = 1 /\ errors = 0 /\ net = {} /\ losses = 0 /\ src_next = 0
        /\ granted = 0 /\ acked = 0 /\ mss \in MSSes /\ send_window \in 0 .. Capacity
        /\ reader = "open" /\ acking = "idle"
    BY TxAssumption DEF Init
  <2>2. /\ cache_syn \in BOOLEAN /\ cache_fin \in BOOLEAN /\ queue_fin \in BOOLEAN
        /\ is_read_closed \in BOOLEAN /\ ticking \in BOOLEAN /\ fin_early \in BOOLEAN
    BY Zenon DEF Init
  <2> QED
    BY <2>1, <2>2, TxAssumption DEF TypeOK
<1>2. TxTypes
  BY <1>1 DEF TxTypes, Init
<1>3. Opened
  BY DEF Init, Opened
<1>4. Handshake
  BY DEF Init, Handshake, FinSent
<1>5. cache_syn # FALSE /\ net = {}
  BY DEF Init
<1> QED
  BY <1>2, <1>3, <1>4, <1>5, Zenon DEF TxInv, Ordered, Sending, OnTheWay, InsideGrant

\* A step that moves nothing of this but, at most, bytes into the queue.
LEMMA FrameKeeps ==
    ASSUME TxInv, TxTypes', Opened', fin_early' = fin_early,
           UNCHANGED <<sequence, cache_seq, cache_len, cache_syn, cache_fin, net>>,
           UNCHANGED <<send_window, src_next, granted, QueueFirst>>,
           errors' = 0 => errors = 0, FinSent' <=> FinSent,
           cache_syn = TRUE /\ queue = forwarded => queue' = forwarded',
           FinSent => queue' = queue
    PROVE  Kept
<1> SUFFICES ASSUME fin_early' = FALSE PROVE Ordered'
  BY Zenon DEF Kept
<1>1. Handshake /\ Sending /\ OnTheWay /\ InsideGrant
  BY DEF TxInv, Ordered
<1>2. CacheEnd' = CacheEnd
  BY DEF CacheEnd
<1>3. Handshake'
  BY <1>1 DEF Handshake
<1>4. Sending'
  BY <1>1, <1>2 DEF Sending
<1>5. OnTheWay'
  BY <1>1 DEF OnTheWay, Carries
<1>6. InsideGrant'
  BY <1>1 DEF InsideGrant
<1> QED
  BY <1>3, <1>4, <1>5, <1>6 DEF Ordered

\* Until the FIN is acknowledged, the first byte of the cache is the one that
\* the source expects at the first sequence number.
LEMMA CacheInPlace ==
    ASSUME TxTypes, Ordered, cache_len > 0
    PROVE  cache_syn = FALSE /\ CacheEnd = QueueFirst /\ CacheFirst = cache_seq
<1>1. cache_syn = FALSE
  BY Flags DEF Ordered, Handshake
<1>2. CacheEnd = QueueFirst
  BY <1>1 DEF Ordered, Sending
<1>3. cache_seq \in Nat /\ cache_len \in Nat /\ CacheFirst \in Nat /\ CacheFirst + cache_len = QueueFirst
  BY Numbers
<1> QED
  BY <1>1, <1>2, <1>3 DEF CacheEnd

\* Sending cached bytes again, at their place, keeps the invariant.
LEMMA ResendKeeps ==
    ASSUME TxInv, TxTypes', NEW segments \in SUBSET Packet,
           \A p \in segments :
              /\ p.seq + p.len <= CacheEnd
              /\ p.first - CacheFirst = p.seq - cache_seq
              /\ p.fin = TRUE => /\ cache_fin = TRUE
                                 /\ \E r \in segments : r.seq + r.len = CacheEnd,
           cache_len = 0 => segments = {},
           Send(segments), UNCHANGED <<cache_seq, cache_len, cache_fin, queue, queue_fin>>,
           UNCHANGED <<cache_syn, send_window, reader, forwarded, src_next, granted>>
    PROVE  Kept
<1>1. fin_early' = (fin_early \/ \E p, r \in segments : p # r /\ p.fin)
  BY DEF Send
<1>2. \A p \in segments : p.fin \in BOOLEAN /\ p.seq \in Nat /\ p.first \in Nat /\ p.len \in Nat
  BY PacketEnds, Zenon
<1>3. Opened'
  <2>1. reader = "open" => fin_early' = FALSE
    BY <1>1, <1>2, Zenon DEF TxInv, Opened
  <2> QED
    BY <2>1 DEF TxInv, Opened
<1> SUFFICES ASSUME fin_early' = FALSE PROVE fin_early = FALSE /\ Ordered'
  BY <1>3, Zenon DEF Kept
<1>4. fin_early = FALSE /\ \A p, r \in segments : p.fin = TRUE => p = r
  BY <1>1, <1>2, Flags, Zenon DEF TxInv
<1>5. Handshake /\ Sending /\ OnTheWay /\ InsideGrant /\ Ordered /\ TxTypes
  BY <1>4 DEF TxInv, Ordered
<1>6. CacheEnd' = CacheEnd /\ QueueFirst' = QueueFirst /\ (FinSent' <=> FinSent)
  BY DEF CacheEnd, QueueFirst, FinSent
<1>7. /\ CacheEnd \in Nat /\ QueueFirst \in Nat /\ sequence \in Nat /\ cache_seq \in Nat
      /\ cache_len \in Nat
  BY <1>5, Numbers
<1>8. ASSUME NEW p \in segments
      PROVE  /\ cache_syn = FALSE /\ p.seq + p.len <= QueueFirst /\ p.first = p.seq
             /\ p.fin = TRUE => FinSent /\ p.seq + p.len = QueueFirst
  <2>1. cache_len > 0
    BY <1>7
  <2>2. cache_syn = FALSE /\ CacheEnd = QueueFirst /\ CacheFirst = cache_seq
    BY <1>5, <2>1, CacheInPlace
  <2>3. p.first = p.seq
    BY <1>2, <1>7, <2>2
  <2>4. p.fin = TRUE => FinSent /\ p.seq + p.len = QueueFirst
    BY <1>4, <1>5, <2>2 DEF Sending
  <2> QED
    BY <2>2, <2>3, <2>4
<1>9. \A p \in segments : PacketEnd(p) \in Nat /\ PacketEnd(p) <= QueueFirst + 1
                          /\ (p.fin # TRUE => PacketEnd(p) <= QueueFirst)
  <2> SUFFICES ASSUME NEW p \in segments
               PROVE  /\ PacketEnd(p) \in Nat /\ PacketEnd(p) <= QueueFirst + 1
                      /\ (p.fin # TRUE => PacketEnd(p) <= QueueFirst)
    BY Zenon
  <2>1. /\ PacketEnd(p) \in Nat /\ PacketEnd(p) <= p.seq + p.len + 1
        /\ p.fin # TRUE => PacketEnd(p) = p.seq + p.len
    BY PacketEnds, Zenon
  <2>2. p.seq \in Nat /\ p.len \in Nat /\ p.seq + p.len <= QueueFirst
    BY <1>2, <1>8, Zenon
  <2>3. \A a, b, c, d \in Nat : a + b <= d /\ c <= a + b + 1 => c <= d + 1
    OBVIOUS
  <2>4. PacketEnd(p) <= QueueFirst + 1
    BY <1>7, <2>1, <2>2, <2>3, Zenon
  <2>5. p.fin # TRUE => PacketEnd(p) <= QueueFirst
    BY <2>1, <2>2, Zenon
  <2> QED
    BY <2>1, <2>4, <2>5, Zenon
<1>10. /\ net' \subseteq net \cup segments /\ (errors' = 0 => errors = 0)
       /\ sequence' \in Nat /\ sequence <= sequence'
  <2>1. PICK e \in Nat : e = sequence + QueueFirst + 1
    BY <1>7
  <2>2. \A p \in segments : PacketEnd(p) <= e
    <3>1. \A a, b, c \in Nat : c <= b + 1 => c <= a + b + 1
      OBVIOUS
    <3> QED
      BY <1>7, <1>9, <2>1, <3>1, Zenon
  <2>3. sequence <= e
    BY <1>7, <2>1
  <2> QED
    BY <1>5, <2>2, <2>3, SendBounds
<1>11. cache_len = 0 => net' \subseteq net /\ sequence' = sequence
  <2> SUFFICES ASSUME cache_len = 0 PROVE net' \subseteq net /\ sequence' = sequence
    OBVIOUS
  <2>1. segments = {} /\ sequence <= sequence
    BY <1>7
  <2>2. sequence' \in Nat /\ sequence <= sequence' /\ sequence' <= sequence
    BY <1>5, <1>7, <2>1, SendBounds
  <2> QED
    BY <1>7, <1>10, <2>1, <2>2
<1>12. ~FinSent /\ cache_syn = FALSE =>
          sequence' <= QueueFirst /\ (errors' = 0 => sequence' = QueueFirst)
  <2> SUFFICES ASSUME ~FinSent, cache_syn = FALSE
               PROVE  sequence' <= QueueFirst /\ (errors' = 0 => sequence' = QueueFirst)
    BY Zenon
  <2>1. sequence <= QueueFirst /\ (errors = 0 => sequence = QueueFirst)
    BY <1>5 DEF Sending
  <2>2. \A p \in segments : PacketEnd(p) <= QueueFirst
    BY <1>8, <1>9, Zenon
  <2>3. sequence' <= QueueFirst
    BY <1>5, <1>7, <2>1, <2>2, SendBounds
  <2> QED
    BY <1>7, <1>10, <2>1, <2>3
<1>13. Handshake'
  BY <1>5, <1>6, <1>10, <1>11 DEF Handshake
<1>14. Sending'
  <2> SUFFICES ASSUME cache_syn = FALSE PROVE Sending'
    BY Zenon DEF Sending
  <2>1. ~FinSent \/ (cache_fin = TRUE /\ cache_len = 0) =>
          sequence' <= QueueFirst /\ (errors' = 0 => sequence' = QueueFirst)
    BY <1>5, <1>10, <1>11, <1>12 DEF Sending
  <2> QED
    BY <1>5, <1>6, <2>1 DEF Sending
<1>15. OnTheWay'
  BY <1>5, <1>6, <1>8, <1>10, Zenon DEF OnTheWay, Carries
<1>16. InsideGrant'
  BY <1>5, <1>6 DEF InsideGrant
<1> QED
  BY <1>4, <1>13, <1>14, <1>15, <1>16 DEF Ordered

\* So does sending the FIN alone, at the end of the stream.
LEMMA FinKeeps ==
    ASSUME TxInv, TxTypes', SendTcpFin, cache_len = 0, cache_syn = FALSE,
           ~FinSent \/ cache_fin = TRUE,
           cache_fin' = TRUE, queue_fin' = FALSE, reader' # "open",
           RemoteCloses # FALSE,
           queue' = queue, forwarded' = forwarded,
           fin_early' = (fin_early \/ queue > 0),
           UNCHANGED <<cache_seq, cache_len, cache_syn, send_window, src_next, granted>>
    PROVE  Kept
<1>1. Opened'
  BY Zenon DEF Opened
<1> SUFFICES ASSUME fin_early' = FALSE PROVE fin_early = FALSE /\ Ordered'
  BY <1>1, Zenon DEF Kept
<1>2. TxTypes
  BY DEF TxInv
<1>3. fin_early = FALSE /\ ~(queue > 0)
  BY <1>2, Flags, Zenon
<1>4. Handshake /\ Sending /\ OnTheWay /\ InsideGrant
  BY <1>3 DEF TxInv, Ordered
<1>5. FinSent' /\ CacheEnd' = CacheEnd /\ QueueFirst' = QueueFirst
  BY DEF CacheEnd, QueueFirst, FinSent
<1>6. /\ CacheEnd \in Nat /\ QueueFirst \in Nat /\ sequence \in Nat /\ cache_seq \in Nat
      /\ queue \in Nat /\ src_next \in Nat
  BY <1>2, Numbers
<1>7. queue = 0
  BY <1>3, <1>6
<1>8. /\ net' \subseteq net \cup {FinAlone}
      /\ sequence' = sequence /\ (errors' = 0 => errors = 0)
  BY <1>2, SendTcpFinBounds
<1>9. sequence <= QueueFirst /\ (errors = 0 => sequence = QueueFirst)
  BY <1>4 DEF Sending
<1>10. CacheEnd = QueueFirst
  <2>1. CASE ~FinSent
    <3>1. cache_seq # QueueFirst + 1
      BY <1>4, <1>6, <2>1 DEF Sending
    <3> QED
      BY <1>4, <3>1 DEF Sending
  <2>2. CASE cache_fin = TRUE
    BY <1>4, <2>2 DEF Sending
  <2> QED
    BY <2>1, <2>2, Zenon
<1>11. Handshake'
  BY DEF Handshake
<1>12. Sending'
  <2>1. 1 <= cache_seq /\ cache_seq <= src_next
    BY <1>4 DEF Sending
  <2>2. src_next <= QueueFirst \/ src_next = QueueFirst + 1
    BY <1>4 DEF Sending
  <2> QED
    BY <1>5, <1>7, <1>8, <1>9, <1>10, <2>1, <2>2 DEF Sending
<1>13. OnTheWay'
  <2>1. ASSUME NEW p \in net PROVE Carries(p)'
    BY <1>4, <1>5, <1>8 DEF OnTheWay, Carries
  <2>2. /\ FinAlone.seq = sequence /\ FinAlone.len = 0 /\ FinAlone.fin = TRUE
    BY DEF FinAlone
  <2>3. FinAlone.seq + FinAlone.len = sequence
    BY <1>6, <2>2
  <2>4. PICK p : p = FinAlone
    OBVIOUS
  <2>5. p.seq + p.len = sequence /\ p.len = 0
    BY <2>2, <2>3, <2>4
  <2>6. Carries(p)'
    BY <1>5, <1>8, <1>9, <2>5 DEF Carries
  <2> QED
    BY <1>8, <2>1, <2>4, <2>6 DEF OnTheWay
<1>14. InsideGrant'
  BY <1>4, <1>5 DEF InsideGrant
<1> QED
  BY <1>3, <1>11, <1>12, <1>13, <1>14 DEF Ordered

\* What a caller of send_tcp_ack has to know: the FIN it queues, if any, is the
\* first, and nothing is queued behind it.
InTurn(q, q_fin) ==
    /\ Called(q, q_fin)
    /\ reader' # "open" /\ q_fin = FALSE <=> FinSent
    /\ FinSent => q = queue
    /\ q_fin = TRUE => reader' # "open" /\ RemoteCloses # FALSE /\ q = queue
    /\ reader' = "open" => reader = "open"
    /\ RemoteCloses = FALSE => reader' = "open"

\* First sending: the bytes are cached and go out at the connection's sequence.
LEMMA SendFromQueueKeeps ==
    ASSUME TxInv, TxTypes', cache_syn = FALSE, NEW q, NEW q_fin, InTurn(q, q_fin),
           SendFromQueue(q, q_fin)
    PROVE  Kept
<1>1. TxTypes /\ q \in Nat /\ q_fin \in BOOLEAN /\ mss \in MSSes /\ mss \in Nat \ {0}
  BY Numbers, Zenon DEF TxInv, TxTypes, TypeOK, InTurn, Called
<1>2. PICK n \in Nat \ {0}, f \in BOOLEAN :
        /\ n <= q /\ cache_len + n <= send_window
        /\ f = (n = q /\ q_fin)
        /\ queue' = q - n /\ cache_len' = cache_len + n /\ cache_seq' = cache_seq
        /\ queue_fin' = (q_fin /\ ~f) /\ cache_fin' = (cache_fin \/ f)
        /\ Send(Segments(sequence, QueueFirst, n, f))
  BY <1>1, SendFromQueueIs
<1>3. PICK segments : segments = Segments(sequence, QueueFirst, n, f)
  OBVIOUS
<1>4. /\ CacheEnd \in Nat /\ QueueFirst \in Nat /\ sequence \in Nat /\ cache_seq \in Nat
      /\ cache_len \in Nat /\ queue \in Nat /\ forwarded \in Nat /\ src_next \in Nat
  BY <1>1, Numbers
<1>5. segments \in SUBSET Packet
  BY <1>1, <1>3, <1>4, SegmentsArePackets
<1>6. \A p \in segments :
        /\ p.seq \in Nat /\ p.first \in Nat /\ p.len \in Nat /\ p.fin = f
        /\ p.seq >= sequence /\ p.seq + p.len <= sequence + n
        /\ p.first - QueueFirst = p.seq - sequence
  BY <1>1, <1>3, <1>4, SegmentsInside
<1>7. PICK last \in segments : last.seq + last.len = sequence + n
  BY <1>1, <1>3, <1>4, LastSegment
<1>8. fin_early' = (fin_early \/ \E p, r \in segments : p # r /\ p.fin)
  BY <1>2, <1>3 DEF Send
<1>9. Opened'
  <2>1. RemoteCloses = FALSE => reader' = "open"
    BY DEF InTurn
  <2>2. ASSUME reader' = "open"
        PROVE  queue_fin' = FALSE /\ cache_fin' = FALSE /\ fin_early' = FALSE
    <3>1. reader = "open" /\ q_fin = FALSE
      BY <1>1, <2>2, Zenon DEF InTurn
    <3>2. f = FALSE /\ cache_fin = FALSE /\ fin_early = FALSE
      BY <1>2, <3>1, Zenon DEF TxInv, Opened
    <3> QED
      BY <1>2, <1>6, <1>8, <3>1, <3>2, Zenon
  <2> QED
    BY <2>1, <2>2, Zenon DEF Opened
<1> SUFFICES ASSUME fin_early' = FALSE PROVE fin_early = FALSE /\ Ordered'
  BY <1>9, Zenon DEF Kept
<1>10. fin_early = FALSE /\ \A p \in segments : p.fin = TRUE => p = last
  BY <1>1, <1>8, Flags, Zenon
<1>11. Handshake /\ Sending /\ OnTheWay /\ InsideGrant
  BY <1>10 DEF TxInv, Ordered
<1>12. ~FinSent
  <2>1. FinSent => q = 0
    BY <1>11 DEF Sending, InTurn
  <2> QED
    BY <1>2, <2>1
<1>13. /\ CacheEnd = QueueFirst /\ cache_fin # TRUE
       /\ sequence <= QueueFirst /\ (errors = 0 => sequence = QueueFirst)
       /\ 1 <= cache_seq /\ cache_seq <= src_next /\ src_next <= QueueFirst
  <2>1. /\ 1 <= cache_seq /\ cache_seq <= src_next /\ src_next <= QueueFirst
        /\ cache_fin # TRUE
        /\ sequence <= QueueFirst /\ (errors = 0 => sequence = QueueFirst)
    BY <1>11, <1>12, Zenon DEF Sending
  <2>2. cache_seq # QueueFirst + 1
    BY <1>4, <2>1
  <2> QED
    BY <1>11, <2>1, <2>2, Zenon DEF Sending
<1>14. QueueFirst' = QueueFirst + n /\ CacheEnd' = CacheEnd + n
  <2>1. forwarded' = q + (forwarded - queue)
    BY DEF InTurn, Called
  <2>2. QueueFirst' = ((q + (forwarded - queue)) - (q - n)) + 1
    <3>1. QueueFirst' = forwarded' - queue' + 1
      BY DEF QueueFirst
    <3> QED
      BY <1>2, <2>1, <3>1, Zenon
  <2>3. ((q + (forwarded - queue)) - (q - n)) + 1 = (forwarded - queue + 1) + n
    BY <1>1, <1>4
  <2> QED
    BY <1>2, <1>4, <2>2, <2>3, SMTT(60) DEF QueueFirst, CacheEnd
<1>15. /\ FinSent' <=> f = TRUE
       /\ cache_fin' = TRUE => f = TRUE
       /\ f = TRUE => queue' = 0
  <2>1. FinSent' <=> f = TRUE
    BY <1>1, <1>2, <1>12, Zenon DEF InTurn, FinSent
  <2>2. cache_fin' = TRUE => f = TRUE
    BY <1>1, <1>2, <1>13, Flags, Zenon
  <2>3. f = TRUE => q = n
    BY <1>2, Zenon
  <2> QED
    BY <1>1, <1>2, <2>1, <2>2, <2>3
<1>16. ASSUME NEW p \in segments
       PROVE  /\ p.seq + p.len <= QueueFirst + n
              /\ p.fin = TRUE => f = TRUE /\ p.seq + p.len = sequence + n
              /\ errors = 0 => p.first = p.seq
              /\ PacketEnd(p) \in Nat /\ p.seq + p.len <= PacketEnd(p)
              /\ f # TRUE => PacketEnd(p) = p.seq + p.len
  <2>1. /\ p.seq \in Nat /\ p.first \in Nat /\ p.len \in Nat /\ p.fin = f
        /\ p.seq + p.len <= sequence + n /\ p.first - QueueFirst = p.seq - sequence
    BY <1>6
  <2>2. /\ PacketEnd(p) \in Nat /\ p.seq + p.len <= PacketEnd(p)
        /\ p.fin # TRUE => PacketEnd(p) = p.seq + p.len
    BY <1>5, PacketEnds, Zenon
  <2>3. p.seq + p.len <= QueueFirst + n /\ (errors = 0 => p.first = p.seq)
    BY <1>4, <1>13, <2>1
  <2>4. p.fin = TRUE => p.seq + p.len = sequence + n
    BY <1>7, <1>10
  <2> QED
    BY <2>1, <2>2, <2>3, <2>4, Zenon
<1>17. /\ net' \subseteq net \cup segments /\ (errors' = 0 => errors = 0)
       /\ sequence' \in Nat
       /\ errors' = 0 => \A p \in segments : PacketEnd(p) <= sequence'
  <2>1. PICK e \in Nat : e = sequence + n + 1
    BY <1>4
  <2>2. \A p \in segments : PacketEnd(p) <= e
    <3> TAKE p \in segments
    <3>1. PacketEnd(p) \in Nat /\ PacketEnd(p) <= p.seq + p.len + 1
      BY <1>5, PacketEnds, Zenon
    <3>2. \A a, b, c, d \in Nat : a + b <= c + n /\ d <= a + b + 1 => d <= c + n + 1
      OBVIOUS
    <3> QED
      BY <1>4, <1>6, <2>1, <3>1, <3>2, Zenon
  <2>3. sequence <= e
    BY <1>4, <2>1
  <2> QED
    BY <1>1, <1>2, <1>3, <1>5, <2>2, <2>3, SendBounds
<1>18. f # TRUE => /\ sequence' <= QueueFirst + n
                   /\ errors' = 0 => sequence' = QueueFirst + n
  <2> SUFFICES ASSUME f # TRUE
               PROVE  /\ sequence' <= QueueFirst + n
                      /\ errors' = 0 => sequence' = QueueFirst + n
    OBVIOUS
  <2>1. QueueFirst + n \in Nat /\ sequence <= QueueFirst + n
    BY <1>4, <1>13
  <2>2. \A p \in segments : PacketEnd(p) <= QueueFirst + n
    BY <1>16, Zenon
  <2>3. sequence' <= QueueFirst + n
    BY <1>1, <1>2, <1>3, <1>5, <2>1, <2>2, SendBounds
  <2>4. errors' = 0 => sequence + n <= sequence' /\ sequence = QueueFirst
    BY <1>7, <1>13, <1>16, <1>17, Zenon
  <2> QED
    BY <1>4, <1>17, <2>1, <2>3, <2>4
<1>19. UNCHANGED <<cache_syn, send_window, src_next, granted>>
  BY DEF InTurn, Called, sourceVars
<1>20. Handshake'
  BY <1>19 DEF Handshake
<1>21. Sending'
  <2>1. src_next <= QueueFirst + n
    BY <1>4, <1>13
  <2>2. cache_len' # 0
    BY <1>2, <1>4
  <2> QED
    BY <1>2, <1>13, <1>14, <1>15, <1>18, <1>19, <2>1, <2>2, Zenon DEF Sending
<1>22. OnTheWay'
  <2>1. ASSUME NEW p \in net PROVE Carries(p)'
    <3>1. Carries(p) /\ p \in Packet
      BY <1>1, <1>11 DEF OnTheWay, TxTypes, TypeOK
    <3>2. p.seq \in Nat /\ p.len \in Nat /\ p.fin # TRUE
      BY <1>12, <3>1, PacketEnds, Zenon DEF Carries
    <3>3. p.seq + p.len <= QueueFirst + n
      BY <1>4, <3>1, <3>2, SMTT(60) DEF Carries
    <3> QED
      BY <1>14, <1>17, <3>1, <3>2, <3>3, Zenon DEF Carries
  <2>2. ASSUME NEW p \in segments PROVE Carries(p)'
    BY <1>13, <1>14, <1>15, <1>16, <1>17, Zenon DEF Carries
  <2> QED
    BY <1>17, <2>1, <2>2 DEF OnTheWay
<1>23. InsideGrant'
  <2> SUFFICES ASSUME ReorderAcks = FALSE PROVE InsideGrant'
    BY Zenon DEF InsideGrant
  <2>1. cache_seq + send_window <= granted /\ granted \in Nat /\ send_window \in Nat
    BY <1>1, <1>11, Numbers DEF InsideGrant
  <2>2. QueueFirst + n <= granted
    BY <1>2, <1>4, <1>13, <2>1, SMTT(60) DEF CacheEnd
  <2> QED
    BY <1>2, <1>14, <1>19, <2>1, <2>2 DEF InsideGrant
<1> QED
  BY <1>10, <1>20, <1>21, <1>22, <1>23 DEF Ordered

\* send_tcp_ack, whichever task calls it, keeps the invariant.
LEMMA SendTcpAckKeeps ==
    ASSUME TxInv, TxTypes', NEW q, NEW q_fin, InTurn(q, q_fin), SendTcpAck(q, q_fin)
    PROVE  Kept
<1>1. TxTypes /\ q \in Nat /\ q_fin \in BOOLEAN
  BY DEF TxInv, InTurn, Called
<1>2. /\ UNCHANGED <<cache_syn, send_window, src_next, granted>>
      /\ forwarded' = q + (forwarded - queue)
  BY DEF InTurn, Called, sourceVars
<1>3. queue \in Nat /\ forwarded \in Nat
  BY <1>1, Numbers
<1>4. CASE ~cache_syn /\ SendFromQueue(q, q_fin)
  <2>1. cache_syn = FALSE
    BY <1>1, <1>4, Flags, Zenon
  <2> QED
    BY <1>4, <2>1, SendFromQueueKeeps, Zenon
<1>5. CASE ~cache_syn /\ SendFinAlone(q, q_fin)
  <2>1. cache_syn = FALSE /\ q_fin = TRUE
    BY <1>1, <1>5, Flags, Zenon DEF SendFinAlone
  <2>2. /\ SendTcpFin /\ queue_fin' = FALSE /\ cache_fin' = TRUE /\ cache_len = 0
        /\ queue' = q /\ UNCHANGED <<cache_seq, cache_len>>
        /\ fin_early' = (fin_early \/ q > 0)
    BY <1>5 DEF SendFinAlone
  <2>3. ~FinSent /\ reader' # "open" /\ RemoteCloses # FALSE /\ q = queue
    BY <2>1, Zenon DEF InTurn
  <2>4. forwarded' = forwarded
    <3>1. queue + (forwarded - queue) = forwarded
      BY <1>3
    <3> QED
      BY <1>2, <2>3, <3>1
  <2>5. fin_early' = (fin_early \/ queue > 0)
    BY <2>2, <2>3
  <2> QED
    BY <1>2, <2>1, <2>2, <2>3, <2>4, <2>5, FinKeeps, Zenon
<1>6. CASE \/ ~cache_syn /\ SendNothing(q, q_fin)
           \/ cache_syn /\ SendSynAgain(q, q_fin)
  <2>1. /\ queue' = q /\ queue_fin' = q_fin /\ fin_early' = fin_early
        /\ UNCHANGED <<sequence, cache_seq, cache_len, cache_fin, net>>
    BY <1>6 DEF SendNothing, SendSynAgain
  <2>2. errors' = 0 => errors = 0
    <3>1. errors' = errors \/ errors' = errors + 1
      BY <1>6 DEF SendNothing, SendSynAgain
    <3>2. errors \in Nat
      BY <1>1, Numbers
    <3> QED
      BY <3>1, <3>2
  <2>3. UNCHANGED QueueFirst
    <3>1. QueueFirst' = ((q + (forwarded - queue)) - q) + 1
      <4>1. QueueFirst' = forwarded' - queue' + 1
        BY DEF QueueFirst
      <4> QED
        BY <1>2, <2>1, <4>1, Zenon
    <3>2. ((q + (forwarded - queue)) - q) + 1 = forwarded - queue + 1
      BY <1>1, <1>3
    <3> QED
      BY <3>1, <3>2 DEF QueueFirst
  <2>4. FinSent' <=> FinSent
    BY <2>1, Zenon DEF InTurn, FinSent
  <2>5. Opened'
    <3>1. reader' = "open" => reader = "open" /\ q_fin = FALSE
      BY <1>1, Zenon DEF InTurn
    <3>2. RemoteCloses = FALSE => reader' = "open"
      BY DEF InTurn
    <3> QED
      BY <2>1, <3>1, <3>2, Zenon DEF TxInv, Opened
  <2>6. queue = forwarded => queue' = forwarded'
    <3>1. queue = forwarded => q + (forwarded - queue) = q
      BY <1>1, <1>3
    <3> QED
      BY <1>2, <2>1, <3>1
  <2>7. FinSent => queue' = queue
    BY <2>1 DEF InTurn
  <2> QED
    BY <1>2, <2>1, <2>2, <2>3, <2>4, <2>5, <2>6, <2>7, FrameKeeps, Zenon
<1> QED
  BY <1>4, <1>5, <1>6 DEF SendTcpAck

-----------------------------------------------------------------------------
(* Acknowledgements *)

\* An acknowledgement of something the source has, early or late, moves the
\* front of the cache and leaves its end, unless it is of the FIN.
LEMMA AcknowledgeKeeps ==
    ASSUME TxTypes, Handshake, Sending, NEW a \in Nat, 1 <= a, a <= src_next, Acknowledge(a)
    PROVE  /\ cache_syn' = FALSE
           /\ cache_fin' = TRUE => cache_fin = TRUE
           /\ 1 <= cache_seq' /\ a <= cache_seq' /\ cache_seq' <= src_next
           /\ \/ cache_seq' + cache_len' = QueueFirst
              \/ cache_seq' = QueueFirst + 1 /\ cache_len' = 0 /\ cache_fin' = FALSE
           /\ ~FinSent \/ (cache_fin' = TRUE /\ cache_len' = 0) =>
                sequence' <= QueueFirst /\ (errors = 0 => sequence' = QueueFirst)
<1>1. /\ sequence \in Nat /\ cache_seq \in Nat /\ cache_len \in Nat /\ src_next \in Nat
      /\ QueueFirst \in Nat /\ queue \in Nat /\ forwarded \in Nat
      /\ QueueFirst + queue = forwarded + 1
  BY Numbers
<1>2. cache_syn \in BOOLEAN /\ cache_fin \in BOOLEAN
  BY Flags
<1>3. cache_fin' = TRUE => cache_fin = TRUE
  BY <1>2, Zenon DEF Acknowledge
<1>4. CASE cache_syn = TRUE
  <2>1. /\ sequence = 0 /\ cache_seq = 0 /\ cache_len = 0 /\ a = 1 /\ src_next = 1
        /\ cache_fin = FALSE /\ QueueFirst = 1
    BY <1>1, <1>4 DEF Handshake
  <2>2. Max({cache_len - (a - cache_seq), 0}) = 0
    BY <2>1, MaxOfTwo
  <2>3. a >= sequence /\ a >= cache_seq
    BY <2>1
  <2>4. cache_syn' = FALSE
    BY <1>2, <1>4, <2>3, Zenon DEF Acknowledge
  <2>5. cache_seq' = 1 /\ cache_len' = 0 /\ sequence' = 1
    BY <1>1, <1>4, <2>1, <2>2, <2>3 DEF Acknowledge
  <2> QED
    BY <1>3, <2>1, <2>4, <2>5
<1>5. CASE cache_syn = FALSE
  <2>1. /\ 1 <= cache_seq /\ cache_seq <= src_next
        /\ src_next <= QueueFirst \/ (FinSent /\ src_next = QueueFirst + 1)
        /\ \/ CacheEnd = QueueFirst
           \/ cache_seq = QueueFirst + 1 /\ cache_len = 0 /\ cache_fin = FALSE
        /\ cache_fin = TRUE => FinSent
        /\ ~FinSent \/ (cache_fin = TRUE /\ cache_len = 0) =>
              sequence <= QueueFirst /\ (errors = 0 => sequence = QueueFirst)
    BY <1>5 DEF Sending
  <2>2. cache_syn' = FALSE
    BY <1>2, <1>5, Zenon DEF Acknowledge
  <2>3. cache_fin = FALSE => sequence' = sequence
    BY <1>1, <1>5, SMTT(60) DEF Acknowledge
  <2>4. CASE a >= cache_seq
    <3>1. PICK l \in Int : l = cache_len - (a - cache_seq)
      BY <1>1
    <3>2. Max({l, 0}) = IF l >= 0 THEN l ELSE 0
      BY <3>1, MaxOfTwo
    <3>3. cache_seq' = a /\ cache_len' = Max({l, 0})
      BY <2>4, <3>1 DEF Acknowledge
    <3>4. \/ a + Max({l, 0}) = QueueFirst
          \/ a = QueueFirst + 1 /\ Max({l, 0}) = 0
      BY <1>1, <2>1, <2>4, <3>1, <3>2 DEF CacheEnd
    <3>5. cache_len' = 0 => cache_fin' = FALSE
      <4> SUFFICES ASSUME cache_len' = 0 PROVE cache_fin' = FALSE
        OBVIOUS
      <4>1. a >= a + 0
        OBVIOUS
      <4>2. Max({cache_len - (a - cache_seq), 0}) = 0
        BY <3>1, <3>3
      <4> QED
        BY <1>2, <2>4, <4>1, <4>2, Zenon DEF Acknowledge
    <3>6. ~FinSent => sequence' <= QueueFirst /\ (errors = 0 => sequence' = QueueFirst)
      BY <1>2, <2>1, <2>3
    <3> QED
      BY <1>1, <1>3, <2>1, <2>2, <2>4, <3>3, <3>4, <3>5, <3>6
  <2>5. CASE ~(a >= cache_seq)
    <3>1. cache_seq' = cache_seq /\ cache_len' = cache_len
      BY <2>5 DEF Acknowledge
    <3>2. ~(a >= cache_seq + cache_len)
      BY <1>1, <2>5
    <3>3. cache_fin' = cache_fin
      BY <1>2, <2>5, <3>2, Zenon DEF Acknowledge
    <3>4. sequence' = sequence + 0 + 0
      BY <1>5, <2>5, <3>2, Zenon DEF Acknowledge
    <3>5. sequence' = sequence
      BY <1>1, <3>4
    <3>6. a <= cache_seq
      BY <1>1, <2>5
    <3> QED
      BY <1>3, <2>1, <2>2, <3>1, <3>3, <3>5, <3>6 DEF CacheEnd
  <2> QED
    BY <2>4, <2>5, Zenon
<1> QED
  BY <1>2, <1>4, <1>5, Zenon

\* The first lock of handle_tcp_ack keeps the invariant, if the window that is
\* set is the one granted last, or acknowledgements may overtake each other.
LEMMA HandleAckKeeps ==
    ASSUME TxInv, TxTypes', NEW a \in Nat, 1 <= a, a <= src_next,
           NEW w \in Windows, HandleAck(a, w),
           NEW g \in Nat, granted' = g, granted <= g,
           ReorderAcks = TRUE \/ (a = src_next /\ g = src_next + w)
    PROVE  Kept
<1>1. /\ Acknowledge(a) /\ send_window' = w
      /\ UNCHANGED <<queue, queue_fin, net, errors, fin_early, reader, forwarded, src_next>>
  BY DEF HandleAck, workerVars
<1>2. TxTypes
  BY DEF TxInv
<1>3. cache_fin = FALSE => cache_fin' = FALSE
  BY <1>1, Zenon DEF Acknowledge
<1>4. Opened'
  BY <1>1, <1>3 DEF TxInv, Opened
<1> SUFFICES ASSUME fin_early' = FALSE PROVE Ordered'
  BY <1>1, <1>4, Zenon DEF Kept
<1>5. Handshake /\ Sending /\ OnTheWay /\ InsideGrant
  BY <1>1 DEF TxInv, Ordered
<1>6. QueueFirst' = QueueFirst /\ (FinSent' <=> FinSent) /\ CacheEnd' = cache_seq' + cache_len'
  BY <1>1 DEF QueueFirst, FinSent, CacheEnd
<1>7. /\ cache_syn' = FALSE
      /\ cache_fin' = TRUE => cache_fin = TRUE
      /\ 1 <= cache_seq' /\ a <= cache_seq' /\ cache_seq' <= src_next
      /\ \/ cache_seq' + cache_len' = QueueFirst
         \/ cache_seq' = QueueFirst + 1 /\ cache_len' = 0 /\ cache_fin' = FALSE
      /\ ~FinSent \/ (cache_fin' = TRUE /\ cache_len' = 0) =>
            sequence' <= QueueFirst /\ (errors = 0 => sequence' = QueueFirst)
  BY <1>1, <1>2, <1>5, AcknowledgeKeeps, Zenon
<1>8. /\ QueueFirst \in Nat /\ QueueFirst + queue = forwarded + 1 /\ src_next \in Nat
      /\ queue \in Nat /\ forwarded \in Nat /\ granted \in Nat
      /\ w \in Nat /\ (cache_syn = TRUE \/ cache_syn = FALSE)
  BY <1>2, Numbers, Flags, TxAssumption
<1>9. /\ src_next <= QueueFirst \/ (FinSent /\ src_next = QueueFirst + 1)
      /\ FinSent => queue = 0
      /\ cache_fin = TRUE => FinSent
  BY <1>5, <1>8 DEF Handshake, Sending
<1>10. Handshake'
  BY <1>7 DEF Handshake
<1>11. Sending'
  BY <1>1, <1>6, <1>7, <1>9 DEF Sending
<1>12. OnTheWay'
  BY <1>1, <1>5, <1>6 DEF OnTheWay, Carries
<1>13. InsideGrant'
  <2> SUFFICES ASSUME ReorderAcks = FALSE PROVE QueueFirst <= g /\ cache_seq' + w <= g
    BY <1>1, <1>6, Zenon DEF InsideGrant
  <2>1. cache_seq' = src_next /\ g = src_next + w
    <3>1. cache_seq' \in Nat
      BY Numbers DEF TxTypes, TypeOK
    <3> QED
      BY <1>7, <1>8, <3>1
  <2>2. CASE cache_syn = TRUE
    <3>1. QueueFirst = 1
      BY <1>5, <1>8, <2>2 DEF Handshake
    <3> QED
      BY <1>7, <1>8, <2>1, <3>1, SMTT(60)
  <2>3. CASE cache_syn = FALSE
    <3>1. QueueFirst <= granted
      BY <1>5, <2>3 DEF InsideGrant
    <3> QED
      BY <1>8, <2>1, <3>1
  <2> QED
    BY <1>8, <2>2, <2>3, Zenon
<1> QED
  BY <1>10, <1>11, <1>12, <1>13 DEF Ordered

-----------------------------------------------------------------------------
(* The actions *)

\* The reader forwards what the remote sent.
LEMMA ForwardKeeps == ASSUME TxInv, TxTypes', Forward PROVE Kept
<1>1. TxTypes
  BY DEF TxInv
<1>2. PICK n \in Nat \ {0} :
        /\ Called(queue + n, queue_fin) /\ SendTcpAck(queue + n, queue_fin)
        /\ reader = "open" /\ reader' = reader
  BY <1>1, ForwardCalls
<1>3. queue_fin = FALSE
  BY <1>2 DEF TxInv, Opened
<1>4. InTurn(queue + n, queue_fin)
  BY <1>2, <1>3 DEF InTurn, FinSent
<1> QED
  BY <1>2, <1>4, SendTcpAckKeeps

\* It queues the FIN when the remote has closed.
LEMMA CloseKeeps == ASSUME TxInv, TxTypes', Close PROVE Kept
<1>1. PICK q_fin : q_fin = TRUE
  OBVIOUS
<1>2. /\ Called(queue, q_fin) /\ SendTcpAck(queue, q_fin)
      /\ RemoteCloses /\ reader = "open" /\ reader' = "closed"
  BY <1>1, CloseCalls, Zenon DEF TxInv
<1>3. RemoteCloses # FALSE
  BY <1>2, Zenon
<1>4. InTurn(queue, q_fin)
  BY <1>1, <1>2, <1>3 DEF InTurn, FinSent
<1> QED
  BY <1>2, <1>4, SendTcpAckKeeps

\* The packet loop sends what the window has room for by now.
LEMMA SendRemainingKeeps == ASSUME TxInv, TxTypes', SendRemaining PROVE Kept
<1>1. /\ Called(queue, queue_fin) /\ SendTcpAck(queue, queue_fin) /\ reader' = reader
  BY SendRemainingCalls DEF TxInv
<1>2. /\ queue_fin = TRUE => reader # "open"
      /\ RemoteCloses = FALSE => reader = "open"
  BY DEF TxInv, Opened
<1>3. InTurn(queue, queue_fin)
  BY <1>1, <1>2, Zenon DEF InTurn, FinSent
<1> QED
  BY <1>1, <1>3, SendTcpAckKeeps

\* A retransmitted range of the cache: packets at their place, and if they carry
\* the FIN, the range and so one of them ends where the cache ends.
LEMMA AgainInPlace ==
    ASSUME TxTypes, NEW from \in Nat, NEW n \in Nat, cache_seq <= from, from + n <= CacheEnd,
           NEW p \in Again(from, n)
    PROVE  /\ p \in Packet /\ p.seq + p.len <= CacheEnd
           /\ p.first - CacheFirst = p.seq - cache_seq
           /\ p.fin = TRUE => /\ cache_fin = TRUE
                              /\ \E r \in Again(from, n) : r.seq + r.len = CacheEnd
<1>1. /\ p \in Packet /\ p.seq + p.len <= CacheEnd /\ p.fin = WithFin(from, n)
      /\ p.first - CacheFirst = p.seq - cache_seq
  BY AgainPackets
<1>2. ASSUME p.fin = TRUE
      PROVE  cache_fin = TRUE /\ \E r \in Again(from, n) : r.seq + r.len = CacheEnd
  <2>1. cache_fin /\ n > 0 /\ from + n = CacheEnd
    BY <1>1, <1>2, Zenon DEF WithFin, CacheEnd
  <2>2. cache_fin = TRUE
    BY <2>1, Flags, Zenon
  <2>3. mss \in Nat \ {0} /\ CacheFirst \in Nat /\ cache_seq \in Nat
    BY Numbers
  <2>4. n \in Nat \ {0} /\ CacheFirst + (from - cache_seq) \in Nat
    BY <2>1, <2>3
  <2>5. \E r \in Again(from, n) : r.seq + r.len = from + n
    <3>1. PICK f : f = WithFin(from, n)
      OBVIOUS
    <3>2. PICK first \in Nat : first = CacheFirst + (from - cache_seq)
      BY <2>4
    <3>3. Again(from, n) = Segments(from, first, n, f)
      BY <3>1, <3>2, Zenon DEF Again
    <3> QED
      BY <2>3, <2>4, <3>3, LastSegment
  <2> QED
    BY <2>1, <2>2, <2>5
<1> QED
  BY <1>1, <1>2, Zenon

\* The FIN, sent again once all before it is acknowledged.
LEMMA ResendFinKeeps ==
    ASSUME TxInv, TxTypes', cache_len = 0, cache_fin, ResendFin,
           UNCHANGED <<cache_syn, send_window, reader, forwarded, src_next, granted>>
    PROVE  Kept
<1>1. TxTypes
  BY DEF TxInv
<1>2. cache_fin = TRUE /\ cache_syn \in BOOLEAN /\ queue_fin \in BOOLEAN
  BY <1>1, Flags, Zenon
<1>3. /\ SendTcpFin /\ UNCHANGED <<cache_seq, cache_len, cache_fin, queue, queue_fin, fin_early>>
  BY DEF ResendFin
<1>4. reader # "open" /\ RemoteCloses # FALSE
  BY <1>2, Zenon DEF TxInv, Opened
<1>5. Opened'
  BY <1>3 DEF TxInv, Opened
<1>6. CASE fin_early = FALSE
  <2>1. Handshake /\ Sending
    BY <1>6 DEF TxInv, Ordered
  <2>2. cache_syn = FALSE
    BY <1>2, <2>1 DEF Handshake
  <2>3. FinSent /\ queue = 0
    BY <1>2, <2>1, <2>2 DEF Sending
  <2>4. queue_fin' = FALSE
    BY <1>3, <2>3 DEF FinSent
  <2>5. ~(queue > 0)
    BY <2>3
  <2>6. fin_early' = (fin_early \/ queue > 0)
    BY <1>3, <1>6, <2>5, Zenon
  <2> QED
    BY <1>2, <1>3, <1>4, <2>2, <2>4, <2>6, FinKeeps, Zenon
<1>7. CASE fin_early # FALSE
  BY <1>3, <1>5, <1>7, Zenon DEF Kept
<1> QED
  BY <1>6, <1>7, Zenon

\* The tick task sends the front of the cache again.
LEMMA TickKeeps == ASSUME TxInv, TxTypes', Tick PROVE Kept
<1>1. UNCHANGED <<cache_syn, send_window, reader, forwarded, src_next, granted>>
  BY DEF Tick, RetransmitTimedOut, sourceVars
<1>2. TxTypes /\ cache_seq \in Nat /\ cache_len \in Nat
  BY Numbers DEF TxInv
<1>3. ASSUME cache_len > 0, NEW n \in 0 .. cache_len, Resend(cache_seq, n) PROVE Kept
  <2>1. n \in Nat /\ cache_seq <= cache_seq /\ cache_seq + n <= CacheEnd
    BY <1>2 DEF CacheEnd
  <2>2. PICK segments : segments = Again(cache_seq, n)
    OBVIOUS
  <2>3. \A p \in segments :
           /\ p \in Packet /\ p.seq + p.len <= CacheEnd
           /\ p.first - CacheFirst = p.seq - cache_seq
           /\ p.fin = TRUE => /\ cache_fin = TRUE
                              /\ \E r \in segments : r.seq + r.len = CacheEnd
    BY <1>2, <2>1, <2>2, AgainInPlace, Zenon
  <2>4. Send(segments) /\ UNCHANGED <<cache_seq, cache_len, cache_fin, queue, queue_fin>>
    BY <1>3, <2>2 DEF Resend
  <2>5. segments \in SUBSET Packet /\ cache_len # 0
    BY <1>2, <1>3, <2>3
  <2> QED
    BY <1>1, <2>3, <2>4, <2>5, ResendKeeps, Zenon
<1>4. ASSUME cache_len = 0, cache_fin, ResendFin PROVE Kept
  BY <1>1, <1>4, ResendFinKeeps
<1>5. ASSUME UNCHANGED txVars PROVE Kept
  <2>1. /\ UNCHANGED <<sequence, cache_seq, cache_len, cache_fin, net, errors, fin_early>>
        /\ UNCHANGED <<queue, queue_fin>>
    BY <1>5 DEF txVars
  <2>2. UNCHANGED QueueFirst /\ (FinSent' <=> FinSent)
    BY <1>1, <2>1 DEF QueueFirst, FinSent
  <2>3. Opened'
    BY <1>1, <2>1 DEF TxInv, Opened
  <2> QED
    BY <1>1, <2>1, <2>2, <2>3, FrameKeeps, Zenon
<1> QED
  BY <1>3, <1>4, <1>5 DEF Tick, RetransmitTimedOut

\* The packet loop sends ranges of the cache again.
LEMMA FastRetransmitKeeps == ASSUME TxInv, TxTypes', FastRetransmit PROVE Kept
<1>1. UNCHANGED <<cache_syn, send_window, reader, forwarded, src_next, granted>>
  BY DEF FastRetransmit, sourceVars, workerVars
<1>2. TxTypes /\ cache_seq \in Nat /\ cache_len \in Nat
  BY Numbers DEF TxInv
<1>3. ASSUME NEW S \in SUBSET (cache_seq .. cache_seq + cache_len - 1),
             Send(UNION {Again(r[1], r[2]) : r \in RangesOf(S)}),
             UNCHANGED <<cache_seq, cache_len, cache_fin, queue, queue_fin, syns>>
      PROVE  Kept
  <2>1. PICK segments : segments = UNION {Again(r[1], r[2]) : r \in RangesOf(S)}
    BY Zenon
  <2>2. ASSUME NEW p \in segments
        PROVE  /\ p \in Packet /\ p.seq + p.len <= CacheEnd
               /\ p.first - CacheFirst = p.seq - cache_seq
               /\ p.fin = TRUE => /\ cache_fin = TRUE
                                  /\ \E r \in segments : r.seq + r.len = CacheEnd
    <3>1. PICK r \in RangesOf(S) : p \in Again(r[1], r[2])
      BY <2>1
    <3>2. r[1] \in Nat /\ r[2] \in Nat /\ cache_seq <= r[1] /\ r[1] + r[2] <= CacheEnd
      BY <1>2, RangesInside
    <3>3. /\ p \in Packet /\ p.seq + p.len <= CacheEnd
          /\ p.first - CacheFirst = p.seq - cache_seq
          /\ p.fin = TRUE => /\ cache_fin = TRUE
                             /\ \E o \in Again(r[1], r[2]) : o.seq + o.len = CacheEnd
      BY <1>2, <3>1, <3>2, AgainInPlace, Zenon
    <3>4. Again(r[1], r[2]) \subseteq segments
      BY <2>1, Zenon
    <3> QED
      BY <3>3, <3>4, Zenon
  <2>3. cache_len = 0 => segments = {}
    <3> SUFFICES ASSUME cache_len = 0 PROVE segments = {}
      OBVIOUS
    <3>1. S = {}
      BY <1>2
    <3> QED
      BY <2>1, <3>1 DEF RangesOf
  <2>4. segments \in SUBSET Packet
    BY <2>2, Zenon
  <2> QED
    BY <1>1, <1>3, <2>1, <2>2, <2>3, <2>4, ResendKeeps, Zenon
<1>4. ASSUME cache_len = 0, cache_fin, ResendFin PROVE Kept
  BY <1>1, <1>4, ResendFinKeeps
<1> QED
  BY <1>3, <1>4, Zenon DEF FastRetransmit

\* An acknowledgement in its order, with the window it grants, or one that comes
\* late or twice, with an old window.
LEMMA AcksKeep == ASSUME TxInv, TxTypes', SourceAck \/ LateAck PROVE Kept
<1>1. src_next \in Nat /\ granted \in Nat
  BY Numbers DEF TxInv
<1>2. CASE SourceAck
  <2>1. PICK w \in Windows :
          /\ src_next > 0 /\ src_next + w >= granted
          /\ granted' = src_next + w /\ HandleAck(src_next, w)
    BY <1>2 DEF SourceAck
  <2>2. /\ 1 <= src_next /\ src_next <= src_next /\ src_next + w \in Nat
        /\ granted <= src_next + w
    BY <1>1, <2>1, TxAssumption
  <2> QED
    BY <1>1, <2>1, <2>2, HandleAckKeeps, Zenon
<1>3. CASE LateAck
  <2>1. PICK a \in 1 .. src_next, w \in Windows : HandleAck(a, w)
    BY <1>3 DEF LateAck
  <2>2. granted' = granted /\ ReorderAcks = TRUE
    BY <1>3, TxAssumption DEF LateAck
  <2>3. a \in Nat /\ 1 <= a /\ a <= src_next /\ granted <= granted
    BY <1>1
  <2> QED
    BY <1>1, <2>1, <2>2, <2>3, HandleAckKeeps
<1> QED
  BY <1>2, <1>3

\* What the network does to packets, and the source with them.
LEMMA NetworkKeeps ==
    ASSUME TxInv, TxTypes', NEW p \in net, Deliver(p) \/ Lose(p)
    PROVE  Kept
<1>1. /\ UNCHANGED <<sequence, cache_seq, cache_len, cache_fin, queue, queue_fin, errors,
                     cache_syn, send_window, reader, forwarded, granted, fin_early>>
      /\ net' \subseteq net
  BY DEF Deliver, Lose, workerVars
<1>2. Opened'
  BY <1>1 DEF TxInv, Opened
<1> SUFFICES ASSUME fin_early' = FALSE PROVE Ordered'
  BY <1>1, <1>2, Zenon DEF Kept
<1>3. Handshake /\ Sending /\ OnTheWay /\ InsideGrant /\ TxTypes
  BY <1>1 DEF TxInv, Ordered
<1>4. p \in Packet /\ Carries(p) /\ cache_syn = FALSE
  BY <1>3, Flags, Zenon DEF TxTypes, TypeOK, OnTheWay, Handshake
<1>5. CacheEnd' = CacheEnd /\ QueueFirst' = QueueFirst /\ (FinSent' <=> FinSent)
  BY <1>1 DEF CacheEnd, QueueFirst, FinSent
<1>6. QueueFirst \in Nat /\ src_next \in Nat /\ cache_seq \in Nat
  BY <1>3, Numbers
<1>7. /\ cache_seq <= src_next
      /\ src_next <= QueueFirst \/ (FinSent /\ src_next = QueueFirst + 1)
  BY <1>3, <1>4 DEF Sending
<1>8. /\ cache_seq <= src_next'
      /\ src_next' <= QueueFirst \/ (FinSent /\ src_next' = QueueFirst + 1)
  <2>1. CASE Deliver(p)
    <3>1. PICK e \in Nat : e = PacketEnd(p) /\ src_next < e
      BY <1>4, <2>1, PacketEnds, Zenon DEF Deliver
    <3>2. src_next' = e
      BY <2>1, <3>1 DEF Deliver
    <3>3. /\ p.seq \in Nat /\ p.len \in Nat /\ p.seq + p.len <= QueueFirst
          /\ e <= p.seq + p.len + 1
          /\ (p.fin # TRUE => e = p.seq + p.len)
          /\ (p.fin = TRUE => FinSent)
      BY <1>4, <3>1, PacketEnds, Zenon DEF Carries
    <3>4. cache_seq <= e /\ (e <= QueueFirst \/ (FinSent /\ e = QueueFirst + 1))
      <4>1. cache_seq <= e
        BY <1>6, <1>7, <3>1
      <4>2. PICK d \in Nat : d = p.seq + p.len
        BY <3>3
      <4>3. e <= d + 1 /\ d <= QueueFirst /\ (p.fin # TRUE => e = d)
        BY <3>3, <4>2, Zenon
      <4>4. CASE p.fin = TRUE
        BY <1>6, <3>3, <4>1, <4>3, <4>4
      <4>5. CASE p.fin # TRUE
        BY <4>1, <4>3, <4>5
      <4> QED
        BY <4>1, <4>4, <4>5, Zenon
    <3> QED
      BY <3>2, <3>4
  <2>2. CASE Lose(p)
    BY <1>7, <2>2 DEF Lose
  <2> QED
    BY <2>1, <2>2
<1>9. Handshake' /\ InsideGrant'
  BY <1>1, <1>3, <1>4, <1>5 DEF Handshake, InsideGrant
<1>10. Sending'
  BY <1>1, <1>3, <1>4, <1>5, <1>8 DEF Sending
<1>11. OnTheWay'
  BY <1>1, <1>3, <1>5 DEF OnTheWay, Carries
<1> QED
  BY <1>9, <1>10, <1>11 DEF Ordered

\* The source gets the ACK/SYN; until then the SYN is not acknowledged.
LEMMA DeliverSynKeeps == ASSUME TxInv, TxTypes', DeliverSyn PROVE Kept
<1>1. /\ UNCHANGED <<sequence, cache_seq, cache_len, cache_fin, queue, queue_fin, errors,
                     cache_syn, send_window, reader, forwarded, granted, net, fin_early>>
      /\ src_next = 0 /\ src_next' = 1
  BY DEF DeliverSyn, txVars, workerVars
<1>2. Opened'
  BY <1>1 DEF TxInv, Opened
<1> SUFFICES ASSUME fin_early' = FALSE PROVE Ordered'
  BY <1>1, <1>2, Zenon DEF Kept
<1>3. Handshake /\ Sending /\ OnTheWay /\ InsideGrant /\ TxTypes
  BY <1>1 DEF TxInv, Ordered
<1>4. cache_syn = TRUE
  BY <1>1, <1>3, Flags, Numbers, SMTT(60) DEF Sending
<1>5. FinSent' <=> FinSent
  BY <1>1 DEF FinSent
<1>6. Handshake'
  BY <1>1, <1>3, <1>4, <1>5 DEF Handshake
<1>7. OnTheWay'
  BY <1>1, <1>3, <1>4 DEF Handshake, OnTheWay
<1>8. Sending' /\ InsideGrant'
  BY <1>1, <1>4 DEF Sending, InsideGrant
<1> QED
  BY <1>6, <1>7, <1>8 DEF Ordered

\* Steps that move nothing but a flag, the MTU or nothing.
LEMMA OtherKeeps ==
    ASSUME TxInv, TxTypes', StoreClosed \/ LoadFlag \/ SetSrcMtu \/ UNCHANGED vars
    PROVE  Kept
<1>1. /\ UNCHANGED <<sequence, cache_seq, cache_len, cache_fin, queue, queue_fin, errors>>
      /\ UNCHANGED <<cache_syn, send_window, forwarded, src_next, granted, net, fin_early>>
  BY Zenon DEF StoreClosed, LoadFlag, SetSrcMtu, vars, txVars, workerVars, sourceVars
<1>2. reader' = reader \/ (reader = "closed" /\ reader' = "done")
  BY DEF StoreClosed, LoadFlag, SetSrcMtu, vars, workerVars
<1>3. Opened'
  BY <1>1, <1>2 DEF TxInv, Opened
<1>4. UNCHANGED QueueFirst
  BY <1>1 DEF QueueFirst
<1>5. FinSent' <=> FinSent
  BY <1>1, <1>2 DEF FinSent
<1> QED
  BY <1>1, <1>3, <1>4, <1>5, FrameKeeps, Zenon

\* Every step keeps the invariant.
LEMMA NextKeeps == TxInv /\ [Next]_vars => TxInv'
<1> SUFFICES ASSUME TxInv, [Next]_vars PROVE TxInv'
  OBVIOUS
<1>1. TxTypes'
  BY NextMoves DEF TxInv, Moves
<1>2. Kept
  BY <1>1, ForwardKeeps, CloseKeeps, SendRemainingKeeps, TickKeeps, FastRetransmitKeeps,
     AcksKeep, NetworkKeeps, DeliverSynKeeps, OtherKeeps, Zenon
  DEF Next
<1> QED
  BY <1>1, <1>2 DEF TxInv, Kept

-----------------------------------------------------------------------------
(* The theorems *)

\* Every reachable state satisfies the invariant.
LEMMA TxReaches == Spec => []TxInv
<1>1. Init => TxInv
  BY InitInv
<1>2. TxInv /\ [Next]_vars => TxInv'
  BY NextKeeps
<1> QED
  BY <1>1, <1>2, PTL DEF Spec

\* The variables of the connection, its worker and the source stay in their
\* types; in particular no segment is longer than the largest MTU allows.
THEOREM TxTypeOK == Spec => []TypeOK
<1>1. TxInv => TypeOK
  BY DEF TxInv, TxTypes
<1> QED
  BY <1>1, TxReaches, PTL

\* No byte is lost between the remote's stream and the wire, until the FIN is
\* acknowledged or sent early: what append_cache drains the cache takes, and
\* what is acknowledged, cached and queued is what was forwarded.
THEOREM TxNothingLost == Spec => []NothingLost
<1>1. TxInv => NothingLost
  <2> SUFFICES ASSUME TxInv, fin_early = FALSE, cache_seq <= forwarded + 1 PROVE Accounted
    BY Flags, Zenon DEF NothingLost, TxInv
  <2>1. TxTypes /\ Handshake /\ Sending
    BY DEF TxInv, Ordered
  <2>2. /\ cache_seq \in Nat /\ cache_len \in Nat /\ queue \in Nat /\ forwarded \in Nat
        /\ QueueFirst \in Nat /\ QueueFirst + queue = forwarded + 1
        /\ (cache_syn = TRUE \/ cache_syn = FALSE)
    BY <2>1, Numbers, Flags
  <2>3. CASE cache_syn = TRUE
    <3>1. cache_seq = 0 /\ cache_len = 0 /\ queue = forwarded
      BY <2>1, <2>3 DEF Handshake
    <3>2. Max({cache_seq - 1, 0}) = 0
      BY <3>1, MaxOfTwo
    <3> QED
      BY <2>2, <3>1, <3>2 DEF Accounted
  <2>4. CASE cache_syn = FALSE
    <3>1. /\ 1 <= cache_seq /\ cache_seq <= src_next
          /\ src_next <= QueueFirst \/ (FinSent /\ src_next = QueueFirst + 1)
          /\ CacheEnd = QueueFirst \/ cache_seq = QueueFirst + 1
          /\ FinSent => queue = 0
      BY <2>1, <2>4 DEF Sending
    <3>2. CacheEnd = QueueFirst
      <4>1. ASSUME cache_seq = QueueFirst + 1 PROVE FALSE
        <5>1. src_next \in Nat
          BY <2>1, Numbers
        <5>2. FinSent
          BY <2>2, <3>1, <4>1, <5>1
        <5> QED
          BY <2>2, <3>1, <4>1, <5>2
      <4> QED
        BY <3>1, <4>1
    <3>3. Max({cache_seq - 1, 0}) = cache_seq - 1
      BY <2>2, <3>1, MaxOfTwo
    <3>4. (cache_seq - 1) + cache_len + queue = forwarded
      BY <2>2, <3>2 DEF CacheEnd
    <3> QED
      BY <3>3, <3>4 DEF Accounted
  <2> QED
    BY <2>2, <2>3, <2>4, Zenon
<1> QED
  BY <1>1, TxReaches, PTL

\* Every segment carries the bytes that belong at its sequence number, first
\* sent or retransmitted, until a FIN is sent early or pcap fails to send.
THEOREM TxPlacedRight == Spec => []PlacedRight
<1>1. TxInv => PlacedRight
  BY Flags DEF TxInv, Ordered, OnTheWay, Carries, PlacedRight
<1> QED
  BY <1>1, TxReaches, PTL

\* Until the remote closes, the sequence stays at the end of the cache, or
\* behind it when a send has failed.
THEOREM TxSequence == Spec => []SequenceAfterCache
<1>1. TxInv => SequenceAfterCache
  <2> SUFFICES ASSUME TxInv, reader = "open", cache_syn = FALSE
               PROVE  /\ sequence <= cache_seq + cache_len
                      /\ errors = 0 => sequence = cache_seq + cache_len
    BY Flags, Zenon DEF SequenceAfterCache, TxInv
  <2>1. TxTypes /\ Sending /\ ~FinSent
    BY DEF TxInv, Ordered, Opened, FinSent
  <2>2. cache_seq \in Nat /\ src_next \in Nat /\ QueueFirst \in Nat
    BY <2>1, Numbers
  <2>3. cache_seq # QueueFirst + 1
    BY <2>1, <2>2 DEF Sending
  <2> QED
    BY <2>1, <2>3 DEF Sending, CacheEnd
<1> QED
  BY <1>1, TxReaches, PTL

\* A FIN that is not early stands behind the last byte of the stream, until
\* pcap fails to send.
THEOREM TxFinEnds == Spec => []FinEndsStream
<1>1. TxInv => FinEndsStream
  <2> SUFFICES ASSUME TxInv, errors = 0, fin_early = FALSE, NEW p \in net, p.fin = TRUE
               PROVE  p.seq + p.len = forwarded + 1
    <3>1. TxInv => \A p \in net : p.fin \in BOOLEAN
      BY PacketEnds, Zenon DEF TxInv, TxTypes, TypeOK
    <3> QED
      BY <3>1, Flags, Zenon DEF FinEndsStream, TxInv
  <2>1. TxTypes /\ Handshake /\ Sending /\ Carries(p)
    BY DEF TxInv, Ordered, OnTheWay
  <2>2. cache_syn = FALSE /\ FinSent
    BY <2>1, Flags DEF Handshake, Carries
  <2>3. queue = 0 /\ p.seq + p.len = QueueFirst
    BY <2>1, <2>2 DEF Sending, Carries
  <2>4. forwarded \in Nat
    BY <2>1, Numbers
  <2> QED
    BY <2>3, <2>4 DEF QueueFirst
<1> QED
  BY <1>1, TxReaches, PTL

\* If acknowledgements keep their order, nothing is sent beyond what the source
\* has granted, until a FIN is sent early.
THEOREM TxWithinGrant == Spec /\ ReorderAcks = FALSE => []WithinGrant
<1> DEFINE GrantInv == TxInv /\ ReorderAcks = FALSE
<1>1. Init /\ ReorderAcks = FALSE => GrantInv
  BY InitInv
<1>2. GrantInv /\ [Next]_vars => GrantInv'
  BY NextKeeps
<1>3. GrantInv => WithinGrant
  <2> SUFFICES ASSUME TxInv, ReorderAcks = FALSE, fin_early = FALSE, NEW p \in net
               PROVE  p.seq + p.len <= granted
    BY Flags, Zenon DEF WithinGrant, TxInv
  <2>1. TxTypes /\ Handshake /\ InsideGrant /\ Carries(p) /\ p \in Packet
    BY DEF TxInv, TxTypes, TypeOK, Ordered, OnTheWay
  <2>2. cache_syn = FALSE
    BY <2>1, Flags DEF Handshake
  <2>3. QueueFirst <= granted /\ p.seq + p.len <= QueueFirst
    BY <2>1, <2>2 DEF InsideGrant, Carries
  <2>4. QueueFirst \in Nat /\ granted \in Nat
    BY <2>1, Numbers
  <2>5. p.seq \in Nat /\ p.len \in Nat
    BY <2>1, PacketEnds, Zenon
  <2> QED
    BY <2>3, <2>4, <2>5
<1> QED
  BY <1>1, <1>2, <1>3, PTL DEF Spec

\* The front of the cache and the sequence never go back, whatever overtakes.
THEOREM TxNeverBack == Spec => NeverBack
<1>1. Init => TxInv
  BY InitInv
<1>2. TxInv /\ [Next]_vars => TxInv'
  BY NextKeeps
<1>3. TxInv /\ [Next]_vars => [cache_seq' >= cache_seq /\ sequence' >= sequence]_vars
  BY NextMoves DEF TxInv, Moves
<1> QED
  BY <1>1, <1>2, <1>3, PTL DEF Spec, NeverBack
=============================================================================
