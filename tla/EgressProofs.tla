---------------------------- MODULE EgressProofs ----------------------------
(***************************************************************************)
(* What the Forwarder sends is well formed for every length of a datagram  *)
(* and a payload, every MTU that IPv4 allows and every sequence of calls,  *)
(* errors and changes of the MTU, and the source reads every TCP header as *)
(* it was meant.                                                           *)
(***************************************************************************)
EXTENDS Egress, NaturalsInduction, WellFoundedInduction, TLAPS

\* A packet with bytes from .. from + len - 1, the first n sent so far.
SentSoFar ==
    \A p \in wire : /\ p.from \in Nat /\ p.len \in Nat
                    /\ p.id \in 0 .. U16_MAX
                    /\ size > 0 => p.len > 0 /\ p.len <= mss /\ p.from + p.len <= n
                                   /\ p.total \in Nat

\* The packets join up to n, where the next one will begin.
JoinedSoFar ==
    /\ \A p \in wire : p.from + p.len = n \/ \E q \in wire : q.from = p.from + p.len
    /\ \A p \in wire : p.from = 0 \/ \E q \in wire : q.from + q.len = p.from
    /\ \A p, q \in wire : p # q => p.from + p.len <= q.from \/ q.from + q.len <= p.from
    /\ n > 0 => /\ \E p \in wire : p.from = 0
                /\ \E p \in wire : p.from + p.len = n

\* A datagram that does not fit one packet is cut at multiples of 8, and what
\* is left for the last fragment is at least 8 bytes.
CutRight ==
    /\ pc = "fragments" =>
        /\ tcp = {} /\ n < size /\ n % 8 = 0 /\ (n > 0 => size - n >= 8)
        /\ mss >= 48
        /\ \A p \in wire : p.id = identification /\ p.more
    /\ tcp = {} => /\ \A p, q \in wire : p.id = q.id
                   /\ \A p \in wire : /\ p.from % 8 = 0
                                      /\ p.more <=> p.from + p.len < size
                                      /\ p.from > 0 /\ ~p.more => p.len >= 8

\* Where the loops are.
Loops ==
    /\ pc = "raw" => tcp = {} /\ wire = {} /\ n = 0 /\ size > 0 /\ size <= mss
    /\ pc = "segments" => n < size /\ mss >= 28 /\ (wire = {} \/ tcp # {})
    /\ pc # "idle" => ~whole
    /\ whole => n = size
    /\ whole /\ tcp = {} => size > 0

\* mss leaves room for the headers in front of it.
Room ==
    /\ pc \in {"raw", "fragments"} => mss = Mtu - 20
    /\ pc = "segments" => mss = Mtu - 40
    /\ size > 0 => \A p \in wire : p.total <= Mtu

\* How long ago identification i was the next one, counting packets.
Ago(i) == IF i < identification THEN identification - i
          ELSE identification + U16_MAX + 1 - i

\* Identifications used are at most as far back as packets were numbered.
Recent ==
    /\ \A i \in ids : i \in 0 .. U16_MAX /\ Ago(i) <= packets
    /\ UsedUp \/ pc = "segments" => \A p \in wire : Ago(p.id) <= packets

EgressTypes ==
    /\ src_mtu \in {0} \cup 68 .. LOCAL_MTU
    /\ identification \in 0 .. U16_MAX
    /\ size \in Nat /\ n \in 0 .. size /\ mss \in Nat
    /\ pc \in {"idle", "raw", "fragments", "segments"}
    /\ packets \in Nat

EgressInv ==
    /\ EgressTypes /\ SentSoFar /\ (size > 0 => JoinedSoFar) /\ CutRight /\ Loops /\ Room
    /\ Recent /\ FreshIdentification

-----------------------------------------------------------------------------
\* A fragment that is not the last one ends at a multiple of 8 and leaves at
\* least 8 bytes, and the last one is all that is left.
LEMMA LengthFits ==
    ASSUME NEW left \in Nat, left > 0, mss \in Nat, mss >= 48
    PROVE  /\ Length(left) \in Nat /\ Length(left) > 0 /\ Length(left) <= mss
           /\ left <= mss => Length(left) = left
           /\ left > mss => Length(left) % 8 = 0 /\ left - Length(left) >= 8
<1>1. Aligned(mss) \in Nat /\ Aligned(mss) % 8 = 0 /\ Aligned(mss) <= mss /\ Aligned(mss) >= 48
  BY DEF Aligned
<1>2. CASE left <= mss
  BY <1>2 DEF Length
<1>3. CASE left > mss
  <2>1. left - Aligned(mss) \in Nat /\ left - Aligned(mss) > 0
    BY <1>1, <1>3
  <2>2. (Aligned(mss) - 8) % 8 = 0
    BY <1>1
  <2>3. Length(left) = IF left - Aligned(mss) < 8 THEN Aligned(mss) - 8 ELSE Aligned(mss)
    BY <1>3, <2>1 DEF Length
  <2>4. QED
    BY <1>1, <1>3, <2>1, <2>2, <2>3
<1>4. QED
  BY <1>2, <1>3

\* The identification after this one is in range, and every other one is now
\* one packet further back.
LEMMA Aging ==
    ASSUME identification \in 0 .. U16_MAX, Numbered, packets \in Nat, EgressAssumption
    PROVE  /\ identification' \in 0 .. U16_MAX
           /\ \A i \in 0 .. U16_MAX : i = identification => Ago(i)' = 1
           /\ \A i \in 0 .. U16_MAX : Ago(i) <= packets => Ago(i)' <= packets'
           /\ packets' <= U16_MAX =>
                \A i \in 0 .. U16_MAX : Ago(i) <= packets => i # identification
BY DEF Numbered, Increased, Ago, EgressAssumption

-----------------------------------------------------------------------------
(* Every step keeps the invariant. *)

\* The invariant holds initially.
LEMMA InitKeeps ==
    ASSUME Init, EgressAssumption
    PROVE  EgressInv
BY DEF Init, EgressInv, EgressTypes, SentSoFar, JoinedSoFar, CutRight, Loops, Room, Recent,
       UsedUp, FreshIdentification, EgressAssumption

\* What is remembered when a call begins was numbered recently.
LEMMA ForgetIds ==
    ASSUME EgressInv, NEW sz, NEW m, Forget(sz, m)
    PROVE  \A i \in ids' : i \in 0 .. U16_MAX /\ Ago(i) <= packets
BY DEF EgressInv, Recent, Forget, Remembered, SentSoFar

\* Changing the MTU and beginning a call keep the invariant.
LEMMA BeginKeeps ==
    ASSUME EgressInv, EgressAssumption,
           \/ \E m \in Mtus : SetSrcMtu(m)
           \/ \E sz \in Datagrams : SendUdp(sz)
           \/ \E sz \in Payloads : SendTcpAckRaw(sz)
    PROVE  EgressInv'
<1>1. CASE \E m \in Mtus : SetSrcMtu(m)
  <2>1. PICK m \in Mtus : SetSrcMtu(m)
    BY <1>1
  <2>2. EgressTypes'
    BY <2>1 DEF SetSrcMtu, Call, Forget, Lesser, EgressInv, EgressTypes, EgressAssumption
  <2>3. Recent' /\ FreshIdentification'
    BY <2>1, ForgetIds, Zenon DEF SetSrcMtu, Forget, Recent, UsedUp, FreshIdentification, Ago
  <2>4. SentSoFar' /\ JoinedSoFar' /\ CutRight' /\ Loops' /\ Room'
    BY <2>1 DEF SetSrcMtu, Call, Forget, SentSoFar, JoinedSoFar, CutRight, Loops, Room
  <2>5. QED
    BY <2>2, <2>3, <2>4 DEF EgressInv
<1>2. ASSUME NEW sz \in Nat, sz > 0, NEW m \in Nat, NEW where, Call, Begin(sz, m, where),
             \/ where = "raw" /\ m = Mtu - 20 /\ sz <= m
             \/ where = "fragments" /\ m = Mtu - 20 /\ m >= 48
             \/ where = "segments" /\ m = Mtu - 40 /\ m >= 28
      PROVE  EgressInv'
  <2>1. EgressTypes'
    BY <1>2 DEF Begin, Forget, EgressInv, EgressTypes
  <2>2. Recent' /\ FreshIdentification'
    BY <1>2, ForgetIds, Zenon DEF Begin, Forget, Recent, UsedUp, FreshIdentification, Ago
  <2>3. SentSoFar' /\ JoinedSoFar' /\ CutRight' /\ Loops' /\ Room'
    BY <1>2 DEF Begin, Forget, SentSoFar, JoinedSoFar, CutRight, Loops, Room, Mtu
  <2>4. QED
    BY <2>1, <2>2, <2>3 DEF EgressInv
<1>3. Mtu \in Nat /\ Mtu >= 68
  BY DEF EgressInv, EgressTypes, Mtu, EgressAssumption
<1>4. CASE \E sz \in Datagrams : SendUdp(sz)
  <2>1. PICK sz \in Datagrams : SendUdp(sz)
    BY <1>4
  <2>2. QED
    BY <1>2, <1>3, <2>1 DEF SendUdp, Ipv4MinimumLen, EgressAssumption
<1>5. CASE \E sz \in Payloads : SendTcpAckRaw(sz)
  <2>1. PICK sz \in Payloads : SendTcpAckRaw(sz)
    BY <1>5
  <2>2. QED
    BY <1>2, <1>3, <2>1 DEF SendTcpAckRaw, Ipv4MinimumLen, TcpMinimumLen, EgressAssumption
<1>6. QED
  BY <1>1, <1>4, <1>5

\* A packet without payload is one number, in a call of no size.
LEMMA HeaderKeeps ==
    ASSUME EgressInv, EgressAssumption, NEW header, SendHeader(header)
    PROVE  EgressInv'
<1> USE DEF SendHeader, Call, Packet
<1>1. identification \in 0 .. U16_MAX /\ packets \in Nat /\ Numbered
  BY DEF EgressInv, EgressTypes
<1>2. EgressTypes'
  BY <1>1, Aging DEF EgressInv, EgressTypes, Numbered
<1>3. SentSoFar' /\ CutRight' /\ Loops' /\ Room'
  BY <1>1 DEF SentSoFar, CutRight, Loops, Room
<1>4. \A i \in ids' : i \in 0 .. U16_MAX /\ Ago(i) <= packets
  BY DEF EgressInv, Recent, Remembered, SentSoFar
<1>5. Recent'
  BY <1>1, <1>4, Aging DEF Recent, Numbered
<1>6. FreshIdentification' /\ ~(size > 0)'
  BY <1>1, <1>4, Aging DEF FreshIdentification
<1>7. QED
  BY <1>2, <1>3, <1>5, <1>6 DEF EgressInv

\* So does a send that fails: the call is given up, nothing is forgotten.
LEMMA ErrorKeeps ==
    ASSUME EgressInv, SendError
    PROVE  EgressInv'
<1> USE DEF SendError
<1>1. EgressTypes' /\ SentSoFar' /\ (size > 0 => JoinedSoFar)'
  BY DEF EgressInv, EgressTypes, SentSoFar, JoinedSoFar
<1>2. CutRight'
  BY DEF EgressInv, CutRight
<1>3. Loops' /\ Room'
  BY DEF EgressInv, Loops, Room, Mtu
<1>4. Recent' /\ FreshIdentification'
  BY DEF EgressInv, Loops, Recent, UsedUp, FreshIdentification, Ago
<1>5. QED
  BY <1>1, <1>2, <1>3, <1>4 DEF EgressInv

\* So does a datagram in one packet.
LEMMA RawKeeps ==
    ASSUME EgressInv, EgressAssumption, SendUdpRaw
    PROVE  EgressInv'
<1> USE DEF SendUdpRaw, Packet
<1>1. /\ identification \in 0 .. U16_MAX /\ packets \in Nat /\ Numbered
      /\ size \in Nat /\ size > 0 /\ size <= mss /\ mss \in Nat /\ tcp = {}
  BY DEF EgressInv, EgressTypes, Loops
<1>2. EgressTypes'
  BY <1>1, Aging DEF EgressInv, EgressTypes, Numbered
<1>3. SentSoFar' /\ JoinedSoFar' /\ Loops'
  BY <1>1 DEF SentSoFar, JoinedSoFar, Loops, TotalLength, Ipv4MinimumLen
<1>4. CutRight'
  BY <1>1 DEF CutRight
<1>5. Room'
  BY <1>1 DEF EgressInv, EgressTypes, Room, Mtu, TotalLength, Ipv4MinimumLen, EgressAssumption
<1>6. Recent' /\ FreshIdentification'
  BY <1>1, Aging DEF EgressInv, Recent, FreshIdentification, Numbered
<1>7. QED
  BY <1>2, <1>3, <1>4, <1>5, <1>6 DEF EgressInv

\* A packet that begins where the others end joins them.
LEMMA JoinNext ==
    ASSUME EgressInv, size > 0, size' = size, mss' = mss, NEW p, wire' = wire \cup {p},
           p.from = n, p.len \in Nat, p.len > 0, p.len <= mss, n' = n + p.len,
           p.id \in 0 .. U16_MAX, p.total \in Nat
    PROVE  SentSoFar' /\ JoinedSoFar'
<1>1. n \in Nat /\ JoinedSoFar /\ SentSoFar
  BY DEF EgressInv, EgressTypes
<1>2. \A q \in wire : /\ q.from \in Nat /\ q.len \in Nat /\ q.len > 0 /\ q.len <= mss
                       /\ q.from + q.len <= n /\ q.id \in 0 .. U16_MAX /\ q.total \in Nat
  BY <1>1 DEF SentSoFar
<1>3. SentSoFar'
  BY <1>1, <1>2 DEF SentSoFar
<1>4. \A q \in wire' : q.from + q.len = n' \/ \E r \in wire' : r.from = q.from + q.len
  BY <1>1, <1>2 DEF JoinedSoFar
<1>5. \A q \in wire' : q.from = 0 \/ \E r \in wire' : r.from + r.len = q.from
  BY <1>1, <1>2 DEF JoinedSoFar
<1>6. \A q, r \in wire' : q # r => q.from + q.len <= r.from \/ r.from + r.len <= q.from
  BY <1>1, <1>2 DEF JoinedSoFar
<1>7. (\E q \in wire' : q.from = 0) /\ (\E q \in wire' : q.from + q.len = n')
  BY <1>1, <1>2 DEF JoinedSoFar
<1>8. QED
  BY <1>3, <1>4, <1>5, <1>6, <1>7 DEF JoinedSoFar

\* A header without options has no more than its fixed part.
LEMMA NoOptions == TcpLen(NewAck(<<>>)) = 20
BY DEF TcpLen, NewAck, TcpMinimumLen

\* A segment keeps the invariant.
LEMMA SegmentKeeps ==
    ASSUME EgressInv, EgressAssumption, Segment
    PROVE  EgressInv'
<1> DEFINE length == Lesser(mss, size - n)
           p == Packet(n, length, 20, FALSE)
<1>1. /\ identification \in 0 .. U16_MAX /\ packets \in Nat /\ size \in Nat /\ n \in Nat
      /\ n < size /\ mss \in Nat /\ mss >= 28 /\ Numbered
  BY DEF EgressInv, EgressTypes, Loops, Segment
<1>2. length \in Nat /\ length > 0 /\ length <= mss /\ n + length <= size
  BY <1>1 DEF Lesser
<1>3. /\ wire' = wire \cup {p} /\ tcp' # {} /\ n' = n + length
      /\ UNCHANGED <<src_mtu, size, mss, ids>>
  BY NoOptions, Zenon DEF Segment
<1>4. ~whole /\ pc = "segments"
  BY DEF EgressInv, Loops, Segment
<1>5. \/ n' < size /\ pc' = "segments" /\ ~whole'
      \/ ~(n' < size) /\ pc' = "idle" /\ whole'
  BY <1>4 DEF Segment
<1>6. /\ p.from = n /\ p.len = length /\ p.id = identification
      /\ p.total = 40 + length
  BY <1>1, <1>2 DEF Packet, TotalLength, Ipv4MinimumLen
<1> HIDE DEF length, p
<1>7. SentSoFar' /\ JoinedSoFar'
  BY <1>1, <1>2, <1>3, <1>6, JoinNext
<1>8. EgressTypes'
  BY <1>1, <1>2, <1>3, <1>5, Aging DEF EgressInv, EgressTypes, Numbered
<1>9. CutRight'
  BY <1>3, <1>5 DEF CutRight
<1>10. Loops'
  BY <1>1, <1>2, <1>3, <1>5 DEF EgressInv, Loops
<1>11. Room'
  <2>1. Mtu' = Mtu /\ mss = Mtu - 40 /\ Mtu \in Nat
    BY <1>3, <1>4 DEF EgressInv, EgressTypes, Room, Mtu, EgressAssumption
  <2>2. \A q \in wire : q.total <= Mtu
    BY <1>1 DEF EgressInv, Room
  <2>3. p.total <= Mtu
    BY <1>1, <1>2, <1>6, <2>1
  <2>4. QED
    BY <1>3, <1>5, <2>1, <2>2, <2>3 DEF Room
<1>12. Recent'
  <2>1. \A q \in wire : q.id \in 0 .. U16_MAX /\ Ago(q.id) <= packets
    BY <1>4 DEF EgressInv, Recent, SentSoFar
  <2>2. \A i \in ids : i \in 0 .. U16_MAX /\ Ago(i) <= packets
    BY DEF EgressInv, Recent
  <2>3. packets' \in Nat /\ packets' >= 1
    BY <1>1 DEF Numbered
  <2>4. QED
    BY <1>1, <1>3, <1>6, <2>1, <2>2, <2>3, Aging DEF Recent
<1>13. FreshIdentification'
  <2> SUFFICES ASSUME packets' <= U16_MAX
               PROVE  /\ \A q \in wire' : q.id \notin ids
                      /\ \A q, r \in wire' : q # r => q.id # r.id
    BY <1>3 DEF FreshIdentification
  <2>1. \A q \in wire : q.id # p.id
    <3>1. \A q \in wire : q.id \in 0 .. U16_MAX /\ Ago(q.id) <= packets
      BY <1>4 DEF EgressInv, Recent, SentSoFar
    <3> QED
      BY <1>1, <1>6, <3>1, Aging
  <2>2. p.id \notin ids
    BY <1>1, <1>6, Aging DEF EgressInv, Recent
  <2>3. (wire = {} \/ tcp # {}) /\ (tcp # {} => UsedUp)
    BY <1>4, Zenon DEF EgressInv, Loops, UsedUp
  <2>4. packets <= U16_MAX
    BY <1>1, EgressAssumption DEF Numbered, EgressAssumption
  <2>5. /\ \A q \in wire : q.id \notin ids
        /\ \A q, r \in wire : q # r => q.id # r.id
    BY <2>3, <2>4 DEF EgressInv, FreshIdentification
  <2> QED
    BY <1>3, <2>1, <2>2, <2>5
<1>14. QED
  BY <1>7, <1>8, <1>9, <1>10, <1>11, <1>12, <1>13 DEF EgressInv

\* A fragment keeps the invariant, be it the last one or not.
LEMMA FragmentKeeps ==
    ASSUME EgressInv, EgressAssumption, Fragment
    PROVE  EgressInv'
<1> DEFINE length == Length(size - n)
           more == size - n > mss
           p == Packet(n, length, 0, more)
<1>1. /\ identification \in 0 .. U16_MAX /\ packets \in Nat /\ size \in Nat /\ n \in Nat
      /\ n < size /\ mss \in Nat /\ mss >= 48 /\ n % 8 = 0 /\ (n > 0 => size - n >= 8)
      /\ pc = "fragments" /\ tcp = {} /\ ~whole
  BY DEF EgressInv, EgressTypes, CutRight, Loops, Fragment
<1>2. /\ length \in Nat /\ length > 0 /\ length <= mss
      /\ ~more => length = size - n
      /\ more => length % 8 = 0 /\ size - (n + length) >= 8
  BY <1>1, LengthFits
<1>3. /\ wire' = wire \cup {p} /\ n' = n + length
      /\ UNCHANGED <<src_mtu, size, mss, tcp, ids>>
      /\ more => UNCHANGED <<identification, packets>> /\ pc' = "fragments" /\ ~whole'
      /\ ~more => Numbered /\ pc' = "idle" /\ whole'
  BY <1>1 DEF Fragment
<1>4. /\ p.from = n /\ p.len = length /\ p.id = identification
      /\ p.total = 20 + length
  BY <1>1, <1>2 DEF Packet, TotalLength, Ipv4MinimumLen
<1>5. p.more <=> more
  BY Zenon DEF Packet
<1> HIDE DEF length, p
<1>6. SentSoFar' /\ JoinedSoFar'
  BY <1>1, <1>2, <1>3, <1>4, JoinNext
<1>7. EgressTypes'
  BY <1>1, <1>2, <1>3, Aging DEF EgressInv, EgressTypes, Numbered
<1>8. CutRight'
  <2>1. \A q \in wire : /\ q.id = identification /\ q.more /\ q.from % 8 = 0
                         /\ q.from + q.len < size
    BY <1>1 DEF EgressInv, CutRight
  <2>2. p.more <=> p.from + p.len < size
    BY <1>1, <1>2, <1>4, <1>5
  <2>3. p.from > 0 /\ ~p.more => p.len >= 8
    BY <1>1, <1>2, <1>4, <1>5
  <2>4. more => n' < size /\ n' % 8 = 0 /\ size - n' >= 8
    BY <1>1, <1>2, <1>3
  <2>5. QED
    BY <1>1, <1>3, <1>4, <1>5, <2>1, <2>2, <2>3, <2>4 DEF CutRight
<1>9. Loops'
  BY <1>1, <1>2, <1>3 DEF EgressInv, Loops
<1>10. Room'
  <2>1. Mtu' = Mtu /\ mss = Mtu - 20 /\ Mtu \in Nat
    BY <1>1, <1>3 DEF EgressInv, EgressTypes, Room, Mtu, EgressAssumption
  <2>2. \A q \in wire : q.total <= Mtu
    BY <1>1 DEF EgressInv, Room
  <2>3. p.total <= Mtu
    BY <1>1, <1>2, <1>4, <2>1
  <2>4. QED
    BY <1>3, <2>1, <2>2, <2>3 DEF Room
<1>11. Recent' /\ FreshIdentification'
  <2>1. \A q \in wire' : q.id = identification
    BY <1>1, <1>3, <1>4 DEF EgressInv, CutRight
  <2>2. \A i \in ids : i \in 0 .. U16_MAX /\ Ago(i) <= packets
    BY DEF EgressInv, Recent
  <2>3. CASE more
    BY <1>1, <1>3, <2>2, <2>3 DEF Recent, UsedUp, FreshIdentification, Ago
  <2>4. CASE ~more
    <3>1. packets' \in Nat /\ packets' >= 1
      BY <1>1, <1>3, <2>4 DEF Numbered
    <3>2. QED
      BY <1>1, <1>3, <2>1, <2>2, <2>4, <3>1, Aging DEF Recent, UsedUp, FreshIdentification
  <2>5. QED
    BY <2>3, <2>4
<1>12. QED
  BY <1>6, <1>7, <1>8, <1>9, <1>10, <1>11 DEF EgressInv

-----------------------------------------------------------------------------
\* The invariant holds for datagrams and payloads of every length, every MTU
\* from 68 on and every sequence of calls, failing sends and MTU changes.
LEMMA EgressReaches == Spec => []EgressInv
<1>1. Init => EgressInv
  BY InitKeeps, EgressAssumption
<1>2. EgressInv /\ [Next]_vars => EgressInv'
  <2> SUFFICES ASSUME EgressInv, [Next]_vars
               PROVE  EgressInv'
    OBVIOUS
  <2>1. CASE UNCHANGED vars
    <3>1. EgressTypes' /\ SentSoFar' /\ (size > 0 => JoinedSoFar)'
      BY <2>1 DEF vars, EgressInv, EgressTypes, SentSoFar, JoinedSoFar
    <3>2. CutRight' /\ Loops'
      BY <2>1 DEF vars, EgressInv, CutRight, Loops
    <3>3. Room' /\ Recent' /\ FreshIdentification'
      BY <2>1 DEF vars, EgressInv, Room, Mtu, Recent, Ago, UsedUp, FreshIdentification
    <3> QED
      BY <3>1, <3>2, <3>3, Zenon DEF EgressInv
  <2>2. ASSUME NEW count \in 0 .. MaxSacks, SendTcpAck0(count)
        PROVE  EgressInv'
    BY <2>2, HeaderKeeps, EgressAssumption DEF SendTcpAck0
  <2>3. ASSUME NEW wscale, NEW perm, SendTcpAckSyn(wscale, perm)
        PROVE  EgressInv'
    BY <2>3, HeaderKeeps, EgressAssumption DEF SendTcpAckSyn
  <2>4. QED
    BY <2>1, <2>2, <2>3, BeginKeeps, ErrorKeeps, RawKeeps, SegmentKeeps, FragmentKeeps,
       EgressAssumption DEF Next
<1>3. QED
  BY <1>1, <1>2, PTL DEF Spec

\* The fragments of a datagram can be put together again.
THEOREM EgressReassemblable == Spec => []Reassemblable
<1>1. EgressInv => Reassemblable
  <2> SUFFICES ASSUME EgressInv
               PROVE  Reassemblable
    OBVIOUS
  <2>1. whole /\ size > 0 => Joined
    BY DEF EgressInv, EgressTypes, Loops, JoinedSoFar, Joined
  <2>2. QED
    BY <2>1 DEF EgressInv, Loops, CutRight, Reassemblable
<1>2. QED
  BY <1>1, EgressReaches, PTL

\* Everything with a payload fits the MTU the source reported last, and the
\* segments of a TCP payload join.
THEOREM EgressFitsSource == Spec => []FitsSource
<1>1. EgressInv => FitsSource
  <2> SUFFICES ASSUME EgressInv
               PROVE  FitsSource
    OBVIOUS
  <2>1. whole /\ size > 0 => Joined
    BY DEF EgressInv, EgressTypes, Loops, JoinedSoFar, Joined
  <2>2. QED
    BY <2>1, EgressAssumption DEF EgressInv, EgressTypes, SentSoFar, Room, Mtu, FitsSource
<1>2. QED
  BY <1>1, EgressReaches, PTL

\* The last fragment of a datagram is not too short.
THEOREM EgressLastFragment == Spec => []LastFragmentFilled
<1>1. EgressInv => LastFragmentFilled
  BY DEF EgressInv, CutRight, LastFragmentFilled
<1>2. QED
  BY <1>1, EgressReaches, PTL

\* No two datagrams or TCP packets share an identification before it has gone
\* round.
THEOREM EgressFreshIdentification == Spec => []FreshIdentification
<1>1. EgressInv => FreshIdentification
  BY DEF EgressInv
<1>2. QED
  BY <1>1, EgressReaches, PTL

-----------------------------------------------------------------------------
(* Sets of naturals and steps repeated *)

\* A set of naturals has a least element.
LEMMA LeastExists ==
    ASSUME NEW S \in SUBSET Nat, S # {}
    PROVE  \E x \in S : \A y \in S : x <= y
<1> DEFINE R == {ss \in Nat \X Nat : ss[1] < ss[2]}
<1>1. IsWellFoundedOn(R, Nat)
  BY NatLessThanWellFounded, Zenon DEF OpToRel
<1>2. PICK x \in S : \A y \in S : ~(<<y, x>> \in R)
  <2> HIDE DEF R
  <2> QED
    BY <1>1, WFMin, Zenon
<1>3. ASSUME NEW y \in S PROVE x <= y
  <2>1. y \in Nat /\ x \in Nat
    OBVIOUS
  <2>2. ~(<<y, x>> \in R)
    BY <1>2
  <2> QED
    BY <2>1, <2>2
<1> QED
  BY <1>3

\* The least element of a set is in it.
LEMMA MinIs ==
    ASSUME NEW S \in SUBSET Nat, S # {}
    PROVE  Min(S) \in S /\ \A y \in S : Min(S) <= y
  BY LeastExists, Zenon DEF Min

\* What holds of 0, and of k if it holds of k - 1, holds up to m.
LEMMA Counted ==
    ASSUME NEW m \in Nat, NEW G, 0 \in G, \A k \in 1 .. m : k - 1 \in G => k \in G
    PROVE  \A k \in 0 .. m : k \in G
<1> DEFINE Bad == {k \in 0 .. m : k \notin G}
<1>1. CASE Bad # {}
  <2>1. Bad \in SUBSET Nat
    OBVIOUS
  <2>2. PICK k \in Bad : \A j \in Bad : k <= j
    <3> HIDE DEF Bad
    <3> QED
      BY <1>1, <2>1, LeastExists
  <2>3. k \in 1 .. m /\ k \notin G
    BY <2>2
  <2>4. k - 1 \in 0 .. m /\ k - 1 \notin Bad
    BY <2>2, <2>3
  <2> QED
    BY <2>3, <2>4
<1> QED
  BY <1>1

\* f is b with the step taken again and again, m times, within D.
IsStep(step, m, D) == step \in [(1 .. m) \X D -> D]
IsRun(f, step, b, m, D) ==
    /\ f \in [0 .. m -> D]
    /\ f[0] = b
    /\ \A i \in 1 .. m : f[i] = step[<<i, f[i - 1]>>]

\* A step can be taken m times, one after the other.
LEMMA Repeated ==
    ASSUME NEW D, NEW b \in D, NEW m \in Nat, NEW step, IsStep(step, m, D)
    PROVE  \E f : IsRun(f, step, b, m, D)
<1> USE DEF IsStep
<1> DEFINE Upto(k) == \E f \in [0 .. k -> D] :
                          /\ f[0] = b
                          /\ \A i \in 1 .. k : f[i] = step[<<i, f[i - 1]>>]
<1>1. Upto(0)
  <2> DEFINE f == [i \in 0 .. 0 |-> b]
  <2>1. f \in [0 .. 0 -> D] /\ f[0] = b /\ \A i \in 1 .. 0 : f[i] = step[<<i, f[i - 1]>>]
    OBVIOUS
  <2> QED
    BY <2>1, Zenon
<1>2. ASSUME NEW k \in 1 .. m, Upto(k - 1)
      PROVE  Upto(k)
  <2>1. PICK f \in [0 .. k - 1 -> D] : /\ f[0] = b
                                       /\ \A i \in 1 .. k - 1 : f[i] = step[<<i, f[i - 1]>>]
    BY <1>2
  <2> DEFINE g == [i \in 0 .. k |-> IF i < k THEN f[i] ELSE step[<<k, f[k - 1]>>]]
  <2>2. f[k - 1] \in D
    BY <2>1
  <2>3. step[<<k, f[k - 1]>>] \in D
    BY <2>2
  <2>4. \A i \in 0 .. k : i < k => f[i] \in D
    BY <2>1
  <2>5. g \in [0 .. k -> D]
    BY <2>3, <2>4
  <2>6. g[0] = b
    BY <2>1
  <2>7. ASSUME NEW i \in 1 .. k PROVE g[i] = step[<<i, g[i - 1]>>]
    <3>1. i - 1 \in 0 .. k /\ i - 1 < k /\ i \in 0 .. k
      OBVIOUS
    <3>2. g[i - 1] = f[i - 1]
      BY <3>1
    <3>3. CASE i < k
      <4>1. g[i] = f[i] /\ i \in 1 .. k - 1
        BY <3>1, <3>3
      <4> QED
        BY <2>1, <3>2, <4>1
    <3>4. CASE i = k
      BY <3>1, <3>2, <3>4
    <3> QED
      BY <3>3, <3>4
  <2> HIDE DEF g
  <2> QED
    BY <2>5, <2>6, <2>7
<1> HIDE DEF Upto
<1> DEFINE G == {k \in 0 .. m : Upto(k)}
<1>3. 0 \in G /\ \A k \in 1 .. m : k - 1 \in G => k \in G
  BY <1>1, <1>2
<1>4. m \in G
  <2>1. m \in 0 .. m
    OBVIOUS
  <2> HIDE DEF G
  <2> QED
    BY <1>3, <2>1, Counted, Zenon
<1> QED
  BY <1>4 DEF Upto, IsRun

-----------------------------------------------------------------------------
(* Frames: TCP headers and their options *)

\* The sums that TcpLen adds up, and an option in a list.
Adds(f, options) == f[0] = 20 /\ \A i \in 1 .. Len(options) : f[i] = f[i - 1] + options[i].len
Listed(options, kind, v) ==
    \E i \in 1 .. Len(options) : options[i].kind = kind /\ v = options[i].value
Measured(options) ==
    /\ options # <<>> /\ Len(options) \in Nat
    /\ \A i \in 1 .. Len(options) : options[i].len \in Int

Totals(options, total) == \A f : Adds(f, options) => f[Len(options)] = total

\* TcpLen adds up the lengths of the options: the recursion has a solution.
LEMMA TcpLenIs ==
    ASSUME NEW header, NEW options, header.options = options, Measured(options)
    PROVE  \E f : Adds(f, options) /\ TcpLen(header) = f[Len(options)]
<1> DEFINE upto[i \in 0 .. Len(options)] == IF i = 0 THEN 20 ELSE upto[i - 1] + options[i].len
           Is(f) == f = [i \in 0 .. Len(options) |->
                            IF i = 0 THEN 20 ELSE f[i - 1] + options[i].len]
<1>0. PICK m \in Nat : m = Len(options) /\ \A i \in 1 .. m : options[i].len \in Int
  BY DEF Measured
<1> DEFINE step == [x \in (1 .. m) \X Int |-> x[2] + options[x[1]].len]
<1>1. TcpLen(header) = upto[Len(options)]
  BY Zenon DEF TcpLen, TcpMinimumLen, Measured
<1>2. \E f : Is(f)
  <2>1. step \in [(1 .. m) \X Int -> Int]
    BY <1>0
  <2>2. PICK f \in [0 .. m -> Int] :
            f[0] = 20 /\ \A i \in 1 .. m : f[i] = step[<<i, f[i - 1]>>]
    <3>1. PICK D, b, s : D = Int /\ b = 20 /\ s = step
      BY Zenon
    <3> HIDE DEF step
    <3>2. b \in D /\ IsStep(s, m, D)
      BY <2>1, <3>1 DEF IsStep
    <3>3. \E f : IsRun(f, s, b, m, D)
      BY <3>2, Repeated
    <3> QED
      BY <3>1, <3>3 DEF IsRun
  <2>3. ASSUME NEW i \in 1 .. m PROVE f[i] = f[i - 1] + options[i].len
    <3>1. f[i - 1] \in Int
      BY <2>2
    <3>2. <<i, f[i - 1]>> \in (1 .. m) \X Int
      BY <3>1
    <3> QED
      BY <2>2, <3>2, Zenon
  <2>4. f = [i \in 0 .. m |-> IF i = 0 THEN 20 ELSE f[i - 1] + options[i].len]
    BY <2>2, <2>3
  <2> QED
    BY <1>0, <2>4
<1>3. upto = CHOOSE f : Is(f)
  OBVIOUS
<1> HIDE DEF Is, upto
<1>4. Is(upto)
  BY <1>2, <1>3
<1>5. upto = [i \in 0 .. m |-> IF i = 0 THEN 20 ELSE upto[i - 1] + options[i].len]
  BY <1>0, <1>4 DEF Is
<1>6. upto[0] = 20 /\ \A i \in 1 .. m : upto[i] = upto[i - 1] + options[i].len
  BY <1>5
<1> WITNESS upto
<1> QED
  BY <1>0, <1>1, <1>6 DEF Adds

\* What is found in a list of options is the value of one of them.
LEMMA FoundIs ==
    ASSUME NEW options, Len(options) \in Nat, NEW kind, NEW v \in Found(options, kind)
    PROVE  Listed(options, kind, v)
<1> DEFINE I == {i \in 1 .. Len(options) : options[i].kind = kind}
           at == IF I # {} THEN Min(I) ELSE 0
<1>1. v \in IF at = 0 THEN {} ELSE {options[at].value}
  BY Zenon DEF Found, SelectInSeq
<1>2. I # {} => Min(I) \in I
  <2>1. I \in SUBSET Nat
    OBVIOUS
  <2> HIDE DEF I
  <2> QED
    BY <2>1, MinIs
<1>3. at # 0 /\ v = options[at].value
  <2> HIDE DEF at
  <2> QED
    BY <1>1
<1>4. at \in I
  BY <1>2, <1>3
<1> HIDE DEF at
<1> QED
  BY <1>3, <1>4 DEF Listed

\* The header that a constructor has counted as it is long, with at most ten
\* words of options, a list of at most four SACK blocks and our own MSS.
HeaderRight(t) ==
    /\ TcpLen(t) = 4 * t.data_offset /\ t.data_offset \in 5 .. 15
    /\ \A v \in Found(t.options, "sack") : Len(v) \in 1 .. 4
    /\ \A v \in Found(t.options, "mss") : v = OwnMss

\* A header is right if its constructor counts the lengths of its options and
\* they are as they should be.
LEMMA RightFrom ==
    ASSUME NEW t, NEW options, t.options = options, Measured(options),
           NEW k \in 5 .. 15, t.data_offset = k,
           Totals(options, 4 * k),
           \A v : Listed(options, "sack", v) => Len(v) \in 1 .. 4,
           \A v : Listed(options, "mss", v) => v = OwnMss
    PROVE  HeaderRight(t)
<1>1. PICK f : Adds(f, options) /\ TcpLen(t) = f[Len(options)]
  BY TcpLenIs, Zenon
<1>2. Len(options) \in Nat
  BY DEF Measured
<1>3. TcpLen(t) = 4 * k
  BY <1>1 DEF Totals
<1> QED
  BY <1>2, <1>3, FoundIs DEF HeaderRight

\* A header without options is right.
LEMMA PlainRight == HeaderRight(NewAck(<<>>))
<1>1. PICK t : t = [data_offset |-> 5, options |-> <<>>]
  BY Zenon
<1>2. NewAck(<<>>) = t
  BY <1>1 DEF NewAck
<1>3. TcpLen(t) = 20
  BY <1>1 DEF TcpLen, TcpMinimumLen
<1>4. t.options = <<>> /\ Len(t.options) = 0 /\ t.data_offset = 5
  BY <1>1
<1>5. ASSUME NEW kind, NEW v \in Found(t.options, kind) PROVE FALSE
  <2>1. Listed(t.options, kind, v)
    BY <1>4, <1>5, FoundIs
  <2> QED
    BY <1>4, <2>1 DEF Listed
<1> QED
  BY <1>2, <1>3, <1>4, <1>5 DEF HeaderRight

\* So is that of Tcp::new_ack, for every number of SACK blocks: it takes four.
LEMMA NewAckRight ==
    ASSUME NEW count \in Nat
    PROVE  HeaderRight(NewAck([i \in 1 .. count |-> i]))
<1>1. PICK sacks : sacks = [i \in 1 .. count |-> i]
  BY Zenon
<1>2. sacks \in Seq(Nat) /\ Len(sacks) = count
  BY <1>1
<1>3. CASE count = 0
  <2>1. sacks = <<>>
    BY <1>2, <1>3
  <2> QED
    BY <1>1, <2>1, PlainRight
<1>4. CASE count > 0
  <2>1. PICK k, blocks : k = Lesser(4, Len(sacks)) /\ blocks = SubSeq(sacks, 1, k)
    BY Zenon
  <2>2. k \in 1 .. 4 /\ k <= count
    BY <1>2, <1>4, <2>1 DEF Lesser
  <2>3. blocks = [i \in 1 .. k |-> sacks[i]]
    BY <1>2, <2>1, <2>2
  <2>4. Len(blocks) = k
    BY <2>2, <2>3
  <2>5. sacks # <<>>
    BY <1>2, <1>4
  <2>6. PICK options : options = <<Nop, Nop, SelectiveAck(blocks)>>
    BY Zenon
  <2>7. PICK t : t = NewAck(sacks)
    OBVIOUS
  <2>8. t = [data_offset |-> 5 + 1 + 2 * k, options |-> options]
    BY <2>1, <2>5, <2>6, <2>7 DEF NewAck
  <2>9. /\ Len(options) = 3 /\ options # <<>>
        /\ options[1].len = 1 /\ options[2].len = 1 /\ options[3].len = 2 + 8 * k
        /\ options[1].kind = "nop" /\ options[2].kind = "nop" /\ options[3].kind = "sack"
        /\ options[3].value = blocks
    BY <2>4, <2>6 DEF Nop, SelectiveAck
  <2>10. t.options = options /\ t.data_offset = 6 + 2 * k
    BY <2>2, <2>8
  <2>11. Measured(options)
    BY <2>2, <2>9 DEF Measured
  <2>12. Totals(options, 4 * (6 + 2 * k))
    <3> SUFFICES ASSUME NEW f, Adds(f, options) PROVE f[Len(options)] = 4 * (6 + 2 * k)
      BY DEF Totals
    <3>1. f[0] = 20 /\ f[1] = f[0] + 1 /\ f[2] = f[1] + 1 /\ f[3] = f[2] + (2 + 8 * k)
      BY <2>9 DEF Adds
    <3> QED
      BY <2>2, <2>9, <3>1
  <2>13. ASSUME NEW v, Listed(options, "sack", v) PROVE Len(v) \in 1 .. 4
    <3>1. v = blocks
      BY <2>9, <2>13 DEF Listed
    <3> QED
      BY <2>2, <2>4, <3>1
  <2>14. ASSUME NEW v, Listed(options, "mss", v) PROVE FALSE
    BY <2>9, <2>14 DEF Listed
  <2>15. 6 + 2 * k \in 5 .. 15
    BY <2>2
  <2>16. HeaderRight(t)
    BY <2>10, <2>11, <2>12, <2>13, <2>14, <2>15, RightFrom
  <2> QED
    BY <1>1, <2>7, <2>16
<1> QED
  BY <1>3, <1>4

\* So is that of Tcp::new_ack_syn, with and without its two other options.
LEMMA NewAckSynRight ==
    ASSUME NEW wscale \in {{}, {7}}, NEW perm \in BOOLEAN, EgressAssumption
    PROVE  HeaderRight(NewAckSyn(OwnMss, wscale, perm))
<1>1. PICK own : own = OwnMss
  OBVIOUS
<1>3. PICK t : t = NewAckSyn(own, wscale, perm)
  OBVIOUS
<1> SUFFICES HeaderRight(t)
  BY <1>1, <1>3
<1>4. PICK m, o, w, p : /\ m = MssOption(own) /\ o = Nop /\ p = SackPermOption
                        /\ w = WscaleOption(CHOOSE v \in wscale : TRUE)
  BY Zenon
<1>5. /\ m.kind = "mss" /\ m.len = 4 /\ m.value = own
      /\ o.kind = "nop" /\ o.len = 1 /\ w.kind = "wscale" /\ w.len = 3
      /\ p.kind = "sack_perm" /\ p.len = 2
  BY <1>4 DEF MssOption, Nop, WscaleOption, SackPermOption
<1> DEFINE Ours(options) == /\ Len(options) \in Nat /\ options # <<>>
                            /\ \A i \in 1 .. Len(options) : options[i] \in {m, o, w, p}
<1>6. ASSUME NEW options, Ours(options), t.options = options,
             NEW k \in 5 .. 15, t.data_offset = k, Totals(options, 4 * k)
      PROVE  HeaderRight(t)
  <2>1. Measured(options)
    BY <1>5, <1>6 DEF Measured
  <2>2. ASSUME NEW v, Listed(options, "sack", v) PROVE FALSE
    BY <1>5, <1>6, <2>2 DEF Listed
  <2>3. ASSUME NEW v, Listed(options, "mss", v) PROVE v = OwnMss
    <3>1. v = own
      BY <1>5, <1>6, <2>3 DEF Listed
    <3> QED
      BY <1>1, <3>1
  <2> QED
    BY <1>6, <2>1, <2>2, <2>3, RightFrom
<1> HIDE DEF Ours
<1>7. CASE wscale = {} /\ ~perm
  <2>1. PICK options, k : options = <<m>> /\ k = 6
    BY Zenon
  <2>2. options = <<m>> \o <<>> \o <<>>
    BY <2>1
  <2>3. wscale = {} /\ <<o, w>> # <<>> /\ <<o, o, p>> # <<>>
    BY <1>7
  <2>4. t = [data_offset |-> 5 + 1 + 0 + 0, options |-> options]
    BY <1>3, <1>4, <1>7, <2>2, <2>3 DEF NewAckSyn
  <2>5. t.options = options /\ t.data_offset = k /\ k \in 5 .. 15
    BY <2>1, <2>4
  <2>6. /\ Len(options) = 1 /\ options # <<>>
        /\ options[1] = m
    BY <2>1
  <2>7. Totals(options, 4 * k)
    BY <1>5, <2>1, <2>6 DEF Adds, Totals
  <2>8. Ours(options)
    BY <2>6 DEF Ours
  <2> QED
    BY <1>6, <2>5, <2>7, <2>8
<1>8. CASE wscale = {7} /\ ~perm
  <2>1. PICK options, k : options = <<m, o, w>> /\ k = 7
    BY Zenon
  <2>2. options = <<m>> \o <<o, w>> \o <<>>
    BY <2>1
  <2>3. wscale # {} /\ <<o, w>> # <<>> /\ <<o, o, p>> # <<>>
    BY <1>8
  <2>4. t = [data_offset |-> 5 + 1 + 1 + 0, options |-> options]
    BY <1>3, <1>4, <1>8, <2>2, <2>3, Zenon DEF NewAckSyn
  <2>5. t.options = options /\ t.data_offset = k /\ k \in 5 .. 15
    BY <2>1, <2>4
  <2>6. /\ Len(options) = 3 /\ options # <<>>
        /\ options[1] = m /\ options[2] = o /\ options[3] = w
    BY <2>1
  <2>7. Totals(options, 4 * k)
    BY <1>5, <2>1, <2>6 DEF Adds, Totals
  <2>8. Ours(options)
    BY <2>6 DEF Ours
  <2> QED
    BY <1>6, <2>5, <2>7, <2>8
<1>9. CASE wscale = {} /\ perm
  <2>1. PICK options, k : options = <<m, o, o, p>> /\ k = 7
    BY Zenon
  <2>2. options = <<m>> \o <<>> \o <<o, o, p>>
    BY <2>1
  <2>3. wscale = {} /\ <<o, w>> # <<>> /\ <<o, o, p>> # <<>>
    BY <1>9
  <2>4. t = [data_offset |-> 5 + 1 + 0 + 1, options |-> options]
    BY <1>3, <1>4, <1>9, <2>2, <2>3 DEF NewAckSyn
  <2>5. t.options = options /\ t.data_offset = k /\ k \in 5 .. 15
    BY <2>1, <2>4
  <2>6. /\ Len(options) = 4 /\ options # <<>>
        /\ options[1] = m /\ options[2] = o /\ options[3] = o /\ options[4] = p
    BY <2>1
  <2>7. Totals(options, 4 * k)
    BY <1>5, <2>1, <2>6 DEF Adds, Totals
  <2>8. Ours(options)
    BY <2>6 DEF Ours
  <2> QED
    BY <1>6, <2>5, <2>7, <2>8
<1>10. CASE wscale = {7} /\ perm
  <2>1. PICK options, k : options = <<m, o, w, o, o, p>> /\ k = 8
    BY Zenon
  <2>2. options = <<m>> \o <<o, w>> \o <<o, o, p>>
    BY <2>1
  <2>3. wscale # {} /\ <<o, w>> # <<>> /\ <<o, o, p>> # <<>>
    BY <1>10
  <2>4. t = [data_offset |-> 5 + 1 + 1 + 1, options |-> options]
    BY <1>3, <1>4, <1>10, <2>2, <2>3, Zenon DEF NewAckSyn
  <2>5. t.options = options /\ t.data_offset = k /\ k \in 5 .. 15
    BY <2>1, <2>4
  <2>6. /\ Len(options) = 6 /\ options # <<>>
        /\ options[1] = m /\ options[2] = o /\ options[3] = w
        /\ options[4] = o /\ options[5] = o /\ options[6] = p
    BY <2>1
  <2>7. Totals(options, 4 * k)
    BY <1>5, <2>1, <2>6 DEF Adds, Totals
  <2>8. Ours(options)
    BY <2>6 DEF Ours
  <2> QED
    BY <1>6, <2>5, <2>7, <2>8
<1> QED
  BY <1>7, <1>8, <1>9, <1>10

-----------------------------------------------------------------------------
(* Egress: every header sent is right *)

\* The header sent is right, every packet of the call is as long as it and its
\* payload, and all segments of a payload have the same one.
HeadersInv ==
    /\ \A t \in tcp : /\ HeaderRight(t)
                      /\ \A p \in wire : p.len \in Nat /\ p.total = 20 + (TcpLen(t) + p.len)
    /\ pc = "segments" => \/ tcp = {} /\ wire = {}
                          \/ tcp = {NewAck(<<>>)}

\* A segment has the header of the segments before it.
LEMMA SegmentHeaders ==
    ASSUME EgressInv, HeadersInv, Segment
    PROVE  HeadersInv'
<1> DEFINE length == Lesser(mss, size - n)
<1>1. PICK ack, p : ack = NewAck(<<>>) /\ p = Packet(n, length, 20, FALSE)
  BY Zenon
<1>2. HeaderRight(ack) /\ TcpLen(ack) = 20
  BY <1>1, PlainRight, NoOptions
<1>3. wire' = wire \cup {p} /\ tcp' = {ack}
  BY <1>1, NoOptions, Zenon DEF Segment
<1>4. length \in Nat
  BY DEF EgressInv, EgressTypes, Loops, Segment, Lesser
<1>5. p.len \in Nat /\ p.total = 20 + (20 + p.len)
  <2> HIDE DEF length
  <2> QED
    BY <1>1, <1>4 DEF Packet, TotalLength, Ipv4MinimumLen
<1>6. \A q \in wire : q.len \in Nat /\ q.total = 20 + (TcpLen(ack) + q.len)
  BY <1>1 DEF HeadersInv, Segment
<1>7. \A q \in wire' : q.len \in Nat /\ q.total = 20 + (TcpLen(ack) + q.len)
  BY <1>2, <1>3, <1>5, <1>6
<1>8. HeaderRight(ack)'
  BY <1>2 DEF HeaderRight
<1> QED
  BY <1>1, <1>3, <1>7, <1>8, Zenon DEF HeadersInv

\* A packet without payload has the header it is sent for.
LEMMA HeaderHeaders ==
    ASSUME NEW header, HeaderRight(header), SendHeader(header)
    PROVE  HeadersInv'
<1>1. PICK p : p = Packet(0, 0, TcpLen(header), FALSE)
  BY Zenon
<1>2. wire' = {p} /\ tcp' = {header} /\ pc' = "idle"
  BY <1>1 DEF SendHeader, Call
<1>3. TcpLen(header) \in Nat
  BY DEF HeaderRight
<1>4. p.len = 0 /\ p.total = 20 + (TcpLen(header) + 0)
  BY <1>1, <1>3 DEF Packet, TotalLength, Ipv4MinimumLen
<1> QED
  BY <1>2, <1>3, <1>4 DEF HeadersInv

\* Every step keeps the headers right.
LEMMA HeadersKept ==
    ASSUME EgressInv, HeadersInv, [Next]_vars
    PROVE  HeadersInv'
<1>1. CASE UNCHANGED <<tcp, wire, pc>>
  BY <1>1, Zenon DEF HeadersInv
<1>2. ASSUME tcp' = {} /\ wire' = {}
      PROVE  HeadersInv'
  BY <1>2 DEF HeadersInv
<1>3. ASSUME NEW m \in Mtus, SetSrcMtu(m) PROVE HeadersInv'
  BY <1>2, <1>3 DEF SetSrcMtu, Forget
<1>4. ASSUME NEW sz, SendUdp(sz) PROVE HeadersInv'
  BY <1>2, <1>4 DEF SendUdp, Begin, Forget
<1>5. ASSUME NEW sz, SendTcpAckRaw(sz) PROVE HeadersInv'
  BY <1>2, <1>5 DEF SendTcpAckRaw, Begin, Forget
<1>6. ASSUME NEW count \in 0 .. MaxSacks, SendTcpAck0(count) PROVE HeadersInv'
  <2>1. HeaderRight(NewAck([i \in 1 .. count |-> i]))
    BY NewAckRight, EgressAssumption DEF EgressAssumption
  <2> QED
    BY <1>6, <2>1, HeaderHeaders, Zenon DEF SendTcpAck0
<1>7. ASSUME NEW wscale \in {{}, {7}}, NEW perm \in BOOLEAN, SendTcpAckSyn(wscale, perm)
      PROVE  HeadersInv'
  BY <1>7, NewAckSynRight, EgressAssumption, HeaderHeaders, Zenon DEF SendTcpAckSyn
<1>8. CASE SendUdpRaw
  <2>1. tcp' = {} /\ pc' = "idle"
    BY <1>8 DEF EgressInv, Loops, SendUdpRaw
  <2> QED
    BY <2>1 DEF HeadersInv
<1>9. CASE Fragment
  <2>1. tcp' = {} /\ pc' # "segments"
    BY <1>9 DEF EgressInv, CutRight, Fragment
  <2> QED
    BY <2>1 DEF HeadersInv
<1>10. CASE SendError
  BY <1>10 DEF SendError, HeadersInv, HeaderRight
<1>11. CASE UNCHANGED vars
  BY <1>1, <1>11 DEF vars
<1> QED
  BY <1>3, <1>4, <1>5, <1>6, <1>7, <1>8, <1>9, <1>10, <1>11, SegmentHeaders DEF Next

\* The source reads every TCP header as it was meant.
THEOREM EgressHeaderReads == Spec => []HeaderReads
<1>1. Init => HeadersInv
  BY DEF Init, HeadersInv
<1>2. HeadersInv => HeaderReads
  <2> SUFFICES ASSUME HeadersInv, NEW t \in tcp
               PROVE  LET s == TcpSerialized(t)
                      IN  /\ s.payload_at = 4 * s.data_offset /\ s.data_offset <= 15
                          /\ TcpLen(t) = 4 * s.data_offset
                          /\ \A v \in Found(t.options, "sack") : Len(v) \in 1 .. 4
                          /\ \A v \in Found(t.options, "mss") :
                                 v <= MAX_MSS /\ v + 4 * 5 + Ipv4MinimumLen <= LOCAL_MTU
                          /\ \A p \in wire :
                                 p.total - Ipv4MinimumLen - 4 * s.data_offset = p.len
    BY DEF HeaderReads
  <2>1. PICK s, k : s = TcpSerialized(t) /\ k = t.data_offset
    OBVIOUS
  <2>2. k \in 5 .. 15 /\ TcpLen(t) = 4 * k
    BY <2>1 DEF HeadersInv, HeaderRight
  <2>3. s.payload_at = 4 * k /\ s.data_offset = k
    BY <2>1, <2>2 DEF TcpSerialized
  <2>4. ASSUME NEW v \in Found(t.options, "mss")
        PROVE  v <= MAX_MSS /\ v + 4 * 5 + Ipv4MinimumLen <= LOCAL_MTU
    <3>1. v = OwnMss
      BY Zenon DEF HeadersInv, HeaderRight
    <3> QED
      BY <3>1, EgressAssumption
         DEF OwnMss, Lesser, Ipv4MinimumLen, TcpMinimumLen, EgressAssumption
  <2>5. ASSUME NEW p \in wire PROVE p.total - Ipv4MinimumLen - 4 * k = p.len
    <3>1. p.len \in Nat /\ p.total = 20 + (TcpLen(t) + p.len)
      BY DEF HeadersInv
    <3> QED
      BY <2>2, <3>1 DEF Ipv4MinimumLen
  <2>6. \A v \in Found(t.options, "sack") : Len(v) \in 1 .. 4
    BY DEF HeadersInv, HeaderRight
  <2> QED
    BY <2>1, <2>2, <2>3, <2>4, <2>5, <2>6
<1>3. QED
  BY <1>1, <1>2, HeadersKept, EgressReaches, PTL DEF Spec
=============================================================================
