-------------------------- MODULE RedirectorProofs --------------------------
(***************************************************************************)
(* Proofs about what the Redirector does with the packets of the sources.  *)
(*                                                                         *)
(* UDP (UdpNat): the NAT stays consistent and takes the port of the source *)
(* that has been silent for longest, for every set of sources and ports    *)
(* and every MAX_UDP_PORT.                                                 *)
(*                                                                         *)
(* TCP (TcpRx): what the receiving half of a connection acknowledges and   *)
(* when it shuts the stream down, for streams, segments and windows of     *)
(* every length and every order of packets, errors and endings.            *)
(***************************************************************************)
EXTENDS UdpNat, TcpRx, FiniteSetTheorems, NaturalsInduction, TLAPS

-----------------------------------------------------------------------------
(* The UDP NAT *)

\* The ranks of an LRU cache stay natural numbers under get, put and pop.
LEMMA RankType ==
    ASSUME NEW K, NEW rank \in [K -> Nat], NEW k \in K
    PROVE  /\ MoveToFront(rank, k) \in [K -> Nat]
           /\ Pop(rank, k) \in [K -> Nat]
  BY DEF MoveToFront, Pop

\* Which keys a cache holds after get or put of key k.
LEMMA FrontKeys ==
    ASSUME NEW K, NEW rank \in [K -> Nat], NEW k \in K
    PROVE  \A q \in K : MoveToFront(rank, k)[q] > 0 <=> q = k \/ rank[q] > 0
  BY DEF MoveToFront

\* Which keys a cache holds after pop of key k.
LEMMA PopKeys ==
    ASSUME NEW K, NEW rank \in [K -> Nat], NEW k \in K, rank[k] > 0
    PROVE  \A q \in K : Pop(rank, k)[q] > 0 <=> q # k /\ rank[q] > 0
  BY DEF Pop

\* A key that is popped and put back leaves the set of keys as it was.
LEMMA ReuseKeys ==
    ASSUME NEW K, NEW rank \in [K -> Nat], NEW k \in K, rank[k] > 0
    PROVE  \A q \in K : MoveToFront(Pop(rank, k), k)[q] > 0 <=> rank[q] > 0
  BY DEF MoveToFront, Pop

\* Types are preserved by every step of the NAT and of its receive tasks.
LEMMA TypeInductive == NatTypeOK /\ NatConsistent /\ [NatNext]_natVars => NatTypeOK'
  <1> SUFFICES ASSUME NatTypeOK, NatConsistent, [NatNext]_natVars PROVE NatTypeOK'
    OBVIOUS
  <1> USE DEF NatTypeOK
  <1>1. ASSUME NEW s \in Sources, HandleUdpMapped(s) PROVE NatTypeOK'
    <2>1. datagram_map[s] \in Ports
      BY <1>1 DEF HandleUdpMapped
    <2> QED
      BY <1>1, <2>1, RankType DEF HandleUdpMapped, worker
  <1>2. ASSUME NEW s \in Sources, NEW p \in Ports, HandleUdpBind(s, p) PROVE NatTypeOK'
    BY <1>2, RankType, Zenon DEF HandleUdpBind
  <1>3. ASSUME NEW s \in Sources, NEW p \in Ports, HandleUdpReuse(s, p) PROVE NatTypeOK'
    <2>1. MoveToFront(Pop(lru_age, p), p) \in [Ports -> Nat]
      BY RankType, Zenon
    <2>2. Pop(recency, lru_src[p]) \in [Sources -> Nat]
      <3>1. lru_src[p] \in Sources
        BY <1>3 DEF HandleUdpReuse, LeastRecentlyUsed, NatConsistent, LruWellFormed
      <3> QED
        BY <3>1, RankType, Zenon
    <2>3. MoveToFront(Pop(recency, lru_src[p]), s) \in [Sources -> Nat]
      BY <2>2, RankType
    <2> QED
      BY <1>3, <2>1, <2>3, Zenon DEF HandleUdpReuse, worker
  <1>4. ASSUME NEW s \in Sources, UnbindLocalUdpPort(s) PROVE NatTypeOK'
    <2>1. datagram_map[s] \in Ports
      BY <1>4 DEF UnbindLocalUdpPort
    <2> QED
      BY <1>4, <2>1, RankType, Zenon DEF UnbindLocalUdpPort
  <1>5. ASSUME NEW p \in Ports, Worker(p) PROVE NatTypeOK'
    <2>1. CASE RecvFrom(p)
      BY <2>1 DEF RecvFrom, EndTask, lru
    <2>2. CASE RecvError(p)
      BY <2>2 DEF RecvError, EndTask, lru
    <2>3. CASE Forward(p)
      BY <2>3 DEF Forward, EndTask, lru
    <2> QED
      BY <1>5, <2>1, <2>2, <2>3 DEF Worker
  <1>6. CASE UNCHANGED natVars
    BY <1>6 DEF natVars, lru, worker
  <1> QED
    BY <1>1, <1>2, <1>3, <1>4, <1>5, <1>6 DEF NatNext, HandleUdp

\* A cache with fewer than MAX_UDP_PORT keys has at most that many after a put.
LEMMA PutBounded ==
    ASSUME NatTypeOK, NEW p \in Ports, Cardinality(LruKeys) < MAX_UDP_PORT
    PROVE  Cardinality(LruKeys \cup {p}) <= MAX_UDP_PORT
  <1>1. IsFiniteSet(LruKeys)
    BY FS_Subset, NatAssumption DEF LruKeys
  <1>2. Cardinality(LruKeys) \in Nat
    BY <1>1, FS_CardinalityType
  <1>3. Cardinality(LruKeys \cup {p}) = Cardinality(LruKeys)
        \/ Cardinality(LruKeys \cup {p}) = Cardinality(LruKeys) + 1
    BY <1>1, FS_AddElement
  <1> QED
    BY <1>2, <1>3, NatAssumption

\* handle_udp of a source that has a port keeps the NAT consistent.
LEMMA MappedPreserves ==
    ASSUME NatTypeOK, NatConsistent, NEW s \in Sources, HandleUdpMapped(s)
    PROVE  NatConsistent'
  <1> DEFINE p == datagram_map[s]
  <1>1. p \in Ports
    BY DEF HandleUdpMapped, NatTypeOK
  <1>2. lru_src[p] = s /\ lru_age[p] > 0
    BY <1>1, NatAssumption DEF NatConsistent, MapMatchesLru, LruWellFormed
  <1>3. \A q \in Ports : lru_age'[q] > 0 <=> lru_age[q] > 0
    BY <1>1, <1>2, FrontKeys DEF HandleUdpMapped, NatTypeOK
  <1>4. LruWellFormed'
    BY <1>3 DEF NatConsistent, LruWellFormed, HandleUdpMapped
  <1> QED
    BY <1>4 DEF NatConsistent, MapMatchesLru, WorkersMatchLru, SocketsMatchWorkers,
                PortsBounded, LruKeys, HandleUdpMapped, worker

\* Binding a new port keeps the NAT consistent.
LEMMA BindPreserves ==
    ASSUME NatTypeOK, NatConsistent, NEW s \in Sources, NEW p \in Ports, HandleUdpBind(s, p)
    PROVE  NatConsistent'
  <1> USE DEF HandleUdpBind, NatTypeOK
  <1>1. lru_src[p] = Unmapped
    BY DEF NatConsistent, WorkersMatchLru, SocketsMatchWorkers
  <1>2. MapMatchesLru'
    BY <1>1, NatAssumption DEF NatConsistent, MapMatchesLru
  <1>3. WorkersMatchLru'
    BY NatAssumption DEF NatConsistent, WorkersMatchLru
  <1>4. LruWellFormed'
    BY FrontKeys, NatAssumption, SMTT(60) DEF NatConsistent, LruWellFormed
  <1>5. SocketsMatchWorkers'
    BY DEF NatConsistent, SocketsMatchWorkers
  <1>6. PortsBounded'
    <2>1. LruKeys' = LruKeys \cup {p}
      BY NatAssumption DEF LruKeys
    <2> QED
      BY <2>1, PutBounded DEF PortsBounded
  <1> QED
    BY <1>2, <1>3, <1>4, <1>5, <1>6 DEF NatConsistent

\* Taking over the port of the least recently used source keeps the NAT
\* consistent.
LEMMA ReusePreserves ==
    ASSUME NatTypeOK, NatConsistent, NEW s \in Sources, NEW p \in Ports, HandleUdpReuse(s, p)
    PROVE  NatConsistent'
  <1> USE DEF HandleUdpReuse, NatTypeOK
  <1>1. lru_age[p] > 0 /\ lru_src[p] \in Sources /\ datagram_map[lru_src[p]] = p
    BY NatAssumption DEF LeastRecentlyUsed, NatConsistent, MapMatchesLru, LruWellFormed
  <1>2. MapMatchesLru'
    BY <1>1, NatAssumption DEF NatConsistent, MapMatchesLru
  <1>3. WorkersMatchLru'
    BY <1>1, NatAssumption DEF NatConsistent, WorkersMatchLru, worker
  <1>4. LruWellFormed'
    <2>1. \A q \in Ports : lru_age'[q] > 0 <=> lru_age[q] > 0
      BY <1>1, ReuseKeys
    <2> QED
      BY <1>1, <2>1, NatAssumption DEF NatConsistent, LruWellFormed
  <1>5. SocketsMatchWorkers'
    BY DEF NatConsistent, SocketsMatchWorkers, worker
  <1>6. PortsBounded'
    <2>1. LruKeys' = LruKeys
      BY <1>1, NatAssumption DEF LruKeys
    <2> QED
      BY <2>1 DEF NatConsistent, PortsBounded
  <1> QED
    BY <1>2, <1>3, <1>4, <1>5, <1>6 DEF NatConsistent

\* Dropping the worker of a source keeps the NAT consistent.
LEMMA UnbindPreserves ==
    ASSUME NatTypeOK, NatConsistent, NEW s \in Sources, UnbindLocalUdpPort(s)
    PROVE  NatConsistent'
  <1> USE DEF UnbindLocalUdpPort, NatTypeOK
  <1> DEFINE p == datagram_map[s]
  <1>1. p \in Ports
    OBVIOUS
  <1>2. lru_src[p] = s /\ lru_age[p] > 0
    BY <1>1, NatAssumption DEF NatConsistent, MapMatchesLru, LruWellFormed
  <1> HIDE DEF p
  <1>3. /\ lru_src' = [lru_src EXCEPT ![p] = Unmapped]
        /\ lru_age' = Pop(lru_age, p)
        /\ datagrams' = [datagrams EXCEPT ![p] = FALSE]
        /\ is_closed' = [is_closed EXCEPT ![p] = TRUE]
        /\ task' = [task EXCEPT ![p] = IF @ = "done" THEN "free" ELSE @]
        /\ datagram_map' = [datagram_map EXCEPT ![s] = Unmapped]
        /\ datagram_map[s] = p
    BY DEF p
  <1>4. MapMatchesLru'
    BY <1>1, <1>2, <1>3, NatAssumption DEF NatConsistent, MapMatchesLru
  <1>5. WorkersMatchLru'
    BY <1>1, <1>3, NatAssumption DEF NatConsistent, WorkersMatchLru
  <1>6. LruWellFormed'
    <2>1. \A q \in Ports : lru_age'[q] > 0 <=> q # p /\ lru_age[q] > 0
      BY <1>1, <1>2, <1>3, PopKeys
    <2> QED
      BY <1>1, <1>3, <2>1 DEF NatConsistent, LruWellFormed
  <1>7. SocketsMatchWorkers'
    BY <1>1, <1>3 DEF NatConsistent, SocketsMatchWorkers
  <1>8. PortsBounded'
    <2>1. LruKeys' \in SUBSET LruKeys
      BY <1>1, <1>3 DEF LruKeys
    <2>2. IsFiniteSet(LruKeys)
      BY FS_Subset, NatAssumption DEF LruKeys
    <2>3. Cardinality(LruKeys') \in Nat /\ Cardinality(LruKeys) \in Nat
          /\ Cardinality(LruKeys') <= Cardinality(LruKeys)
      BY <2>1, <2>2, FS_Subset, FS_CardinalityType
    <2> QED
      BY <2>3, NatAssumption DEF NatConsistent, PortsBounded
  <1> QED
    BY <1>4, <1>5, <1>6, <1>7, <1>8 DEF NatConsistent

\* The receive tasks keep the NAT consistent: they only move their own socket
\* and close flag.
LEMMA WorkerPreserves ==
    ASSUME NatTypeOK, NatConsistent, NEW p \in Ports, Worker(p)
    PROVE  NatConsistent'
  <1> USE DEF NatTypeOK
  <1>1. UNCHANGED <<datagrams, datagram_map, lru_src, lru_age>>
    BY DEF Worker, RecvFrom, RecvError, Forward, lru
  <1>2. SocketsMatchWorkers'
    BY DEF NatConsistent, SocketsMatchWorkers, Worker, RecvFrom, RecvError, Forward, EndTask, lru
  <1> QED
    BY <1>1, <1>2 DEF NatConsistent, MapMatchesLru, WorkersMatchLru, LruWellFormed,
                      PortsBounded, LruKeys

\* The NAT is consistent in every reachable state, for any sources, ports and
\* limit: handle_udp never meets a mapped port without worker, no two sources
\* share a port, and never are more than MAX_UDP_PORT ports bound.
THEOREM NatSafe == NatSpec => [](NatTypeOK /\ NatConsistent)
  <1>1. NatInit => NatTypeOK /\ NatConsistent
    <2> SUFFICES ASSUME NatInit PROVE NatTypeOK /\ NatConsistent
      OBVIOUS
    <2>1. NatTypeOK
      BY DEF NatInit, NatTypeOK
    <2>2. PortsBounded
      <3>1. LruKeys = {}
        BY DEF NatInit, LruKeys
      <3> QED
        BY <3>1, FS_EmptySet, NatAssumption DEF PortsBounded
    <2> QED
      BY <2>1, <2>2, NatAssumption DEF NatInit, NatConsistent, MapMatchesLru, WorkersMatchLru,
                                       LruWellFormed, SocketsMatchWorkers
  <1>2. NatTypeOK /\ NatConsistent /\ [NatNext]_natVars => (NatTypeOK /\ NatConsistent)'
    <2> SUFFICES ASSUME NatTypeOK, NatConsistent, [NatNext]_natVars PROVE NatConsistent'
      BY TypeInductive
    <2>1. CASE UNCHANGED natVars
      BY <2>1 DEF natVars, lru, worker, NatConsistent, MapMatchesLru, WorkersMatchLru,
                  LruWellFormed, SocketsMatchWorkers, PortsBounded, LruKeys
    <2> QED
      BY <2>1, MappedPreserves, BindPreserves, ReusePreserves, UnbindPreserves,
         WorkerPreserves DEF NatNext, HandleUdp
  <1> QED
    BY <1>1, <1>2, PTL DEF NatSpec

-----------------------------------------------------------------------------
(* Whose port is taken over *)

\* The rank of a port in udp_lru is the rank of its source by its datagrams.
RankOf(s) == IF datagram_map[s] = Unmapped THEN 0 ELSE lru_age[datagram_map[s]]
Ranked == \A s \in Sources : recency[s] = RankOf(s)

\* A mapped source has a port of its own, and a rank.
LEMMA OwnPort ==
    ASSUME NatTypeOK, NatConsistent
    PROVE  /\ \A s \in Sources : datagram_map[s] # Unmapped =>
                  /\ datagram_map[s] \in Ports /\ lru_src[datagram_map[s]] = s
                  /\ lru_age[datagram_map[s]] > 0
           /\ \A s, t \in Sources :
                  datagram_map[s] # Unmapped /\ datagram_map[s] = datagram_map[t] => s = t
<1>1. \A s \in Sources : datagram_map[s] # Unmapped =>
          datagram_map[s] \in Ports /\ lru_src[datagram_map[s]] = s /\ s # Unmapped
  BY NatAssumption DEF NatTypeOK, NatConsistent, MapMatchesLru
<1> QED
  BY <1>1 DEF NatConsistent, LruWellFormed

\* The rank of a key after one of rank r was popped and another was put.
RankAfter(rank, r) ==
    LET left == IF rank > r THEN rank - 1 ELSE rank
    IN  IF left > 0 THEN left + 1 ELSE left

LEMMA PoppedRanks ==
    ASSUME NEW K, NEW rank \in [K -> Nat], NEW k \in K, NEW new \in K,
           new = k \/ rank[new] = 0, rank[k] > 0
    PROVE  \A q \in K :
              MoveToFront(Pop(rank, k), new)[q] =
                  IF q = new THEN 1 ELSE IF q = k THEN 0 ELSE RankAfter(rank[q], rank[k])
<1>1. PICK left : left = Pop(rank, k)
  OBVIOUS
<1>2. /\ left \in [K -> Nat] /\ left[new] = 0
      /\ \A q \in K : left[q] = IF q = k THEN 0 ELSE IF rank[q] > rank[k] THEN rank[q] - 1 ELSE rank[q]
  BY <1>1 DEF Pop
<1>3. \A q \in K : MoveToFront(left, new)[q] = IF q = new THEN 1 ELSE
                                               IF left[q] > 0 THEN left[q] + 1 ELSE left[q]
  BY <1>2 DEF MoveToFront
<1> QED
  BY <1>1, <1>2, <1>3 DEF RankAfter

LEMMA MappedRanked ==
    ASSUME NatTypeOK, NatConsistent, Ranked, NEW s \in Sources, HandleUdpMapped(s)
    PROVE  Ranked'
<1> DEFINE p == datagram_map[s]
<1>1. /\ p # Unmapped /\ datagram_map' = datagram_map
      /\ lru_age' = MoveToFront(lru_age, p) /\ recency' = MoveToFront(recency, s)
  BY DEF HandleUdpMapped
<1>2. /\ lru_age \in [Ports -> Nat] /\ recency \in [Sources -> Nat] /\ p \in Ports
  BY <1>1 DEF NatTypeOK
<1>3. recency[s] = lru_age[p] /\ lru_age[p] > 0
  BY <1>1, OwnPort DEF Ranked, RankOf
<1> SUFFICES ASSUME NEW q \in Sources
             PROVE  recency'[q] = IF datagram_map[q] = Unmapped THEN 0 ELSE lru_age'[datagram_map[q]]
  BY <1>1 DEF Ranked, RankOf
<1>4. recency[q] = RankOf(q)
  BY DEF Ranked
<1>5. CASE q = s
  BY <1>1, <1>2, <1>5 DEF MoveToFront
<1>6. CASE q # s /\ datagram_map[q] = Unmapped
  BY <1>1, <1>2, <1>3, <1>4, <1>6 DEF MoveToFront, RankOf
<1>7. CASE q # s /\ datagram_map[q] # Unmapped
  <2>1. datagram_map[q] \in Ports /\ datagram_map[q] # p
    BY <1>1, <1>7, OwnPort
  <2>2. recency[q] = lru_age[datagram_map[q]]
    BY <1>4, <1>7 DEF RankOf
  <2> QED
    BY <1>1, <1>2, <1>3, <1>7, <2>1, <2>2 DEF MoveToFront
<1> QED
  BY <1>5, <1>6, <1>7

LEMMA BindRanked ==
    ASSUME NatTypeOK, NatConsistent, Ranked, NEW s \in Sources, NEW p \in Ports,
           HandleUdpBind(s, p)
    PROVE  Ranked'
<1>1. /\ datagram_map[s] = Unmapped /\ datagram_map' = [datagram_map EXCEPT ![s] = p]
      /\ lru_age' = MoveToFront(lru_age, p) /\ recency' = MoveToFront(recency, s)
      /\ task[p] = "free"
  BY DEF HandleUdpBind
<1>2. /\ lru_age \in [Ports -> Nat] /\ recency \in [Sources -> Nat]
      /\ datagram_map \in [Sources -> Ports \cup {Unmapped}] /\ p # Unmapped
  BY NatAssumption DEF NatTypeOK
<1>3. lru_src[p] = Unmapped /\ lru_age[p] = 0 /\ recency[s] = 0
  <2>1. ~datagrams[p]
    BY <1>1 DEF NatConsistent, SocketsMatchWorkers
  <2>2. lru_src[p] = Unmapped
    BY <2>1 DEF NatConsistent, WorkersMatchLru
  <2> QED
    BY <1>1, <1>2, <2>2 DEF NatConsistent, LruWellFormed, Ranked, RankOf
<1> SUFFICES ASSUME NEW q \in Sources
             PROVE  recency'[q] = IF datagram_map'[q] = Unmapped THEN 0 ELSE lru_age'[datagram_map'[q]]
  BY DEF Ranked, RankOf
<1>4. recency[q] = RankOf(q)
  BY DEF Ranked
<1>5. CASE q = s
  BY <1>1, <1>2, <1>5 DEF MoveToFront
<1>6. CASE q # s /\ datagram_map[q] = Unmapped
  BY <1>1, <1>2, <1>3, <1>4, <1>6 DEF MoveToFront, RankOf
<1>7. CASE q # s /\ datagram_map[q] # Unmapped
  <2>1. datagram_map[q] \in Ports /\ datagram_map[q] # p
    BY <1>3, <1>7, OwnPort
  <2>2. recency[q] = lru_age[datagram_map[q]] /\ datagram_map'[q] = datagram_map[q]
    BY <1>1, <1>2, <1>4, <1>7 DEF RankOf
  <2> QED
    BY <1>1, <1>2, <1>3, <1>7, <2>1, <2>2 DEF MoveToFront
<1> QED
  BY <1>5, <1>6, <1>7

LEMMA ReuseRanked ==
    ASSUME NatTypeOK, NatConsistent, Ranked, NEW s \in Sources, NEW p \in Ports,
           HandleUdpReuse(s, p)
    PROVE  Ranked'
<1> DEFINE prev == lru_src[p]
<1>1. /\ datagram_map[s] = Unmapped /\ lru_age[p] > 0
      /\ datagram_map' = [datagram_map EXCEPT ![prev] = Unmapped, ![s] = p]
      /\ lru_age' = MoveToFront(Pop(lru_age, p), p)
      /\ recency' = MoveToFront(Pop(recency, prev), s)
  BY Zenon DEF HandleUdpReuse, LeastRecentlyUsed
<1>2. /\ lru_age \in [Ports -> Nat] /\ recency \in [Sources -> Nat]
      /\ datagram_map \in [Sources -> Ports \cup {Unmapped}] /\ p # Unmapped
  BY NatAssumption, Zenon DEF NatTypeOK
<1>3. prev \in Sources /\ datagram_map[prev] = p /\ prev # s
  <2>1. prev # Unmapped /\ prev \in Sources
    BY <1>1 DEF NatTypeOK, NatConsistent, LruWellFormed
  <2>2. datagram_map[prev] = p
    BY <2>1, Zenon DEF NatConsistent, MapMatchesLru
  <2> QED
    BY <1>1, <1>2, <2>1, <2>2
<1>4. recency[prev] = lru_age[p] /\ recency[s] = 0
  BY <1>1, <1>2, <1>3 DEF Ranked, RankOf
<1> HIDE DEF prev
<1> SUFFICES ASSUME NEW q \in Sources
             PROVE  recency'[q] = IF datagram_map'[q] = Unmapped THEN 0 ELSE lru_age'[datagram_map'[q]]
  BY DEF Ranked, RankOf
<1>5. recency[q] = RankOf(q)
  BY DEF Ranked
<1>6. datagram_map'[q] = IF q = s THEN p ELSE IF q = prev THEN Unmapped ELSE datagram_map[q]
  BY <1>1, <1>2
<1>7. \A k \in Ports : lru_age'[k] = IF k = p THEN 1 ELSE RankAfter(lru_age[k], lru_age[p])
  BY <1>1, <1>2, PoppedRanks
<1>8. recency'[q] = IF q = s THEN 1 ELSE IF q = prev THEN 0 ELSE RankAfter(recency[q], recency[prev])
  BY <1>1, <1>2, <1>3, <1>4, PoppedRanks
<1>9. CASE q = s \/ q = prev
  BY <1>2, <1>3, <1>6, <1>7, <1>8, <1>9
<1>10. CASE q # s /\ q # prev /\ datagram_map[q] = Unmapped
  <2>1. recency[q] = 0 /\ RankAfter(0, recency[prev]) = 0
    BY <1>2, <1>3, <1>5, <1>10 DEF RankOf, RankAfter
  <2> QED
    BY <1>6, <1>8, <1>10, <2>1
<1>11. CASE q # s /\ q # prev /\ datagram_map[q] # Unmapped
  <2>1. datagram_map[q] \in Ports /\ datagram_map[q] # p
    BY <1>3, <1>11, OwnPort, Zenon
  <2>2. recency[q] = lru_age[datagram_map[q]]
    BY <1>5, <1>11 DEF RankOf
  <2>3. datagram_map'[q] = datagram_map[q] /\ recency'[q] = RankAfter(recency[q], recency[prev])
    BY <1>6, <1>8, <1>11
  <2>4. lru_age'[datagram_map[q]] = RankAfter(lru_age[datagram_map[q]], lru_age[p])
    BY <1>7, <2>1
  <2> QED
    BY <1>4, <1>11, <2>2, <2>3, <2>4
<1> QED
  BY <1>9, <1>10, <1>11

LEMMA UnbindRanked ==
    ASSUME NatTypeOK, NatConsistent, Ranked, NEW s \in Sources, UnbindLocalUdpPort(s)
    PROVE  Ranked'
<1> DEFINE p == datagram_map[s]
<1>1. /\ p # Unmapped /\ datagram_map' = [datagram_map EXCEPT ![s] = Unmapped]
      /\ lru_age' = Pop(lru_age, p) /\ recency' = Pop(recency, s)
  BY DEF UnbindLocalUdpPort
<1>2. /\ lru_age \in [Ports -> Nat] /\ recency \in [Sources -> Nat] /\ p \in Ports
      /\ datagram_map \in [Sources -> Ports \cup {Unmapped}]
  BY <1>1 DEF NatTypeOK
<1>3. recency[s] = lru_age[p]
  BY <1>1 DEF Ranked, RankOf
<1> SUFFICES ASSUME NEW q \in Sources
             PROVE  recency'[q] = IF datagram_map'[q] = Unmapped THEN 0 ELSE lru_age'[datagram_map'[q]]
  BY DEF Ranked, RankOf
<1>4. recency[q] = RankOf(q)
  BY DEF Ranked
<1>5. CASE q = s
  BY <1>1, <1>2, <1>5 DEF Pop
<1>6. CASE q # s /\ datagram_map[q] = Unmapped
  BY <1>1, <1>2, <1>3, <1>4, <1>6 DEF Pop, RankOf
<1>7. CASE q # s /\ datagram_map[q] # Unmapped
  <2>1. datagram_map[q] \in Ports /\ datagram_map[q] # p
    BY <1>1, <1>7, OwnPort
  <2>2. recency[q] = lru_age[datagram_map[q]] /\ datagram_map'[q] = datagram_map[q]
    BY <1>1, <1>2, <1>4, <1>7 DEF RankOf
  <2> QED
    BY <1>1, <1>2, <1>3, <1>7, <2>1, <2>2 DEF Pop
<1> QED
  BY <1>5, <1>6, <1>7

\* Only HandleUdpReuse takes a port from one source for another.
LEMMA TakenOver ==
    ASSUME NatTypeOK, NatConsistent, Ranked, NatNext, NEW s \in Sources, NEW t \in Sources,
           datagram_map[s] # Unmapped, datagram_map'[s] = Unmapped,
           datagram_map[t] = Unmapped, datagram_map'[t] # Unmapped,
           NEW u \in Sources
    PROVE  recency[u] <= recency[s]
<1>1. PICK r \in Sources, p \in Ports : HandleUdpReuse(r, p)
  <2>1. ASSUME NEW r \in Sources, HandleUdpMapped(r) PROVE FALSE
    BY <2>1 DEF HandleUdpMapped
  <2>2. ASSUME NEW r \in Sources, NEW p \in Ports, HandleUdpBind(r, p) PROVE FALSE
    BY <2>2, NatAssumption DEF HandleUdpBind, NatTypeOK
  <2>3. ASSUME NEW r \in Sources, UnbindLocalUdpPort(r) PROVE FALSE
    BY <2>3 DEF UnbindLocalUdpPort, NatTypeOK
  <2>4. ASSUME NEW p \in Ports, Worker(p) PROVE FALSE
    BY <2>4 DEF Worker, RecvFrom, RecvError, Forward
  <2> QED
    BY <2>1, <2>2, <2>3, <2>4 DEF NatNext, HandleUdp
<1>2. /\ LeastRecentlyUsed(lru_age, p) /\ lru_age \in [Ports -> Nat]
      /\ datagram_map' = [datagram_map EXCEPT ![lru_src[p]] = Unmapped, ![r] = p]
  BY <1>1, Zenon DEF HandleUdpReuse, NatTypeOK
<1>3. s = lru_src[p]
  <2>1. datagram_map \in [Sources -> Ports \cup {Unmapped}] /\ p # Unmapped
    BY NatAssumption, Zenon DEF NatTypeOK
  <2>2. datagram_map'[s] = IF s = r THEN p ELSE IF s = lru_src[p] THEN Unmapped ELSE datagram_map[s]
    BY <1>2, <2>1
  <2> QED
    BY <2>1, <2>2
<1>4. datagram_map[s] = p
  BY <1>3 DEF NatConsistent, MapMatchesLru
<1>5. recency[s] = lru_age[p] /\ recency[u] = RankOf(u)
  BY <1>4 DEF Ranked, RankOf
<1>6. RankOf(u) <= lru_age[p]
  BY <1>2, OwnPort DEF RankOf, LeastRecentlyUsed
<1> QED
  BY <1>5, <1>6

\* The port that is taken over is always that of the source that has sent
\* nothing for longest, although udp_lru is ordered by ports and entries are
\* popped and put back.
THEOREM NatEvictsLongestSilent == NatSpec => EvictsLongestSilent
<1> DEFINE Inv == NatTypeOK /\ NatConsistent
           Evicts == \A s, t \in Sources :
                (/\ datagram_map[s] # Unmapped /\ datagram_map'[s] = Unmapped
                 /\ datagram_map[t] = Unmapped /\ datagram_map'[t] # Unmapped)
                => \A u \in Sources : recency[u] <= recency[s]
<1>1. NatInit => Ranked
  BY DEF NatInit, Ranked, RankOf
<1>2. Inv /\ Ranked /\ [NatNext]_natVars => Ranked'
  <2> SUFFICES ASSUME NatTypeOK, NatConsistent, Ranked, [NatNext]_natVars PROVE Ranked'
    OBVIOUS
  <2>1. ASSUME NEW p \in Ports, Worker(p) PROVE Ranked'
    BY <2>1 DEF Worker, RecvFrom, RecvError, Forward, lru, Ranked, RankOf
  <2>2. CASE UNCHANGED natVars
    BY <2>2 DEF natVars, lru, Ranked, RankOf
  <2> QED
    BY <2>1, <2>2, MappedRanked, BindRanked, ReuseRanked, UnbindRanked DEF NatNext, HandleUdp
<1>3. Inv /\ Ranked /\ [NatNext]_natVars => [Evicts]_natVars
  BY TakenOver
<1>4. NatSpec => []Inv
  BY NatSafe, PTL
<1> QED
  BY <1>1, <1>2, <1>3, <1>4, PTL DEF NatSpec, EvictsLongestSilent

-----------------------------------------------------------------------------
(* The receiving half of a connection *)

\* Only the numbers; of the packet, where its FIN stands.
RxTypes ==
    /\ recv_next \in 1 .. StreamLen + 2 /\ window_seq \in 1 .. StreamLen + 1
    /\ written \in 0 .. StreamLen
    /\ fin_sequence \in {0, StreamLen + 1}
    /\ pkt.fin => pkt.seq + pkt.len = StreamLen + 1
    /\ pc \in {"idle", "sending", "tail", "fin"}

\* The counters move together, and the FIN is counted behind all bytes. Only a
\* broken stream has less written than the window has handed out.
Counted ==
    /\ acknowledgement = recv_next
    /\ recv_next - 1 <= written \/ (recv_next = StreamLen + 2 /\ written = StreamLen)
    /\ ~broken => recv_next = written + 1 \/ recv_next = StreamLen + 2
    /\ written < window_seq
    /\ ~broken /\ pc # "sending" => written + 1 = window_seq

\* What a broken stream, a closed one and an admitted FIN leave behind.
Closing ==
    /\ broken => failed \/ removed # "no"
    /\ write_gone => recv_next = StreamLen + 2
    /\ recv_next = StreamLen + 2 => is_write_closed \/ failed \/ removed # "no"

RxInv == RxTypes /\ Counted /\ Closing

-----------------------------------------------------------------------------
\* The invariant holds after the handshake.
LEMMA InitInv ==
    ASSUME Init, StreamLen \in Nat
    PROVE  RxInv
BY DEF Init, RxInv, RxTypes, Counted, Closing, NoPacket

\* The packet that is kept has its FIN behind the last byte.
LEMMA HoldFin ==
    ASSUME NEW p, p.fin => p.seq + p.len = StreamLen + 1, Hold(p)
    PROVE  (pkt.fin => pkt.seq + pkt.len = StreamLen + 1)'
BY DEF Hold, NoPacket

\* A packet that comes moves the window at most, and closes nothing.
LEMMA ArriveKeeps ==
    ASSUME RxInv, StreamLen \in Nat, NEW p \in Packets, Arrive(p)
    PROVE  RxInv'
<1>1. p.fin => p.seq + p.len = StreamLen + 1
  BY DEF Packets
<1>2. CASE HandleAckData(p)
  <2>1. (pkt.fin => pkt.seq + pkt.len = StreamLen + 1)'
    BY <1>1, <1>2, HoldFin DEF HandleAckData
  <2>2. /\ window_seq' \in window_seq .. StreamLen + 1
        /\ window_seq' > window_seq => pc' = "sending"
        /\ pc' \in {"idle", "sending", "tail"}
        /\ removed # "no" => removed' # "no"
        /\ failed => failed'
    <3>1. \/ UNCHANGED <<window_seq, pc, failed>>
          \/ /\ window_seq' \in WindowAfter(p)
             /\ \/ window_seq' > window_seq /\ pc' = "sending" /\ UNCHANGED failed
                \/ window_seq' = window_seq /\ SendThen("tail")
      BY <1>2 DEF HandleAckData
    <3>2. pc = "idle" /\ removed = "no"
      BY <1>2, Zenon DEF HandleAckData
    <3>3. window_seq \in Nat /\ window_seq <= StreamLen + 1
      BY DEF RxInv, RxTypes
    <3>4. WindowAfter(p) \subseteq window_seq .. StreamLen + 1
      BY DEF WindowAfter
    <3> QED
      BY <3>1, <3>2, <3>3, <3>4 DEF SendThen
  <2>3. pc # "sending"
    BY <1>2 DEF HandleAckData
  <2>4. UNCHANGED <<recv_next, fin_sequence, acknowledgement, streamVars, flagVars>>
    BY <1>2 DEF HandleAckData
  <2>5. RxTypes'
    BY <2>1, <2>2, <2>4 DEF RxInv, RxTypes, streamVars
  <2>6. Counted'
    <3>1. UNCHANGED <<recv_next, acknowledgement, written>> /\ (broken' <=> broken)
      BY <2>4 DEF streamVars
    <3>2. /\ recv_next \in Nat /\ window_seq \in Nat /\ written \in Nat
          /\ StreamLen \in Nat /\ window_seq' \in Nat /\ window_seq' >= window_seq
      BY <2>2 DEF RxInv, RxTypes
    <3>3. ~broken' /\ pc' # "sending" => written' + 1 = window_seq'
      BY <2>2, <2>3, <3>1, <3>2 DEF RxInv, Counted
    <3>4. written' < window_seq'
      <4>1. written < window_seq /\ written' = written
        BY <3>1 DEF RxInv, Counted
      <4>2. QED
        BY <3>2, <4>1
    <3>5. QED
      BY <3>1, <3>3, <3>4 DEF RxInv, Counted
  <2>7. Closing'
    BY <2>2, <2>4 DEF RxInv, Closing, streamVars, flagVars
  <2>8. QED
    BY <2>5, <2>6, <2>7 DEF RxInv
<1>3. CASE HandleAck0(p) \/ HandleFin(p)
  <2>1. (pkt.fin => pkt.seq + pkt.len = StreamLen + 1)'
    BY <1>1, <1>3, HoldFin DEF HandleAck0, HandleFin
  <2>2. /\ UNCHANGED <<rxVars, acknowledgement, streamVars, flagVars>>
        /\ pc = "idle" /\ pc' \in {"idle", "tail", "fin"}
        /\ removed # "no" => removed' # "no"
        /\ failed => failed'
    BY <1>3 DEF HandleAck0, HandleFin, SendThen
  <2>3. QED
    BY <2>1, <2>2 DEF RxInv, RxTypes, Counted, Closing, rxVars, streamVars, flagVars
<1>4. QED
  BY <1>2, <1>3 DEF Arrive

\* Writing to the SOCKS stream: all is counted, or nothing is and the stream
\* is broken.
LEMMA SendKeeps ==
    ASSUME RxInv, StreamLen \in Nat, SendOk \/ SendFails
    PROVE  RxInv'
<1>1. (pkt.fin => pkt.seq + pkt.len = StreamLen + 1)'
  BY HoldFin, Zenon DEF SendOk, SendFails, RxInv, RxTypes
<1>2. CASE SendOk
  <2>1. /\ pc = "sending" /\ ~broken /\ pc' \in {"idle", "tail"}
        /\ written' = window_seq - 1
        /\ recv_next' = recv_next + (window_seq - 1 - written)
        /\ acknowledgement' = acknowledgement + (window_seq - 1 - written)
        /\ UNCHANGED <<window_seq, fin_sequence, broken, write_gone, flagVars, removed>>
        /\ failed => failed'
    BY <1>2 DEF SendOk, SendThen, RxInv, RxTypes
  <2>2. written \in Nat /\ window_seq \in Nat /\ recv_next \in Nat
    BY DEF RxInv, RxTypes
  <2>3. \/ recv_next = written + 1 /\ recv_next' = window_seq
        \/ recv_next = StreamLen + 2 /\ written = StreamLen /\ recv_next' = recv_next
    BY <2>1, <2>2 DEF RxInv, RxTypes, Counted
  <2>4. acknowledgement' = recv_next'
    BY <2>1 DEF RxInv, Counted
  <2>5. written' = window_seq - 1 /\ window_seq' = window_seq
    BY <2>1
  <2>6. RxTypes'
    BY <1>1, <2>1, <2>2, <2>3, <2>5 DEF RxInv, RxTypes
  <2>7. Counted'
    BY <2>1, <2>2, <2>3, <2>4, <2>5 DEF RxInv, RxTypes, Counted
  <2>8. Closing'
    BY <2>1, <2>2, <2>3 DEF RxInv, RxTypes, Closing, flagVars
  <2>9. QED
    BY <2>6, <2>7, <2>8 DEF RxInv
<1>3. CASE SendFails
  <2>1. written' \in Nat /\ written' >= written /\ written' < window_seq
    <3>1. written' \in written .. window_seq - 1
      BY <1>3, Zenon DEF SendFails
    <3>2. written \in Nat /\ window_seq \in Nat
      BY DEF RxInv, RxTypes
    <3>3. QED
      BY <3>1, <3>2
  <2>2. /\ pc' = "idle" /\ broken'
        /\ UNCHANGED <<rxVars, acknowledgement, write_gone, flagVars>>
        /\ removed' # "no" \/ failed'
    BY <1>3, Zenon DEF SendFails
  <2>3. RxTypes' /\ Counted'
    <3>1. UNCHANGED <<recv_next, window_seq, fin_sequence, acknowledgement>>
      BY <2>2 DEF rxVars
    <3>2. RxTypes'
      BY <1>1, <2>2, <2>1, <3>1 DEF RxInv, RxTypes
    <3>3. \/ (recv_next - 1 <= written)'
          \/ (recv_next = StreamLen + 2 /\ written = StreamLen)'
      <4>1. \/ recv_next - 1 <= written
            \/ recv_next = StreamLen + 2 /\ written = StreamLen
        BY DEF RxInv, Counted
      <4>2. written \in 0 .. StreamLen /\ recv_next \in Nat /\ window_seq \in 1 .. StreamLen + 1
        BY DEF RxInv, RxTypes
      <4>3. recv_next' = recv_next
        BY <3>1
      <4>4. QED
        BY <2>1, <4>1, <4>2, <4>3
    <3>4. QED
      BY <2>2, <2>1, <3>1, <3>2, <3>3 DEF RxInv, Counted
  <2>4. Closing'
    BY <2>2 DEF RxInv, Closing, rxVars, flagVars
  <2>5. QED
    BY <2>3, <2>4 DEF RxInv
<1>4. QED
  BY <1>2, <1>3

\* The end of a handler, and the FIN.
LEMMA FinKeeps ==
    ASSUME RxInv, StreamLen \in Nat, AckTail \/ AdmitFin \/ KeepFin
    PROVE  RxInv'
<1>1. (pkt.fin => pkt.seq + pkt.len = StreamLen + 1)'
  BY HoldFin, Zenon DEF AckTail, AdmitFin, KeepFin, RxInv, RxTypes
<1>2. FinSequence \in {0, StreamLen + 1}
  BY DEF FinSequence, RxInv, RxTypes
<1>3. CASE AckTail
  <2>1. /\ pc = "tail" /\ pc' \in {"idle", "fin"} /\ (failed => failed')
        /\ UNCHANGED <<rxVars, acknowledgement, streamVars, flagVars, removed>>
    BY <1>3 DEF AckTail, SendThen
  <2>2. QED
    BY <1>1, <2>1 DEF RxInv, RxTypes, Counted, Closing, rxVars, streamVars, flagVars
<1>4. CASE KeepFin
  <2>1. /\ pc = "fin" /\ pc' = "idle" /\ fin_sequence' = FinSequence
        /\ UNCHANGED <<recv_next, window_seq, acknowledgement, streamVars, flagVars,
                       removed, failed>>
    BY <1>4 DEF KeepFin
  <2>2. QED
    BY <1>1, <1>2, <2>1 DEF RxInv, RxTypes, Counted, Closing, streamVars, flagVars
<1>5. CASE AdmitFin
  <2>1. /\ pc = "fin" /\ pc' = "idle" /\ fin_sequence' = 0 /\ FinSequence = recv_next
        /\ recv_next' = recv_next + 1 /\ acknowledgement' = acknowledgement + 1
        /\ UNCHANGED <<window_seq, written, broken>>
    BY <1>5, Zenon DEF AdmitFin
  <2>2. is_write_closed' \/ removed' # "no" \/ failed'
    BY <1>5, Zenon DEF AdmitFin, Shutdown
  <2>3. broken => removed' # "no" \/ failed'
    <3>1. removed # "no" => removed' # "no"
      BY <1>5, Zenon DEF AdmitFin
    <3>2. failed => failed'
      BY <1>5, Zenon DEF AdmitFin
    <3>3. QED
      BY <3>1, <3>2 DEF RxInv, Closing
  <2>4. recv_next = StreamLen + 1 /\ written = StreamLen
    BY <1>2, <2>1 DEF RxInv, RxTypes, Counted
  <2>5. RxTypes' /\ Counted'
    BY <1>1, <2>1, <2>4 DEF RxInv, RxTypes, Counted
  <2>6. Closing'
    BY <2>1, <2>2, <2>4, <2>3 DEF Closing
  <2>7. QED
    BY <2>5, <2>6 DEF RxInv
<1>6. QED
  BY <1>3, <1>4, <1>5

-----------------------------------------------------------------------------
\* The invariant holds however segments and FINs are repeated and reordered and
\* whatever fails in between.
LEMMA RxReaches == Spec => []RxInv
<1>1. StreamLen \in Nat
  BY RxAssumption
<1>2. Init => RxInv
  BY InitInv, <1>1
<1>3. RxInv /\ [Next]_vars => RxInv'
  <2> SUFFICES ASSUME RxInv, [Next]_vars
               PROVE  RxInv'
    OBVIOUS
  <2>1. CASE UNCHANGED vars
    BY <2>1 DEF vars, RxInv, RxTypes, Counted, Closing, rxVars, streamVars, flagVars,
                handlerVars
  <2>2. CASE ReaderEnds
    <3>1. UNCHANGED <<rxVars, acknowledgement, streamVars, handlerVars, removed, failed>>
      BY <2>2 DEF ReaderEnds
    <3>2. is_write_closed => is_write_closed'
      BY <2>2, Zenon DEF ReaderEnds
    <3>3. RxTypes' /\ Counted'
      BY <3>1 DEF RxInv, RxTypes, Counted, rxVars, streamVars, handlerVars
    <3>4. Closing'
      BY <3>1, <3>2 DEF RxInv, Closing, rxVars, streamVars
    <3>5. QED
      BY <3>3, <3>4 DEF RxInv
  <2>3. QED
    BY <2>1, <2>2, ArriveKeeps, SendKeeps, FinKeeps, <1>1 DEF Next, Handle
<1>4. QED
  BY <1>2, <1>3, PTL DEF Spec

\* Only bytes that are written to the remote are ever acknowledged.
THEOREM RxAckedIsWritten == Spec => []AckedIsWritten
<1>1. RxInv => AckedIsWritten
  BY RxAssumption DEF RxInv, RxTypes, Counted, Closing, AckedIsWritten
<1> QED
  BY <1>1, RxReaches, PTL

\* The window's sequence, the acknowledgement and what was written agree between
\* packets, though each handler keeps its own.
THEOREM RxCountersAgree == Spec => []CountersAgree
<1>1. RxInv => CountersAgree
  BY RxAssumption DEF RxInv, RxTypes, Counted, Closing, CountersAgree
<1> QED
  BY <1>1, RxReaches, PTL

\* The write half of the remote is shut down only after every byte.
THEOREM RxShutdownAfterAll == Spec => []ShutdownAfterAll
<1>1. RxInv => ShutdownAfterAll
  BY RxAssumption DEF RxInv, RxTypes, Counted, Closing, ShutdownAfterAll
<1> QED
  BY <1>1, RxReaches, PTL

-----------------------------------------------------------------------------
(* What is offered *)

\* A set of numbers that is bounded has a greatest one, which Max is.
LEMMA MaxBounded ==
    ASSUME NEW S \in SUBSET Nat, S # {}, NEW e \in Nat, \A x \in S : x <= e
    PROVE  Max(S) \in S /\ \A y \in S : y <= Max(S)
<1> DEFINE R == OpToRel(<, Nat)
           T == {e - x : x \in S}
<1>1. T \subseteq Nat /\ T # {}
  <2>1. \A x \in S : e - x \in Nat
    OBVIOUS
  <2> QED
    BY <2>1, Zenon
<1>2. IsWellFoundedOn(R, Nat)
  BY NatLessThanWellFounded, Zenon
<1>3. PICK t \in T : \A u \in T : ~(<<u, t>> \in R)
  BY <1>1, <1>2, WFMin, Zenon
<1>4. ASSUME NEW u \in T PROVE t <= u
  <2>1. u \in Nat /\ t \in Nat
    BY <1>1
  <2>2. ~(<<u, t>> \in R)
    BY <1>3, Zenon
  <2> QED
    BY <2>1, <2>2 DEF OpToRel
<1>5. PICK x \in S : t = e - x
  OBVIOUS
<1>6. ASSUME NEW y \in S PROVE x >= y
  <2>1. e - y \in T
    OBVIOUS
  <2>2. e - x <= e - y
    BY <1>4, <1>5, <2>1
  <2> HIDE DEF R, T
  <2> QED
    BY <2>2
<1> QED
  BY <1>6, Zenon DEF Max

\* What is left of some windows of 2^Wscale bytes is not more windows.
LEMMA LessWindows ==
    ASSUME NEW r \in Nat, NEW w \in Nat \ {0}, NEW s \in Nat
    PROVE  (r * w - s) \div w \in Int /\ (r * w - s) \div w <= r
<1> DEFINE q == (r * w - s) \div w
<1>1. r * w \in Int /\ q \in Int
  OBVIOUS
<1>2. w * q <= r * w - s
  OBVIOUS
<1>3. ASSUME q >= r + 1 PROVE w * q >= w * (r + 1)
  BY <1>1, <1>3
<1>4. w * (r + 1) = r * w + w
  OBVIOUS
<1> QED
  BY <1>1, <1>2, <1>3, <1>4

\* The bytes are those of the stream, and the window field is at most that of an
\* empty window.
Offering == arrived \subseteq Byte /\ window \in Int /\ window <= RECV_WINDOW

LEMMA RemainingBounded ==
    ASSUME NEW seq \in 1 .. StreamLen + 1, NEW got \in SUBSET Byte
    PROVE  Remaining(seq, got) \in Int /\ Remaining(seq, got) <= RECV_WINDOW
<1> DEFINE S == got \cup {seq - 1}
<1>1. S \in SUBSET Nat /\ S # {} /\ StreamLen \in Nat /\ \A x \in S : x <= StreamLen
  BY RxAssumption DEF Byte
<1>2. Max(S) \in S /\ \A y \in S : y <= Max(S)
  BY <1>1, MaxBounded, Zenon
<1>3. Max(S) \in Nat /\ seq - 1 <= Max(S)
  BY <1>1, <1>2
<1>4. Size(seq, got) \in Nat
  BY <1>3 DEF Size
<1> QED
  BY <1>4, LessWindows, RxAssumption, ShiftAssumption DEF Remaining, Capacity

LEMMA OfferingStep ==
    ASSUME RxInv, Offering, [Next]_vars
    PROVE  Offering'
<1> USE DEF Offering
<1>1. window_seq \in 1 .. StreamLen + 1
  BY DEF RxInv, RxTypes
<1>2. ASSUME NEW p \in Packets, HandleAckData(p)
      PROVE  Offering'
  <2>1. p.len > 0
    BY <1>2 DEF HandleAckData
  <2>2. Bytes(p) \subseteq Byte
    BY <2>1, RxAssumption DEF Packets, Bytes, Byte
  <2>3. arrived' \in {arrived, arrived \cup Bytes(p)}
        /\ window' \in {window, Remaining(window_seq, arrived')}
    BY <1>2 DEF HandleAckData
  <2>4. arrived' \subseteq Byte
    BY <2>2, <2>3
  <2> QED
    BY <1>1, <2>3, <2>4, RemainingBounded
<1>3. ASSUME NEW p \in Packets, HandleAck0(p) \/ HandleFin(p)
      PROVE  Offering'
  BY <1>3 DEF HandleAck0, HandleFin, rxVars
<1>4. CASE SendOk
  BY <1>1, <1>4, RemainingBounded DEF SendOk
<1>5. CASE SendFails \/ AckTail \/ AdmitFin \/ KeepFin
  BY <1>5, Zenon DEF SendFails, AckTail, AdmitFin, KeepFin, rxVars
<1>6. CASE ReaderEnds
  BY <1>6 DEF ReaderEnds, rxVars
<1>7. CASE UNCHANGED vars
  BY <1>7 DEF vars, rxVars
<1> QED
  BY <1>2, <1>3, <1>4, <1>5, <1>6, <1>7 DEF Next, Arrive, Handle

\* Every byte the source is offered to send fits into the receive window: the
\* acknowledgement is never ahead of the window, except behind the whole
\* stream, and the field never above the capacity, in whichever order they and
\* the window are moved.
THEOREM RxOfferedIsAccepted == Spec => []OfferedIsAccepted
<1>1. Init => Offering
  BY RxAssumption DEF Init, Offering
<1>2. RxInv /\ Offering => OfferedIsAccepted
  <2> SUFFICES ASSUME RxInv, Offering, NEW b \in Byte, b < Edge
               PROVE  b < window_seq + Capacity
    BY DEF OfferedIsAccepted
  <2> DEFINE read == 2^Min({Wscale, MAX_RECV_WSCALE})
             shift == 2^Wscale
  <2>1. read \in Nat /\ shift \in Nat /\ 1 <= read /\ read <= shift /\ RECV_WINDOW \in Nat
        /\ StreamLen \in Nat
    BY ShiftAssumption, RxAssumption
  <2>2. GetTcpWindow \in Int /\ GetTcpWindow <= RECV_WINDOW
    BY <2>1 DEF GetTcpWindow, Offering
  <2>3. Edge = acknowledgement + GetTcpWindow * read /\ Capacity = RECV_WINDOW * shift
    BY DEF Edge, Capacity
  <2> HIDE DEF read, shift
  <2>4. GetTcpWindow * read <= RECV_WINDOW * shift
    <3>1. GetTcpWindow * read <= RECV_WINDOW * read
      BY <2>1, <2>2
    <3>2. RECV_WINDOW * read <= RECV_WINDOW * shift
      BY <2>1
    <3>3. /\ GetTcpWindow * read \in Int /\ RECV_WINDOW * read \in Int
          /\ RECV_WINDOW * shift \in Int
      BY <2>1, <2>2
    <3> QED
      BY <3>1, <3>2, <3>3
  <2>5. Capacity \in Nat /\ GetTcpWindow * read \in Int
    BY <2>1, <2>2, <2>3
  <2>6. /\ acknowledgement \in Int /\ window_seq \in Int /\ b \in Int
        /\ acknowledgement <= window_seq \/ b < window_seq
    BY <2>1 DEF RxInv, RxTypes, Counted, Byte
  <2> QED
    BY <2>3, <2>4, <2>5, <2>6
<1>3. RxInv /\ Offering /\ [Next]_vars => Offering'
  BY OfferingStep
<1> QED
  BY <1>1, <1>2, <1>3, RxReaches, PTL DEF Spec
=============================================================================
