---------------------------- MODULE StreamProofs ----------------------------
(***************************************************************************)
(* Proofs about the TCP streams of the relay.                              *)
(*                                                                         *)
(* StreamLifecycle: the maps of the packet loop and of the Forwarder       *)
(* agree, the loop's unwraps are safe, only the registered worker of a key *)
(* is open, and a closed worker makes at most two more calls, for any set  *)
(* of keys and any number of connection attempts.                          *)
(*                                                                         *)
(* FastRetransmit: a fast retransmission sends exactly the bytes that its  *)
(* packet does not report, for any cache, SACK blocks and order of         *)
(* acknowledgements.                                                       *)
(***************************************************************************)
EXTENDS StreamLifecycle, FastRetransmit, FiniteSetTheorems, NaturalsInduction,
        WellFoundedInduction, TLAPS

-----------------------------------------------------------------------------
(* StreamLifecycle *)

\* A TcpTxState was made for the key it is stored under.
StatesOfTheirKey ==
    \A k \in Keys : tx_states[k] # None => key_of[tx_states[k]] = k

\* What the handler knows of the stream of the packet's key, by its place.
HandlerKnows ==
    /\ pc \in {"syn", "set_state", "connecting", "refused", "clean_up"} =>
        streams[cur] = None
    /\ pc \in {"connecting", "refused"} =>
        tx_states[cur] # None /\ reader[tx_states[cur]] = "none"
    /\ pc \in {"ack", "sending", "sent", "send_error", "tail", "fin", "admit"} =>
        streams[cur] # None

\* A worker that has not been spawned has no tasks and no key, and a
\* registered one has been spawned.
SpawnedOnce ==
    /\ \A w \in Workers :
        /\ key_of[w] = None => reader[w] = "none"
        /\ reader[w] = "none" <=> ticker[w] = "none"
    /\ \A k \in Keys : streams[k] # None => reader[streams[k]] # "none"

\* The calls a task is already committed to.
Committed(w) ==
    (IF reader[w] \in {"forward", "close"} THEN 1 ELSE 0)
        + (IF ticker[w] = "tick" THEN 1 ELSE 0)

\* Calls made and committed to after the close; none before it.
LateBounded ==
    \A w \in Workers :
        /\ w \in is_read_closed => late[w] + Committed(w) <= 2
        /\ w \notin is_read_closed => late[w] = 0

LifecycleInv ==
    /\ TypeOK
    /\ MapsAgree
    /\ StatesOfTheirKey
    /\ HandlerKnows
    /\ SpawnedOnce
    /\ OpenIsRegistered
    /\ LateBounded

\* The first state of the program satisfies the invariant.
LEMMA LifecycleInit == Init => LifecycleInv
<1> SUFFICES ASSUME Init PROVE LifecycleInv
  OBVIOUS
<1>1. TypeOK
  BY LifecycleAssumption, Zenon DEF Init, TypeOK, MainStates, ReaderStates, TickerStates
<1>2. /\ MapsAgree /\ StatesOfTheirKey /\ HandlerKnows
      /\ SpawnedOnce /\ OpenIsRegistered /\ LateBounded
  BY LifecycleAssumption DEF Init, MapsAgree, StatesOfTheirKey, HandlerKnows, SpawnedOnce,
        OpenIsRegistered, LateBounded, Committed
<1> QED BY <1>1, <1>2 DEF LifecycleInv

\* The beginning of each handler preserves the invariant.
LEMMA PacketPreserves ==
    ASSUME LifecycleInv, NEW k \in Keys, Packet(k)
    PROVE  LifecycleInv'
<1> USE LifecycleAssumption DEF LifecycleInv, vars, mapVars, mainVars, taskVars, flagVars,
        TypeOK, MainStates, ReaderStates, TickerStates
<1>1. CASE HandleSyn(k)
  BY <1>1 DEF HandleSyn, Receive, RemoveStream,
        MapsAgree, StatesOfTheirKey, HandlerKnows, SpawnedOnce,
        OpenIsRegistered, LateBounded, Committed
<1>2. CASE HandleRst(k)
  BY <1>2 DEF HandleRst, Receive, RemoveStream,
        MapsAgree, StatesOfTheirKey, HandlerKnows, SpawnedOnce,
        OpenIsRegistered, LateBounded, Committed
<1>3. CASE HandleUnknown(k)
  BY <1>3 DEF HandleUnknown, Receive,
        MapsAgree, StatesOfTheirKey, HandlerKnows, SpawnedOnce,
        OpenIsRegistered, LateBounded, Committed
<1>4. CASE HandleAck(k)
  BY <1>4 DEF HandleAck, Receive,
        MapsAgree, StatesOfTheirKey, HandlerKnows, SpawnedOnce,
        OpenIsRegistered, LateBounded, Committed
<1>5. CASE HandleFin(k)
  BY <1>5 DEF HandleFin, Receive,
        MapsAgree, StatesOfTheirKey, HandlerKnows, SpawnedOnce,
        OpenIsRegistered, LateBounded, Committed
<1> QED BY <1>1, <1>2, <1>3, <1>4, <1>5, Zenon DEF Packet

\* Each further step of a handler preserves the invariant.
LEMMA HandlerPreserves ==
    ASSUME LifecycleInv, Handler
    PROVE  LifecycleInv'
<1> USE LifecycleAssumption DEF LifecycleInv, vars, mapVars, mainVars, taskVars, flagVars,
        TypeOK, MainStates, ReaderStates, TickerStates
<1>1. CASE CleanUp
  BY <1>1 DEF CleanUp, Locked, Unwrapping, Goto,
        MapsAgree, StatesOfTheirKey, HandlerKnows, SpawnedOnce,
        OpenIsRegistered, LateBounded, Committed
<1>2. CASE SynCleanUp
  BY <1>2 DEF SynCleanUp, Locked, Unwrapping, Goto,
        MapsAgree, StatesOfTheirKey, HandlerKnows, SpawnedOnce,
        OpenIsRegistered, LateBounded, Committed
<1>3. CASE ConnectOk
  BY <1>3 DEF ConnectOk, Locked, Unwrapping, Goto,
        MapsAgree, StatesOfTheirKey, HandlerKnows, SpawnedOnce,
        OpenIsRegistered, LateBounded, Committed
<1>4. CASE ConnectError
  BY <1>4 DEF ConnectError, Goto,
        MapsAgree, StatesOfTheirKey, HandlerKnows, SpawnedOnce,
        OpenIsRegistered, LateBounded, Committed
<1>5. CASE Refused
  BY <1>5 DEF Refused, Locked, Unwrapping, Goto, RemoveStream,
        MapsAgree, StatesOfTheirKey, HandlerKnows, SpawnedOnce,
        OpenIsRegistered, LateBounded, Committed
<1>6. CASE SendRst
  BY <1>6 DEF SendRst, Locked, Unwrapping, Goto,
        MapsAgree, StatesOfTheirKey, HandlerKnows, SpawnedOnce,
        OpenIsRegistered, LateBounded, Committed
<1>7. CASE Ack
  BY <1>7 DEF Ack, Locked, Unwrapping, Goto, RemoveStream,
        MapsAgree, StatesOfTheirKey, HandlerKnows, SpawnedOnce,
        OpenIsRegistered, LateBounded, Committed
<1>8. CASE Send
  BY <1>8 DEF Send, Goto,
        MapsAgree, StatesOfTheirKey, HandlerKnows, SpawnedOnce,
        OpenIsRegistered, LateBounded, Committed
<1>9. CASE Sent
  BY <1>9 DEF Sent, Locked, Unwrapping, Goto,
        MapsAgree, StatesOfTheirKey, HandlerKnows, SpawnedOnce,
        OpenIsRegistered, LateBounded, Committed
<1>10. CASE SendError
  BY <1>10 DEF SendError, Locked, Unwrapping, Goto, RemoveStream,
        MapsAgree, StatesOfTheirKey, HandlerKnows, SpawnedOnce,
        OpenIsRegistered, LateBounded, Committed
<1>11. CASE AckTail
  BY <1>11 DEF AckTail, Locked, Unwrapping, Goto,
        MapsAgree, StatesOfTheirKey, HandlerKnows, SpawnedOnce,
        OpenIsRegistered, LateBounded, Committed
<1>12. CASE Fin
  BY <1>12 DEF Fin,
        MapsAgree, StatesOfTheirKey, HandlerKnows, SpawnedOnce,
        OpenIsRegistered, LateBounded, Committed
<1>13. CASE Admit
  BY <1>13 DEF Admit, Locked, Unwrapping, Goto, RemoveStream,
        MapsAgree, StatesOfTheirKey, HandlerKnows, SpawnedOnce,
        OpenIsRegistered, LateBounded, Committed
<1>14. CASE MainPanic
  BY <1>14 DEF MainPanic, Locking, Unwrapping, Goto,
        MapsAgree, StatesOfTheirKey, HandlerKnows, SpawnedOnce,
        OpenIsRegistered, LateBounded, Committed
<1>15. CASE \E w \in Workers : SetState(w)
  BY <1>15 DEF SetState, Locked, Unwrapping, Goto,
        MapsAgree, StatesOfTheirKey, HandlerKnows, SpawnedOnce,
        OpenIsRegistered, LateBounded, Committed
<1> QED
  BY <1>1, <1>2, <1>3, <1>4, <1>5, <1>6, <1>7, <1>8, <1>9, <1>10, <1>11, <1>12, <1>13, <1>14,
     <1>15, Zenon DEF Handler

\* Each step of a reader task preserves the invariant.
LEMMA ReaderPreserves ==
    ASSUME LifecycleInv, NEW w \in Workers, ReaderStep(w)
    PROVE  LifecycleInv'
<1> USE LifecycleAssumption DEF LifecycleInv, vars, mapVars, mainVars, taskVars, flagVars,
        TypeOK, MainStates, ReaderStates, TickerStates
<1>0. pc # "panicked" /\ UNCHANGED <<mapVars, mainVars, key_of, ticker>>
  BY Zenon DEF ReaderStep
<1>1. CASE ReaderCheck(w)
  BY <1>0, <1>1 DEF ReaderCheck,
        MapsAgree, StatesOfTheirKey, HandlerKnows, SpawnedOnce,
        OpenIsRegistered, LateBounded, Committed
<1>2. CASE ReaderData(w)
  BY <1>0, <1>2 DEF ReaderData,
        MapsAgree, StatesOfTheirKey, HandlerKnows, SpawnedOnce,
        OpenIsRegistered, LateBounded, Committed
<1>3. CASE ReaderZero(w)
  BY <1>0, <1>3 DEF ReaderZero,
        MapsAgree, StatesOfTheirKey, HandlerKnows, SpawnedOnce,
        OpenIsRegistered, LateBounded, Committed
<1>4. CASE ReaderForward(w)
  <2>1. poisoned' \in BOOLEAN
    BY <1>0, <1>4, Zenon DEF ReaderForward, Call
  <2>2. late' \in [Workers -> Nat]
    BY <1>0, <1>4 DEF ReaderForward, Call
  <2>3. TypeOK'
    BY <1>0, <1>4, <2>1, <2>2 DEF ReaderForward, Call
  <2>4. MapsAgree' /\ StatesOfTheirKey' /\ HandlerKnows' /\ SpawnedOnce'
    BY <1>0, <1>4 DEF ReaderForward, Call,
        MapsAgree, StatesOfTheirKey, HandlerKnows, SpawnedOnce
  <2>5. OpenIsRegistered' /\ LateBounded'
    BY <1>0, <1>4 DEF ReaderForward, Call, OpenIsRegistered, LateBounded, Committed
  <2> QED BY <2>3, <2>4, <2>5, Zenon
<1>5. CASE ReaderClose(w)
  <2>1. poisoned' \in BOOLEAN
    BY <1>0, <1>5, Zenon DEF ReaderClose, Call
  <2>2. late' \in [Workers -> Nat]
    BY <1>0, <1>5 DEF ReaderClose, Call
  <2>3. TypeOK'
    BY <1>0, <1>5, <2>1, <2>2 DEF ReaderClose, Call
  <2>4. MapsAgree' /\ StatesOfTheirKey' /\ HandlerKnows' /\ SpawnedOnce'
    BY <1>0, <1>5 DEF ReaderClose, Call,
        MapsAgree, StatesOfTheirKey, HandlerKnows, SpawnedOnce
  <2>5. OpenIsRegistered' /\ LateBounded'
    BY <1>0, <1>5 DEF ReaderClose, Call, OpenIsRegistered, LateBounded, Committed
  <2> QED BY <2>3, <2>4, <2>5, Zenon
<1>6. CASE ReaderClosed(w)
  BY <1>0, <1>6 DEF ReaderClosed,
        MapsAgree, StatesOfTheirKey, HandlerKnows, SpawnedOnce,
        OpenIsRegistered, LateBounded, Committed
<1> QED BY <1>1, <1>2, <1>3, <1>4, <1>5, <1>6, Zenon DEF ReaderStep

\* A read that returns preserves the invariant.
LEMMA WakePreserves ==
    ASSUME LifecycleInv, NEW w \in Workers, ReaderWakes(w)
    PROVE  LifecycleInv'
<1> USE LifecycleAssumption DEF LifecycleInv, vars, mapVars, mainVars, taskVars, flagVars,
        TypeOK, MainStates, ReaderStates, TickerStates
<1>0. pc # "panicked" /\ UNCHANGED <<mapVars, mainVars, key_of, ticker>>
  BY Zenon DEF ReaderWakes
<1>1. CASE ReadReturns(w)
  BY <1>0, <1>1 DEF ReadReturns,
        MapsAgree, StatesOfTheirKey, HandlerKnows, SpawnedOnce,
        OpenIsRegistered, LateBounded, Committed
<1>2. CASE ReadError(w)
  BY <1>0, <1>2 DEF ReadError,
        MapsAgree, StatesOfTheirKey, HandlerKnows, SpawnedOnce,
        OpenIsRegistered, LateBounded, Committed
<1> QED BY <1>1, <1>2, Zenon DEF ReaderWakes

\* Each step of a tick task preserves the invariant.
LEMMA TickerPreserves ==
    ASSUME LifecycleInv, NEW w \in Workers, TickerStep(w)
    PROVE  LifecycleInv'
<1> USE LifecycleAssumption DEF LifecycleInv, vars, mapVars, mainVars, taskVars, flagVars,
        TypeOK, MainStates, ReaderStates, TickerStates
<1>0. pc # "panicked" /\ UNCHANGED <<mapVars, mainVars, key_of, reader, recv_zero, flagVars>>
  BY Zenon DEF TickerStep
<1>1. CASE TickerCheck(w)
  BY <1>0, <1>1 DEF TickerCheck,
        MapsAgree, StatesOfTheirKey, HandlerKnows, SpawnedOnce,
        OpenIsRegistered, LateBounded, Committed
<1>2. CASE Call(w, ticker, "tick", "check")
  <2>1. poisoned' \in BOOLEAN
    BY <1>0, <1>2, Zenon DEF Call
  <2>2. late' \in [Workers -> Nat]
    BY <1>0, <1>2 DEF Call
  <2>3. TypeOK'
    BY <1>0, <1>2, <2>1, <2>2 DEF Call
  <2>4. MapsAgree' /\ StatesOfTheirKey' /\ HandlerKnows' /\ SpawnedOnce'
    BY <1>0, <1>2 DEF Call,
        MapsAgree, StatesOfTheirKey, HandlerKnows, SpawnedOnce
  <2>5. OpenIsRegistered' /\ LateBounded'
    BY <1>0, <1>2 DEF Call, OpenIsRegistered, LateBounded, Committed
  <2> QED BY <2>3, <2>4, <2>5, Zenon
<1> QED BY <1>1, <1>2, Zenon DEF TickerStep

\* The invariant holds for every set of keys and connection attempts, and every
\* interleaving of the packet loop with the tasks.
LEMMA LifecycleReaches == Spec => []LifecycleInv
<1>1. LifecycleInv /\ [Next]_vars => LifecycleInv'
  <2> SUFFICES ASSUME LifecycleInv, [Next]_vars PROVE LifecycleInv'
    OBVIOUS
  <2>1. CASE \E k \in Keys : Packet(k)
    BY <2>1, PacketPreserves
  <2>2. CASE Handler
    BY <2>2, HandlerPreserves
  <2>3. CASE \E w \in Workers : ReaderStep(w) \/ ReaderWakes(w) \/ TickerStep(w)
    BY <2>3, ReaderPreserves, WakePreserves, TickerPreserves
  <2>4. CASE UNCHANGED vars
    BY <2>4 DEF vars, mapVars, mainVars, taskVars, flagVars, TypeOK,
        LifecycleInv, MapsAgree, StatesOfTheirKey, HandlerKnows, SpawnedOnce,
        OpenIsRegistered, LateBounded, Committed
  <2> QED BY <2>1, <2>2, <2>3, <2>4 DEF Next
<1> QED BY LifecycleInit, <1>1, PTL DEF Spec

\* Every connection the packet loop knows has its receive state and its own
\* send state, and all variables keep their types.
THEOREM LifecycleMapsAgree == Spec => [](TypeOK /\ MapsAgree)
  BY LifecycleReaches, PTL DEF LifecycleInv

\* So no unwrap of the packet loop fails.
THEOREM LifecycleUnwraps == Spec => []MainUnwrapsState
<1>1. LifecycleInv => MainUnwrapsState
  BY DEF LifecycleInv, MainUnwrapsState, Unwrapping, HandlerKnows, MapsAgree, TypeOK
<1> QED BY <1>1, LifecycleReaches, PTL

\* Only the registered worker of a key is open.
THEOREM LifecycleOpenIsRegistered == Spec => []OpenIsRegistered
  BY LifecycleReaches, PTL DEF LifecycleInv

\* Each task of a closed worker makes at most one more call on the Forwarder.
THEOREM LifecycleLateCalls == Spec => []AtMostOneLateCall
<1>1. LifecycleInv => AtMostOneLateCall
  BY DEF LifecycleInv, AtMostOneLateCall, LateBounded, Committed, TypeOK
<1> QED BY <1>1, LifecycleReaches, PTL

-----------------------------------------------------------------------------
(* Sets of naturals and steps repeated *)

\* A set of naturals has a least element.
LEMMA LeastExists ==
    ASSUME NEW S \in SUBSET Nat, S # {}
    PROVE  \E x \in S : \A y \in S : x <= y
<1> DEFINE R == {ss \in Nat \X Nat : ss[1] < ss[2]}
<1>1. IsWellFoundedOn(R, Nat)
  BY NatLessThanWellFounded, Zenon DEF OpToRel
<1>2. PICK x \in S : \A y \in S : ~(<<y, x>> \in R)
  <2> HIDE DEF R
  <2> QED
    BY <1>1, WFMin, Zenon
<1>3. ASSUME NEW y \in S PROVE x <= y
  <2>1. y \in Nat /\ x \in Nat
    OBVIOUS
  <2>2. ~(<<y, x>> \in R)
    BY <1>2
  <2> QED
    BY <2>1, <2>2
<1> QED
  BY <1>3

\* The least element of a set is in it.
LEMMA MinIs ==
    ASSUME NEW S \in SUBSET Nat, S # {}
    PROVE  Min(S) \in S /\ \A y \in S : Min(S) <= y
  BY LeastExists, Zenon DEF Min

\* What holds of 0, and of k if it holds of k - 1, holds up to m.
LEMMA Counted ==
    ASSUME NEW m \in Nat, NEW G, 0 \in G, \A k \in 1 .. m : k - 1 \in G => k \in G
    PROVE  \A k \in 0 .. m : k \in G
<1> DEFINE Bad == {k \in 0 .. m : k \notin G}
<1>1. CASE Bad # {}
  <2>1. Bad \in SUBSET Nat
    OBVIOUS
  <2>2. PICK k \in Bad : \A j \in Bad : k <= j
    <3> HIDE DEF Bad
    <3> QED
      BY <1>1, <2>1, LeastExists
  <2>3. k \in 1 .. m /\ k \notin G
    BY <2>2
  <2>4. k - 1 \in 0 .. m /\ k - 1 \notin Bad
    BY <2>2, <2>3
  <2> QED
    BY <2>3, <2>4
<1> QED
  BY <1>1

\* f is b with the step taken again and again, m times, within D.
IsStep(step, m, D) == step \in [(1 .. m) \X D -> D]
IsRun(f, step, b, m, D) ==
    /\ f \in [0 .. m -> D]
    /\ f[0] = b
    /\ \A i \in 1 .. m : f[i] = step[<<i, f[i - 1]>>]

\* A step can be taken m times, one after the other.
LEMMA Repeated ==
    ASSUME NEW D, NEW b \in D, NEW m \in Nat, NEW step, IsStep(step, m, D)
    PROVE  \E f : IsRun(f, step, b, m, D)
<1> USE DEF IsStep
<1> DEFINE Upto(k) == \E f \in [0 .. k -> D] :
                          /\ f[0] = b
                          /\ \A i \in 1 .. k : f[i] = step[<<i, f[i - 1]>>]
<1>1. Upto(0)
  <2> DEFINE f == [i \in 0 .. 0 |-> b]
  <2>1. f \in [0 .. 0 -> D] /\ f[0] = b /\ \A i \in 1 .. 0 : f[i] = step[<<i, f[i - 1]>>]
    OBVIOUS
  <2> QED
    BY <2>1, Zenon
<1>2. ASSUME NEW k \in 1 .. m, Upto(k - 1)
      PROVE  Upto(k)
  <2>1. PICK f \in [0 .. k - 1 -> D] : /\ f[0] = b
                                       /\ \A i \in 1 .. k - 1 : f[i] = step[<<i, f[i - 1]>>]
    BY <1>2
  <2> DEFINE g == [i \in 0 .. k |-> IF i < k THEN f[i] ELSE step[<<k, f[k - 1]>>]]
  <2>2. f[k - 1] \in D
    BY <2>1
  <2>3. step[<<k, f[k - 1]>>] \in D
    BY <2>2
  <2>4. \A i \in 0 .. k : i < k => f[i] \in D
    BY <2>1
  <2>5. g \in [0 .. k -> D]
    BY <2>3, <2>4
  <2>6. g[0] = b
    BY <2>1
  <2>7. ASSUME NEW i \in 1 .. k PROVE g[i] = step[<<i, g[i - 1]>>]
    <3>1. i - 1 \in 0 .. k /\ i - 1 < k /\ i \in 0 .. k
      OBVIOUS
    <3>2. g[i - 1] = f[i - 1]
      BY <3>1
    <3>3. CASE i < k
      <4>1. g[i] = f[i] /\ i \in 1 .. k - 1
        BY <3>1, <3>3
      <4> QED
        BY <2>1, <3>2, <4>1
    <3>4. CASE i = k
      BY <3>1, <3>2, <3>4
    <3> QED
      BY <3>3, <3>4
  <2> HIDE DEF g
  <2> QED
    BY <2>5, <2>6, <2>7
<1> HIDE DEF Upto
<1> DEFINE G == {k \in 0 .. m : Upto(k)}
<1>3. 0 \in G /\ \A k \in 1 .. m : k - 1 \in G => k \in G
  BY <1>1, <1>2
<1>4. m \in G
  <2>1. m \in 0 .. m
    OBVIOUS
  <2> HIDE DEF G
  <2> QED
    BY <1>3, <2>1, Counted, Zenon
<1> QED
  BY <1>4 DEF Upto, IsRun

-----------------------------------------------------------------------------
(* SackRanges *)

\* The numbers of the cache and its end, and ranges of them.
Numbers == First .. RecvNext
Ranges == {r \in Numbers \X Numbers : r[1] <= r[2]}

\* The numbers of the cache do not wrap and are within a window.
LEMMA NumbersAre ==
    /\ First \in Nat /\ RecvNext \in Nat /\ First < RecvNext /\ RecvNext <= U32_MAX
    /\ RecvNext - First <= MAX_U32_WINDOW_SIZE
    /\ U32_MAX \in Nat /\ MAX_U32_WINDOW_SIZE \in Nat /\ 2 * MAX_U32_WINDOW_SIZE < U32_MAX
  BY FastAssumption, WidthAssumption DEF RecvNext

\* Among them the code's comparison and distance are those of the integers.
LEMMA AtOrAfterIs ==
    ASSUME NEW a \in Numbers, NEW b \in Numbers
    PROVE  /\ a \in Nat /\ b \in Nat
           /\ IsAtOrAfter(a, b) <=> b <= a
           /\ b <= a => Distance(a, b) = a - b
  BY NumbersAre DEF Numbers, IsAtOrAfter, Distance

\* The bytes of a range are an interval.
LEMMA BytesOfIs ==
    ASSUME NEW a \in Numbers, NEW b \in Numbers, a <= b
    PROVE  BytesOf(<<a, b>>) = a .. (b - 1)
<1>1. a \in Nat /\ b \in Nat /\ Distance(b, a) = b - a
  BY AtOrAfterIs
<1>2. b <= U32_MAX /\ U32_MAX \in Nat
  BY NumbersAre DEF Numbers
<1>3. ASSUME NEW i \in 0 .. (b - a) - 1 PROVE AsU32(a + i) = a + i
  BY <1>1, <1>2 DEF AsU32
<1>4. BytesOf(<<a, b>>) = {AsU32(a + i) : i \in 0 .. (b - a) - 1}
  BY <1>1 DEF BytesOf, BytesFrom
<1>5. BytesOf(<<a, b>>) = {a + i : i \in 0 .. (b - a) - 1}
  BY <1>3, <1>4
<1>6. ASSUME NEW x \in a .. (b - 1) PROVE \E i \in 0 .. (b - a) - 1 : x = a + i
  <2>1. x - a \in 0 .. (b - a) - 1 /\ x = a + (x - a)
    BY <1>1
  <2> QED
    BY <2>1
<1>7. \A i \in 0 .. (b - a) - 1 : a + i \in a .. (b - 1)
  BY <1>1
<1> QED
  BY <1>5, <1>6, <1>7, Zenon

\* The bytes of some ranges.
Covered(ranges) == UNION {BytesOf(r) : r \in ranges}

\* A block taken off a range leaves ranges with the other bytes of it.
LEMMA DisjointIs ==
    ASSUME NEW main \in Ranges, NEW sub \in Ranges, sub[1] < sub[2]
    PROVE  /\ DisjointU32Range(main, sub) \subseteq Ranges
           /\ Covered(DisjointU32Range(main, sub)) = BytesOf(main) \ BytesOf(sub)
<1>1. PICK a \in Numbers, b \in Numbers, c \in Numbers, d \in Numbers :
        main = <<a, b>> /\ sub = <<c, d>> /\ a <= b /\ c < d
  BY DEF Ranges
<1>2. a \in Nat /\ b \in Nat /\ c \in Nat /\ d \in Nat
  BY NumbersAre DEF Numbers
<1>3. PICK R : R = DisjointU32Range(main, sub)
  OBVIOUS
<1>4. BytesOf(main) = a .. (b - 1) /\ BytesOf(sub) = c .. (d - 1)
  BY <1>1, <1>2, BytesOfIs
<1>5. /\ IsAtOrAfter(c, a) <=> a <= c
      /\ IsAtOrAfter(d, b) <=> b <= d
      /\ IsAtOrAfter(d, a) <=> a <= d
      /\ Distance(b, a) = b - a
      /\ a <= c => Distance(c, a) = c - a
  BY <1>1, AtOrAfterIs
<1>6. R = IF a <= c
          THEN IF b <= d THEN IF c - a >= b - a THEN {main} ELSE {<<a, c>>}
               ELSE {<<a, c>>, <<d, b>>}
          ELSE IF b <= d THEN {}
               ELSE IF a <= d THEN {<<d, b>>} ELSE {main}
  BY <1>1, <1>3, <1>5 DEF DisjointU32Range
<1> SUFFICES R \subseteq Ranges /\ Covered(R) = (a .. (b - 1)) \ (c .. (d - 1))
  BY <1>3, <1>4
<1>7. CASE a <= c /\ b <= d /\ c - a >= b - a
  <2>1. R = {main}
    BY <1>6, <1>7
  <2>2. Covered(R) = BytesOf(main)
    BY <2>1 DEF Covered
  <2> QED
    BY <1>2, <1>4, <1>7, <2>1, <2>2
<1>8. CASE a <= c /\ b <= d /\ ~(c - a >= b - a)
  <2>1. R = {<<a, c>>} /\ <<a, c>> \in Ranges
    BY <1>6, <1>8 DEF Ranges
  <2>2. BytesOf(<<a, c>>) = a .. (c - 1)
    BY <1>8, BytesOfIs
  <2>3. Covered(R) = a .. (c - 1)
    BY <2>1, <2>2 DEF Covered
  <2> QED
    BY <1>2, <1>8, <2>1, <2>3
<1>9. CASE a <= c /\ ~(b <= d)
  <2>1. R = {<<a, c>>, <<d, b>>} /\ <<a, c>> \in Ranges /\ <<d, b>> \in Ranges
    BY <1>2, <1>6, <1>9 DEF Ranges
  <2>2. BytesOf(<<a, c>>) = a .. (c - 1) /\ BytesOf(<<d, b>>) = d .. (b - 1)
    BY <1>2, <1>9, BytesOfIs
  <2>3. Covered(R) = BytesOf(<<a, c>>) \cup BytesOf(<<d, b>>)
    BY <2>1 DEF Covered
  <2>4. (a .. (c - 1)) \cup (d .. (b - 1)) = (a .. (b - 1)) \ (c .. (d - 1))
    BY <1>1, <1>2, <1>9
  <2> QED
    BY <2>1, <2>2, <2>3, <2>4, Zenon
<1>10. CASE ~(a <= c) /\ b <= d
  <2>1. R = {}
    BY <1>6, <1>10
  <2>2. Covered(R) = {}
    BY <2>1 DEF Covered
  <2> QED
    BY <1>2, <1>10, <2>1, <2>2
<1>11. CASE ~(a <= c) /\ ~(b <= d) /\ a <= d
  <2>1. R = {<<d, b>>} /\ <<d, b>> \in Ranges
    BY <1>2, <1>6, <1>11 DEF Ranges
  <2>2. BytesOf(<<d, b>>) = d .. (b - 1)
    BY <1>2, <1>11, BytesOfIs
  <2>3. Covered(R) = d .. (b - 1)
    BY <2>1, <2>2 DEF Covered
  <2> QED
    BY <1>2, <1>11, <2>1, <2>3
<1>12. CASE ~(a <= c) /\ ~(b <= d) /\ ~(a <= d)
  <2>1. R = {main}
    BY <1>6, <1>12
  <2>2. Covered(R) = BytesOf(main)
    BY <2>1 DEF Covered
  <2> QED
    BY <1>2, <1>4, <1>12, <2>1, <2>2
<1> QED
  BY <1>7, <1>8, <1>9, <1>10, <1>11, <1>12

\* So does a block taken off several.
LEMMA TakeOffIs ==
    ASSUME NEW R \in SUBSET Ranges, NEW sub \in Ranges, sub[1] < sub[2]
    PROVE  /\ TakeOff(R, sub) \in SUBSET Ranges
           /\ Covered(TakeOff(R, sub)) = Covered(R) \ BytesOf(sub)
<1>1. \A r \in R : /\ DisjointU32Range(r, sub) \subseteq Ranges
                   /\ Covered(DisjointU32Range(r, sub)) = BytesOf(r) \ BytesOf(sub)
  BY DisjointIs
<1>2. Covered(TakeOff(R, sub)) = UNION {Covered(DisjointU32Range(r, sub)) : r \in R}
  BY DEF Covered, TakeOff
<1>3. Covered(TakeOff(R, sub)) = UNION {BytesOf(r) \ BytesOf(sub) : r \in R}
  BY <1>1, <1>2
<1>4. UNION {BytesOf(r) \ BytesOf(sub) : r \in R} = Covered(R) \ BytesOf(sub)
  BY DEF Covered
<1> QED
  BY <1>1, <1>3, <1>4 DEF TakeOff

-----------------------------------------------------------------------------
\* The recursion of Without: f[k] is what the first k blocks leave.
Left(f, cache, sacks) ==
    f = [k \in 0 .. Len(sacks) |-> IF k = 0 THEN {cache} ELSE TakeOff(f[k - 1], sacks[k])]

\* The ranges left after 0, 1, 2, ... blocks: the recursion has a solution.
LEMMA WithoutRuns ==
    ASSUME NEW cache \in Ranges, NEW sacks \in Seq(Blocks)
    PROVE  \E f : Left(f, cache, sacks) /\ Without(cache, sacks) = f[Len(sacks)]
<1> DEFINE left[k \in 0 .. Len(sacks)] ==
               IF k = 0 THEN {cache} ELSE TakeOff(left[k - 1], sacks[k])
<1>1. Without(cache, sacks) = left[Len(sacks)]
  BY Zenon DEF Without
<1>2. PICK m \in Nat : m = Len(sacks)
  OBVIOUS
<1>3. ASSUME NEW i \in 1 .. m PROVE sacks[i] \in Ranges /\ sacks[i][1] < sacks[i][2]
  BY <1>2 DEF Blocks, Ranges, Numbers
<1>4. PICK D, b, s : /\ D = SUBSET Ranges /\ b = {cache}
                     /\ s = [x \in (1 .. m) \X D |-> TakeOff(x[2], sacks[x[1]])]
  BY Zenon
<1>5. ASSUME NEW i \in 1 .. m, NEW R \in D PROVE TakeOff(R, sacks[i]) \in D
  BY <1>3, <1>4, TakeOffIs, Zenon
<1>6. b \in D /\ IsStep(s, m, D)
  BY <1>4, <1>5, Zenon DEF IsStep
<1>7. PICK f : IsRun(f, s, b, m, D)
  BY <1>6, Repeated
<1>8. ASSUME NEW i \in 1 .. m PROVE f[i] = TakeOff(f[i - 1], sacks[i])
  <2>1. f[i - 1] \in D
    BY <1>7 DEF IsRun
  <2>2. f[i] = s[<<i, f[i - 1]>>]
    BY <1>7 DEF IsRun
  <2> QED
    BY <1>4, <2>1, <2>2
<1>9. \A k \in 0 .. m : f[k] = IF k = 0 THEN {cache} ELSE TakeOff(f[k - 1], sacks[k])
  <2>1. f[0] = {cache}
    BY <1>4, <1>7, Zenon DEF IsRun
  <2>2. \A k \in 0 .. m : k = 0 \/ k \in 1 .. m
    OBVIOUS
  <2>3. \A k \in 1 .. m : k # 0
    OBVIOUS
  <2> QED
    BY <1>8, <2>1, <2>2, <2>3, Zenon
<1>10. f = [k \in 0 .. m |-> f[k]]
  BY <1>7 DEF IsRun
<1>11. \E g : Left(g, cache, sacks)
  BY <1>2, <1>9, <1>10 DEF Left
<1>12. left = CHOOSE g : Left(g, cache, sacks)
  BY Zenon DEF Left
<1> HIDE DEF left
<1>13. Left(left, cache, sacks)
  BY <1>11, <1>12
<1> QED
  BY <1>1, <1>13

\* The ranges left after all blocks are the bytes of the cache that no block
\* reports.
LEMMA WithoutIs ==
    ASSUME NEW cache \in Ranges, NEW sacks \in Seq(Blocks)
    PROVE  Covered(Without(cache, sacks)) =
               BytesOf(cache) \ UNION {BytesOf(sacks[i]) : i \in 1 .. Len(sacks)}
<1>1. PICK f : Left(f, cache, sacks) /\ Without(cache, sacks) = f[Len(sacks)]
  BY WithoutRuns
<1>2. PICK m \in Nat : m = Len(sacks)
  OBVIOUS
<1>3. /\ f[0] = {cache}
      /\ \A k \in 1 .. m : f[k] = TakeOff(f[k - 1], sacks[k])
  <2>1. f = [k \in 0 .. m |-> IF k = 0 THEN {cache} ELSE TakeOff(f[k - 1], sacks[k])]
    BY <1>1, <1>2, Zenon DEF Left
  <2>2. ASSUME NEW k \in 0 .. m
        PROVE  f[k] = IF k = 0 THEN {cache} ELSE TakeOff(f[k - 1], sacks[k])
    BY <2>1, Zenon
  <2>3. \A k \in 1 .. m : k \in 0 .. m /\ k # 0
    OBVIOUS
  <2>4. 0 \in 0 .. m
    OBVIOUS
  <2> QED
    BY <2>2, <2>3, <2>4, Zenon
<1> DEFINE Reported(k) == UNION {BytesOf(sacks[i]) : i \in 1 .. k}
           G == {k \in 0 .. m : /\ f[k] \in SUBSET Ranges
                                /\ Covered(f[k]) = BytesOf(cache) \ Reported(k)}
<1>4. 0 \in G
  <2>1. Covered(f[0]) = BytesOf(cache)
    BY <1>3 DEF Covered
  <2>2. Reported(0) = {}
    OBVIOUS
  <2>3. f[0] \in SUBSET Ranges /\ 0 \in 0 .. m
    BY <1>3
  <2> HIDE DEF Reported
  <2> QED
    BY <2>1, <2>2, <2>3
<1>5. ASSUME NEW k \in 1 .. m, k - 1 \in G PROVE k \in G
  <2>1. sacks[k] \in Ranges /\ sacks[k][1] < sacks[k][2]
    BY <1>2 DEF Blocks, Ranges, Numbers
  <2>2. PICK R, s : R = f[k - 1] /\ s = sacks[k]
    OBVIOUS
  <2>3. R \in SUBSET Ranges /\ Covered(R) = BytesOf(cache) \ Reported(k - 1)
    BY <1>5, <2>2
  <2>4. f[k] \in SUBSET Ranges /\ Covered(f[k]) = Covered(R) \ BytesOf(s)
    <3>1. f[k] = TakeOff(R, s) /\ s \in Ranges /\ s[1] < s[2]
      BY <1>3, <2>1, <2>2, Zenon
    <3>2. R \in SUBSET Ranges
      BY <2>3
    <3>3. TakeOff(R, s) \in SUBSET Ranges /\ Covered(TakeOff(R, s)) = Covered(R) \ BytesOf(s)
      BY <3>1, <3>2, TakeOffIs
    <3> QED
      BY <3>1, <3>3
  <2>5. Reported(k) = Reported(k - 1) \cup BytesOf(s)
    <3>1. 1 .. k = (1 .. (k - 1)) \cup {k}
      OBVIOUS
    <3> QED
      BY <2>2, <3>1
  <2> HIDE DEF Reported
  <2> QED
    BY <2>3, <2>4, <2>5
<1>6. m \in G
  <2>1. m \in 0 .. m
    OBVIOUS
  <2>2. \A k \in 1 .. m : k - 1 \in G => k \in G
    BY <1>5, Zenon
  <2> HIDE DEF G
  <2> QED
    BY <1>4, <2>1, <2>2, Counted, Zenon
<1> QED
  BY <1>1, <1>2, <1>6

-----------------------------------------------------------------------------
(* FastRetransmit: the source's packets *)

\* A finite set in a sequence.
LEMMA SetToSeqIs ==
    ASSUME NEW S, IsFiniteSet(S), NEW T, S \subseteq T
    PROVE  SetToSeq(S) \in Seq(T)
<1>1. PICK m \in Nat : m = Cardinality(S)
  BY FS_CardinalityType
<1>2. ExistsBijection(1 .. m, S)
  BY <1>1, FS_CardinalityType
<1>3. \E f \in [1 .. m -> S] : IsInjective(f)
  <2>1. PICK f : f \in Bijection(1 .. m, S)
    BY <1>2 DEF ExistsBijection
  <2>2. f \in [1 .. m -> S] /\ \A a, b \in 1 .. m : f[a] = f[b] => a = b
    BY <2>1 DEF Bijection, Injection, IsInjective
  <2> QED
    BY <2>2 DEF IsInjective
<1>4. SetToSeq(S) \in [1 .. m -> S]
  BY <1>1, <1>3 DEF SetToSeq
<1> QED
  BY <1>4

\* The source acknowledges a number of the cache.
LEMMA NextMissingIs ==
    ASSUME NEW S \in SUBSET Bytes
    PROVE  NextMissing(S) \in Numbers
<1> DEFINE T == Numbers \ S
<1>1. RecvNext \in T /\ T \in SUBSET Nat
  BY NumbersAre, FastAssumption DEF Numbers, Bytes, RecvNext
<1>2. NextMissing(S) = Min(T)
  BY DEF NextMissing, Numbers
<1>3. Min(T) \in T
  <2> HIDE DEF T
  <2> QED
    BY <1>1, MinIs
<1> QED
  BY <1>2, <1>3

\* The runs of bytes it has are finitely many blocks of the cache.
LEMMA RunsOfIs ==
    ASSUME NEW S \in SUBSET Bytes
    PROVE  RunsOf(S) \subseteq Blocks /\ IsFiniteSet(RunsOf(S))
<1> DEFINE starts == {b \in S : b > NextMissing(S) /\ b - 1 \notin S}
           End(b) == Min({e \in b .. RecvNext : e \notin S})
<1>1. RunsOf(S) = {<<b, End(b)>> : b \in starts}
  BY DEF RunsOf
<1>2. ASSUME NEW b \in S PROVE <<b, End(b)>> \in Blocks
  <2>1. PICK T : T = {e \in b .. RecvNext : e \notin S}
    BY Zenon
  <2>2. b \in Nat /\ First <= b /\ b < RecvNext /\ RecvNext \notin S
    BY NumbersAre, FastAssumption DEF Bytes, RecvNext
  <2>3. RecvNext \in T /\ T \in SUBSET Nat /\ b \notin T
    BY <2>1, <2>2, NumbersAre
  <2>4. Min(T) \in T
    BY <2>3, MinIs
  <2>5. End(b) \in b .. RecvNext /\ End(b) # b
    BY <2>1, <2>3, <2>4
  <2> HIDE DEF End
  <2> QED
    BY <2>2, <2>5, NumbersAre DEF Blocks
<1>3. IsFiniteSet(starts)
  <2>1. IsFiniteSet(Bytes)
    BY NumbersAre, FastAssumption, FS_Interval DEF Bytes
  <2>2. starts \subseteq Bytes
    OBVIOUS
  <2> HIDE DEF starts
  <2> QED
    BY <2>1, <2>2, FS_Subset
<1>4. starts \subseteq S
  OBVIOUS
<1>5. IsFiniteSet(RunsOf(S))
  <2> DEFINE g == [b \in starts |-> <<b, End(b)>>]
  <2>1. RunsOf(S) = {g[b] : b \in starts}
    BY <1>1
  <2>2. g \in Surjection(starts, RunsOf(S))
    <3> HIDE DEF End, starts
    <3> QED
      BY <1>1 DEF Surjection
  <2> HIDE DEF g, starts
  <2> QED
    BY <1>3, <2>2, FS_Surjection
<1> QED
  <2> HIDE DEF End
  <2> QED
    BY <1>1, <1>2, <1>4, <1>5

\* So are the blocks it reports.
LEMMA SacksOfIs ==
    ASSUME NEW S \in SUBSET Bytes, NEW b \in Bytes, NEW again \in BOOLEAN
    PROVE  SacksOf(S, b, again) \in Seq(Blocks)
<1> DEFINE newest == {r \in RunsOf(S) : b \in r[1] .. r[2] - 1}
           twice == IF again THEN <<<<b, b + 1>>>> ELSE <<>>
<1>1. RunsOf(S) \subseteq Blocks /\ IsFiniteSet(RunsOf(S))
  BY RunsOfIs
<1>2. newest \subseteq RunsOf(S) /\ RunsOf(S) \ newest \subseteq RunsOf(S)
  OBVIOUS
<1>3. <<b, b + 1>> \in Blocks
  BY NumbersAre, FastAssumption DEF Bytes, Blocks, RecvNext
<1>4. twice \in Seq(Blocks)
  BY <1>3
<1>5. SacksOf(S, b, again) = twice \o SetToSeq(newest) \o SetToSeq(RunsOf(S) \ newest)
  BY Zenon DEF SacksOf
<1> HIDE DEF newest, twice
<1>6. IsFiniteSet(newest) /\ IsFiniteSet(RunsOf(S) \ newest)
  BY <1>1, <1>2, FS_Subset
<1>7. SetToSeq(newest) \in Seq(Blocks) /\ SetToSeq(RunsOf(S) \ newest) \in Seq(Blocks)
  BY <1>1, <1>2, <1>6, SetToSeqIs
<1> QED
  BY <1>4, <1>5, <1>7

-----------------------------------------------------------------------------
(* Every step keeps the invariant. *)

\* Inductive as it stands once the types say what the blocks of a packet are.
FastInv == FastTypeOK /\ ResendsMissing

\* What is selected is the cache without the reported bytes.
LEMMA SelectedIs ==
    ASSUME NEW seq \in Numbers, NEW sacks \in Seq(Blocks), sack_perm \in BOOLEAN
    PROVE  /\ Selected(<<seq, RecvNext>>, sacks) =
                BytesOf(<<seq, RecvNext>>) \
                    (IF sack_perm THEN UNION {BytesOf(r) : r \in Range(sacks)} ELSE {})
           /\ BytesOf(<<seq, RecvNext>>) \subseteq Bytes
<1>1. PICK cache : cache = <<seq, RecvNext>>
  BY Zenon
<1>2. seq \in Nat /\ RecvNext \in Numbers /\ First <= seq /\ seq <= RecvNext
  BY NumbersAre DEF Numbers
<1>3. cache \in Ranges
  BY <1>1, <1>2 DEF Ranges
<1>4. BytesOf(cache) = seq .. (RecvNext - 1)
  BY <1>1, <1>2, BytesOfIs
<1>5. BytesOf(cache) \subseteq Bytes
  BY <1>2, <1>4, NumbersAre, FastAssumption DEF Bytes, RecvNext
<1>6. UNION {BytesOf(r) : r \in Range(sacks)} =
          UNION {BytesOf(sacks[i]) : i \in 1 .. Len(sacks)}
  BY DEF Range
<1>7. CASE sack_perm /\ sacks # <<>>
  <2>1. Selected(cache, sacks) = Covered(Without(cache, sacks))
    BY <1>7 DEF Selected, Covered
  <2> QED
    BY <1>1, <1>3, <1>5, <1>6, <1>7, <2>1, WithoutIs
<1>8. CASE ~sack_perm
  BY <1>1, <1>5, <1>8 DEF Selected
<1>9. CASE sacks = <<>>
  <2>1. UNION {BytesOf(r) : r \in Range(sacks)} = {}
    BY <1>9 DEF Range
  <2> QED
    BY <1>1, <1>5, <1>9, <2>1 DEF Selected
<1> QED
  BY <1>7, <1>8, <1>9

\* Handling an ACK0 keeps the invariant.
LEMMA HandleKeeps ==
    ASSUME FastInv, HandleAck0
    PROVE  FastInv'
<1>1. PICK p : p = Head(acks)
  OBVIOUS
<1>2. p \in Ack0 /\ acks' \in Seq(Ack0)
  <2>1. acks \in Seq(Ack0)
    BY Zenon DEF FastInv, FastTypeOK
  <2>2. acks # <<>> /\ acks' = Tail(acks)
    BY Zenon DEF HandleAck0
  <2> QED
    BY <1>1, <2>1, <2>2
<1>3. p.ack \in Numbers /\ p.sacks \in Seq(Blocks) /\ p.zero \in BOOLEAN
  BY <1>2 DEF Ack0, Numbers
<1>4. PICK seq : seq = IF IsAtOrAfter(p.ack, sequence) THEN p.ack ELSE sequence
  OBVIOUS
<1>5. seq \in Numbers
  BY <1>3, <1>4 DEF FastInv, FastTypeOK, Numbers
<1>6. PICK retrans : retrans = (IsRetrans(p.ack) /\ ~p.zero)
  OBVIOUS
<1>7. PICK reported :
          reported = IF sack_perm THEN UNION {BytesOf(r) : r \in Range(p.sacks)} ELSE {}
  BY Zenon
<1>8. /\ sequence' = seq
      /\ last_acknowledgement' = p.ack
      /\ duplicate' = IF retrans THEN 0 ELSE Duplicates(p.ack)
      /\ since' = IF retrans THEN 0 ELSE since
      /\ resent' = IF retrans THEN Selected(<<seq, RecvNext>>, p.sacks) ELSE {}
      /\ missing' = IF retrans THEN BytesOf(<<seq, RecvNext>>) \ reported ELSE {}
      /\ net' = net \cup resent'
      /\ phase' = IF retrans /\ phase = "first" THEN "again" ELSE phase
      /\ UNCHANGED <<sack_perm, got, boundVars>>
  BY <1>1, <1>4, <1>6, <1>7, Zenon DEF HandleAck0
<1>9. /\ Selected(<<seq, RecvNext>>, p.sacks) = BytesOf(<<seq, RecvNext>>) \ reported
      /\ BytesOf(<<seq, RecvNext>>) \subseteq Bytes
  <2>1. sack_perm \in BOOLEAN
    BY Zenon DEF FastInv, FastTypeOK
  <2> QED
    BY <1>3, <1>5, <1>7, <2>1, SelectedIs, Zenon
<1>10. resent' = missing' /\ missing' \subseteq Bytes
  BY <1>8, <1>9
<1>11. duplicate' \in Nat
  BY <1>8 DEF FastInv, FastTypeOK, Duplicates
<1>12. since' \in 0 .. Cooled
  BY <1>8, FastAssumption DEF FastInv, FastTypeOK, Cooled
<1>13. sequence' \in First .. RecvNext /\ last_acknowledgement' \in {0} \cup First .. RecvNext
  BY <1>3, <1>5, <1>8 DEF Numbers
<1>14. net' \subseteq Bytes /\ got' \subseteq Bytes /\ sack_perm' \in BOOLEAN
  BY <1>8, <1>10 DEF FastInv, FastTypeOK
<1>15. phase' \in {"first", "again", "lost"} /\ losses' \in 0 .. MaxLoss /\ odd' \in 0 .. MaxOdd
  BY <1>8 DEF FastInv, FastTypeOK, boundVars
<1> QED
  BY <1>2, <1>10, <1>11, <1>12, <1>13, <1>14, <1>15, Zenon
     DEF FastInv, FastTypeOK, ResendsMissing

\* The source's acknowledgements are well formed.
LEMMA AckIs ==
    ASSUME NEW S \in SUBSET Bytes, NEW sacks \in Seq(Blocks), NEW zero \in BOOLEAN, FastInv,
           acks' = Append(acks, [ack |-> NextMissing(S), zero |-> zero, sacks |-> sacks])
    PROVE  acks' \in Seq(Ack0)
<1>1. PICK a : a = [ack |-> NextMissing(S), zero |-> zero, sacks |-> sacks]
  OBVIOUS
<1>2. NextMissing(S) \in First .. RecvNext
  BY NextMissingIs DEF Numbers
<1>3. a \in Ack0
  BY <1>1, <1>2 DEF Ack0
<1> QED
  BY <1>1, <1>3 DEF FastInv, FastTypeOK

\* A segment that arrives keeps the invariant.
LEMMA ArriveKeeps ==
    ASSUME FastInv, NEW b \in net, Arrive(b)
    PROVE  FastInv'
<1>1. /\ net \subseteq Bytes /\ got \subseteq Bytes /\ b \in Bytes
      /\ net' = net \ {b} /\ got' = got \cup {b}
  BY DEF FastInv, FastTypeOK, Arrive
<1>2. acks' \in Seq(Ack0)
  <2>1. PICK S, again, sacks : S = got' /\ again = (b \in got) /\ sacks = SacksOf(S, b, again)
    OBVIOUS
  <2>2. S \in SUBSET Bytes /\ again \in BOOLEAN
    BY <1>1, <2>1
  <2>3. sacks \in Seq(Blocks)
    BY <1>1, <2>1, <2>2, SacksOfIs, Zenon
  <2>4. acks' = Append(acks, [ack |-> NextMissing(S), zero |-> FALSE, sacks |-> sacks])
    BY <2>1, Zenon DEF Arrive
  <2> QED
    BY <2>2, <2>3, <2>4, AckIs, Zenon
<1> QED
  BY <1>1, <1>2 DEF FastInv, FastTypeOK, ResendsMissing, Arrive, NothingResent, txVars, boundVars

\* So does a window update.
LEMMA UpdateKeeps ==
    ASSUME FastInv, Update
    PROVE  FastInv'
<1>1. PICK zero \in BOOLEAN :
        acks' = Append(acks, [ack |-> NextMissing(got), zero |-> zero,
                              sacks |-> SetToSeq(RunsOf(got))])
  BY DEF Update
<1>2. got \in SUBSET Bytes
  BY DEF FastInv, FastTypeOK
<1>3. SetToSeq(RunsOf(got)) \in Seq(Blocks)
  BY <1>2, RunsOfIs, SetToSeqIs
<1>4. acks' \in Seq(Ack0)
  BY <1>1, <1>2, <1>3, AckIs
<1>5. odd' \in 0 .. MaxOdd
  BY FastAssumption DEF FastInv, FastTypeOK, Update
<1> QED
  BY <1>4, <1>5 DEF FastInv, FastTypeOK, ResendsMissing, Update, NothingResent, txVars, sourceVars

\* So do acknowledgements overtaken, segments lost and time.
LEMMA OthersKeep ==
    ASSUME FastInv, Overtake \/ Tick \/ (\E b \in net : Lose(b)) \/ UNCHANGED fastVars
    PROVE  FastInv'
<1>1. CASE Overtake
  <2>1. acks' \in Seq(Ack0)
    <3>1. acks \in Seq(Ack0) /\ acks # <<>>
      BY <1>1 DEF FastInv, FastTypeOK, Overtake
    <3>2. Tail(acks) \in Seq(Ack0) /\ Head(acks) \in Ack0
      BY <3>1
    <3> QED
      BY <1>1, <3>2 DEF Overtake
  <2>2. odd' \in 0 .. MaxOdd
    BY <1>1, FastAssumption DEF FastInv, FastTypeOK, Overtake
  <2> QED
    BY <1>1, <2>1, <2>2 DEF FastInv, FastTypeOK, ResendsMissing, Overtake, NothingResent, txVars,
                            sourceVars
<1>2. CASE Tick
  <2>1. since' \in 0 .. Cooled
    BY <1>2, FastAssumption DEF FastInv, FastTypeOK, Tick, Cooled
  <2> QED
    BY <1>2, <2>1 DEF FastInv, FastTypeOK, ResendsMissing, Tick, NothingResent, sourceVars,
                      boundVars
<1>3. ASSUME NEW b \in net, Lose(b) PROVE FastInv'
  <2>1. losses' \in 0 .. MaxLoss
    BY <1>3, FastAssumption DEF FastInv, FastTypeOK, Lose
  <2> QED
    BY <1>3, <2>1 DEF FastInv, FastTypeOK, ResendsMissing, Lose, NothingResent, txVars
<1>4. CASE UNCHANGED fastVars
  BY <1>4, Zenon DEF FastInv, FastTypeOK, ResendsMissing, fastVars, txVars, sourceVars,
                     resendVars, boundVars
<1> QED
  BY <1>1, <1>2, <1>3, <1>4

\* The invariant holds in every state, for caches of every size within a window,
\* every threshold and cool-down and every number of losses.
LEMMA FastReaches == FastSpec => []FastInv
<1>1. FastInit => FastInv
  <2> SUFFICES ASSUME FastInit PROVE FastInv
    OBVIOUS
  <2>1. /\ sequence \in First .. RecvNext /\ last_acknowledgement \in {0} \cup First .. RecvNext
        /\ since \in 0 .. Cooled /\ losses \in 0 .. MaxLoss /\ odd \in 0 .. MaxOdd
    BY NumbersAre, FastAssumption DEF FastInit, Cooled
  <2>2. acks \in Seq(Ack0) /\ phase \in {"first", "again", "lost"} /\ duplicate \in Nat
    BY DEF FastInit
  <2> QED
    BY <2>1, <2>2 DEF FastInit, FastInv, FastTypeOK, ResendsMissing
<1>2. FastInv /\ [FastNext]_fastVars => FastInv'
  <2> SUFFICES ASSUME FastInv, [FastNext]_fastVars PROVE FastInv'
    OBVIOUS
  <2> QED
    BY HandleKeeps, ArriveKeeps, UpdateKeeps, OthersKeep, Zenon DEF FastNext
<1>3. QED
  BY <1>1, <1>2, PTL DEF FastSpec

\* A fast retransmission sends exactly the cached bytes that its packet does
\* not report, for caches, SACK blocks and acknowledgements of every kind.
THEOREM FastResendsMissing == FastSpec => []ResendsMissing
<1>1. FastInv => ResendsMissing
  BY DEF FastInv
<1>2. QED
  BY <1>1, FastReaches, PTL
=============================================================================
