--------------------------- MODULE IngressProofs ----------------------------
(***************************************************************************)
(* Proofs about the front of the packet loop, for any datagram length, any *)
(* cut into fragments, any EXPIRE_TIME and any hosts: what the Defraggler  *)
(* returns, and where the Forwarder's frames go.                           *)
(***************************************************************************)
EXTENDS Ingress, FiniteSetTheorems, TLAPS

-----------------------------------------------------------------------------
(* How a datagram is cut *)

\* The units a fragment carries, and those of a group that hold something.
UnitsOf(o) == o + 1 .. EndOf(o)
Held(g) == {u \in Unit : g.buffer[u] # 0}

\* A fragment is not empty and lies inside its datagram.
LEMMA FragmentInside ==
    ASSUME NEW o \in Fragments
    PROVE  /\ o \in Nat /\ EndOf(o) \in Nat /\ o < EndOf(o) /\ EndOf(o) <= Units
           /\ UnitsOf(o) \subseteq Unit
           /\ ~IsMoreFragment(o) => EndOf(o) = Units
  BY DefragAssumption DEF Fragments, EndOf, UnitsOf, Unit, IsMoreFragment

\* Two multiples of FragmentLen are at least that far apart.
LEMMA MultiplesApart ==
    ASSUME NEW F \in Nat \ {0}, NEW a \in Nat, NEW b \in Nat,
           a % F = 0, b % F = 0, a < b
    PROVE  a + F <= b
<1>1. a = F * (a \div F) /\ b = F * (b \div F) /\ a \div F \in Nat /\ b \div F \in Nat
  OBVIOUS
<1>2. \A i, j \in Nat : F * i < F * j => F * i + F <= F * j
  OBVIOUS
<1> QED
  BY <1>1, <1>2, Zenon

\* Two fragments share no unit.
LEMMA FragmentsApart ==
    ASSUME NEW o \in Fragments, NEW p \in Fragments, o # p
    PROVE  UnitsOf(o) \cap UnitsOf(p) = {}
<1> DEFINE F == FragmentLen
<1>1. F \in Nat \ {0} /\ o \in Nat /\ p \in Nat /\ o % F = 0 /\ p % F = 0
  BY DefragAssumption DEF Fragments
<1>2. o < p => o + F <= p
  BY <1>1, MultiplesApart, Zenon
<1>3. p < o => p + F <= o
  BY <1>1, MultiplesApart, Zenon
<1>4. EndOf(o) <= o + F /\ EndOf(p) <= p + F /\ EndOf(o) \in Nat /\ EndOf(p) \in Nat
  BY <1>1, DefragAssumption DEF EndOf
<1> QED
  BY <1>1, <1>2, <1>3, <1>4 DEF UnitsOf

\* Below every number there is a multiple of FragmentLen, near enough.
LEMMA MultipleBelow ==
    ASSUME NEW F \in Nat \ {0}, NEW a \in Nat
    PROVE  \E b \in Nat : b % F = 0 /\ b <= a /\ a < b + F
<1> DEFINE b == F * (a \div F)
<1>1. a = b + (a % F) /\ a % F \in 0 .. F - 1 /\ a \div F \in Nat
  OBVIOUS
<1>2. \A k \in Nat : F * k \in Nat /\ (F * k) % F = 0
  OBVIOUS
<1>3. b \in Nat /\ b % F = 0
  BY <1>1, <1>2
<1> HIDE DEF b
<1>4. b <= a /\ a < b + F
  BY <1>1, <1>3
<1> QED
  BY <1>3, <1>4

\* Every unit is in some fragment, and the last unit in one that tells the total.
LEMMA FragmentsCover ==
    ASSUME NEW u \in Unit
    PROVE  \E o \in Fragments : u \in UnitsOf(o) /\ (u = Units => ~IsMoreFragment(o))
<1>1. FragmentLen \in Nat \ {0} /\ Units \in Nat /\ u \in Nat /\ u - 1 \in Nat /\ u <= Units
  BY DefragAssumption DEF Unit
<1>2. PICK o \in Nat : o % FragmentLen = 0 /\ o <= u - 1 /\ u - 1 < o + FragmentLen
  BY <1>1, MultipleBelow, Zenon
<1>3. o \in Fragments
  BY <1>1, <1>2 DEF Fragments
<1>4. u \in UnitsOf(o) /\ (u = Units => ~IsMoreFragment(o))
  BY <1>1, <1>2 DEF UnitsOf, EndOf, IsMoreFragment
<1> QED
  BY <1>3, <1>4

\* A fragment carries as many units as its payload is long.
LEMMA FragmentSize ==
    ASSUME NEW o \in Fragments
    PROVE  IsFiniteSet(UnitsOf(o)) /\ Cardinality(UnitsOf(o)) = PayloadLen(o)
<1>1. o + 1 \in Int /\ EndOf(o) \in Int /\ o < EndOf(o)
  BY FragmentInside
<1>2. /\ IsFiniteSet((o + 1) .. EndOf(o))
      /\ Cardinality((o + 1) .. EndOf(o)) =
            IF o + 1 > EndOf(o) THEN 0 ELSE EndOf(o) - (o + 1) + 1
  BY <1>1, FS_Interval
<1> QED
  BY <1>1, <1>2, FragmentInside DEF UnitsOf, PayloadLen

-----------------------------------------------------------------------------
(* The invariant of the Defraggler *)

\* There is one group at most, and it is one.
GroupTypes ==
    /\ frags \subseteq Group /\ \A g, h \in frags : g = h
    /\ cur \in 1 .. Datagrams /\ sent \subseteq Fragments
    /\ repeats \in Nat /\ foreign \in Nat
    /\ silent \in 0 .. Longer /\ span \in 0 .. Longer
    /\ result \in [Unit -> 0 .. Other] /\ returned \subseteq 1 .. Datagrams

\* A group is at least as old as its last fragment, so that what is left of an
\* earlier datagram has expired; and it is not complete.
LeftOver ==
    \A g \in frags :
        /\ silent <= g.age /\ ~IsCompleted(g)
        /\ IsExpired(g) \/ \A u \in Unit : g.buffer[u] \in {0, cur, Other}

\* Without repeats and strangers, the length of a live group counts the units it
\* holds, and none is held of a fragment that has not come.
Undisturbed == repeats = 0 /\ foreign = 0
Counts(g) ==
    /\ \A u \in Unit : g.buffer[u] \in {0, cur}
    /\ g.length = Cardinality(Held(g))
    /\ \A o \in Fragments \ sent : UnitsOf(o) \cap Held(g) = {}
Counted ==
    Undisturbed => \A g \in frags : IsExpired(g) \/ (sent # {} /\ Counts(g))

\* Then, in time, what has come of the datagram is in its group, or returned.
Keeps(g) ==
    /\ g.age <= span
    /\ \A o \in sent : /\ UnitsOf(o) \subseteq Held(g)
                       /\ IsMoreFragment(o) \/ g.total_length # 0
Kept ==
    Undisturbed /\ sent # {} /\ span <= EXPIRE_TIME =>
        cur \in returned \/ \E g \in frags : Keeps(g)

DefragInv == GroupTypes /\ LeftOver /\ Counted /\ Kept /\ NeverMixed /\ ReturnsWhole

-----------------------------------------------------------------------------
(* Adding a fragment *)

\* The group a fragment is added to, and what becomes of it.
Base(old) ==
    \/ old = NewFragmentation /\ \A g \in frags : IsExpired(g)
    \/ old \in frags /\ ~IsExpired(old)
Outcome(g) ==
    \/ /\ IsCompleted(g) /\ frags' = {}
       /\ result' = g.buffer /\ returned' = returned \cup {cur}
    \/ /\ ~IsCompleted(g) /\ frags' = {g}
       /\ result' = result /\ returned' = returned

\* Defraggler::add puts the fragment into the live group or into a new one.
LEMMA AddOutcome ==
    ASSUME GroupTypes, NEW d, NEW o, Add(d, o)
    PROVE  \E old : Base(old) /\ Outcome(FragmentationAdd(old, d, o)) /\ silent' = 0
<1> DEFINE live == {g \in frags : ~IsExpired(g)}
           old == IF live = {} THEN NewFragmentation ELSE CHOOSE g \in live : TRUE
<1>1. Base(old)
  BY DEF Base
<1>2. Outcome(FragmentationAdd(old, d, o)) /\ silent' = 0
  BY DEF Add, Outcome
<1> HIDE DEF old
<1> QED
  BY <1>1, <1>2

\* A new group is a group, holds nothing, and has not expired.
LEMMA NewGroup ==
    /\ NewFragmentation \in Group /\ Held(NewFragmentation) = {}
    /\ ~IsExpired(NewFragmentation) /\ NewFragmentation.age = 0
    /\ NewFragmentation.length = 0
    /\ \A u \in Unit : NewFragmentation.buffer[u] = 0
<1>1. Other \in Nat /\ EXPIRE_TIME \in Nat
  BY DefragAssumption DEF Other
<1> QED
  BY <1>1 DEF NewFragmentation, Group, Held, Empty, IsExpired, Longer

\* What Fragmentation::add makes of a group.
LEMMA Added ==
    ASSUME NEW old \in Group, NEW d \in 1 .. Other, NEW o \in Fragments,
           NEW g, g = FragmentationAdd(old, d, o)
    PROVE  /\ g \in Group /\ g.age = old.age /\ g.length = old.length + PayloadLen(o)
           /\ \A u \in Unit : g.buffer[u] = IF u \in UnitsOf(o) THEN d ELSE old.buffer[u]
           /\ Held(g) = Held(old) \cup UnitsOf(o)
           /\ g.total_length = IF IsMoreFragment(o) THEN old.total_length ELSE Units
<1>1. /\ o \in Nat /\ EndOf(o) \in Nat /\ o < EndOf(o) /\ Other \in Nat
      /\ UnitsOf(o) \subseteq Unit /\ (~IsMoreFragment(o) => EndOf(o) = Units)
      /\ Units \in Nat /\ EXPIRE_TIME \in Nat
  BY FragmentInside, DefragAssumption DEF Other
<1>2. o + PayloadLen(o) = EndOf(o) /\ PayloadLen(o) \in Nat
  BY <1>1 DEF PayloadLen
<1>3. /\ old.buffer \in [Unit -> 0 .. Other] /\ old.length \in Nat
      /\ old.total_length \in {0, Units} /\ old.age \in 0 .. Longer
  BY DEF Group
<1>4. g = [buffer |-> [u \in Unit |-> IF u \in UnitsOf(o) THEN d ELSE old.buffer[u]],
           length |-> old.length + PayloadLen(o),
           total_length |-> IF IsMoreFragment(o) THEN old.total_length ELSE Units,
           age |-> old.age]
  BY <1>1, <1>2, Zenon DEF FragmentationAdd, UnitsOf, Group
<1>5. [u \in Unit |-> IF u \in UnitsOf(o) THEN d ELSE old.buffer[u]] \in [Unit -> 0 .. Other]
  BY <1>1, <1>3
<1>6. g \in Group
  BY <1>2, <1>3, <1>4, <1>5 DEF Group
<1>7. \A u \in Unit : g.buffer[u] = IF u \in UnitsOf(o) THEN d ELSE old.buffer[u]
  BY <1>4
<1>8. Held(g) = Held(old) \cup UnitsOf(o)
  BY <1>1, <1>7 DEF Held
<1> QED
  BY <1>4, <1>6, <1>7, <1>8

\* A complete group has as many units counted as a datagram has.
LEMMA CompleteLength ==
    ASSUME NEW g \in Group
    PROVE  IsCompleted(g) <=> g.total_length # 0 /\ g.length = Units
  BY DEF IsCompleted, Group

\* What a fragment of the datagram, or of another protocol, does to any group.
LEMMA AddKeeps ==
    ASSUME GroupTypes, LeftOver, NeverMixed, NEW d \in {cur, Other}, NEW o \in Fragments,
           Add(d, o), cur' = cur
    PROVE  /\ frags' \subseteq Group /\ \A g, h \in frags' : g = h
           /\ result' \in [Unit -> 0 .. Other] /\ returned' \subseteq 1 .. Datagrams
           /\ silent' = 0 /\ returned \subseteq returned'
           /\ LeftOver' /\ NeverMixed'
<1>1. PICK old : Base(old) /\ Outcome(FragmentationAdd(old, d, o)) /\ silent' = 0
  BY AddOutcome
<1> DEFINE g == FragmentationAdd(old, d, o)
<1>2. old \in Group /\ \A u \in Unit : old.buffer[u] \in {0, cur, Other}
  BY <1>1, NewGroup DEF Base, GroupTypes, LeftOver
<1>3. d \in 1 .. Other /\ cur \in 1 .. Datagrams
  BY DefragAssumption DEF GroupTypes, Other
<1>4. g \in Group /\ g.age = old.age /\ g.age \in Nat
  BY <1>2, <1>3, Added DEF Group
<1>5. \A u \in Unit : g.buffer[u] \in {0, cur, Other}
  BY <1>2, <1>3, Added
<1>6. g.buffer \in [Unit -> 0 .. Other]
  BY <1>4 DEF Group
<1> HIDE DEF g
<1>7. frags' \subseteq {g} /\ (g \in frags' => ~IsCompleted(g))
  BY <1>1 DEF Outcome, g
<1>8. /\ result' = result \/ result' = g.buffer
      /\ returned' = returned \/ returned' = returned \cup {cur}
  BY <1>1 DEF Outcome, g
<1>9. LeftOver'
  <2>1. \A h \in frags' : h = g
    BY <1>7
  <2> QED
    BY <1>1, <1>4, <1>5, <1>7, <2>1 DEF LeftOver, IsExpired, IsCompleted
<1>10. NeverMixed'
  BY <1>3, <1>5, <1>8 DEF NeverMixed
<1> QED
  BY <1>1, <1>3, <1>4, <1>6, <1>7, <1>8, <1>9, <1>10 DEF GroupTypes

\* Without repeats and strangers a new fragment finds its places empty, and the
\* length goes on counting what the group holds.
LEMMA ArrivalCounts ==
    ASSUME GroupTypes, NEW old \in Group, NEW o \in Fragments \ sent, NEW g,
           g = FragmentationAdd(old, cur, o),
           old = NewFragmentation \/ Counts(old), sent' = sent \cup {o}, cur' = cur
    PROVE  Counts(g)'
<1>1. /\ \A u \in Unit : old.buffer[u] \in {0, cur}
      /\ old.length = Cardinality(Held(old))
      /\ \A p \in Fragments \ sent : UnitsOf(p) \cap Held(old) = {}
  BY NewGroup, FS_EmptySet DEF Counts
<1>2. cur \in 1 .. Other
  BY DefragAssumption DEF GroupTypes, Other
<1>3. /\ g.length = old.length + PayloadLen(o) /\ Held(g) = Held(old) \cup UnitsOf(o)
      /\ \A u \in Unit : g.buffer[u] = IF u \in UnitsOf(o) THEN cur ELSE old.buffer[u]
  BY <1>2, Added
<1>4. IsFiniteSet(Held(old)) /\ Cardinality(Held(old)) \in Nat
  <2>1. IsFiniteSet(Unit)
    BY FS_Interval, DefragAssumption DEF Unit
  <2> QED
    BY <2>1, FS_Subset, FS_CardinalityType DEF Held
<1>5. IsFiniteSet(UnitsOf(o)) /\ Cardinality(UnitsOf(o)) = PayloadLen(o) /\ PayloadLen(o) \in Nat
  BY FragmentSize, FragmentInside DEF PayloadLen
<1>6. Held(old) \cap UnitsOf(o) = {}
  BY <1>1
<1>7. Cardinality(Held(g)) = g.length
  <2>1. Cardinality(Held(old) \cup UnitsOf(o)) =
          Cardinality(Held(old)) + Cardinality(UnitsOf(o)) - Cardinality(Held(old) \cap UnitsOf(o))
    BY <1>4, <1>5, FS_Union
  <2>2. Cardinality(Held(old) \cap UnitsOf(o)) = 0
    BY <1>6, FS_EmptySet
  <2> QED
    BY <1>1, <1>3, <1>4, <1>5, <2>1, <2>2
<1>8. \A p \in Fragments \ (sent \cup {o}) : UnitsOf(p) \cap Held(g) = {}
  BY <1>1, <1>3, FragmentsApart
<1>9. \A u \in Unit : g.buffer[u] \in {0, cur}
  BY <1>1, <1>3
<1> QED
  BY <1>7, <1>8, <1>9 DEF Counts, Held, UnitsOf

\* A group that counts what it holds and has counted all holds all.
LEMMA AllHeld ==
    ASSUME NEW g, g.length = Cardinality(Held(g)), g.length = Units
    PROVE  Held(g) = Unit
<1>1. IsFiniteSet(Unit) /\ Cardinality(Unit) = Units
  <2>1. Units \in Nat \ {0}
    BY DefragAssumption
  <2> QED
    BY <2>1, FS_Interval DEF Unit
<1>2. Held(g) \subseteq Unit
  BY DEF Held
<1> QED
  BY <1>1, <1>2, FS_Subset, Zenon

\* The next fragment of the datagram.
LEMMA ArrivesKeeps ==
    ASSUME DefragInv, NEW o \in Fragments, Arrives(o)
    PROVE  DefragInv'
<1>1. /\ o \notin sent /\ Add(cur, o) /\ sent' = sent \cup {o} /\ cur' = cur
      /\ span' = (IF sent = {} THEN 0 ELSE span) /\ repeats' = repeats /\ foreign' = foreign
  BY DEF Arrives
<1>2. GroupTypes /\ LeftOver /\ Counted /\ Kept /\ NeverMixed /\ ReturnsWhole
  BY DEF DefragInv
<1>3. /\ frags' \subseteq Group /\ \A g, h \in frags' : g = h
      /\ result' \in [Unit -> 0 .. Other] /\ returned' \subseteq 1 .. Datagrams
      /\ silent' = 0 /\ returned \subseteq returned'
      /\ LeftOver' /\ NeverMixed'
  BY <1>1, <1>2, AddKeeps
<1>4. GroupTypes'
  BY <1>1, <1>2, <1>3, DefragAssumption DEF GroupTypes, Longer
<1>5. ASSUME Undisturbed
      PROVE  Counted' /\ Kept' /\ ReturnsWhole'
  <2>1. PICK old : Base(old) /\ Outcome(FragmentationAdd(old, cur, o))
    BY <1>1, <1>2, AddOutcome
  <2>g. PICK g : g = FragmentationAdd(old, cur, o)
    OBVIOUS
  <2>2. old \in Group /\ (old = NewFragmentation \/ Counts(old))
    BY <1>2, <1>5, <2>1, NewGroup DEF Base, GroupTypes, Counted
  <2>3. Counts(g)'
    BY <1>1, <1>2, <2>2, <2>g, ArrivalCounts
  <2>4. cur \in 1 .. Other
    BY <1>2, DefragAssumption DEF GroupTypes, Other
  <2>5. /\ g \in Group /\ g.age = old.age /\ Held(g) = Held(old) \cup UnitsOf(o)
        /\ g.total_length = IF IsMoreFragment(o) THEN old.total_length ELSE Units
    BY <2>2, <2>4, <2>g, Added
  <2>6. Counted'
    BY <1>1, <2>1, <2>3, <2>g DEF Outcome, Counted
  <2>7. ReturnsWhole'
    <3>1. CASE result' = result
      BY <1>1, <1>2, <3>1 DEF ReturnsWhole
    <3>2. CASE IsCompleted(g) /\ result' = g.buffer
      <4>1. Held(g) = Unit
        BY <2>3, <2>5, <3>2, AllHeld, CompleteLength DEF Counts, Held
      <4>2. \A u \in Unit : g.buffer[u] = cur
        BY <1>1, <2>3, <4>1 DEF Counts, Held
      <4> QED
        BY <1>2, <3>2, <4>2 DEF ReturnsWhole, GroupTypes
    <3> QED
      BY <2>1, <2>g, <3>1, <3>2 DEF Outcome
  <2>8. Kept'
    <3>1. CASE cur \in returned'
      BY <1>1, <3>1 DEF Kept
    <3>2. CASE cur \notin returned'
      <4>1. frags' = {g} /\ cur \notin returned
        BY <1>3, <2>1, <2>g, <3>2 DEF Outcome
      <4> SUFFICES ASSUME span' <= EXPIRE_TIME PROVE Keeps(g)'
        BY <4>1 DEF Kept
      <4>2. CASE sent = {}
        <5>1. old = NewFragmentation
          BY <1>2, <1>5, <2>1, <4>2 DEF Base, Counted
        <5> QED
          BY <1>1, <2>5, <4>2, <5>1, NewGroup, DefragAssumption DEF Keeps, Held, UnitsOf
      <4>3. CASE sent # {}
        <5>1. PICK h \in frags : Keeps(h)
          BY <1>1, <1>2, <1>5, <4>1, <4>3 DEF Kept
        <5>2. ~IsExpired(h)
          BY <1>1, <1>2, <4>3, <5>1, DefragAssumption DEF Keeps, IsExpired, GroupTypes, Group, Longer
        <5>3. old = h
          BY <1>2, <2>1, <5>2 DEF Base, GroupTypes
        <5>4. g.age <= span'
          BY <1>1, <2>5, <4>3, <5>1, <5>3 DEF Keeps
        <5>5. \A p \in sent \cup {o} : UnitsOf(p) \subseteq Held(g)
          BY <2>5, <5>1, <5>3 DEF Keeps
        <5>6. \A p \in sent \cup {o} : IsMoreFragment(p) \/ g.total_length # 0
          BY <2>5, <5>1, <5>3, DefragAssumption DEF Keeps
        <5> QED
          BY <1>1, <5>4, <5>5, <5>6 DEF Keeps, Held, UnitsOf
      <4> QED
        BY <4>2, <4>3
    <3> QED
      BY <3>1, <3>2
  <2> QED
    BY <2>6, <2>7, <2>8
<1>6. ASSUME ~Undisturbed
      PROVE  Counted' /\ Kept' /\ ReturnsWhole'
  BY <1>1, <1>6 DEF Undisturbed, Counted, Kept, ReturnsWhole
<1> QED
  BY <1>3, <1>4, <1>5, <1>6 DEF DefragInv

\* A repeated fragment, or one of another protocol.
LEMMA DisturbsKeeps ==
    ASSUME DefragInv, NEW o \in Fragments, Repeated(o) \/ OtherProtocol(o)
    PROVE  DefragInv'
<1>1. PICK d \in {cur, Other} : Add(d, o)
  BY DEF Repeated, OtherProtocol
<1>2. /\ sent' = sent /\ cur' = cur /\ span' = span
      /\ repeats' \in Nat /\ foreign' \in Nat /\ ~(repeats' = 0 /\ foreign' = 0)
  BY DEF Repeated, OtherProtocol, DefragInv, GroupTypes
<1>3. /\ frags' \subseteq Group /\ \A g, h \in frags' : g = h
      /\ result' \in [Unit -> 0 .. Other] /\ returned' \subseteq 1 .. Datagrams
      /\ silent' = 0 /\ LeftOver' /\ NeverMixed'
  BY <1>1, <1>2, AddKeeps DEF DefragInv
<1>4. GroupTypes'
  BY <1>2, <1>3, DefragAssumption DEF DefragInv, GroupTypes, Longer
<1>5. Counted' /\ Kept' /\ ReturnsWhole'
  BY <1>2 DEF Counted, Kept, ReturnsWhole, Undisturbed
<1> QED
  BY <1>3, <1>4, <1>5 DEF DefragInv

\* The next datagram: what is left of the one before has expired.
LEMMA NextDatagramKeeps ==
    ASSUME DefragInv, NextDatagram
    PROVE  DefragInv'
<1>1. /\ cur < Datagrams /\ silent > EXPIRE_TIME /\ cur' = cur + 1 /\ sent' = {}
      /\ frags' = frags /\ repeats' = repeats /\ foreign' = foreign /\ silent' = silent
      /\ span' = span /\ result' = result /\ returned' = returned
  BY DEF NextDatagram
<1>2. \A g \in frags : IsExpired(g)
  BY <1>1, DefragAssumption DEF DefragInv, GroupTypes, LeftOver, IsExpired, Group, Longer
<1>3. cur' \in 1 .. Datagrams
  BY <1>1, DefragAssumption DEF DefragInv, GroupTypes
<1>4. GroupTypes'
  BY <1>1, <1>3 DEF DefragInv, GroupTypes
<1>5. LeftOver' /\ Counted' /\ Kept'
  BY <1>1, <1>2 DEF DefragInv, LeftOver, Counted, Kept
<1>6. NeverMixed' /\ ReturnsWhole'
  BY <1>1 DEF DefragInv, NeverMixed, ReturnsWhole
<1> QED
  BY <1>4, <1>5, <1>6 DEF DefragInv

\* Time passes for the clocks of the groups and of the source alike.
LEMMA LaterMonotone ==
    /\ Longer \in Nat
    /\ \A t \in 0 .. Longer : Later(t) \in 0 .. Longer /\ t <= Later(t)
    /\ \A s, t \in 0 .. Longer : s <= t => Later(s) <= Later(t)
  BY DefragAssumption DEF Later, Longer

LEMMA TickKeeps ==
    ASSUME DefragInv, Tick
    PROVE  DefragInv'
<1> DEFINE Older(g) == [g EXCEPT !.age = Later(@)]
<1>1. /\ frags' = {Older(g) : g \in frags} /\ silent' = Later(silent) /\ span' = Later(span)
      /\ cur' = cur /\ sent' = sent /\ repeats' = repeats /\ foreign' = foreign
      /\ result' = result /\ returned' = returned
  BY DEF Tick
<1>2. ASSUME NEW g \in Group
      PROVE  /\ Older(g) \in Group /\ Older(g).age = Later(g.age)
             /\ Older(g).buffer = g.buffer /\ Older(g).length = g.length
             /\ Older(g).total_length = g.total_length
  BY LaterMonotone DEF Group
<1> HIDE DEF Older
<1>3. ASSUME NEW g \in Group
      PROVE  /\ IsExpired(g) => IsExpired(Older(g))
             /\ IsCompleted(Older(g)) <=> IsCompleted(g)
             /\ Held(Older(g)) = Held(g)
  <2>1. g.age \in 0 .. Longer
    BY DEF Group
  <2>2. IsExpired(g) => IsExpired(Older(g))
    BY <1>2, <2>1, LaterMonotone, DefragAssumption DEF IsExpired
  <2> QED
    BY <1>2, <2>2 DEF IsCompleted, Held
<1>4. GroupTypes /\ LeftOver /\ Counted /\ Kept
  BY DEF DefragInv
<1>5. GroupTypes'
  BY <1>1, <1>2, <1>4, LaterMonotone DEF GroupTypes
<1>6. LeftOver'
  <2> SUFFICES ASSUME NEW g \in frags
               PROVE  /\ silent' <= Older(g).age /\ ~IsCompleted(Older(g))
                      /\ IsExpired(Older(g))
                          \/ \A u \in Unit : Older(g).buffer[u] \in {0, cur, Other}
    BY <1>1 DEF LeftOver, IsExpired, IsCompleted
  <2>1. g \in Group /\ g.age \in 0 .. Longer /\ silent \in 0 .. Longer /\ silent <= g.age
    BY <1>4 DEF GroupTypes, LeftOver, Group
  <2>2. silent' <= Older(g).age
    BY <1>1, <1>2, <2>1, LaterMonotone
  <2> QED
    BY <1>2, <1>3, <1>4, <2>1, <2>2 DEF LeftOver
<1>7. Counted'
  <2> SUFFICES ASSUME Undisturbed, NEW g \in frags, NEW h, h = Older(g)
               PROVE  (IsExpired(h) \/ (sent # {} /\ Counts(h)))'
    BY <1>1 DEF Counted, Undisturbed
  <2>1. g \in Group /\ (IsExpired(g) \/ (sent # {} /\ Counts(g)))
    BY <1>4 DEF GroupTypes, Counted
  <2> QED
    BY <1>1, <1>2, <1>3, <2>1, Zenon DEF Counts, Held, UnitsOf, IsExpired
<1>8. Kept'
  <2> SUFFICES ASSUME Undisturbed, sent # {}, span' <= EXPIRE_TIME, cur \notin returned
               PROVE  \E g \in frags' : Keeps(g)'
    BY <1>1 DEF Kept, Undisturbed
  <2>1. span \in 0 .. Longer /\ span <= EXPIRE_TIME
    BY <1>1, <1>4, LaterMonotone, DefragAssumption DEF GroupTypes
  <2>2. PICK g \in frags : Keeps(g)
    BY <1>4, <2>1 DEF Kept
  <2>3. g \in Group /\ g.age \in 0 .. Longer /\ g.age <= span
    BY <1>4, <2>2 DEF GroupTypes, Group, Keeps
  <2>4. PICK h : h = Older(g)
    OBVIOUS
  <2>5. h.age <= span'
    BY <1>1, <1>2, <2>1, <2>3, <2>4, LaterMonotone
  <2>6. Keeps(h)'
    BY <1>1, <1>2, <1>3, <2>2, <2>3, <2>4, <2>5 DEF Keeps, Held, UnitsOf
  <2> QED
    BY <1>1, <2>4, <2>6
<1>9. NeverMixed' /\ ReturnsWhole'
  BY <1>1 DEF DefragInv, NeverMixed, ReturnsWhole
<1> QED
  BY <1>5, <1>6, <1>7, <1>8, <1>9 DEF DefragInv

LEMMA DefragUnchanged ==
    ASSUME DefragInv, UNCHANGED vars
    PROVE  DefragInv'
<1>1. GroupTypes' /\ LeftOver' /\ NeverMixed' /\ ReturnsWhole'
  BY DEF DefragInv, vars, GroupTypes, LeftOver, NeverMixed, ReturnsWhole
<1>2. Counted' /\ Kept'
  BY DEF DefragInv, vars, Counted, Kept, Undisturbed, Counts, Keeps, Held, UnitsOf
<1> QED
  BY <1>1, <1>2 DEF DefragInv

LEMMA DefragInit ==
    ASSUME Init
    PROVE  DefragInv
<1>1. GroupTypes
  BY DefragAssumption DEF Init, GroupTypes, Empty, Longer, Other
<1>2. LeftOver /\ Counted /\ Kept /\ ReturnsWhole
  BY DEF Init, LeftOver, Counted, Kept, ReturnsWhole
<1>3. NeverMixed
  <2>1. 1 \in 1 .. Datagrams
    BY DefragAssumption
  <2> QED
    BY <2>1 DEF Init, NeverMixed, Empty
<1> QED
  BY <1>1, <1>2, <1>3 DEF DefragInv

-----------------------------------------------------------------------------
(* The invariant of the learned addresses *)

Adapter == Hosts \X (0 .. MaxRejoins)

\* The one place there is has been taken by the first source, and a frame is
\* addressed by the map as it still is.
HostInv ==
    /\ adapter \in [Hosts -> Adapter] /\ \A h \in Hosts : adapter[h][1] = h
    /\ src_hardware_addr \in [Hosts -> Adapter \cup {Unspecified}]
    /\ is_tx_src_hardware_addr_set \in BOOLEAN
    /\ seen \in Seq(Adapter) /\ (is_tx_src_hardware_addr_set <=> seen # <<>>)
    /\ seen # <<>> => src_hardware_addr[seen[1][1]] = seen[1]
    /\ \/ frame = NoFrame
       \/ /\ seen # <<>> /\ frame.to \in Hosts
          /\ frame.hardware_addr = src_hardware_addr[frame.to]

\* Learning keeps the first source's entry.
LEMMA LearnKeeps ==
    ASSUME HostInv, NEW h \in Hosts, IsSource(h), Learn(h)
    PROVE  /\ src_hardware_addr' \in [Hosts -> Adapter \cup {Unspecified}]
           /\ is_tx_src_hardware_addr_set' = TRUE
           /\ seen' \in Seq(Adapter) /\ seen' # <<>>
           /\ src_hardware_addr'[seen'[1][1]] = seen'[1]
<1>1. adapter[h] \in Adapter /\ adapter[h][1] = h
  BY DEF HostInv
<1>2. CASE is_tx_src_hardware_addr_set
  <2>1. src_hardware_addr' = src_hardware_addr /\ seen # <<>> /\ seen \in Seq(Adapter)
    BY <1>2 DEF Learn, HostInv
  <2>2. seen' = seen \/ seen' = Append(seen, adapter[h])
    BY DEF Learn
  <2>3. seen' \in Seq(Adapter) /\ seen' # <<>> /\ seen'[1] = seen[1]
    BY <1>1, <2>1, <2>2
  <2> QED
    BY <2>1, <2>3 DEF Learn, HostInv
<1>3. CASE ~is_tx_src_hardware_addr_set
  <2>1. seen = <<>> /\ src_hardware_addr' = [src_hardware_addr EXCEPT ![h] = adapter[h]]
    BY <1>3 DEF Learn, HostInv
  <2>2. seen' = Append(seen, adapter[h])
    BY <2>1 DEF Learn, IsSource
  <2>3. seen' = <<adapter[h]>>
    BY <2>1, <2>2
  <2>4. seen' \in Seq(Adapter) /\ seen' # <<>> /\ seen'[1] = adapter[h]
    BY <1>1, <2>3
  <2>5. /\ src_hardware_addr' \in [Hosts -> Adapter \cup {Unspecified}]
        /\ src_hardware_addr'[h] = adapter[h]
    BY <1>1, <2>1 DEF HostInv
  <2> QED
    BY <1>1, <2>4, <2>5 DEF Learn
<1> QED
  BY <1>2, <1>3, Zenon DEF HostInv

LEMMA HostStep ==
    ASSUME HostInv, [IngressNext]_allVars
    PROVE  HostInv'
<1> USE DEF HostInv
<1>1. ASSUME NEW h \in Hosts, HandleArp(h)
      PROVE  HostInv'
  <2>1. IsSource(h) /\ Learn(h) /\ adapter' = adapter
        /\ frame' = [to |-> h, hardware_addr |-> src_hardware_addr'[h]]
    BY <1>1, Zenon DEF HandleArp, Addressed
  <2> QED
    BY <2>1, LearnKeeps, Zenon
<1>2. ASSUME NEW h \in Hosts, HandleIpv4(h)
      PROVE  HostInv'
  BY <1>2, LearnKeeps, Zenon DEF HandleIpv4, NoFrame
<1>3. ASSUME NEW h \in Hosts, SendEthernet(h)
      PROVE  HostInv'
  BY <1>3 DEF SendEthernet, Addressed
<1>4. ASSUME NEW h \in Network, Rejoin(h)
      PROVE  HostInv'
  <2>1. h \in Hosts
    BY IngressAssumption
  <2>2. PICK n \in 0 .. MaxRejoins : adapter[h] = <<h, n>>
    BY <2>1 DEF Adapter
  <2>3. adapter' = [adapter EXCEPT ![h] = <<h, n + 1>>] /\ n < MaxRejoins
    <3>1. [<<h, n>> EXCEPT ![2] = n + 1] = <<h, n + 1>>
      OBVIOUS
    <3>2. adapter' = [adapter EXCEPT ![h] = [adapter[h] EXCEPT ![2] = adapter[h][2] + 1]]
      BY <1>4 DEF Rejoin
    <3>3. adapter[h][2] = n /\ adapter[h][2] < MaxRejoins
      BY <1>4, <2>2 DEF Rejoin
    <3> QED
      BY <2>2, <3>1, <3>2, <3>3, Zenon
  <2>4. adapter' \in [Hosts -> Adapter] /\ \A k \in Hosts : adapter'[k][1] = k
    BY <2>1, <2>3, IngressAssumption DEF Adapter
  <2> QED
    BY <1>4, <2>4 DEF Rejoin, NoFrame
<1>5. CASE HandleFragment
  BY <1>5, LearnKeeps, IngressAssumption, Zenon DEF HandleFragment, NoFrame
<1>6. CASE Elapse
  BY <1>6 DEF Elapse, NoFrame
<1>7. CASE UNCHANGED allVars
  BY <1>7 DEF allVars, hostVars, NoFrame
<1> QED
  BY <1>1, <1>2, <1>3, <1>4, <1>5, <1>6, <1>7, Zenon DEF IngressNext

LEMMA HostInit ==
    ASSUME IngressInit
    PROVE  HostInv
<1>1. 0 \in 0 .. MaxRejoins
  BY IngressAssumption
<1>2. adapter \in [Hosts -> Adapter] /\ \A h \in Hosts : adapter[h][1] = h
  BY <1>1 DEF IngressInit, Adapter
<1>3. src_hardware_addr \in [Hosts -> Adapter \cup {Unspecified}] /\ seen \in Seq(Adapter)
  BY DEF IngressInit
<1> QED
  BY <1>2, <1>3, Zenon DEF IngressInit, HostInv

-----------------------------------------------------------------------------
(* The theorems *)

LEMMA DefragStep ==
    ASSUME DefragInv, [IngressNext]_allVars
    PROVE  DefragInv'
<1>1. ASSUME NEW h \in Hosts, HandleArp(h) \/ HandleIpv4(h) \/ SendEthernet(h)
      PROVE  DefragInv'
  BY <1>1, DefragUnchanged DEF HandleArp, HandleIpv4, SendEthernet
<1>2. ASSUME NEW h \in Network, Rejoin(h)
      PROVE  DefragInv'
  BY <1>2, DefragUnchanged DEF Rejoin
<1>3. CASE HandleFragment
  BY <1>3, ArrivesKeeps, DisturbsKeeps DEF HandleFragment
<1>4. CASE Elapse
  BY <1>4, NextDatagramKeeps, TickKeeps DEF Elapse
<1>5. CASE UNCHANGED allVars
  BY <1>5, DefragUnchanged DEF allVars
<1> QED
  BY <1>1, <1>2, <1>3, <1>4, <1>5 DEF IngressNext

\* All that IngressSpec reaches satisfies both invariants.
LEMMA IngressReaches == IngressSpec => [](DefragInv /\ HostInv)
<1>1. IngressInit => DefragInv /\ HostInv
  BY DefragInit, HostInit, Zenon DEF IngressInit
<1>2. DefragInv /\ HostInv /\ [IngressNext]_allVars => (DefragInv /\ HostInv)'
  BY DefragStep, HostStep
<1> QED
  BY <1>1, <1>2, PTL DEF IngressSpec

\* A group never joins fragments of two datagrams of one protocol, whatever is
\* lost and repeated and however long the datagrams and fragments are: what is
\* left of a datagram is as old as the silence, so it has expired.
THEOREM DefragNeverMixes == IngressSpec => []NeverMixed
<1>1. DefragInv => NeverMixed
  BY DEF DefragInv
<1> QED
  BY <1>1, IngressReaches, PTL

\* Without repeats and strangers a completed group is one whole datagram: the
\* length counts the units that are held, so that it reaches the total only
\* when none is missing.
THEOREM DefragReturnsWhole == IngressSpec => []ReturnsWhole
<1>1. DefragInv => ReturnsWhole
  BY DEF DefragInv
<1> QED
  BY <1>1, IngressReaches, PTL

\* A datagram whose fragments come within EXPIRE_TIME, in any order, is returned.
THEOREM DefragCompletesInTime == IngressSpec => []CompletesInTime
<1>1. DefragInv => CompletesInTime
  <2> SUFFICES ASSUME DefragInv, Undisturbed, sent = Fragments, span <= EXPIRE_TIME,
                      cur \notin returned
               PROVE  FALSE
    BY DEF CompletesInTime, Undisturbed
  <2>1. Units \in Unit
    BY DefragAssumption DEF Unit
  <2>2. PICK last \in Fragments : ~IsMoreFragment(last)
    BY <2>1, FragmentsCover
  <2>3. PICK g \in frags : Keeps(g)
    BY <2>2 DEF DefragInv, Kept
  <2>4. g \in Group /\ ~IsCompleted(g) /\ ~IsExpired(g)
    BY <2>3, DefragAssumption DEF DefragInv, GroupTypes, LeftOver, Keeps, IsExpired, Group, Longer
  <2>5. g.total_length # 0
    BY <2>2, <2>3 DEF Keeps
  <2>6. Held(g) = Unit
    BY <2>3, FragmentsCover DEF Keeps, Held
  <2>7. Cardinality(Unit) = Units
    BY FS_Interval, DefragAssumption DEF Unit
  <2>8. g.length = Cardinality(Held(g))
    BY <2>3, <2>4 DEF DefragInv, Counted, Counts
  <2> QED
    BY <2>4, <2>5, <2>6, <2>7, <2>8, CompleteLength
<1> QED
  BY <1>1, IngressReaches, PTL

\* The first source is sent its frames at the adapter it came with, whatever
\* else is captured.
THEOREM FirstSourceIsAddressed == IngressSpec => []FirstSourceAddressed
<1>1. HostInv => FirstSourceAddressed
  <2> SUFFICES ASSUME HostInv, seen # <<>>, frame.to = seen[1][1], adapter[frame.to] = seen[1]
               PROVE  frame.hardware_addr = adapter[frame.to]
    BY DEF FirstSourceAddressed
  <2>1. seen[1] \in Adapter
    BY DEF HostInv
  <2>2. frame.to \in Hosts
    BY <2>1 DEF Adapter
  <2>3. frame # NoFrame
    <3>1. NoFrame.to = Unspecified
      BY DEF NoFrame
    <3>2. Unspecified \notin Hosts
      BY IngressAssumption
    <3> QED
      BY <2>2, <3>1, <3>2, Zenon
  <2> QED
    BY <2>3 DEF HostInv
<1> QED
  BY <1>1, IngressReaches, PTL

=============================================================================
