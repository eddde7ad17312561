------------------------------- MODULE Defrag -------------------------------
(***************************************************************************)
(* packet::Defraggler with its Fragmentation groups, as handle_ipv4 calls  *)
(* it for every IPv4 fragment of a source.                                 *)
(*                                                                         *)
(* One key (source, destination, kind, identification) is modelled: groups *)
(* of different keys do not meet. The kind is that of the IPv4 layer, the  *)
(* same for every packet, so a datagram of another protocol with the same  *)
(* identification falls into the group as well. The source uses the key    *)
(* for one datagram after the other, and again only after it has been      *)
(* silent for longer than EXPIRE_TIME. A datagram is the units 1 .. Units  *)
(* (of 8 bytes), cut into fragments of FragmentLen that arrive in any      *)
(* order, in frames padded to MinUnits.                                    *)
(***************************************************************************)
EXTENDS Integers, FiniteSets

CONSTANTS
    Datagrams,      \* datagrams sent with the key: 1 .. Datagrams
    Units,          \* length of a datagram
    FragmentLen,    \* length of its fragments, the last one excepted
    MinUnits,       \* payload of the shortest frame of the link
    EXPIRE_TIME,    \* in ticks of the clock
    MaxRepeats,     \* fragments the network repeats
    MaxForeign      \* fragments of another protocol's datagram

ASSUME DefragAssumption ==
    /\ Datagrams \in Nat \ {0} /\ Units \in Nat \ {0} /\ FragmentLen \in 1 .. Units
    /\ MinUnits \in Nat
    /\ EXPIRE_TIME \in Nat /\ MaxRepeats \in Nat /\ MaxForeign \in Nat

VARIABLES
    frags,      \* {} or {the group of the key}
    cur,        \* the datagram being sent
    sent,       \* its fragments that have arrived
    repeats,    \* fragments repeated so far
    foreign,    \* fragments of the other protocol so far
    silent,     \* ticks since the last fragment
    span,       \* ticks since the first fragment of cur
    result,     \* the units of the last completed group, by datagram; 0 is empty
    returned    \* history: datagrams during which a group was completed

vars == <<frags, cur, sent, repeats, foreign, silent, span, result, returned>>

Unit == 1 .. Units
Other == Datagrams + 1      \* the datagram of the other protocol
Empty == [u \in Unit |-> 0]
Longer == EXPIRE_TIME + 1   \* where the clocks stop

\* A fragment is known by its offset.
Fragments == {o \in 0 .. Units - 1 : o % FragmentLen = 0}
EndOf(o) == IF o + FragmentLen < Units THEN o + FragmentLen ELSE Units
IsMoreFragment(o) == EndOf(o) < Units

\* total_length is 0 for None.
Group == [buffer : [Unit -> 0 .. Other], length : Nat,
          total_length : {0, Units}, age : 0 .. Longer]

TypeOK ==
    /\ frags \subseteq Group /\ Cardinality(frags) <= 1
    /\ cur \in 1 .. Datagrams /\ sent \subseteq Fragments /\ repeats \in 0 .. MaxRepeats
    /\ foreign \in 0 .. MaxForeign
    /\ silent \in 0 .. Longer /\ span \in 0 .. Longer
    /\ result \in [Unit -> 0 .. Other] /\ returned \subseteq 1 .. Datagrams

Init ==
    /\ frags = {} /\ cur = 1 /\ sent = {} /\ repeats = 0 /\ foreign = 0
    /\ silent = 0 /\ span = 0
    /\ result = Empty /\ returned = {}

-----------------------------------------------------------------------------
(* Fragmentation *)

NewFragmentation ==
    [buffer |-> Empty, length |-> 0, total_length |-> 0, age |-> 0]

\* Mutant: the padding of a short frame is left on.
PayloadLen_Padded(o) == IF EndOf(o) - o < MinUnits THEN MinUnits ELSE EndOf(o) - o

\* What handle_ipv4 leaves of a frame, cut to its content_len(), and add() of
\* that behind the headers.
PayloadLen(o) == EndOf(o) - o

\* Fragmentation::add, of a fragment of d: the length counts what arrives, the
\* fragment without "more fragments" tells the total. Fragments of datagrams end
\* within the 65535 bytes of the buffer; beyond them the slice would panic.
FragmentationAdd(g, d, o) ==
    LET end == o + PayloadLen(o)
    IN  [g EXCEPT !.buffer = [u \in Unit |-> IF u \in o + 1 .. end THEN d ELSE @[u]],
                  !.length = @ + PayloadLen(o),
                  !.total_length = IF IsMoreFragment(o) THEN @ ELSE end]

\* Mutant: the last fragment completes the group.
IsCompleted_AtLast(g) == g.total_length # 0

\* A group is complete when as much has arrived as the total says.
IsCompleted(g) == g.total_length # 0 /\ g.length = g.total_length

\* Mutant: a group is kept for ever.
IsExpired_Never(g) == FALSE

\* last_seen is set when the group is made, and then left alone.
IsExpired(g) == g.age > EXPIRE_TIME

-----------------------------------------------------------------------------
\* Defraggler::add, with a fragment of d: a missing or expired group is
\* replaced, and a completed one taken out and returned.
Add(d, o) ==
    LET live == {g \in frags : ~IsExpired(g)}
        old == IF live = {} THEN NewFragmentation ELSE CHOOSE g \in live : TRUE
        g == FragmentationAdd(old, d, o)
    IN  /\ IF IsCompleted(g)
           THEN /\ frags' = {}
                /\ result' = g.buffer
                /\ returned' = returned \cup {cur}
           ELSE frags' = {g} /\ UNCHANGED <<result, returned>>
        /\ silent' = 0

Arrives(o) ==
    /\ o \notin sent
    /\ Add(cur, o)
    /\ sent' = sent \cup {o}
    /\ span' = IF sent = {} THEN 0 ELSE span
    /\ UNCHANGED <<cur, repeats, foreign>>

Repeated(o) ==
    /\ o \in sent /\ repeats < MaxRepeats
    /\ Add(cur, o)
    /\ repeats' = repeats + 1
    /\ UNCHANGED <<cur, sent, foreign, span>>

\* A fragment of another protocol's datagram with this identification.
OtherProtocol(o) ==
    /\ foreign < MaxForeign
    /\ Add(Other, o)
    /\ foreign' = foreign + 1
    /\ UNCHANGED <<cur, sent, repeats, span>>

\* The source goes on to its next datagram; fragments may have been lost.
NextDatagram ==
    /\ cur < Datagrams /\ sent # {} /\ silent > EXPIRE_TIME
    /\ cur' = cur + 1 /\ sent' = {}
    /\ UNCHANGED <<frags, repeats, foreign, silent, span, result, returned>>

Later(t) == IF t < Longer THEN t + 1 ELSE t

Tick ==
    /\ frags' = {[g EXCEPT !.age = Later(@)] : g \in frags}
    /\ silent' = Later(silent) /\ span' = Later(span)
    /\ UNCHANGED <<cur, sent, repeats, foreign, result, returned>>

-----------------------------------------------------------------------------
(* Properties *)

\* "Returns the fragmentation if it is completed" (packet/mod.rs:476): a
\* completed group is one whole datagram, since concatenate() hands its buffer
\* on as it is, also when short fragments come in padded frames. A repeated
\* fragment is counted twice, so this is claimed for a network that repeats
\* none and a source whose protocols share one counter of identifications.
ReturnsWhole ==
    repeats = 0 /\ foreign = 0 =>
        result = Empty \/ \E d \in 1 .. Datagrams : \A u \in Unit : result[u] = d

\* Whatever the network loses and repeats, a group never joins fragments of
\* two datagrams of one protocol: what is left of one has expired when the
\* identification is used again.
NeverMixed == \E d \in 1 .. Datagrams : \A u \in Unit : result[u] \in {0, d, Other}

\* A datagram whose fragments have all arrived within EXPIRE_TIME of the first
\* is returned, in whichever order they came and whatever was lost before, if
\* none is repeated or of another protocol.
CompletesInTime ==
    repeats = 0 /\ foreign = 0 /\ sent = Fragments /\ span <= EXPIRE_TIME
        => cur \in returned

-----------------------------------------------------------------------------
(* Expectations the code does not meet: TLC refutes them. *)

\* "The timer will be updated when a new fragment arrived" (dev.md:57): a
\* group is given up only after EXPIRE_TIME without a fragment.
KeptWhileArriving ==
    [][\A g \in frags : IsExpired(g) /\ g \notin frags' /\ silent' = 0
            => silent > EXPIRE_TIME]_vars

\* The key of a group has a LayerKind (packet/mod.rs:464), so that datagrams
\* of two protocols are told apart; but it is ipv4.kind(), that of every IPv4
\* packet.
ProtocolsApart ==
    (\E u \in Unit : result[u] = Other) => \A u \in Unit : result[u] \in {0, Other}
=============================================================================
