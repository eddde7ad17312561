--------------------------- MODULE FastRetransmit ---------------------------
(***************************************************************************)
(* Fast retransmission: the duplicate counter of a TcpRxState and the two  *)
(* ways handle_tcp_ack sends cached bytes again, with a source that        *)
(* acknowledges every segment it receives, over a network that loses and   *)
(* reorders.                                                               *)
(*                                                                         *)
(* The cache holds Count bytes from First on, each in a segment of its     *)
(* own, and nothing is appended meanwhile; TcpTx has appending, timers and *)
(* FINs. The numbers of the cache do not wrap. Time is counted in ticks,   *)
(* for the cool-down only.                                                 *)
(***************************************************************************)
EXTENDS SackRanges, SequencesExt

CONSTANTS
    First, Count,           \* the bytes of the cache
    DUPLICATES_THRESHOLD,   \* as in lib.rs
    RETRANS_COOL_DOWN,      \* in ticks
    MaxAcks,                \* acknowledgements on the way at a time
    MaxLoss,                \* segments the network drops
    MaxOdd                  \* acknowledgements overtaken, or sent unprompted

ASSUME FastAssumption ==
    /\ First \in Nat /\ Count \in 1 .. MAX_U32_WINDOW_SIZE /\ First + Count <= U32_MAX
    /\ DUPLICATES_THRESHOLD \in Nat \ {0} /\ RETRANS_COOL_DOWN \in Nat
    /\ MaxAcks \in Nat \ {0}
    /\ MaxLoss \in Nat /\ MaxOdd \in Nat

VARIABLES
    sequence,               \* cache.sequence() of the TcpTxState
    last_acknowledgement,   \* TcpRxState.last_acknowledgement
    duplicate,              \* TcpRxState.duplicate
    since,                  \* ticks since last_retrans, or more than enough
    sack_perm,              \* TcpRxState.sack_perm
    net,                    \* bytes on the way to the source
    got,                    \* bytes the source has
    acks,                   \* its ACK0s on the way back, the first one first
    resent,                 \* bytes the last handled ACK0 had sent again
    missing,                \* those it should: cached and not reported
    phase,                  \* history: "first", "again" after a retransmission,
                            \* "lost" once a segment is lost after that
    losses, odd             \* counted against the bounds

sourceVars == <<net, got>>
boundVars == <<losses, odd>>
txVars == <<sequence, last_acknowledgement, duplicate, since, sack_perm>>
resendVars == <<resent, missing>>
fastVars == <<txVars, sourceVars, acks, resendVars, phase, boundVars>>

Bytes == First .. First + Count - 1
RecvNext == First + Count
Cooled == RETRANS_COOL_DOWN + 1
Blocks == {r \in (First .. RecvNext) \X (First .. RecvNext) : r[1] < r[2]}
Ack0 == [ack : First .. RecvNext, sacks : Seq(Blocks), zero : BOOLEAN]

FastTypeOK ==
    /\ sequence \in First .. RecvNext
    /\ last_acknowledgement \in {0} \cup First .. RecvNext
    /\ duplicate \in Nat /\ since \in 0 .. Cooled /\ sack_perm \in BOOLEAN
    /\ net \subseteq Bytes /\ got \subseteq Bytes
    /\ acks \in Seq(Ack0)
    /\ resent \subseteq Bytes /\ missing \subseteq Bytes /\ phase \in {"first", "again", "lost"}
    /\ losses \in 0 .. MaxLoss /\ odd \in 0 .. MaxOdd

\* All of the cache has been sent; the handshake ended with an ACK0 or with
\* the source's first data.
FastInit ==
    /\ sequence = First /\ last_acknowledgement \in {0, First}
    /\ duplicate = 0 /\ since = Cooled /\ sack_perm \in BOOLEAN
    /\ net = Bytes /\ got = {} /\ acks = <<>>
    /\ resent = {} /\ missing = {} /\ phase = "first"
    /\ losses = 0 /\ odd = 0

-----------------------------------------------------------------------------
(* The source *)

NothingResent == resent' = {} /\ missing' = {}

NextMissing(S) == Min((First .. RecvNext) \ S)

\* Maximal runs of the bytes it has beyond those.
RunsOf(S) ==
    LET starts == {b \in S : b > NextMissing(S) /\ b - 1 \notin S}
    IN  {<<b, Min({e \in b .. RecvNext : e \notin S})>> : b \in starts}

\* The SACK blocks, the one with the segment just received first; a segment
\* received twice is reported as well (RFC 2883).
SacksOf(S, b, again) ==
    LET runs == RunsOf(S)
        newest == {r \in runs : b \in r[1] .. r[2] - 1}
        twice == IF again THEN <<<<b, b + 1>>>> ELSE <<>>
    IN  twice \o SetToSeq(newest) \o SetToSeq(runs \ newest)

\* A segment arrives and is acknowledged at once.
Arrive(b) ==
    /\ Len(acks) < MaxAcks
    /\ net' = net \ {b} /\ got' = got \cup {b}
    /\ acks' = Append(acks, [ack |-> NextMissing(got'), zero |-> FALSE,
                             sacks |-> SacksOf(got', b, b \in got)])
    /\ NothingResent
    /\ UNCHANGED <<txVars, phase, boundVars>>

\* A window update repeats the acknowledgement, perhaps with a zero window.
Update ==
    /\ odd < MaxOdd /\ odd' = odd + 1 /\ Len(acks) < MaxAcks
    /\ \E zero \in BOOLEAN :
        acks' = Append(acks, [ack |-> NextMissing(got), zero |-> zero,
                              sacks |-> SetToSeq(RunsOf(got))])
    /\ NothingResent
    /\ UNCHANGED <<txVars, sourceVars, phase, losses>>

Lose(b) ==
    /\ losses < MaxLoss /\ losses' = losses + 1
    /\ net' = net \ {b}
    /\ phase' = IF phase = "first" THEN phase ELSE "lost"
    /\ NothingResent
    /\ UNCHANGED <<txVars, got, acks, odd>>

\* An acknowledgement is overtaken by the ones behind it.
Overtake ==
    /\ odd < MaxOdd /\ odd' = odd + 1 /\ Len(acks) > 1
    /\ acks' = Append(Tail(acks), Head(acks))
    /\ NothingResent
    /\ UNCHANGED <<txVars, sourceVars, phase, losses>>

-----------------------------------------------------------------------------
(* The relay *)

\* increase_duplicate: the counter, and whether it asks for a retransmission.
Duplicates(a) == IF last_acknowledgement = a THEN duplicate + 1 ELSE 0

\* Mutant: the cool-down is read the other way round.
IsRetrans_Inverted(a) ==
    /\ last_acknowledgement = a
    /\ Duplicates(a) >= DUPLICATES_THRESHOLD
    /\ since < RETRANS_COOL_DOWN

IsRetrans(a) ==
    /\ last_acknowledgement = a
    /\ Duplicates(a) >= DUPLICATES_THRESHOLD
    /\ ~(since < RETRANS_COOL_DOWN)

\* retransmit_tcp_ack_without if the packet has SACK blocks, and otherwise
\* retransmit_tcp_ack, Back N.
Selected(cache, sacks) ==
    IF sack_perm /\ sacks # <<>>
    THEN UNION {BytesOf(r) : r \in Without(cache, sacks)}
    ELSE BytesOf(cache)

\* handle_tcp_ack with an ACK0: acknowledge, count, and send again if it is
\* the duplicate that asks for it and its window is not zero.
HandleAck0 ==
    /\ acks # <<>>
    /\ acks' = Tail(acks)
    /\ LET p == Head(acks)
           seq == IF IsAtOrAfter(p.ack, sequence) THEN p.ack ELSE sequence
           cache == <<seq, RecvNext>>
           retrans == IsRetrans(p.ack) /\ ~p.zero
           reported == IF sack_perm THEN UNION {BytesOf(r) : r \in Range(p.sacks)} ELSE {}
       IN  /\ sequence' = seq
           /\ last_acknowledgement' = p.ack
           /\ duplicate' = IF retrans THEN 0 ELSE Duplicates(p.ack)
           /\ since' = IF retrans THEN 0 ELSE since
           /\ resent' = IF retrans THEN Selected(cache, p.sacks) ELSE {}
           /\ missing' = IF retrans THEN BytesOf(cache) \ reported ELSE {}
           /\ net' = net \cup resent'
           /\ phase' = IF retrans /\ phase = "first" THEN "again" ELSE phase
    /\ UNCHANGED <<sack_perm, got, boundVars>>

Tick ==
    /\ since < Cooled /\ since' = since + 1
    /\ NothingResent
    /\ UNCHANGED <<sequence, last_acknowledgement, duplicate, sack_perm, sourceVars,
                   acks, phase, boundVars>>

FastNext ==
    \/ \E b \in net : Arrive(b) \/ Lose(b)
    \/ Update \/ Overtake \/ HandleAck0 \/ Tick

FastSpec == FastInit /\ [][FastNext]_fastVars

\* The packet loop handles what it receives, and the network delivers what it
\* does not lose, the segment the source waits for not always last.
FastFairSpec ==
    /\ FastSpec
    /\ WF_fastVars(HandleAck0)
    /\ WF_fastVars(\E b \in net : Arrive(b))
    /\ SF_fastVars(\E b \in net : b = NextMissing(got) /\ Arrive(b))

-----------------------------------------------------------------------------
(* Properties *)

\* A fast retransmission sends exactly the cached bytes that the packet does
\* not report as received, whatever the order, overlap and age of its SACK
\* blocks: all of the cache without SACK.
ResendsMissing == resent = missing

\* One lost segment with enough segments behind it is repaired by duplicate
\* acknowledgements alone, before any timer, in whatever order segments come,
\* if it is lost before the first fast retransmission and acknowledgements keep
\* their order. One lost later may have all its duplicates in the cool-down.
LossRepaired ==
    \A b \in Bytes :
        b + DUPLICATES_THRESHOLD + 1 < RecvNext =>
            <>(b \in got \/ phase = "lost" \/ odd > 0)
=============================================================================
