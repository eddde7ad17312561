------------------------------- MODULE Egress -------------------------------
(***************************************************************************)
(* What the Forwarder sends to one source for one remote, under the lock   *)
(* of tx: UDP datagrams whole or in IPv4 fragments (send_udp), TCP         *)
(* payloads in segments (send_tcp_ack_raw) and TCP packets without payload *)
(* (send_tcp_ack_0, send_tcp_ack_syn, send_tcp_rst), cut by the MTU of the *)
(* source, which SYNs and ICMP messages change between the calls, and      *)
(* numbered by the identification of the pair of addresses.                *)
(*                                                                         *)
(* Lengths are in bytes; that of a datagram includes the UDP header, and   *)
(* offsets on the wire are in units of 8.                                  *)
(***************************************************************************)
EXTENDS Frames

CONSTANTS
    Datagrams,      \* lengths of the UDP datagrams
    Payloads,       \* lengths of the TCP payloads
    LOCAL_MTU,      \* of the interface
    Mtus,           \* MTUs that ICMP messages, and MSS options, stand for
    MaxSacks,       \* blocks the receive window reports
    U16_MAX,        \* u16::MAX, of the identification
    MAX_MSS,        \* u16::MAX, of the MSS option
    MaxCalls,       \* calls and changes of the MTU
    MaxErrors       \* times sending to the source fails

\* Every IPv4 link carries packets of 68 bytes.
ASSUME EgressAssumption ==
    /\ Datagrams \subseteq Nat \ {0} /\ Payloads \subseteq Nat \ {0}
    /\ LOCAL_MTU \in Nat /\ LOCAL_MTU >= 68
    /\ Mtus \subseteq Nat /\ \A m \in Mtus : m >= 68
    /\ MaxSacks \in Nat /\ U16_MAX \in Nat \ {0} /\ MAX_MSS \in Nat
    /\ MaxCalls \in Nat /\ MaxErrors \in Nat

VARIABLES
    src_mtu,          \* the entry of the source in src_mtu, 0 for None
    identification,   \* ipv4_identification_map of the pair of addresses
    size, mss, n,     \* of the call; n is how far its loop has come
    wire,             \* packets of the call: [id, from, len, more, total]
    tcp,              \* {} or {the TCP header last sent}
    pc,               \* "idle", or in send_udp or send_tcp_ack_raw
    whole,            \* the last call has sent all it had to
    ids,              \* history: identifications used up by calls before
    packets,          \* history: packets numbered
    calls, errors     \* counted against the bounds

vars == <<src_mtu, identification, size, mss, n, wire, tcp, pc, whole, ids,
          packets, calls, errors>>

TypeOK ==
    /\ src_mtu \in {0} \cup 68 .. LOCAL_MTU
    /\ identification \in 0 .. U16_MAX
    /\ size \in Datagrams \cup Payloads \cup {0} /\ n \in 0 .. size
    /\ mss \in 0 .. LOCAL_MTU
    /\ \A p \in wire : p.id \in 0 .. U16_MAX /\ p.len \in 1 .. mss
    /\ pc \in {"idle", "raw", "fragments", "segments"} /\ whole \in BOOLEAN
    /\ ids \subseteq 0 .. U16_MAX /\ packets \in Nat
    /\ calls \in 0 .. MaxCalls /\ errors \in 0 .. MaxErrors

\* Forwarder::new; packets have been sent before, so the identification is
\* anywhere.
Init ==
    /\ src_mtu = 0 /\ identification \in 0 .. U16_MAX
    /\ size = 0 /\ mss = 0 /\ n = 0 /\ wire = {} /\ tcp = {}
    /\ pc = "idle" /\ whole = FALSE /\ ids = {} /\ packets = 0
    /\ calls = 0 /\ errors = 0

Call == pc = "idle" /\ calls < MaxCalls /\ calls' = calls + 1

\* The packets of the call have used up their identifications: those of a
\* datagram when it is sent whole, every TCP packet for itself.
UsedUp == whole \/ tcp # {}

Remembered == IF UsedUp THEN ids \cup {p.id : p \in wire} ELSE ids

\* What a new call forgets, and what it remembers, of the one before.
Forget(sz, m) ==
    /\ size' = sz /\ mss' = m /\ n' = 0 /\ wire' = {} /\ tcp' = {} /\ whole' = FALSE
    /\ ids' = Remembered

-----------------------------------------------------------------------------
(* The MTU of the source *)

\* Mutant: the interface's MTU, whatever the source said.
Mtu_Local == LOCAL_MTU

Mtu == IF src_mtu = 0 THEN LOCAL_MTU ELSE src_mtu

\* set_src_mtu: called by handle_tcp_syn, with the MSS option and both headers,
\* and by handle_icmpv4, with the next hop's MTU of "fragmentation required".
SetSrcMtu(m) ==
    /\ Call
    /\ src_mtu' = Lesser(LOCAL_MTU, m)
    /\ Forget(0, 0)
    /\ UNCHANGED <<identification, pc, packets, errors>>

-----------------------------------------------------------------------------
(* IPv4 *)

\* Mutant: the identification stays at its largest value.
Increased_Stuck == IF identification = U16_MAX THEN U16_MAX ELSE identification + 1

\* increase_ipv4_identification
Increased == IF identification = U16_MAX THEN 0 ELSE identification + 1

Numbered == identification' = Increased /\ packets' = packets + 1

\* A packet with the part from .. from + len - 1 of what is being sent, behind
\* a transport header of its own.
Packet(from, len, header, more) ==
    [id |-> identification, from |-> from, len |-> len, more |-> more,
     total |-> TotalLength(header, len)]

Begin(sz, m, where) ==
    /\ Forget(sz, m)
    /\ pc' = where
    /\ UNCHANGED <<src_mtu, identification, packets, errors>>

\* Sending a packet fails: the call returns, the identification stays.
SendError ==
    /\ pc # "idle" /\ errors < MaxErrors
    /\ errors' = errors + 1 /\ pc' = "idle"
    /\ UNCHANGED <<src_mtu, identification, size, mss, n, wire, tcp, whole, ids,
                   packets, calls>>

-----------------------------------------------------------------------------
(* send_udp *)

SendUdp(sz) ==
    /\ Call
    /\ LET m == Mtu - Ipv4MinimumLen
       IN  Begin(sz, m, IF sz <= m THEN "raw" ELSE "fragments")

\* send_udp_raw: the datagram fits into one packet.
SendUdpRaw ==
    /\ pc = "raw"
    /\ wire' = {Packet(0, size, 0, FALSE)}
    /\ Numbered
    /\ n' = size /\ pc' = "idle" /\ whole' = TRUE
    /\ UNCHANGED <<src_mtu, size, mss, tcp, ids, calls, errors>>

\* Mutant: to units of 64 bytes.
Aligned_Bits(len) == (len \div 64) * 64

Aligned(len) == (len \div 8) * 8

\* Mutants: the last fragment may be of any length; every fragment but the
\* last is as long as the MTU allows.
Length_Short(left) == IF left <= mss THEN left ELSE Aligned(mss)
Length_Unaligned(left) == IF left <= mss THEN left ELSE mss

\* The length of the next fragment when left bytes are to be sent: aligned to
\* 8, and at least 8 bytes left over for the last one.
Length(left) ==
    LET length == IF left <= mss THEN left ELSE Aligned(mss)
        remain == left - length
    IN  IF remain > 0 /\ remain < 8 THEN length - 8 ELSE length

\* A turn of the loop; only the last fragment increases the identification.
Fragment ==
    /\ pc = "fragments"
    /\ LET length == Length(size - n)
           more == size - n > mss
       IN  /\ wire' = wire \cup {Packet(n, length, 0, more)}
           /\ n' = n + length
           /\ IF more THEN UNCHANGED <<identification, packets, pc, whole>>
              ELSE Numbered /\ pc' = "idle" /\ whole' = TRUE
    /\ UNCHANGED <<src_mtu, size, mss, tcp, ids, calls, errors>>

-----------------------------------------------------------------------------
(* TCP *)

SendTcpAckRaw(sz) ==
    Call /\ Begin(sz, Mtu - (Ipv4MinimumLen + TcpMinimumLen), "segments")

\* A turn of the loop of send_tcp_ack_raw: every segment is a packet with a
\* number of its own. (TcpTx has the sequence numbers and the FIN.)
Segment ==
    /\ pc = "segments"
    /\ LET length == Lesser(mss, size - n)
           ack == NewAck(<<>>)
       IN  /\ wire' = wire \cup {Packet(n, length, TcpLen(ack), FALSE)}
           /\ tcp' = {ack}
           /\ n' = n + length
           /\ IF n' < size THEN UNCHANGED <<pc, whole>>
              ELSE pc' = "idle" /\ whole' = TRUE
    /\ Numbered
    /\ UNCHANGED <<src_mtu, size, mss, ids, calls, errors>>

\* A packet without payload, sent in one go.
SendHeader(header) ==
    /\ Call
    /\ size' = 0 /\ mss' = 0 /\ n' = 0 /\ whole' = TRUE
    /\ wire' = {Packet(0, 0, TcpLen(header), FALSE)} /\ tcp' = {header}
    /\ ids' = Remembered
    /\ Numbered
    /\ UNCHANGED <<src_mtu, pc, errors>>

\* With the SACK blocks of the receive window; also ACK/RST, RST and FIN, which
\* have none.
SendTcpAck0(count) == SendHeader(NewAck([i \in 1 .. count |-> i]))

\* The MSS of the interface, as far as the option can say it.
OwnMss == Lesser(LOCAL_MTU - (Ipv4MinimumLen + TcpMinimumLen), MAX_MSS)

SendTcpAckSyn(wscale, sack_perm) == SendHeader(NewAckSyn(OwnMss, wscale, sack_perm))

-----------------------------------------------------------------------------
Next ==
    \/ \E m \in Mtus : SetSrcMtu(m)
    \/ \E sz \in Datagrams : SendUdp(sz)
    \/ \E sz \in Payloads : SendTcpAckRaw(sz)
    \/ \E count \in 0 .. MaxSacks : SendTcpAck0(count)
    \/ \E wscale \in {{}, {7}}, perm \in BOOLEAN : SendTcpAckSyn(wscale, perm)
    \/ SendUdpRaw \/ Fragment \/ Segment \/ SendError

Spec == Init /\ [][Next]_vars

\* The loops wait for nobody.
FairSpec == Spec /\ WF_vars(Fragment) /\ WF_vars(SendUdpRaw) /\ WF_vars(Segment)

-----------------------------------------------------------------------------
(* Properties *)

\* The packets of the call join without gap or overlap.
Joined ==
    /\ \A p \in wire : p.from + p.len = size \/ \E q \in wire : q.from = p.from + p.len
    /\ \A p \in wire : p.from = 0 \/ \E q \in wire : q.from + q.len = p.from
    /\ \A p, q \in wire : p # q => p.from + p.len <= q.from \/ q.from + q.len <= p.from
    /\ \E p \in wire : p.from = 0

\* A datagram that is sent whole can be put together by the source: its
\* fragments join, begin at multiples of 8, carry one identification and, the
\* last one alone, no "more" flag.
Reassemblable ==
    whole /\ tcp = {} =>
        /\ Joined
        /\ \A p, q \in wire : p.id = q.id
        /\ \A p \in wire : p.from % 8 = 0 /\ (p.more <=> p.from + p.len < size)

\* Everything with a payload fits the MTU that the source last reported, and a
\* TCP payload that is sent whole is in segments that join: a change of the MTU
\* between two calls is followed at once.
FitsSource ==
    /\ size > 0 => \A p \in wire : /\ p.total <= LOCAL_MTU
                                  /\ src_mtu # 0 => p.total <= src_mtu
    /\ whole /\ tcp # {} /\ size > 0 => Joined

\* "Leave at least 8 Bytes for last fragment" (lib.rs:1142).
LastFragmentFilled ==
    tcp = {} => \A p \in wire : p.from > 0 /\ ~p.more => p.len >= 8

\* Of fewer than 2^16 packets, no two datagrams sent whole, TCP segments or
\* packets without payload share an identification, be they of one call or of
\* several, also across its wrap and around calls that fail half way.
FreshIdentification ==
    UsedUp /\ packets <= U16_MAX =>
        /\ \A p \in wire : p.id \notin ids
        /\ tcp # {} => \A p, q \in wire : p # q => p.id # q.id

\* The source reads a TCP header as it was meant: the payload begins where the
\* header says that it ends, although the constructor and len() count apart;
\* the header fits its field of 4 bits; the options are all inside it and give
\* back at most four SACK blocks and an MSS that the option can hold and the
\* interface can receive; what the IPv4 length leaves is the payload.
HeaderReads ==
    \A t \in tcp :
        LET s == TcpSerialized(t)
        IN  /\ s.payload_at = 4 * s.data_offset /\ s.data_offset <= 15
            /\ TcpLen(t) = 4 * s.data_offset
            /\ \A v \in Found(t.options, "sack") : Len(v) \in 1 .. 4
            /\ \A v \in Found(t.options, "mss") : v <= MAX_MSS /\ v + 4 * 5 + Ipv4MinimumLen <= LOCAL_MTU
            /\ \A p \in wire : p.total - Ipv4MinimumLen - 4 * s.data_offset = p.len

\* Every call ends, so that the lock of tx is given back: every turn of a loop
\* sends some bytes, also when it leaves 8 for the last fragment.
LoopEnds == pc # "idle" ~> pc = "idle"

-----------------------------------------------------------------------------
(* Expectations the code does not meet: TLC refutes them. *)

\* A smaller MTU that was reported stays in force. The next connection's MSS
\* option replaces it, also by a larger one.
MtuOnlyFalls == [][Mtu' <= Mtu]_vars
=============================================================================
