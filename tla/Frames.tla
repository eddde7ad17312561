------------------------------- MODULE Frames -------------------------------
(***************************************************************************)
(* The layouts of what the Forwarder sends: packet::layer::tcp with its    *)
(* options, the length of the IPv4 packet around it, and how the two       *)
(* counts of the TCP header meet when it is serialised. Nothing here has   *)
(* state. Lengths are in bytes, data_offset is in words of 4.              *)
(***************************************************************************)
EXTENDS Integers, Sequences, SequencesExt

TcpMinimumLen == 20
Ipv4MinimumLen == 20
UdpMinimumLen == 8

Lesser(a, b) == IF a < b THEN a ELSE b

-----------------------------------------------------------------------------
(* TCP options, with the lengths pnet gives them. *)

Nop == [len |-> 1, kind |-> "nop"]
MssOption(v) == [len |-> 4, kind |-> "mss", value |-> v]
WscaleOption(v) == [len |-> 3, kind |-> "wscale", value |-> v]
SackPermOption == [len |-> 2, kind |-> "sack_perm", value |-> TRUE]
SelectiveAck(sacks) == [len |-> 2 + 8 * Len(sacks), kind |-> "sack", value |-> sacks]

\* What mss(), wscale(), sack() and is_sack_perm() find: the first of its kind.
Found(options, kind) ==
    LET at == SelectInSeq(options, LAMBDA o : o.kind = kind)
    IN  IF at = 0 THEN {} ELSE {options[at].value}

-----------------------------------------------------------------------------
(* The constructors count data_offset beside the list of options. No caller *)
(* gives a timestamp.                                                       *)

\* Mutant: the word with the padding and the kind of the option is not counted.
NewAck_Unpadded(sacks) ==
    LET size == Lesser(4, Len(sacks))
    IN  IF sacks = <<>> THEN [data_offset |-> 5, options |-> <<>>]
        ELSE [data_offset |-> 5 + 2 * size,
              options |-> <<Nop, Nop, SelectiveAck(SubSeq(sacks, 1, size))>>]

\* Tcp::new_ack; new_rst, new_fin and their kin have its layout without SACKs.
NewAck(sacks) ==
    LET size == Lesser(4, Len(sacks))
    IN  IF sacks = <<>> THEN [data_offset |-> 5, options |-> <<>>]
        ELSE [data_offset |-> 5 + 1 + 2 * size,
              options |-> <<Nop, Nop, SelectiveAck(SubSeq(sacks, 1, size))>>]

\* Tcp::new_ack_syn; wscale is a set of at most one shift.
NewAckSyn(mss, wscale, sack_perm) ==
    LET scale == IF wscale = {} THEN <<>>
                 ELSE <<Nop, WscaleOption(CHOOSE v \in wscale : TRUE)>>
        perm == IF sack_perm THEN <<Nop, Nop, SackPermOption>> ELSE <<>>
    IN  [data_offset |-> 5 + 1 + (IF scale = <<>> THEN 0 ELSE 1)
                               + (IF perm = <<>> THEN 0 ELSE 1),
         options |-> <<MssOption(mss)>> \o scale \o perm]

\* Tcp::len: the fixed header and the options in the list, if there are any.
TcpLen(tcp) ==
    IF tcp.options = <<>> THEN TcpMinimumLen
    ELSE LET upto[i \in 0 .. Len(tcp.options)] ==
                 IF i = 0 THEN TcpMinimumLen ELSE upto[i - 1] + tcp.options[i].len
         IN  upto[Len(tcp.options)]

\* Tcp::serialize_with_payload: the payload is put behind the header as the
\* constructor counted it, then "Fix length" writes the header's own length.
TcpSerialized(tcp) ==
    [payload_at |-> 4 * tcp.data_offset, data_offset |-> TcpLen(tcp) \div 4]

-----------------------------------------------------------------------------
\* The total length that Indicator::serialize hands to the IPv4 layer, for a
\* transport header and payload of these lengths. send and send_with_payload
\* pad the buffer of a short frame behind it.
TotalLength(header, payload) == Ipv4MinimumLen + header + payload
=============================================================================
