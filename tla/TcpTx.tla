------------------------------- MODULE TcpTx --------------------------------
(***************************************************************************)
(* The sending half of one TCP connection: the Forwarder and its           *)
(* TcpTxState, fed by the reader and the tick task of the StreamWorker and *)
(* by the acknowledgements the Redirector handles, over a network that     *)
(* loses, repeats and reorders, to a source that receives in order.        *)
(*                                                                         *)
(* Sequence numbers are counted from the SYN, which has number 0: byte i   *)
(* of the forwarded stream has number i. They do not wrap here. The send   *)
(* cache is what ByteQueue promises: its first sequence number and length. *)
(* Time is left out: which clocks are timed out at a tick is a choice,     *)
(* which TxProgress takes away.                                            *)
(* The source keeps its own direction open.                                *)
(***************************************************************************)
EXTENDS Integers, FiniteSets, FiniteSetsExt

CONSTANTS
    StreamLen,     \* bytes the remote ever sends
    MaxRead,       \* bytes in one read of the reader task
    MSSes,         \* what the MTUs the source reports leave for a payload
    Capacity,      \* of the cache: RECV_WINDOW << wscale
    Windows,       \* windows the source advertises
    U16_MAX,       \* the most that is taken from the queue at once
    RemoteCloses,  \* does the remote end its stream?
    ReorderAcks,   \* can acknowledgements of the source overtake each other?
    MaxLoss,       \* packets the network drops, in runs about progress
    MaxErrors      \* times pcap fails to send

ASSUME TxAssumption ==
    /\ StreamLen \in Nat /\ MaxRead \in Nat \ {0}
    /\ MSSes \subseteq Nat \ {0} /\ \E top \in MSSes : \A m \in MSSes : m <= top
    /\ Capacity \in Nat \ {0}
    /\ Windows \subseteq 0 .. Capacity /\ Windows # {} /\ U16_MAX \in Nat \ {0}
    /\ RemoteCloses \in BOOLEAN /\ ReorderAcks \in BOOLEAN
    /\ MaxLoss \in Nat /\ MaxErrors \in Nat

VARIABLES
    sequence,        \* TcpTxState.sequence
    cache_seq,       \* cache.sequence()
    cache_len,       \* cache.len()
    cache_syn,       \* cache_syn.is_some()
    cache_fin,       \* cache_fin.is_some()
    queue,           \* queue.len()
    queue_fin,       \* TcpTxState.queue_fin
    send_window,     \* TcpTxState.send_window
    mss,             \* src_mtu less the headers
    is_read_closed,  \* the worker's flag
    reader,          \* "open", "closed" (flag not stored yet) or "done"
    ticking,         \* the tick task has loaded the flag and goes on
    acking,          \* between the locks of handle_tcp_ack
    forwarded,       \* history: bytes the reader has forwarded
    syns,            \* history: ACK/SYN packets sent, 2 for more than one
    errors,          \* history: sends that failed
    fin_early,       \* history: a FIN was sent ahead of bytes of the stream
    net,             \* data and FIN packets on the way to the source
    losses,          \* packets lost so far
    src_next,        \* the next sequence number the source expects
    granted,         \* the end of the window the source has granted
    acked            \* history: the highest acknowledgement handled

txVars == <<sequence, cache_seq, cache_len, cache_fin, queue, queue_fin, net, syns,
            errors, fin_early>>
workerVars == <<is_read_closed, reader, ticking, forwarded>>
sourceVars == <<losses, src_next, granted>>
vars == <<txVars, cache_syn, send_window, mss, workerVars, acking, sourceVars, acked>>

Packet == [seq : Nat, first : Nat, len : 0 .. Max(MSSes), fin : BOOLEAN]

TypeOK ==
    /\ sequence \in Nat /\ cache_seq \in Nat /\ cache_len \in Nat
    /\ cache_syn \in BOOLEAN /\ cache_fin \in BOOLEAN /\ queue_fin \in BOOLEAN
    /\ queue \in Nat /\ send_window \in 0 .. Capacity /\ mss \in MSSes
    /\ is_read_closed \in BOOLEAN /\ reader \in {"open", "closed", "done"}
    /\ ticking \in BOOLEAN /\ acking \in {"idle", "retransmit", "send"}
    /\ forwarded \in 0 .. StreamLen /\ syns \in 1 .. 2
    /\ errors \in 0 .. MaxErrors /\ fin_early \in BOOLEAN
    /\ net \subseteq Packet /\ losses \in 0 .. MaxLoss
    /\ src_next \in Nat /\ granted \in Nat /\ acked \in Nat

\* After open(): the ACK/SYN is on its way and its timer runs.
Init ==
    /\ sequence = 0 /\ cache_seq = 0 /\ cache_len = 0
    /\ cache_syn = TRUE /\ cache_fin = FALSE
    /\ queue = 0 /\ queue_fin = FALSE
    /\ send_window \in Windows /\ mss \in MSSes
    /\ is_read_closed = FALSE /\ reader = "open" /\ ticking = FALSE
    /\ acking = "idle" /\ forwarded = 0 /\ syns = 1 /\ errors = 0
    /\ fin_early = FALSE /\ net = {} /\ losses = 0 /\ src_next = 0
    /\ granted = 0 /\ acked = 0

-----------------------------------------------------------------------------
(* Sending *)

\* The byte of the stream that is first in the queue, and first in the cache.
QueueFirst == forwarded - queue + 1
CacheFirst == QueueFirst - cache_len

\* send_tcp_ack_raw: n bytes from sequence number seq on, in segments of mss.
\* The inner `payload` hides the outer one in the test for the last segment,
\* so with is_fin every segment carries a FIN.
Segments(seq, first, n, is_fin) ==
    {[seq |-> seq + i * mss, first |-> first + i * mss,
      len |-> Min({mss, n - i * mss}), fin |-> is_fin] :
        i \in {j \in 0 .. n : j * mss < n}}

\* The number behind a packet, which the source acknowledges.
PacketEnd(p) == p.seq + p.len + (IF p.fin THEN 1 ELSE 0)

\* Mutants: a retransmission moves the sequence on, or back.
Advance_Always(sent) == sequence + MapThenSumSet(LAMBDA p : PacketEnd(p) - p.seq, sent)
Advance_Back(sent) == IF sent = {} THEN sequence ELSE Max({PacketEnd(p) : p \in sent})

\* "Update TCP sequence", after every segment: moved on, never back.
Advance(sent) == Max({PacketEnd(p) : p \in sent} \cup {sequence})

\* Segments are sent one after the other; when pcap fails, the rest is not,
\* and the caller returns. A FIN is early when several segments carry it.
Sent(segments) ==
    {segments} \cup {{p \in segments : p.seq < f.seq} :
                        f \in {q \in segments : errors < MaxErrors}}

Send(segments) ==
    \E sent \in Sent(segments) :
        /\ net' = net \cup sent
        /\ sequence' = Advance(sent)
        /\ errors' = IF sent = segments THEN errors ELSE errors + 1
    /\ fin_early' = (fin_early \/ \E p, q \in segments : p # q /\ p.fin)

\* send_tcp_fin: at the connection's sequence, which it leaves alone.
SendTcpFin ==
    LET fin == [seq |-> sequence, first |-> 0, len |-> 0, fin |-> TRUE]
    IN  /\ \E sent \in Sent({fin}) :
            net' = net \cup sent /\ errors' = errors + (1 - Cardinality(sent))
        /\ UNCHANGED sequence

\* Mutant: what is in flight is not taken off the window.
Sendable_WholeWindow(q) ==
    LET size == Min({send_window, U16_MAX, q}) IN
    IF send_window = 0 \/ (size < mss /\ cache_len > 0) THEN 0 ELSE size

\* What send_tcp_ack may put on the wire: the window's room as a u16, at most
\* the queue, and nothing below a full segment while data is unacknowledged.
Sendable(q) ==
    LET size == Min({Max({send_window - cache_len, 0}), U16_MAX, q}) IN
    IF send_window = 0 \/ (size < mss /\ cache_len > 0) THEN 0 ELSE size

\* append_cache drains the queue first; if the cache refuses, that is lost. If
\* a segment cannot be sent, the cache has it and the sequence stays behind.
SendFromQueue(q, q_fin) ==
    LET n == Sendable(q)
        fits == n <= Capacity - cache_len
        with_fin == fits /\ n = q /\ q_fin
    IN  /\ n > 0
        /\ queue' = q - n
        /\ cache_len' = IF fits THEN cache_len + n ELSE cache_len
        /\ queue_fin' = (q_fin /\ ~with_fin)
        /\ cache_fin' = (cache_fin \/ with_fin)
        /\ Send(IF fits THEN Segments(sequence, QueueFirst, n, with_fin) ELSE {})
        /\ UNCHANGED <<cache_seq, syns>>

\* With nothing sendable, a queued FIN goes out once the cache is empty. The
\* queue is not looked at: with a window of zero it may hold data.
SendFinAlone(q, q_fin) ==
    /\ Sendable(q) = 0
    /\ q_fin /\ cache_len = 0
    /\ queue_fin' = FALSE /\ cache_fin' = TRUE
    /\ SendTcpFin
    /\ fin_early' = (fin_early \/ q > 0)
    /\ queue' = q
    /\ UNCHANGED <<cache_seq, cache_len, syns>>

SendNothing(q, q_fin) ==
    /\ Sendable(q) = 0
    /\ ~(q_fin /\ cache_len = 0)
    /\ queue' = q /\ queue_fin' = q_fin
    /\ UNCHANGED <<sequence, cache_seq, cache_len, cache_fin, net, syns, errors, fin_early>>

\* An unacknowledged SYN is answered again instead.
SendSynAgain(q, q_fin) ==
    /\ \/ syns' = 2 /\ UNCHANGED errors
       \/ errors < MaxErrors /\ errors' = errors + 1 /\ UNCHANGED syns
    /\ queue' = q /\ queue_fin' = q_fin
    /\ UNCHANGED <<sequence, cache_seq, cache_len, cache_fin, net, fin_early>>

\* send_tcp_ack, with the queue as the caller has just extended it.
SendTcpAck(q, q_fin) ==
    \/ cache_syn /\ SendSynAgain(q, q_fin)
    \/ ~cache_syn /\ (\/ SendFromQueue(q, q_fin)
                      \/ SendFinAlone(q, q_fin)
                      \/ SendNothing(q, q_fin))

-----------------------------------------------------------------------------
(* The worker's tasks *)

\* ForwardStream::forward; the reader never forwards after close.
Forward ==
    /\ reader = "open"
    /\ \E n \in 1 .. MaxRead :
        /\ forwarded + n <= StreamLen
        /\ forwarded' = forwarded + n
        /\ SendTcpAck(queue + n, queue_fin)
    /\ UNCHANGED <<cache_syn, send_window, mss, is_read_closed, reader, ticking,
                   acking, sourceVars, acked>>

\* ForwardStream::close, when the remote has ended its stream.
Close ==
    /\ RemoteCloses /\ reader = "open"
    /\ reader' = "closed"
    /\ UNCHANGED <<is_read_closed, ticking, forwarded>>
    /\ SendTcpAck(queue, TRUE)
    /\ UNCHANGED <<cache_syn, send_window, mss, acking, sourceVars, acked>>

\* The reader stores the flag and ends.
StoreClosed ==
    /\ reader = "closed"
    /\ reader' = "done" /\ is_read_closed' = TRUE
    /\ UNCHANGED <<txVars, cache_syn, send_window, mss, ticking, forwarded,
                   acking, sourceVars, acked>>

\* The tick task loads the flag; it ends when the flag is set.
LoadFlag ==
    /\ ~ticking /\ ~is_read_closed
    /\ ticking' = TRUE
    /\ UNCHANGED <<txVars, cache_syn, send_window, mss, is_read_closed, reader,
                   forwarded, acking, sourceVars, acked>>

\* Mutant: the FIN goes with any retransmission.
WithFin_Always(from, n) == cache_fin /\ n > 0

\* Retransmit n bytes of the cache, with the FIN if they are its end.
WithFin(from, n) == cache_fin /\ n > 0 /\ from + n = cache_seq + cache_len

\* Mutant: bytes are sent again at the connection's sequence.
Again_AtSequence(from, n) ==
    Segments(sequence, CacheFirst + (from - cache_seq), n, WithFin(from, n))

Again(from, n) == Segments(from, CacheFirst + (from - cache_seq), n, WithFin(from, n))

Resend(from, n) ==
    /\ Send(Again(from, n))
    /\ UNCHANGED <<cache_seq, cache_len, cache_fin, queue, queue_fin, syns>>

ResendFin ==
    /\ SendTcpFin
    /\ UNCHANGED <<cache_seq, cache_len, cache_fin, queue, queue_fin, syns, fin_early>>

\* retransmit_tcp_ack_timedout: the n bytes at the front of the cache that are
\* timed out, or a FIN.
RetransmitTimedOut(n) ==
    /\ ticking
    /\ ticking' = FALSE
    /\ \/ cache_len > 0 /\ Resend(cache_seq, n)
       \/ cache_len = 0 /\ cache_fin /\ ResendFin
       \/ cache_len = 0 /\ UNCHANGED txVars
    /\ UNCHANGED <<cache_syn, send_window, mss, is_read_closed, reader, forwarded,
                   acking, sourceVars, acked>>

\* Which those are is up to the clocks of the cache (see TxProgress).
Tick == \E n \in 0 .. cache_len : RetransmitTimedOut(n)

-----------------------------------------------------------------------------
(* Acknowledgements *)

\* Mutant: an acknowledgement beyond the cache is not cut off at its end.
Acknowledge_Beyond(a) ==
    LET syn == cache_syn /\ a >= sequence
        new == a >= cache_seq
        len == IF new THEN cache_len - (a - cache_seq) ELSE cache_len
        seq == IF new THEN a ELSE cache_seq
        fin == cache_fin /\ a >= seq + len
    IN  /\ cache_syn' = (cache_syn /\ ~syn)
        /\ cache_seq' = seq /\ cache_len' = len
        /\ cache_fin' = (cache_fin /\ ~fin)
        /\ sequence' = sequence + (IF syn THEN 1 ELSE 0) + (IF fin THEN 1 ELSE 0)
        /\ acked' = Max({acked, a})

\* TcpTxState::acknowledge: the SYN, then the cache, then the FIN, which is
\* taken to be acknowledged with the last byte of the cache.
Acknowledge(a) ==
    LET syn == cache_syn /\ a >= sequence
        new == a >= cache_seq
        len == IF new THEN Max({cache_len - (a - cache_seq), 0}) ELSE cache_len
        seq == IF new THEN a ELSE cache_seq
        fin == cache_fin /\ a >= seq + len
    IN  /\ cache_syn' = (cache_syn /\ ~syn)
        /\ cache_seq' = seq /\ cache_len' = len
        /\ cache_fin' = (cache_fin /\ ~fin)
        /\ sequence' = sequence + (IF syn THEN 1 ELSE 0) + (IF fin THEN 1 ELSE 0)
        /\ acked' = Max({acked, a})

\* The first lock of handle_tcp_ack: acknowledge and set_send_window. With a
\* payload, the handler returns early if the window refuses it or the write to
\* the remote or the ACK0 fails, and the rest is left out.
HandleAck(ack, window) ==
    /\ acking = "idle"
    /\ Acknowledge(ack)
    /\ send_window' = window
    /\ acking' \in {"retransmit", "send", "idle"}
    /\ UNCHANGED <<queue, queue_fin, net, syns, errors, fin_early, mss, workerVars,
                   losses, src_next>>

\* What SACK blocks may leave of the cache, as ranges <<from, n>>.
RangesOf(S) ==
    {r \in S \X (1 .. cache_len) :
        r[1] .. r[1] + r[2] - 1 \subseteq S /\ r[1] - 1 \notin S /\ r[1] + r[2] \notin S}

\* Fast retransmission after duplicates: the cache, or the ranges of it that
\* the source has not got by its SACK blocks; a FIN alone if there are none.
\* A source that has the whole cache acknowledges it, so some range is left.
\* An error ends the handler before it sends the remaining data.
FastRetransmit ==
    /\ acking = "retransmit"
    /\ \/ \E S \in SUBSET (cache_seq .. cache_seq + cache_len - 1) :
            /\ cache_len > 0 => S # {}
            /\ Send(UNION {Again(r[1], r[2]) : r \in RangesOf(S)})
            /\ UNCHANGED <<cache_seq, cache_len, cache_fin, queue, queue_fin, syns>>
       \/ cache_len = 0 /\ cache_fin /\ ResendFin
    /\ acking' = IF errors' = errors THEN "send" ELSE "idle"
    /\ UNCHANGED <<cache_syn, send_window, mss, workerVars, sourceVars, acked>>

\* The last lock: "Trigger sending remaining data".
SendRemaining ==
    /\ acking = "send"
    /\ acking' = "idle"
    /\ UNCHANGED forwarded
    /\ SendTcpAck(queue, queue_fin)
    /\ UNCHANGED <<cache_syn, send_window, mss, is_read_closed, reader, ticking,
                   sourceVars, acked>>

-----------------------------------------------------------------------------
(* The network and the source *)

\* The source receives the ACK/SYN.
DeliverSyn ==
    /\ src_next = 0
    /\ src_next' = 1
    /\ UNCHANGED <<txVars, cache_syn, send_window, mss, workerVars, acking,
                   losses, granted, acked>>

\* A packet that continues what the source has. One that comes too early is
\* delivered when its turn comes, one the source has already is of no use.
Deliver(p) ==
    /\ src_next > 0
    /\ p.seq <= src_next /\ src_next < PacketEnd(p)
    /\ src_next' = PacketEnd(p)
    /\ net' = {q \in net : PacketEnd(q) > src_next'}
    /\ UNCHANGED <<sequence, cache_seq, cache_len, cache_fin, queue, queue_fin,
                   syns, errors, fin_early, cache_syn, send_window, mss, workerVars,
                   acking, losses, granted, acked>>

Lose(p) ==
    /\ losses < MaxLoss
    /\ losses' = losses + 1
    /\ net' = net \ {p}
    /\ UNCHANGED <<sequence, cache_seq, cache_len, cache_fin, queue, queue_fin,
                   syns, errors, fin_early, cache_syn, send_window, mss, workerVars,
                   acking, src_next, granted, acked>>

\* The source acknowledges what it has, when that or its window is news or a
\* packet came out of turn, and takes back no window it granted before.
SourceAck ==
    /\ src_next > 0
    /\ \E w \in Windows :
        /\ src_next + w >= granted
        /\ src_next > acked \/ src_next + w > granted \/ net # {}
        /\ granted' = src_next + w
        /\ HandleAck(src_next, w)

\* set_src_mtu, for another connection of the source or by an ICMP message.
SetSrcMtu ==
    /\ \E m \in MSSes \ {mss} : mss' = m
    /\ UNCHANGED <<txVars, cache_syn, send_window, workerVars, acking, sourceVars, acked>>

\* An acknowledgement sent earlier arrives late or twice.
LateAck ==
    /\ ReorderAcks
    /\ \E a \in 1 .. src_next, w \in Windows :
        a + w <= granted /\ HandleAck(a, w)
    /\ UNCHANGED granted

Next ==
    \/ Forward \/ Close \/ StoreClosed \/ LoadFlag \/ Tick
    \/ FastRetransmit \/ SendRemaining
    \/ DeliverSyn \/ SourceAck \/ LateAck \/ SetSrcMtu
    \/ \E p \in net : Deliver(p) \/ Lose(p)

Spec == Init /\ [][Next]_vars

-----------------------------------------------------------------------------
(* Properties *)

\* What is acknowledged, cached and queued is what was forwarded.
Accounted == Max({cache_seq - 1, 0}) + cache_len + queue = forwarded

\* No byte is lost between the remote's stream and the wire, until the FIN is
\* acknowledged, or is sent ahead of bytes of the stream (see FinEndsStream).
\* In particular append_cache never fails after it has drained the queue.
NothingLost == ~fin_early /\ cache_seq <= forwarded + 1 => Accounted

\* Every segment, first sent or retransmitted, by whichever task and under
\* whichever MTU, carries the bytes that belong at its sequence number. Claimed
\* until a FIN is sent early or pcap fails to send: the next payload then goes out
\* at a sequence that has moved beyond the cache, or stayed behind it.
PlacedRight ==
    errors = 0 /\ ~fin_early => \A p \in net : p.len > 0 => p.first = p.seq

\* Until the remote closes, the connection's sequence stays at the end of the
\* cache, or behind it when a send has failed: the two are advanced by
\* different functions under different locks.
SequenceAfterCache ==
    reader = "open" /\ ~cache_syn =>
        /\ sequence <= cache_seq + cache_len
        /\ errors = 0 => sequence = cache_seq + cache_len

\* Until a FIN is sent early, no packet carries a byte beyond what the source
\* has granted so far. Claimed with acknowledgements in order (ReorderAcks is
\* FALSE): set_send_window takes a late one's window as well.
WithinGrant == ~fin_early => \A p \in net : p.len > 0 => p.seq + p.len <= granted

\* A late or repeated acknowledgement never makes the cache forget less than
\* it had forgotten, nor the next sequence number go back.
NeverBack == [][cache_seq' >= cache_seq /\ sequence' >= sequence]_vars

\* "If the queue is empty and a FIN is in the queue, pop it" (lib.rs:893, 911):
\* a FIN stands behind the last byte of the stream, except for the two cases
\* that make it early: every segment of a payload carries the payload's FIN, and
\* with a window of zero the queue is not looked at. (As PlacedRight, until pcap
\* fails to send.)
FinEndsStream ==
    errors = 0 /\ ~fin_early =>
        \A p \in net : p.fin => p.seq + p.len = forwarded + 1

-----------------------------------------------------------------------------
(* Expectations the code does not meet: TLC refutes them. *)

\* "acknowledge TCP FIN" (lib.rs:277) happens when the source has
\* acknowledged to the sequence of the FIN.
FinAcknowledged ==
    reader # "open" /\ ~queue_fin /\ ~cache_fin => acked >= forwarded + 2

\* "pcap2socks does not retransmit the ACK/SYN packets in handshaking"
\* (dev.md:27).
SynAckSentOnce == syns <= 1

\* PlacedRight, also after pcap has failed to send: send_tcp_ack takes the
\* sequence of the connection for the place of what it has just cached
\* (lib.rs:900, 905), but an error leaves the sequence behind the cache.
PlacedAfterError == \A p \in net : p.len > 0 => p.first = p.seq
=============================================================================
