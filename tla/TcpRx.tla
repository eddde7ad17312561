------------------------------- MODULE TcpRx --------------------------------
(***************************************************************************)
(* The receiving half of one TCP connection: handle_tcp_ack and            *)
(* handle_tcp_fin of the Redirector, its TcpRxState, the acknowledgement   *)
(* of the TcpTxState, and the write half of the StreamWorker.              *)
(*                                                                         *)
(* The source's stream is the bytes 1 .. StreamLen followed by a FIN; its  *)
(* SYN has sequence number 0. The network repeats, reorders and loses. The *)
(* receive window hands bytes out as Reassembly allows and panics on a     *)
(* segment wholly before it, as Window does. Numbers do not wrap here.     *)
(***************************************************************************)
EXTENDS Integers, FiniteSetsExt

CONSTANTS
    StreamLen,    \* bytes the source sends before its FIN
    MaxSegment,   \* bytes in its largest segment
    RECV_WINDOW,
    Wscale,       \* the shift in its SYN
    MAX_RECV_WSCALE,
    LOCAL_MTU     \* of the interface

ASSUME RxAssumption ==
    /\ StreamLen \in Nat \ {0}
    /\ MaxSegment \in 1 .. StreamLen /\ MaxSegment <= RECV_WINDOW * 2^Wscale
    /\ RECV_WINDOW \in Nat \ {0} /\ Wscale \in Nat /\ MAX_RECV_WSCALE \in Nat
    /\ LOCAL_MTU \in Nat

\* Facts of arithmetic: shifting left keeps a number positive, and less of a
\* shift gives less.
ASSUME ShiftAssumption ==
    2^Wscale \in Nat \ {0} /\ 2^Min({Wscale, MAX_RECV_WSCALE}) \in 1 .. 2^Wscale

VARIABLES
    recv_next,         \* TcpRxState.recv_next
    window_seq,        \* TcpRxState.cache.sequence()
    arrived,           \* bytes the window has accepted
    fin_sequence,      \* TcpRxState.fin_sequence, 0 for None
    acknowledgement,   \* TcpTxState.acknowledgement
    window,            \* TcpTxState.window
    written,           \* bytes written to the SOCKS stream
    broken,            \* a write to it has failed
    write_gone,        \* stream_tx of the worker is None
    is_write_closed,   \* the worker's flags
    is_read_closed,
    pc,                \* where the handler is
    pkt,               \* the packet being handled, if it has a FIN
    loaded,            \* is_readable as handle_tcp_fin read it on entry
    removed,           \* why the connection is gone, or "no"
    failed             \* history: a packet could not be sent to the source

rxVars == <<recv_next, window_seq, arrived, fin_sequence>>
handlerVars == <<pc, pkt, loaded>>
streamVars == <<written, broken, write_gone>>
flagVars == <<is_write_closed, is_read_closed>>
vars == <<rxVars, acknowledgement, window, streamVars, flagVars, handlerVars, removed,
          failed>>

Byte == 1 .. StreamLen

\* What the source may send: up to MaxSegment bytes from seq on, with the FIN
\* behind the last byte; a FIN may come without the ACK flag.
Packets ==
    {p \in [seq : 1 .. StreamLen + 2, len : 0 .. MaxSegment, fin : BOOLEAN, ack : BOOLEAN] :
        /\ p.len > 0 => p.seq + p.len - 1 \in Byte
        /\ p.fin => p.seq + p.len = StreamLen + 1
        /\ p.ack \/ p.fin}

NoPacket == [seq |-> 0, len |-> 0, fin |-> FALSE, ack |-> FALSE]

TypeOK ==
    /\ recv_next \in 1 .. StreamLen + 2 /\ acknowledgement \in 1 .. StreamLen + 2
    /\ window_seq \in 1 .. StreamLen + 1 /\ written \in 0 .. StreamLen
    /\ window \in 0 .. RECV_WINDOW
    /\ arrived \subseteq Byte
    /\ fin_sequence \in 0 .. StreamLen + 1
    /\ broken \in BOOLEAN /\ write_gone \in BOOLEAN
    /\ is_write_closed \in BOOLEAN /\ is_read_closed \in BOOLEAN
    /\ pc \in {"idle", "sending", "tail", "fin"} /\ loaded \in BOOLEAN
    /\ pkt \in Packets \cup {NoPacket}
    /\ removed \in {"no", "panic", "send error", "LAST_ACK", "both ended"}
    /\ failed \in BOOLEAN

\* After the handshake.
Init ==
    /\ recv_next = 1 /\ window_seq = 1 /\ arrived = {} /\ fin_sequence = 0
    /\ acknowledgement = 1 /\ window = RECV_WINDOW /\ written = 0 /\ broken = FALSE
    /\ write_gone = FALSE /\ is_write_closed = FALSE /\ is_read_closed = FALSE
    /\ pc = "idle" /\ pkt = NoPacket /\ loaded = FALSE /\ removed = "no" /\ failed = FALSE

-----------------------------------------------------------------------------
(* The window *)

Capacity == RECV_WINDOW * 2^Wscale

Bytes(p) == p.seq .. p.seq + p.len - 1

IsBefore(p) == p.seq + p.len < window_seq
Fits(p) == p.seq < window_seq \/ p.seq - window_seq + p.len <= Capacity

\* Where the window may stand after an accepted segment: behind contiguous
\* bytes, and behind the segment if it holds the byte that was awaited.
WindowAfter(p) ==
    LET got == arrived \cup Bytes(p)
    IN  {seq \in window_seq .. StreamLen + 1 :
            /\ 1 .. seq - 1 \subseteq got
            /\ window_seq \in Bytes(p) => seq >= p.seq + p.len}

\* What lies between the front of the window and the last byte accepted.
Size(seq, got) == Max(got \cup {seq - 1}) - (seq - 1)

\* Mutant: the free bytes are not scaled down for the field.
Remaining_Unscaled(seq, got) == Capacity - Size(seq, got)

\* What set_window is given: the free bytes, in the units of the SYN's shift.
Remaining(seq, got) == (Capacity - Size(seq, got)) \div 2^Wscale

\* get_tcp_window: what every packet to the source advertises. "Avoid SWS".
GetTcpWindow == IF window < Min({RECV_WINDOW \div 2, LOCAL_MTU}) THEN 0 ELSE window

\* The source reads it with the shift of the ACK/SYN.
Edge == acknowledgement + GetTcpWindow * 2^Min({Wscale, MAX_RECV_WSCALE})

-----------------------------------------------------------------------------
(* handle_tcp_ack *)

\* A packet is sent to the source and the handler goes on; it returns at once
\* if that fails.
SendThen(at) ==
    \/ pc' = at /\ UNCHANGED failed
    \/ pc' = "idle" /\ failed' = TRUE

\* Of the packet only a FIN matters later on, and nothing between packets.
Hold(p) == pkt' = IF p.fin /\ pc' # "idle" THEN p ELSE NoPacket

\* A segment with bytes is appended to the window: one from before it panics,
\* one that does not fit ends the handler, and one that brings nothing in
\* order is answered with an ACK0.
HandleAckData(p) ==
    /\ pc = "idle" /\ removed = "no" /\ p.ack /\ p.len > 0
    /\ \/ /\ IsBefore(p)
          /\ removed' = "panic"
          /\ UNCHANGED <<window_seq, arrived, window, pc, failed>>
       \/ /\ ~IsBefore(p) /\ ~Fits(p)
          /\ UNCHANGED <<window_seq, arrived, window, pc, removed, failed>>
       \/ /\ ~IsBefore(p) /\ Fits(p)
          /\ window_seq' \in WindowAfter(p)
          /\ arrived' = arrived \cup Bytes(p)
          /\ \/ /\ window_seq' > window_seq
                /\ pc' = "sending" /\ UNCHANGED <<window, failed>>
             \/ /\ window_seq' = window_seq
                /\ window' = Remaining(window_seq, arrived')
                /\ SendThen("tail")
          /\ UNCHANGED removed
    /\ Hold(p)
    /\ UNCHANGED <<recv_next, fin_sequence, loaded, acknowledgement, streamVars,
                   flagVars>>

\* An ACK0. Nothing unsent for a source that has ended: LAST_ACK. What is
\* unsent is changed by other tasks and a choice here. Otherwise it may be a
\* duplicate and cause a retransmission.
HandleAck0(p) ==
    /\ pc = "idle" /\ removed = "no" /\ p.ack /\ p.len = 0
    /\ \/ is_write_closed /\ removed' = "LAST_ACK" /\ UNCHANGED <<pc, failed>>
       \/ SendThen("tail") /\ UNCHANGED removed
    /\ Hold(p)
    /\ UNCHANGED <<window, rxVars, loaded, acknowledgement, streamVars, flagVars>>

\* Mutant: the acknowledgement is not moved on.
SendOk_NoAck ==
    /\ pc = "sending" /\ ~write_gone /\ ~broken
    /\ written' = window_seq - 1
    /\ recv_next' = recv_next + (window_seq - 1 - written)
    /\ window' = Remaining(window_seq, arrived)
    /\ SendThen("tail")
    /\ Hold(pkt)
    /\ UNCHANGED <<window_seq, arrived, fin_sequence, acknowledgement, broken,
                   write_gone, flagVars, loaded, removed>>

\* The contiguous bytes are written to the SOCKS stream, then counted in
\* recv_next and, under the lock, in the acknowledgement, which is sent.
SendOk ==
    /\ pc = "sending" /\ ~write_gone /\ ~broken
    /\ LET n == window_seq - 1 - written IN
        /\ written' = written + n
        /\ recv_next' = recv_next + n
        /\ acknowledgement' = acknowledgement + n
    /\ window' = Remaining(window_seq, arrived)
    /\ SendThen("tail")
    /\ Hold(pkt)
    /\ UNCHANGED <<window_seq, arrived, fin_sequence, broken, write_gone, flagVars,
                   loaded, removed>>

\* Mutant: bytes are counted although they could not be written.
SendFails_Counted ==
    /\ pc = "sending"
    /\ written' \in written .. window_seq - 1
    /\ broken' = TRUE
    /\ recv_next' = window_seq /\ acknowledgement' = window_seq
    /\ \/ removed' = "send error" /\ UNCHANGED failed
       \/ failed' = TRUE /\ UNCHANGED removed
    /\ pc' = "idle"
    /\ Hold(pkt)
    /\ UNCHANGED <<window, window_seq, arrived, fin_sequence, write_gone, flagVars,
                   loaded>>

\* The write fails, perhaps after some bytes: ACK/RST and clean_up, which an
\* error of the former prevents.
SendFails ==
    /\ pc = "sending"
    /\ written' \in written .. window_seq - 1
    /\ broken' = TRUE
    /\ \/ removed' = "send error" /\ UNCHANGED failed
       \/ failed' = TRUE /\ UNCHANGED removed
    /\ pc' = "idle"
    /\ Hold(pkt)
    /\ UNCHANGED <<window, rxVars, acknowledgement, write_gone, flagVars, loaded>>

\* Remaining data is sent; a FIN in the packet or noted before is handled.
\* handle_tcp_fin begins by reading is_readable.
AckTail ==
    /\ pc = "tail"
    /\ SendThen(IF pkt.fin \/ fin_sequence # 0 THEN "fin" ELSE "idle")
    /\ loaded' = ~is_read_closed
    /\ Hold(pkt)
    /\ UNCHANGED <<window, rxVars, acknowledgement, streamVars, flagVars, removed>>

-----------------------------------------------------------------------------
(* handle_tcp_fin *)

\* A FIN without ACK goes there at once; its bytes are not looked at.
HandleFin(p) ==
    /\ pc = "idle" /\ removed = "no" /\ ~p.ack /\ p.fin
    /\ pc' = "fin" /\ loaded' = ~is_read_closed /\ Hold(p)
    /\ UNCHANGED <<window, rxVars, acknowledgement, streamVars, flagVars, removed, failed>>

\* The sequence of the FIN: this packet's, or the one noted.
FinSequence == IF pkt.fin THEN pkt.seq + pkt.len ELSE fin_sequence

\* StreamWorker::shutdown(Write); a worker whose flag is set is left alone.
Shutdown ==
    /\ write_gone' = (write_gone \/ ~is_write_closed)
    /\ is_write_closed' = TRUE

\* Mutants: recv_next does not count the FIN; a FIN is admitted whenever it comes.
AdmitFin_Uncounted ==
    /\ pc = "fin" /\ FinSequence = recv_next
    /\ fin_sequence' = 0
    /\ acknowledgement' = acknowledgement + 1
    /\ \/ loaded /\ Shutdown /\ UNCHANGED removed
       \/ ~loaded /\ removed' = "both ended" /\ UNCHANGED <<write_gone, is_write_closed>>
    /\ pc' = "idle"
    /\ Hold(pkt)
    /\ UNCHANGED <<window, recv_next, window_seq, arrived, written, broken,
                   is_read_closed, loaded, failed>>

AdmitFin_Early ==
    /\ pc = "fin" /\ recv_next <= StreamLen + 1
    /\ fin_sequence' = 0
    /\ recv_next' = recv_next + 1
    /\ acknowledgement' = acknowledgement + 1
    /\ \/ loaded /\ Shutdown /\ UNCHANGED removed
       \/ ~loaded /\ removed' = "both ended" /\ UNCHANGED <<write_gone, is_write_closed>>
    /\ pc' = "idle"
    /\ Hold(pkt)
    /\ UNCHANGED <<window, window_seq, arrived, written, broken, is_read_closed,
                   loaded, failed>>

\* All before the FIN has come: it is acknowledged, and the write half is shut
\* down or, if the remote has ended as well, the connection removed; unless
\* sending the ACK0 fails.
AdmitFin ==
    /\ pc = "fin" /\ FinSequence = recv_next
    /\ fin_sequence' = 0
    /\ recv_next' = recv_next + 1
    /\ acknowledgement' = acknowledgement + 1
    /\ \/ loaded /\ Shutdown /\ UNCHANGED <<removed, failed>>
       \/ /\ ~loaded /\ removed' = "both ended"
          /\ UNCHANGED <<write_gone, is_write_closed, failed>>
       \/ failed' = TRUE /\ UNCHANGED <<write_gone, is_write_closed, removed>>
    /\ pc' = "idle"
    /\ Hold(pkt)
    /\ UNCHANGED <<window, window_seq, arrived, written, broken, is_read_closed,
                   loaded>>

\* It waits for what is missing.
KeepFin ==
    /\ pc = "fin" /\ FinSequence # recv_next
    /\ fin_sequence' = FinSequence
    /\ pc' = "idle"
    /\ Hold(pkt)
    /\ UNCHANGED <<window, recv_next, window_seq, arrived, acknowledgement,
                   streamVars, flagVars, loaded, removed, failed>>

\* The reader task ends: the remote has ended its stream, or reading failed,
\* which sets the flag of the write half too but leaves the half itself.
ReaderEnds ==
    /\ ~is_read_closed
    /\ is_read_closed' = TRUE
    /\ is_write_closed' \in {is_write_closed, TRUE}
    /\ UNCHANGED <<window, rxVars, acknowledgement, streamVars, handlerVars, removed, failed>>

Arrive(p) == HandleAckData(p) \/ HandleAck0(p) \/ HandleFin(p)
Handle == SendOk \/ SendFails \/ AckTail \/ AdmitFin \/ KeepFin

Next == (\E p \in Packets : Arrive(p)) \/ Handle \/ ReaderEnds

Spec == Init /\ [][Next]_vars

\* A handler goes on. The source sends what is not acknowledged again until it
\* is, a byte at least, and the network does not lose it forever.
Missing(p) == p.ack /\ p.seq = acknowledgement /\ (p.len > 0 \/ p.fin)
FairSpec ==
    /\ Spec
    /\ WF_vars(Handle)
    /\ SF_vars(\E p \in Packets : Missing(p) /\ Arrive(p))

-----------------------------------------------------------------------------
(* Properties *)

\* At most what is written to the SOCKS stream, and the FIN only behind all
\* bytes, is ever acknowledged, so an acknowledged byte is not lost by the
\* relay however packets come: any task may send the acknowledgement.
AckedIsWritten ==
    acknowledgement <= written + 1 + (IF written = StreamLen THEN 1 ELSE 0)

\* Between packets the counters that the handlers advance one by one agree:
\* the Redirector's and the Forwarder's always, the window's up to the FIN.
\* An error in sending to the source may leave a handler halfway.
CountersAgree ==
    /\ pc = "idle" /\ removed = "no" /\ ~failed =>
        /\ recv_next = acknowledgement
        /\ recv_next \in {window_seq, window_seq + 1}
        /\ write_gone => recv_next = window_seq + 1
        /\ recv_next = window_seq + 1 => is_write_closed
    /\ written < window_seq

\* No byte of the stream that any packet offers the source to send is refused
\* by the receive window: the offer is the sum of two fields that are set
\* under other locks than the window moves under, and in units of the SYN's
\* shift, where the source reads it with the clamped one of the ACK/SYN.
OfferedIsAccepted == \A b \in Byte : b < Edge => b < window_seq + Capacity

\* The write half is shut down only after every byte of the source is
\* written, also when its FIN comes early, alone or twice.
ShutdownAfterAll == write_gone => written = StreamLen

\* A source that goes on retransmitting gets its stream and its FIN through,
\* unless packets to it cannot be sent or the connection is gone before: removed
\* in LAST_ACK, when both sides have ended or upon an error, or lost with the
\* panic that an old segment causes in the receive window.
StreamGetsThrough == <>(removed # "no" \/ failed \/ acknowledgement = StreamLen + 2)

-----------------------------------------------------------------------------
(* Expectations the code does not meet: TLC refutes them. *)

\* What has been offered to the source is not taken back: the window counts
\* out-of-order bytes as used although they lie inside what was offered.
OfferNeverShrinks == [][Edge' >= Edge]_vars

\* "LAST_ACK" (lib.rs:1939) is the state in which both ends have closed: the
\* connection is not taken down while the remote may still send.
LastAckAfterBothEnds == removed = "LAST_ACK" => is_read_closed
=============================================================================
