----------------------------- MODULE TxProgress -----------------------------
(***************************************************************************)
(* TcpTx with the clocks of its send cache: what a tick sends again is no  *)
(* longer a choice, but what get_timed_out_and_update returns for clocks   *)
(* that were set at every append(), cut at every acknowledgement and armed *)
(* again at every tick. Acknowledgements come in order, and the MTU stays. *)
(***************************************************************************)
EXTENDS TcpTx, Sequences

CONSTANTS
    U32_MAX, MAX_U32_WINDOW_SIZE,
    MAX_TICKS,   \* longest timeout, in ticks
    None

ASSUME ProgressAssumption == MAX_TICKS \in Nat \ {0} /\ ~ReorderAcks

VARIABLE clocks   \* cache.clocks: <<[sequence, left]>>

progressVars == <<vars, clocks>>

\* The cache as a Queue: of its state, the clocks need its beginning and length.
Cache == INSTANCE SendQueue WITH
    sequence <- cache_seq, size <- cache_len, buffer <- <<>>, head <- 0,
    ISN <- 1, MaxAppend <- MaxRead, sent <- forwarded - queue,
    retrans <- None, resent <- {}, repeated <- {}, due <- <<>>, sample <- None

ProgressInit == Init /\ clocks = <<>>

\* A timer runs for the RTO, or for MAX_RTO when a tick has set it; how many
\* ticks that takes is a choice.
Timeouts == 1 .. MAX_TICKS

\* append(), if send_tcp_ack has called it, starts a clock for its bytes.
Sending ==
    /\ Forward \/ Close \/ SendRemaining
    /\ \/ /\ cache_len' > cache_len
          /\ \E left \in Timeouts :
                clocks' = Append(clocks, Cache!Clock(Cache!RecvNext, left))
       \/ cache_len' = cache_len /\ UNCHANGED clocks

\* invalidate_to() pops the clocks that have ended and cuts the next.
Acknowledging ==
    /\ SourceAck
    /\ clocks' = Cache!Cut(Cache!DropFirst(clocks,
                    Cache!Ended(cache_seq', cache_seq' + cache_len')), cache_seq')

\* get_timed_out_and_update() says how much is sent again.
Ticking ==
    \E left \in Timeouts :
        LET timed_out == Cache!TimedOut(left) IN
        /\ clocks' = timed_out.clocks
        /\ RetransmitTimedOut(timed_out.recv_next - cache_seq)

\* Nobody else touches the clocks.
Others ==
    /\ \/ StoreClosed \/ LoadFlag \/ FastRetransmit \/ DeliverSyn
       \/ \E p \in net : Deliver(p) \/ Lose(p)
    /\ UNCHANGED clocks

ProgressNext == Sending \/ Acknowledging \/ Ticking \/ Others

ProgressSpec == ProgressInit /\ [][ProgressNext]_progressVars

\* tokio runs the tick task as long as the remote is open (a tick under way
\* ends, which only Ticking does), and what the network does not lose it
\* delivers. Nobody else has to act.
FairSpec ==
    /\ ProgressSpec
    /\ WF_progressVars(LoadFlag /\ UNCHANGED clocks) /\ WF_ticking(ticking' = FALSE)
    /\ WF_progressVars(DeliverSyn /\ UNCHANGED clocks)
    /\ WF_progressVars((\E p \in net : Deliver(p)) /\ UNCHANGED clocks)

-----------------------------------------------------------------------------
(* Properties *)

\* Two clocks stand at different bytes of the cache: a second payload was sent
\* before the first was acknowledged.
Spread == \E i, j \in DOMAIN clocks : clocks[i].sequence # clocks[j].sequence

\* "The timed event will force retransmitting timed out data in a TCP
\* connection" (dev.md:71): while the remote is open, what is in the cache gets
\* to the source although the network loses and pcap fails to send some packets.
\* Claimed until clocks stand at two bytes; the ticker arms the first
\* of those again at every tick, before it is timed out (cache/mod.rs:278).
ReceivedUnlessSpread ==
    \A b \in 1 .. StreamLen :
        (b < cache_seq + cache_len) ~> (src_next > b \/ Spread \/ reader # "open")

-----------------------------------------------------------------------------
(* Expectations the code does not meet: TLC refutes them. *)

\* The same with clocks at two bytes.
CachedIsReceived ==
    \A b \in 1 .. StreamLen :
        (b < cache_seq + cache_len) ~> (src_next > b \/ reader # "open")

\* The same once the remote has closed, when the ticker ends.
ReceivedAfterClose ==
    \A b \in 1 .. StreamLen : (b < cache_seq + cache_len) ~> (src_next > b \/ Spread)
=============================================================================
