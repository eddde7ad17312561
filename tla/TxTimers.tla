------------------------------ MODULE TxTimers ------------------------------
(***************************************************************************)
(* The timers of one TcpTxState: the clocks of its send cache, the SYN and *)
(* FIN timers and the RTO they are set from and measured for. Composes     *)
(* SendQueue and Rto as append_cache, acknowledge and                      *)
(* retransmit_tcp_ack_timedout do, each under the lock of tx.              *)
(*                                                                         *)
(* A timer set to some milliseconds is timed out at the first tick after   *)
(* them. Ticks are at least TICK_INTERVAL apart. How long a round trip     *)
(* took is a choice.                                                       *)
(***************************************************************************)
EXTENDS SendQueue, Rto

CONSTANTS
    TICK_INTERVAL,   \* milliseconds between two ticks
    Rtts             \* round trip times that are measured

ASSUME TimersAssumption ==
    /\ TICK_INTERVAL \in Nat \ {0}
    /\ Rtts \subseteq Time
    /\ MAX_TICKS = (MAX_RTO + TICK_INTERVAL - 1) \div TICK_INTERVAL + 1

VARIABLES
    cache_syn,          \* cache_syn.is_some()
    cache_fin,          \* ticks left of the timer of cache_fin, or None
    cache_fin_retrans,  \* TcpTxState.cache_fin_retrans
    closed              \* history: append_cache_fin was called, "ahead" when bytes
                        \* were queued still ("no", "ahead" or "yes")

finVars == <<cache_fin, cache_fin_retrans, closed>>
allVars == <<vars, rtoVars, cache_syn, finVars>>

TimersTypeOK ==
    /\ TypeOK /\ RtoTypeOK
    /\ cache_syn \in BOOLEAN /\ cache_fin \in 0 .. MAX_TICKS \cup {None}
    /\ cache_fin_retrans \in BOOLEAN /\ closed \in {"no", "ahead", "yes"}

TimersInit ==
    /\ Init /\ RtoInit
    /\ cache_syn = TRUE /\ cache_fin = None /\ cache_fin_retrans = TRUE
    /\ closed = "no"

\* The intervals that ms takes, the last one rounded up.
Intervals(ms) == (ms + TICK_INTERVAL - 1) \div TICK_INTERVAL

\* The ticks until a Timer::new(ms) is timed out: one more than its intervals
\* when it is set late in an interval, and none more when it is set at a tick,
\* since the ticks come a little later than every TICK_INTERVAL.
Ticks(ms) == {n \in 1 .. MAX_TICKS : n \in Intervals(ms) .. Intervals(ms) + 1}

-----------------------------------------------------------------------------
(* Sending *)

\* update_fin_timer, with the RTO as it is by now.
UpdateFinTimer(ms) ==
    /\ cache_fin_retrans' = (cache_fin_retrans \/ cache_fin # None)
    /\ cache_fin' \in Ticks(ms)
    /\ UNCHANGED closed

\* append_cache, from send_tcp_ack once the SYN is acknowledged; the last
\* bytes may take a FIN with them (append_cache_fin), if none went ahead.
AppendCache ==
    /\ ~cache_syn /\ closed # "yes"
    /\ \E n \in 1 .. MaxAppend, ticks \in Ticks(rto) :
        /\ sent + n <= StreamLen
        /\ \/ /\ AppendBytes(n, ticks)
              /\ \/ UNCHANGED finVars
                 \/ /\ closed = "no" /\ closed' = "yes" /\ cache_fin' \in Ticks(rto)
                    /\ UNCHANGED cache_fin_retrans
           \/ AppendFull(n) /\ UNCHANGED finVars
    /\ UNCHANGED <<rtoVars, cache_syn>>

\* A FIN of its own, when the cache is empty; with a window of zero there may be
\* bytes in the queue, which are appended later.
AppendCacheFin ==
    /\ ~cache_syn /\ closed = "no" /\ size = 0
    /\ closed' \in {"ahead", "yes"} /\ cache_fin' \in Ticks(rto)
    /\ UNCHANGED <<vars, rtoVars, cache_syn, cache_fin_retrans>>

-----------------------------------------------------------------------------
(* Acknowledging *)

\* The FIN gives a round trip time if it was sent once and is not timed out; but
\* TcpTxState::new takes it for sent before, and only its acknowledgement
\* clears that.
FinSample == cache_fin # None /\ ~cache_fin_retrans /\ cache_fin > 0

\* acknowledge: the RTT is the SYN's, or else the cache's, or else the FIN's,
\* which is taken to be acknowledged with the end of the cache.
Acknowledge(ack) ==
    /\ InvalidateTo(ack) \/ InvalidateOld(ack)
    /\ cache_syn' = FALSE
    /\ LET fin == cache_fin # None /\ IsAtOrAfter(ack, WrappingAdd(sequence', size'))
       IN  /\ cache_fin' = IF fin THEN None ELSE cache_fin
           /\ cache_fin_retrans' = (cache_fin_retrans /\ ~fin)
           /\ IF cache_syn \/ sample' # None \/ (fin /\ FinSample)
              THEN \E rtt \in Rtts : UpdateRto(rtt)
              ELSE UNCHANGED rtoVars
    /\ UNCHANGED closed

\* The source acknowledges any byte it may have received, and a FIN, late or
\* in order; the first acknowledgement is that of the SYN.
DoAcknowledge ==
    \E n \in 0 .. sent + (IF closed = "no" THEN 0 ELSE 1) : Acknowledge(AsU32(ISN + n))

-----------------------------------------------------------------------------
(* Ticking *)

\* The timeout retransmit_tcp_ack_timedout gives the cache, bounds swapped.
RetransmitTimeout == MaxOf(MAX_RTO, MinOf(MIN_RTO, Saturated(rto * 2)))

AgedFin == IF cache_fin = None THEN None ELSE Older(cache_fin)

\* retransmit_tcp_ack_timedout: the RTO is doubled whenever there is data in
\* the cache, timed out or not; without data a timed out FIN is sent again.
Tick ==
    /\ \E ticks \in Ticks(RetransmitTimeout) : GetTimedOutAndUpdate(ticks)
    /\ \/ /\ size > 0 /\ DoubleRto
          /\ IF Cardinality(resent') = size /\ cache_fin # None
             THEN UpdateFinTimer(rto')
             ELSE cache_fin' = AgedFin /\ UNCHANGED <<cache_fin_retrans, closed>>
       \/ /\ size = 0 /\ AgedFin = 0 /\ DoubleRto
          /\ UpdateFinTimer(rto')
       \/ /\ size = 0 /\ AgedFin # 0
          /\ cache_fin' = AgedFin /\ UNCHANGED <<rtoVars, cache_fin_retrans, closed>>
    /\ UNCHANGED cache_syn

Next == AppendCache \/ AppendCacheFin \/ DoAcknowledge \/ Tick

Spec == TimersInit /\ [][Next]_allVars

\* The worker's tick task runs as long as the remote is open; nobody else has
\* to act.
FairSpec == Spec /\ WF_allVars(Tick)

-----------------------------------------------------------------------------
(* Expectations the code does not meet: TLC refutes them. *)

\* get_timed_out_and_update "returns the payload which is timed out"
\* (cache/mod.rs:248): no byte goes out again before its timeout has passed.
ResendsOnlyTimedOut == [][\A b \in resent' : resent' # resent => due[b] <= 1]_allVars

\* The timed event "will force retransmitting timed out data" (dev.md:71): a
\* byte that stays unacknowledged is sent again some time.
TimedOutIsResent ==
    \A b \in Byte : b <= sent ~> (b \in repeated \/ b <= sent - size)

\* The RTO computation follows RFC 6298 (dev.md:83), which takes no RTT from a
\* segment that was sent twice: a sample never covers a resent byte.
SamplesOnlyFresh ==
    [][DoAcknowledge /\ sample' # None => sample' \cap repeated = {}]_allVars

\* RFC 6298 again: a round trip time is that of some byte. The tick of an empty
\* cache starts a clock as well, which the next acknowledgement measures.
SamplesAreOfBytes == sample # {}

\* RFC 6298 again: SRTT is an average of the samples, so it is not below all of
\* them. Each step's roundings take off less than 7, the smoothing by 1/8 sums
\* them up to less than 56.
SrttIsAverage == srtt # NoSample => srtt + 56 >= Min(Rtts)

\* RFC 6298 again: "Double RTO" (lib.rs:814) when a timer has expired.
DoubledOnExpiry == [][Tick /\ rto' > rto => resent' # {} \/ cache_fin = 1]_allVars

\* RFC 6298 again: what is retransmitted is timed by the RTO just doubled.
RetransmitTimeoutIsRto == RetransmitTimeout = SetRto(Saturated(rto * 2))
=============================================================================
