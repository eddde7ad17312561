-------------------------------- MODULE Rto ---------------------------------
(***************************************************************************)
(* The retransmission timeout of a TcpTxState: set_rto, double_rto and     *)
(* update_rto. Times are the code's milliseconds, as u64.                  *)
(***************************************************************************)
EXTENDS Integers

CONSTANTS
    INITIAL_RTO, MIN_RTO, MAX_RTO,   \* as in lib.rs
    U64_MAX                          \* u64::MAX

\* MIN_RTO is 1000 in lib.rs: the roundings of update_rto are small beside it.
ASSUME RtoAssumption ==
    /\ INITIAL_RTO \in Nat /\ MIN_RTO \in Nat /\ MAX_RTO \in Nat /\ U64_MAX \in Nat
    /\ 1000 <= MIN_RTO /\ MIN_RTO <= INITIAL_RTO /\ INITIAL_RTO <= MAX_RTO
    /\ MAX_RTO <= U64_MAX

VARIABLES
    rto, srtt, rttvar,   \* of the TcpTxState; NoSample for None
    last_rtt             \* history: the last round trip time measured

rtoVars == <<rto, srtt, rttvar, last_rtt>>

NoSample == -1
Time == 0 .. U64_MAX

RtoTypeOK ==
    /\ rto \in MIN_RTO .. MAX_RTO
    /\ \/ srtt = NoSample /\ rttvar = NoSample /\ last_rtt = NoSample
       \/ srtt \in Time /\ rttvar \in Time /\ last_rtt \in Time

RtoInit ==
    rto = INITIAL_RTO /\ srtt = NoSample /\ rttvar = NoSample /\ last_rtt = NoSample

MinOf(x, y) == IF x <= y THEN x ELSE y
MaxOf(x, y) == IF x >= y THEN x ELSE y

\* checked_add or checked_mul, or else u64::MAX
Saturated(x) == MinOf(x, U64_MAX)

\* set_rto
SetRto(x) == MinOf(MAX_RTO, MaxOf(MIN_RTO, x))

\* double_rto
DoubleRto == rto' = SetRto(Saturated(rto * 2)) /\ UNCHANGED <<srtt, rttvar, last_rtt>>

\* prev_srtt.checked_sub(rtt).unwrap_or_else(|| rtt - prev_srtt)
Gap(x, y) == IF x >= y THEN x - y ELSE y - x

\* RTTVAR after a sample.
NextRttvar(rtt) ==
    IF srtt = NoSample THEN rtt \div 2
    ELSE Saturated((rttvar \div 8) * 7 + Gap(srtt, rtt) \div 4)

\* SRTT, as the code has it: RTTVAR, not SRTT, is smoothed into it.
NextSrtt(rtt) ==
    IF srtt = NoSample THEN rtt ELSE Saturated((rttvar \div 8) * 7 + rtt \div 8)

\* Mutant: RTO is the smoothed round trip time alone.
NextRto_NoVariance(s, v) == SetRto(Saturated(s + 1))

NextRto(s, v) == SetRto(Saturated(s + MaxOf(1, Saturated(4 * v))))

\* update_rto
UpdateRto(rtt) ==
    /\ srtt' = NextSrtt(rtt) /\ rttvar' = NextRttvar(rtt)
    /\ rto' = NextRto(srtt', rttvar')
    /\ last_rtt' = rtt

RtoNext == DoubleRto \/ \E rtt \in Time : UpdateRto(rtt)

-----------------------------------------------------------------------------
(* Properties *)

\* The timeout covers the round trip just measured, up to MAX_RTO, and no
\* back-off undercuts it: although update_rto smooths the wrong variable into
\* SRTT, a source that answers as it did last is not timed out.
RtoCoversSample == rto >= MinOf(MAX_RTO, last_rtt)

\* Why it does: RTTVAR is never much below half of SRTT, rounding apart.
VarianceKeepsUp == srtt # NoSample => 2 * rttvar + 14 >= srtt
=============================================================================
