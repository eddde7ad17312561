----------------------------- MODULE SendQueue ------------------------------
(***************************************************************************)
(* cache::Queue, the send cache of one TCP connection: the bytes sent to   *)
(* the source and not acknowledged, in a growing ring buffer, with a clock *)
(* for every append() so that timed out bytes can be sent again.           *)
(*                                                                         *)
(* The forwarded stream is the bytes 1 .. StreamLen. Time is counted in    *)
(* ticks of the worker (TICK_INTERVAL): a clock holds the ticks left until *)
(* its Timer is timed out.                                                 *)
(***************************************************************************)
EXTENDS SeqArith, Ring, FiniteSetsExt

CONSTANTS
    Capacity,     \* RECV_WINDOW << wscale
    ISN,          \* sequence number of the first byte, one after the SYN's
    StreamLen,    \* bytes forwarded in all
    MaxAppend,    \* bytes in one append()
    MAX_TICKS,    \* longest timeout, in ticks
    None

\* The shift of the capacity is that of the source's SYN, which the code does not
\* bound here: up to 8 the capacity is below MAX_U32_WINDOW_SIZE (2^24), and
\* larger ones are not covered.
ASSUME QueueAssumption ==
    /\ Capacity \in 1 .. MAX_U32_WINDOW_SIZE
    /\ ISN \in U32 \ {0}
    /\ StreamLen \in Nat \ {0} /\ MaxAppend \in 1 .. StreamLen
    /\ MAX_TICKS \in Nat \ {0}
    /\ None \notin U32

VARIABLES
    buffer, sequence, head, size,   \* Queue.buffer, .sequence, .head, .size
    clocks,     \* Queue.clocks: <<[sequence, left]>>
    retrans,    \* Queue.retrans: Option<u32>
    sent,       \* history: bytes appended
    resent,     \* bytes the last get_timed_out_and_update returned
    repeated,   \* history: bytes of the queue that were returned some time
    due,        \* history: ticks left of the timeout of a byte's last sending
    sample      \* what invalidate_to returned: the bytes its RTT is of, or None

ring == <<buffer, sequence, head, size>>
vars == <<ring, clocks, retrans, sent, resent, repeated, due, sample>>

Byte == 1 .. StreamLen
RecvNext == WrappingAdd(sequence, size)

\* The bytes with sequence numbers from a up to b. The last byte sent has the
\* number before RecvNext, whether or not a FIN was counted before it.
BytesBetween(a, b) == {i \in 1 .. sent : RecvNext - (sent - i) - 1 \in a .. b - 1}

TypeOK ==
    /\ buffer \in Seq(0 .. StreamLen) /\ Len(buffer) <= Capacity
    /\ sequence \in U32
    /\ head \in 0 .. Larger(Len(buffer) - 1, 0)
    /\ size \in 0 .. Len(buffer)
    /\ clocks \in Seq([sequence : U32, left : 0 .. MAX_TICKS])
    /\ retrans \in U32 \cup {None}
    /\ sent \in 0 .. StreamLen
    /\ resent \subseteq Byte /\ repeated \subseteq Byte
    /\ sample \in SUBSET Byte \cup {None}
    /\ due \in [Byte -> 0 .. MAX_TICKS]

Init ==
    /\ buffer = <<>> /\ sequence = ISN - 1 /\ head = 0 /\ size = 0
    /\ clocks = <<>> /\ retrans = None
    /\ sent = 0 /\ resent = {} /\ repeated = {} /\ sample = None
    /\ due = [b \in Byte |-> 0]

-----------------------------------------------------------------------------

Clock(seq, left) == [sequence |-> seq, left |-> left]

\* The length of the longest prefix of s whose places all pass the test.
Leading(s, Test(_)) == Max({n \in 0 .. Len(s) : \A i \in 1 .. n : Test(i)})
DropFirst(s, n) == SubSeq(s, n + 1, Len(s))

\* append(): n more bytes of the stream, with the connection's current RTO.
AppendBytes(n, rto) ==
    LET payload == [i \in 1 .. n |-> sent + i]
        grown == Extend(buffer, head, size, Capacity, size + n)
    IN  /\ n <= Capacity - size
        /\ buffer' = CopyRing(grown, TailIndex(grown, head, size), payload)
        /\ size' = size + n
        /\ clocks' = Append(clocks, Clock(RecvNext, rto))
        /\ sent' = sent + n
        /\ due' = [b \in Byte |-> IF b \in sent + 1 .. sent + n THEN rto ELSE due[b]]
        /\ resent' = {} /\ sample' = None
        /\ UNCHANGED <<sequence, head, retrans, repeated>>

\* append() refuses what does not fit: "queue is full".
AppendFull(n) == n > Capacity - size /\ UNCHANGED vars

\* The clocks an acknowledgement ends: all before the one it falls into.
ClockEnd(i, end) == IF i = Len(clocks) THEN end ELSE clocks[i + 1].sequence
Ended(ack, end) ==
    Leading(clocks, LAMBDA i : /\ IsAtOrAfter(ack, clocks[i].sequence)
                               /\ IsAtOrAfter(ack, ClockEnd(i, end)))

\* Mutant: it keeps its beginning.
Cut_Not(rest, ack) == rest

\* The clock it falls into starts at the acknowledged byte from now on.
Cut(rest, ack) ==
    IF rest # <<>> /\ IsAtOrAfter(ack, rest[1].sequence)
    THEN [rest EXCEPT ![1].sequence = ack]
    ELSE rest

\* The RTT is that of the first ended clock that is not timed out, unless a
\* retransmission reaches to or beyond the acknowledged byte.
SampleOf(ack, n, end) ==
    LET live == {i \in 1 .. n : clocks[i].left > 0} IN
    IF live = {} \/ (retrans # None /\ IsAtOrAfter(retrans, ack))
    THEN None
    ELSE BytesBetween(clocks[Min(live)].sequence, ClockEnd(Min(live), end))

\* Mutant: the mark of the retransmission is never taken away.
Unmarked_Never(ack) == retrans

\* The mark of the retransmission, until that is acknowledged.
Unmarked(ack) ==
    IF retrans # None /\ IsAtOrAfter(ack, retrans) THEN None ELSE retrans

\* invalidate_to(ack)
InvalidateTo(ack) ==
    LET n == Distance(ack, sequence)
        left == Larger(size - n, 0)
        end == WrappingAdd(ack, left)
        ended == Ended(ack, end)
    IN  /\ IsAtOrAfter(ack, sequence)
        /\ sequence' = ack
        /\ size' = left
        /\ head' = IF left = 0 THEN 0
                   ELSE (head + (n % Len(buffer))) % Len(buffer)
        /\ clocks' = Cut(DropFirst(clocks, ended), ack)
        /\ sample' = SampleOf(ack, ended, end)
        /\ retrans' = Unmarked(ack)
        /\ repeated' = repeated \ BytesBetween(sequence, ack)
        /\ due' = [b \in Byte |-> IF b \in BytesBetween(sequence, ack) THEN 0 ELSE due[b]]
        /\ resent' = {}
        /\ UNCHANGED <<buffer, sent>>

\* An acknowledgement from before the queue changes nothing.
InvalidateOld(ack) ==
    /\ ~IsAtOrAfter(ack, sequence)
    /\ resent' = {} /\ sample' = None
    /\ UNCHANGED <<ring, clocks, retrans, sent, repeated, due>>

Older(timer) == Larger(timer - 1, 0)

\* Mutant: the clocks that are popped are always replaced.
Rearmed_Always(all, rest, rto) == <<Clock(sequence, rto)>> \o rest

\* One clock for all bytes takes the place of those that are popped, if all were
\* timed out or there is a rest behind them.
Rearmed(all, rest, rto) ==
    IF all \/ rest # <<>> THEN <<Clock(sequence, rto)>> \o rest ELSE <<>>

\* One tick after the previous one: recv_next is at the first clock that is not
\* timed out, and the clocks up to that place are popped.
TimedOut(rto) ==
    LET aged == [i \in DOMAIN clocks |->
                    [clocks[i] EXCEPT !.left = Older(clocks[i].left)]]
        expired == Leading(aged, LAMBDA i : aged[i].left = 0)
        all == expired = Len(aged)
        recv_next == IF all THEN RecvNext ELSE aged[expired + 1].sequence
        rest == IF all THEN <<>>
                ELSE DropFirst(aged, Leading(aged, LAMBDA i :
                        IsAtOrAfter(recv_next, aged[i].sequence)))
    IN  [recv_next |-> recv_next, clocks |-> Rearmed(all, rest, rto)]

\* get_timed_out_and_update(rto): the bytes before recv_next.
GetTimedOutAndUpdate(rto) ==
    LET timed_out == TimedOut(rto) IN
    /\ clocks' = timed_out.clocks
    /\ retrans' = timed_out.recv_next
    /\ resent' = BytesBetween(sequence, timed_out.recv_next)
    /\ repeated' = repeated \cup resent'
    /\ due' = [b \in Byte |-> IF b \in resent' THEN rto ELSE Older(due[b])]
    /\ sample' = None
    /\ UNCHANGED <<ring, sent>>

-----------------------------------------------------------------------------
(* Properties *)

\* What get_all() returns.
GetAll == ReadRing(buffer, head, size)

\* The queue implements ByteQueue: growing, wrapping and acknowledging never
\* lose, repeat, reorder or overwrite a byte that may have to be sent again.
Abstract == INSTANCE ByteQueue WITH pending <- GetAll
ImplementsByteQueue == Abstract!Spec

\* Clocks stay in order and inside the queue, so the get(..).unwrap() in
\* get_timed_out_and_update always finds the bytes it asks for.
ClocksInside ==
    /\ \A i \in DOMAIN clocks :
        /\ IsAtOrAfter(clocks[i].sequence, sequence)
        /\ Distance(clocks[i].sequence, sequence) <= size
    /\ \A i, j \in DOMAIN clocks :
        i < j => IsAtOrAfter(clocks[j].sequence, clocks[i].sequence)

\* A pending retransmission mark is never behind the queue's first byte, so
\* an RTT is withheld only while resent bytes are unacknowledged.
RetransAhead == retrans # None => Distance(retrans, sequence) <= size
=============================================================================
