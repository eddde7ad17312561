------------------------------- MODULE Window -------------------------------
(***************************************************************************)
(* cache::Window, the receive window of one TCP connection: a growing ring *)
(* buffer, the ranges of it that are filled, and the sequence number of    *)
(* its head. The source's stream is the bytes 1 .. StreamLen, so a byte's  *)
(* value is its place; the vector's fill value is 0.                       *)
(*                                                                         *)
(* append() is reached from handle_tcp_ack with any segment the source     *)
(* sends: in order, ahead of a hole, repeated, or overlapping.             *)
(***************************************************************************)
EXTENDS SeqArith, Ring, FiniteSetsExt, Functions

CONSTANTS
    Capacity,        \* RECV_WINDOW << wscale
    ISN,             \* sequence number of the first byte
    StreamLen,       \* bytes the source ever sends
    MaxSegment,      \* bytes in its largest segment
    OverflowChecks   \* TRUE in a debug build, FALSE in a release build

\* The shift of the capacity is that of the source's SYN, which the code does not
\* bound here: up to 8 the capacity is below MAX_U32_WINDOW_SIZE (2^24), and
\* larger ones are not covered.
ASSUME WindowAssumption ==
    /\ Capacity \in 1 .. MAX_U32_WINDOW_SIZE
    /\ ISN \in U32
    /\ StreamLen \in Nat \ {0}
    /\ MaxSegment \in 1 .. StreamLen
    /\ OverflowChecks \in BOOLEAN

VARIABLES
    buffer,     \* Window.buffer
    sequence,   \* Window.sequence
    head,       \* Window.head
    size,       \* Window.size
    edges,      \* Window.edges: first key of a filled range |-> its length
    panicked,   \* the task has panicked
    arrived,    \* history: bytes of the segments append() accepted
    output      \* history: bytes append() returned

vars == <<buffer, sequence, head, size, edges, panicked, arrived, output>>

Byte == 1 .. StreamLen

\* The sequence number the source gives to a byte.
SequenceOf(b) == AsU32(ISN + b - 1)

TypeOK ==
    /\ buffer \in Seq(0 .. StreamLen) /\ Len(buffer) <= Capacity
    /\ sequence \in U32
    /\ head \in 0 .. Larger(Len(buffer) - 1, 0)
    /\ size \in 0 .. Len(buffer)
    /\ \A k \in DOMAIN edges : k \in 0 .. 2 * U32_MAX /\ edges[k] \in 1 .. Capacity
    /\ panicked \in BOOLEAN
    /\ arrived \subseteq Byte
    /\ output \in Seq(0 .. StreamLen)

Init ==
    /\ buffer = <<>> /\ sequence = ISN /\ head = 0 /\ size = 0
    /\ edges = <<>> /\ panicked = FALSE
    /\ arrived = {} /\ output = <<>>

-----------------------------------------------------------------------------
\* Mutants: every stored byte counts as new; the distance is taken for the size.
Grown_ByLength(seq, len) == size + len
Grown_Distance(seq, len) ==
    LET ahead == Distance(WrappingAdd(seq, len), WrappingAdd(sequence, size)) IN
    IF ahead <= MAX_U32_WINDOW_SIZE THEN ahead ELSE size

\* The size once a segment [seq, seq + len) is stored.
Grown(seq, len) ==
    LET ahead == Distance(WrappingAdd(seq, len), WrappingAdd(sequence, size)) IN
    IF ahead <= MAX_U32_WINDOW_SIZE THEN size + ahead ELSE size

-----------------------------------------------------------------------------
(* The filled ranges *)

\* Mutant: a segment joins the range before it across a hole.
Insert_AcrossHole(seq, len) ==
    LET key == IF seq < sequence THEN seq + U32_MAX ELSE seq
        absorbed == {k \in DOMAIN edges : k \in key .. key + len}
        end == Max({key + len} \cup {k + edges[k] : k \in absorbed})
        rest == Restrict(edges, DOMAIN edges \ absorbed)
        first == Min({key} \cup DOMAIN rest)
    IN  [k \in {first} \cup DOMAIN rest |-> IF k = first THEN end - first ELSE rest[k]]

\* edges with the range of a segment inserted: ranges that begin inside it or
\* at its end are absorbed, and so is it by a range that reaches its beginning.
Insert(seq, len) ==
    LET key == IF seq < sequence THEN seq + U32_MAX ELSE seq
        absorbed == {k \in DOMAIN edges : k \in key .. key + len}
        end == Max({key + len} \cup {k + edges[k] : k \in absorbed})
        rest == Restrict(edges, DOMAIN edges \ absorbed)
        before == {k \in DOMAIN rest : k < key}
        joins == before # {} /\ Max(before) + rest[Max(before)] >= key
        first == IF joins THEN Max(before) ELSE key
    IN  [k \in {first} \cup DOMAIN rest |-> IF k = first THEN end - first ELSE rest[k]]

\* The other ranges when n bytes are popped, renumbered if sequence wraps.
Shrink(ranges, n) ==
    IF U32_MAX - sequence < n
    THEN [k \in {j - U32_MAX : j \in DOMAIN ranges} |-> ranges[k + U32_MAX]]
    ELSE ranges

\* What filled() reports, and handle_tcp_ack passes on as SACK blocks.
Filled ==
    {LET b == IF k >= U32_MAX THEN k - U32_MAX ELSE k
     IN  <<b, WrappingAdd(b, edges[k])>> : k \in DOMAIN edges}

-----------------------------------------------------------------------------
(* append() *)

IsStale(seq) == ~IsAtOrAfter(seq, sequence)

\* sub_recv_next_to_sequence; the code only asks whether it is positive.
StaleRest(seq, len) ==
    LET next == WrappingAdd(seq, len) IN
    IF next >= sequence THEN next - sequence ELSE seq + (U32_MAX - next)

\* self.sequence - sequence in u32, and the slice of the payload from there.
SkipPanics(seq, len) ==
    \/ OverflowChecks /\ seq > sequence
    \/ AsU32(sequence - seq) > len

\* The part of append() after the stale bytes are cut off.
Store(seq, payload) ==
    LET offset == Distance(seq, sequence)
        need == offset + Len(payload)
        grown == Extend(buffer, head, size, Capacity, need)
        stored == CopyRing(grown, (head + offset) % Len(grown), payload)
        ranges == Insert(seq, Len(payload))
        first == Min(DOMAIN ranges)
        n == ranges[first]
        total == Grown(seq, Len(payload))
    IN  /\ need <= Capacity
        /\ arrived' = arrived \cup Range(payload)
        /\ buffer' = stored
        /\ IF AsU32(first) = sequence
           THEN /\ edges' = Shrink(Restrict(ranges, DOMAIN ranges \ {first}), n)
                /\ output' = output \o ReadRing(stored, head, n)
                /\ sequence' = WrappingAdd(sequence, n)
                /\ head' = (head + (n % Len(stored))) % Len(stored)
                /\ size' = total - n
           ELSE /\ edges' = ranges
                /\ size' = total
                /\ UNCHANGED <<output, sequence, head>>
        /\ UNCHANGED panicked

\* "window is full": the segment is refused whole.
Full(seq, payload) ==
    /\ Distance(seq, sequence) + Len(payload) > Capacity
    /\ UNCHANGED vars

AppendAhead(seq, payload) ==
    /\ ~IsStale(seq)
    /\ Store(seq, payload) \/ Full(seq, payload)

\* Mutant: the bytes from before the window are not cut off.
AppendOverlap_Uncut(seq, payload) ==
    /\ IsStale(seq) /\ StaleRest(seq, Len(payload)) > 0
    /\ ~SkipPanics(seq, Len(payload))
    /\ Store(sequence, payload) \/ Full(sequence, payload)

AppendOverlap(seq, payload) ==
    /\ IsStale(seq) /\ StaleRest(seq, Len(payload)) > 0
    /\ ~SkipPanics(seq, Len(payload))
    /\ LET fresh == SubSeq(payload, AsU32(sequence - seq) + 1, Len(payload)) IN
        Store(sequence, fresh) \/ Full(sequence, fresh)

AppendOld(seq, payload) ==
    /\ IsStale(seq) /\ StaleRest(seq, Len(payload)) = 0
    /\ UNCHANGED vars

AppendPanic(seq, payload) ==
    /\ IsStale(seq) /\ StaleRest(seq, Len(payload)) > 0
    /\ SkipPanics(seq, Len(payload))
    /\ panicked' = TRUE
    /\ UNCHANGED <<buffer, sequence, head, size, edges, arrived, output>>

AppendSegment(seq, payload) ==
    \/ AppendAhead(seq, payload)
    \/ AppendOverlap(seq, payload)
    \/ AppendOld(seq, payload)
    \/ AppendPanic(seq, payload)

\* The source may send, and send again, any segment of its stream.
Next ==
    /\ ~panicked
    /\ \E b \in Byte, n \in 1 .. MaxSegment :
        /\ b + n - 1 <= StreamLen
        /\ AppendSegment(SequenceOf(b), [i \in 1 .. n |-> b + i - 1])

Spec == Init /\ [][Next]_vars

-----------------------------------------------------------------------------
(* Properties *)

\* The byte of the stream that is next to be handed out.
NextByte == Len(output) + 1

\* The window implements Reassembly: append() hands bytes out in order, each
\* once, only after they arrived, and an in-order segment immediately.
Abstract == INSTANCE Reassembly
ImplementsReassembly == Abstract!Spec

\* The ring never loses what the edges claim: every byte in a range filled()
\* reports lies at its place in the buffer, whatever growing, wrapping and
\* popping happened since it was stored, so a SACK block is always true.
FilledIsHeld ==
    \A r \in Filled : \A q \in r[1] .. r[2] - 1 :
        LET b == q - ISN + 1 IN
        /\ b \in arrived
        /\ buffer[((head + b - NextByte) % Len(buffer)) + 1] = b

\* size spans exactly from the head to the end of the last byte stored, so
\* remaining(), which get_tcp_window advertises, leaves no room out or in.
SizeSpansArrived ==
    size = Max({Len(output)} \cup arrived) - Len(output)

-----------------------------------------------------------------------------
(* Expectations the code does not meet: TLC refutes them. *)

\* append "returns continuous bytes from the beginning" (cache/mod.rs:456): a
\* byte that was accepted and is next in order does not stay behind.
HandsOutAllContiguous == NextByte \notin arrived

\* A segment from before the window "will be dropped" (dev.md:75): append()
\* survives every segment of the source's own stream.
NeverPanics == ~panicked

\* What append() hands out is the stream the source sent, also across the
\* wrap of its 32-bit sequence number.
OutputIsStream == \A i \in 1 .. Len(output) : output[i] = i
=============================================================================
