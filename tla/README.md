# A TLA+ verification of pcap2socks

pcap2socks takes the traffic of a source host from a pcap device and redirects
it to a SOCKS5 proxy. It contains a user-space TCP endpoint, a UDP NAT and an
IPv4 fragmenter and defragmenter. This directory models the stateful parts of
it, checks them with TLC on small instances, and proves the safety properties
with TLAPS for all values of the constants. Paths are relative to the repository;
`lib.rs`, `cache/mod.rs`, `socks/mod.rs` and `packet/mod.rs` are under `src/`.

`PROJECT.json` maps each definition to the lines it models, and lists the runs,
the mutants that show that each property can fail, the findings and the hazards.

## The system

One task, the *packet loop* (`Redirector::open`, lib.rs:1657), takes frames one
at a time and handles each to its end, awaiting SOCKS writes and connects on the
way. Every TCP connection has a `StreamWorker` with two tokio tasks of its own:
a *reader* that forwards what the remote sends, and a *ticker* that retransmits
once per `TICK_INTERVAL`. Every UDP port has a `DatagramWorker` with a receive
task. tokio runs them in parallel (rt-threaded). They share the `Forwarder`
behind one mutex, `tx`; no lock of it is held across an await. So a step of a
model is a section under one lock, or the code between two awaits.

| Part | State | Operations | Interacts with |
|---|---|---|---|
| Redirector, front | hardware addresses, one flag | `open`, `handle_arp`, `handle_ipv4` | pcap, Forwarder, Defraggler |
| Redirector, TCP | `streams`, `states` | `handle_tcp_{ack,syn,rst,fin}`, `clean_up` | Forwarder, StreamWorker, Window |
| Redirector, UDP NAT | `datagrams`, `datagram_map`, `udp_lru` | `handle_udp`, `bind_local_udp_port`, `unbind_local_udp_port` | DatagramWorker |
| Forwarder | `states`, MTUs, identifications | `open`, `forward`, `tick`, `close`, retransmissions, `send_udp` | pcap, Queue |
| TcpTxState | sequence, acknowledgement, cache, queue, SYN/FIN, RTO | `acknowledge`, `append_*`, `update_rto` | Queue |
| TcpRxState | `recv_next`, window cache, FIN sequence, duplicates | `append_cache`, `admit_fin`, `increase_duplicate` | Window |
| StreamWorker, DatagramWorker | flags, halves of the stream, tasks | `connect`, `send`, `shutdown`, `bind` | SOCKS proxy, Forwarder |
| `cache::Queue` | ring buffer, clocks, retransmission mark | `append`, `invalidate_to`, `get_timed_out_and_update` | |
| `cache::Window` | ring buffer, filled ranges | `append`, `filled` | |
| Defraggler | groups of fragments | `add` | packet loop |
| Packet layers | none | the layout of headers and options, lengths | Forwarder |
| SOCKS client, pcap, command line | little or none | I/O | |

What is hard here: a task that has read a flag acts after the packet loop has
removed the connection; three tasks send from one cache; handlers unwrap a map
entry again after an await; segments, acknowledgements and fragments come late,
twice and out of order; early returns (`?`) leave half of an update behind; ring
buffers grow while wrapped; timers are set from estimates that their own
expiry changes; the MTU changes between two calls; and all sequence arithmetic is
on 32 bits.

## Modules

| Module | Models | State and actions |
|---|---|---|
| `Ingress`, on `Defrag` | front of the packet loop, ARP, hardware addresses; `Defraggler::add` | the address map and its flag, adapters, the group and its timer; frames of sources, of the local host and of others, fragments in any order |
| `UdpNat` | UDP NAT and receive tasks | the two maps, LRU order, workers; bind, reuse, unbind, receive, forward |
| `StreamLifecycle` | all TCP handlers at the grain of locks and awaits, reader and ticker of each worker | the three maps, the packet loop's place, each task's place |
| `TcpTx` | sending half: Forwarder and TcpTxState | cache and queue lengths, SYN/FIN, windows, MSS; forward, close, tick, acknowledge, fast retransmission, MTU changes, failing sends, a network that loses and reorders |
| `TxProgress`, on `TcpTx` and `SendQueue` | `TcpTx` with the clocks of its cache | the clocks; what a tick sends again is what they say |
| `TcpRx` | receiving half: `handle_tcp_ack` and `handle_tcp_fin` | `recv_next`, window, acknowledgement, advertised window, FIN; writes and sends that may fail |
| `TxTimers`, on `SendQueue` and `Rto`, implements `ByteQueue` | `cache::Queue`, RTO estimation, SYN and FIN timers | ring buffer, clocks, mark, RTO, SRTT, RTTVAR; append, acknowledge, tick |
| `FastRetransmit`, on `SackRanges` | `increase_duplicate`, `retransmit_tcp_ack`, `retransmit_tcp_ack_without` | counter, cool-down, cache, a source that acknowledges with SACK; handle an ACK0, lose, overtake |
| `Window`, implements `Reassembly` | `cache::Window` | ring buffer, ranges |
| `Ring`, `SeqArith` | the growing ring and the u32 arithmetic both caches use | operators |
| `Egress`, on `Frames` | `send_udp`, `send_tcp_ack_raw`, TCP packets without payload, `set_src_mtu`, identifications; TCP headers and options | the loops, packet by packet; the MTU of the source |

`MC*` modules and their `.cfg` files are the instances for TLC. `*Proofs` modules
hold the theorems. Operators named `X_Something` before a definition `X` are
plausible mistakes in it, used to show that a property notices them.

### Abstractions

* Payload bytes are their place in the stream; logging and formats are left out,
  and of the headers `Frames` keeps lengths, offsets and options. Sequence numbers
  wrap in `SeqArith` and what uses it (the width is a constant, so TLC can reach
  the wrap; the passing runs stay below it), and do not wrap in `TcpTx` and `TcpRx`.
* The parts of one connection are modelled apart, each with the others at what
  they promise: `TcpTx` takes the send cache for `ByteQueue` and any outcome of
  duplicate counting and SACK arithmetic; `TcpRx` takes the window for an in-order
  reassembler; `FastRetransmit` takes a cache to which nothing is appended.
  `TxTimers`, `Window` and `FastRetransmit` show how far the code keeps that.
* Time: in `TcpTx` it is a choice how much of the cache has timed out at a tick; in
  `TxProgress`, `TxTimers`, `FastRetransmit` and `Defrag` time is counted in ticks.
  In `TxProgress` a timer's length is a choice up to `MAX_TICKS`. A timer set
  to some milliseconds between two ticks expires at the first tick after them. How
  long a round trip took is a choice from `Rtts`, independent of the ticks.
* The pcap sender may fail in `TcpTx`, `TcpRx`, `Egress` and `StreamLifecycle`,
  and the caller returns early as the code does. The two flag stores of a reader
  that fails (socks/mod.rs:120-121) are one step.
* `Egress` follows one pair of addresses, and takes MTUs of 68 and more, which
  every IPv4 link carries. The code takes any value: below 40 the subtraction of
  the headers underflows, below 36 a fragment can be empty.
* `StreamLifecycle` takes a successful connect with what follows it (the two tasks
  and the entries in `streams` and `states`) for one step: the tasks run before the
  entries are made, but look at neither map.
* `Defrag` takes datagrams that fit the 65,535 bytes of a group's buffer. Beyond it
  the code's slice would panic.
* `TxProgress` takes acknowledgements in order and one MTU. The timers of the SYN
  and the FIN are those of `TcpTx`.
* LRU, tokio's write half, pnet's serialisation, the source's TCP and the network
  are external and modelled from their use.

## What the runs show

Runs that pass:

| Run | Shows | Bounds and why they are enough |
|---|---|---|
| `nat` | maps, LRU and workers of the NAT stay consistent; a takeover hits the source that was silent longest | 3 sources, 3 ports, limit 2: bind, fail, take over, unbind and bind again |
| `lifecycle` | the three maps agree, the packet loop's unwraps hold, only a registered worker is open, a closed one makes at most one more call per task, and its ticker ends | 1 key, 2 workers: a connection and its successor on one key. More keys are the theorem's matter |
| `tx` | with a remote that closes, reordered acknowledgements, a changing MTU and a send that fails, the sequence never goes back, and never passes the end of the cache while the remote is open; no byte is lost between the three senders and, while no send fails, every segment carries the bytes of its sequence number and the FIN stands behind the last byte, all three unless a FIN is early (`fin_early`: its payload takes several segments, or the window is closed while data is queued) | 3 bytes, segments of 1 or 2, a cache of 2, windows closed, of 1 and of 2: a full cache, partial and late acknowledgements, FINs in place and early in both ways |
| `tx_progress` | no segment goes beyond the granted window while acknowledgements keep their order; while the remote is open, cached bytes get to the source although a packet is lost and a send fails, until clocks stand at two bytes | 2 bytes in segments of 1, windows of 1 and 2, one loss, one error, timers of 1 or 2 ticks: payloads of one and of two segments, parts of them acknowledged, one clock and two, ticks before and after the timeout |
| `rx` | only written bytes are acknowledged; the write half is shut down after the last byte; counters agree between packets; what is offered is accepted; a source that retransmits gets through, unless sends fail or its connection goes first (removed, or lost with the panic of `window_stale`) | 6 bytes, segments of up to 3, a window of 2 units of 2 bytes: holes, overlaps, refusals, offers rounded to units, a FIN early, late and twice, a failing send at every place |
| `window` | `Window` implements `Reassembly`; SACK ranges and the advertised room are right | 10 bytes through a ring of 7: it grows and wraps |
| `timers` | the cache implements `ByteQueue`; clocks and mark stay inside it; the RTO covers the last round trip | 5 bytes through a queue of 4, an RTO of 1 to 3 ticks, round trips below MIN_RTO and near MAX_RTO: the ring grows, wraps and refuses; samples, back-offs and a FIN in every order |
| `fast` | a fast retransmission sends exactly what the source has not reported; a lost segment is repaired by duplicates | 5 bytes, a threshold of 3, a cool-down of one tick, one loss, one acknowledgement overtaken or unprompted, with and without SACK: up to two retransmissions of one loss |
| `egress` | fragments can be put together, the packets of a call bear identifications that no recent call used, segments each their own, the last fragment has 8 bytes or more, what carries a payload fits the MTU last reported, TCP headers read as meant, loops end | lengths and MTUs around multiples of 8 and of the segment size, MTUs above and below the interface's, an identification that wraps, 3 calls, one error at any packet, up to 5 SACK blocks |
| `ingress` | datagrams come out whole and in time while no fragment is repeated and no other protocol shares the identification, and are never mixed; the first source is addressed at its adapter | 2 datagrams of 5 units in 3 fragments under one identification, in any order, short ones padded, 1 repeated, 1 of another protocol, a timer of 2 ticks; 2 sources, the local host and a host that is none, one change of adapter |

The largest are `tx` (1.9 million states), `ingress` (1.3 million), `lifecycle`
(252,000), `timers` (249,000), `fast` (204,000) and `tx_progress` (158,000); none
takes more than some two minutes.

Some bounds leave a case to the theorems. In `rx` the shift of the SYN
is the one that is answered, `MAX_RECV_WSCALE` does not cut it; `RxOfferedIsAccepted`
is for any two. In `tx` and `tx_progress` no window has more room than `U16_MAX`, the
most that is taken from the queue at once; the theorems on `TcpTx` are for any. In
`egress` no MTU of an interface reaches
`MAX_MSS`, where the MSS option is cut to 16 bits; `EgressHeaderReads` is for any.

Bounds are in the `.cfg` files; each constant is explained where it is declared.

Two runs violate what the repository itself says; `PROJECT.json` quotes it under
`findings`:

* `window_stale`: a segment that lies wholly before the window panics in
  `Window::append` (cache/mod.rs:470). dev.md:75 says it is dropped.
* `lifecycle_race`: a task that loaded its flag before `clean_up` unwraps a state
  that is gone (lib.rs:1372), with the mutex locked, and poisons it for all.

### Expectations the code does not meet

The modules state more of what the repository's documents and comments say and
the code does not do. No run is kept for these. TLC refutes each when it takes
the place of the properties in the named `.cfg`, with the changes given:

| Definition | Source of the expectation | What happens instead | Instance |
|---|---|---|---|
| `UdpNat!RepliesReachOwner` | dev.md:109 | replies of a port that was taken over go to its old source | `MCUdpNat` |
| `Window!HandsOutAllContiguous` | cache/mod.rs:456 | a segment inside a filled range cuts the range short, and contiguous bytes stay behind | `MCWindowStale` |
| `Window!OutputIsStream` | cache/mod.rs:456 | bytes are one off after the 32-bit wrap | `MCWindowStale`, `ISN = 58`, `OverflowChecks = FALSE` |
| `TxTimers!ResendsOnlyTimedOut` | cache/mod.rs:248 | the clock that is not timed out is popped with those before it | `MCTxTimers` |
| `TxTimers!TimedOutIsResent` | dev.md:71 | the front clock is re-armed by every call and bytes are never sent again | `MCTxTimers`, `FairSpec`, `StreamLen = 2`, `MaxAppend = 1` |
| `TxTimers!SamplesOnlyFresh` | dev.md:83 | an RTT is taken from bytes that were sent twice | `MCTxTimers` |
| `TxTimers!SamplesAreOfBytes` | dev.md:83 | the clock of an idle tick is measured | `MCTxTimers` |
| `TxTimers!SrttIsAverage` | dev.md:83 | SRTT is smoothed from RTTVAR and falls below all samples | `MCTxTimers` |
| `TxTimers!DoubledOnExpiry` | lib.rs:814 | the RTO doubles at every tick with data in flight | `MCTxTimers` |
| `TxTimers!RetransmitTimeoutIsRto` | dev.md:83 | swapped bounds (lib.rs:809) make it MAX_RTO | `MCTxTimers` |
| `StreamLifecycle!ShutdownReachesRemote` | socks/mod.rs:172 | forgetting the write half does not end the stream | `MCStreamLifecycle` |
| `TcpTx!FinEndsStream` without `~fin_early` | lib.rs:893 | every segment of a payload carries its FIN; with a zero window the FIN goes ahead of queued data | `MCTcpTx` |
| `TcpTx!NothingLost` without `~fin_early` | the same | the acknowledgement of a FIN that went ahead of queued data is taken for one of data | `MCTcpTx` |
| `TcpTx!PlacedRight`, `WithinGrant` without `~fin_early` | the same | the data behind such a FIN goes out under numbers that are not its own, and beyond the window | `MCTcpTx`, `ReorderAcks = FALSE` |
| `TcpTx!FinAcknowledged` | lib.rs:277 | the FIN counts as acknowledged with the byte before it | `MCTcpTx` |
| `TcpTx!SynAckSentOnce` | dev.md:27 | the ACK/SYN is repeated | `MCTcpTx` |
| `TcpTx!PlacedAfterError` | lib.rs:900, 905 | after a failed send the next payload goes out at the sequence of the one before | `MCTcpTx`, `RemoteCloses = FALSE` |
| `TxProgress!CachedIsReceived` | dev.md:71 | with clocks at two bytes the first is armed again at every tick, and lost bytes are never sent again | `MCTxProgress` |
| `TxProgress!ReceivedAfterClose` | dev.md:71 | nobody retransmits once the remote has closed | `MCTxProgress` |
| `TcpRx!LastAckAfterBothEnds` | lib.rs:1939 | a half-closed connection is removed by the next empty ACK | `MCTcpRx`, `Spec` |
| `TcpRx!OfferNeverShrinks` | TCP's rule for windows | bytes that come out of order are taken off the window that was offered for them | `MCTcpRx`, `Spec` |
| `Egress!MtuOnlyFalls` | path MTU discovery | a SYN's MSS replaces a smaller MTU that was reported | `MCEgress`, `Spec` |
| `Ingress!EverySourceAddressed` | README.md:51 | only the first source is learned | `MCIngress` |
| `Defrag!ReturnsWhole` without `repeats = 0` | packet/mod.rs:476 | a repeated fragment is counted twice | `MCIngress` |
| `Defrag!KeptWhileArriving` | dev.md:57 | a new fragment does not extend the timer | `MCIngress` |
| `Defrag!ProtocolsApart` | packet/mod.rs:464 | datagrams of two protocols share a group | `MCIngress` |

The FIN of a connection never gives an RTT sample either: `cache_fin_retrans`
starts true (lib.rs:155) and is cleared only once the FIN is acknowledged.

### Fairness

* Tasks and handlers that can go on do (weak fairness): tokio polls every ready
  task, and no lock is held across an await. Nothing is assumed of packets
  arriving or of the remote answering, except as follows.
* `tx_progress`: the tick task goes on while the remote is open, a tick under way
  ends, and the network delivers what it does not lose (at most `MaxLoss` packets).
  All of it is weak fairness; the source need not acknowledge and the remote need
  not send. When a clock has timed out is not assumed but follows from the clocks.
* `rx`: the source sends the first unacknowledged byte or FIN again until it is
  acknowledged, as a TCP must.
* `fast`: the packet loop handles the acknowledgements it captures, the network
  delivers what it does not lose, and does not hold back for ever the one segment
  the source waits for. No timer has to run: that is the point of the property.
* `lifecycle`, `egress`: nothing but that tasks and loops run on.

## What is proved

Each theorem is `Spec => []P` or `Spec => P` for a property `P` of a run, and holds
for every value of the constants that the named `ASSUME`s allow.

**`RedirectorProofs`, on `UdpNat`.** `NatSafe`: for any sources, ports and limit,
`[](NatTypeOK /\ NatConsistent)`. The two are inductive together: the consistency of
the maps is what keeps the LRU's keys in their type, and the type of the LRU is
what makes a takeover well defined. One lemma per action; the lemmas on the LRU
order say which keys `put`, `get` and `pop` leave. `NatEvictsLongestSilent`: a
takeover hits the source that was silent longest. It rests on `Ranked`: the rank of
a port in the LRU is the rank of its source by the datagrams it sent, which popping
and putting back (`PoppedRanks`) keeps.

**`RedirectorProofs`, on `TcpRx`.** For any stream, segment size, window and shift:
`RxAckedIsWritten`, `RxCountersAgree`, `RxShutdownAfterAll`. `RxInv` says how far the
three counters may be apart inside a handler, between its locks (`Counted`), and
what a broken stream and an admitted FIN leave behind (`Closing`).
`RxOfferedIsAccepted`: no byte that was offered lies beyond the window's capacity,
whatever is rounded to units of the shift (`RemainingBounded`).

**`StreamProofs`, on `StreamLifecycle`.** For any keys and workers: the maps agree
(`LifecycleMapsAgree`), the packet loop's unwraps find their state
(`LifecycleUnwraps`), an open worker is the registered one
(`LifecycleOpenIsRegistered`), and each task of a closed worker makes at most one
more call (`LifecycleLateCalls`). `MapsAgree` is not inductive: `LifecycleInv` adds
`StatesOfTheirKey` (a TcpTxState is stored under the key it was made for),
`HandlerKnows` (what the packet loop knows of its key at each place of a handler;
this carries a check across the awaits),
`SpawnedOnce` (no tasks before connect) and
`LateBounded` (late calls made plus calls a task is committed to).

**`StreamProofs`, on `FastRetransmit`.** `FastResendsMissing`: for any cache whose
numbers do not wrap (`FastAssumption`), any threshold and cool-down, and SACK blocks
in any order, overlapping, repeated and old, a fast retransmission sends exactly the
cached bytes that its packet does not report. `FastInv` is the property with the
types, of which one matters: the blocks of every packet on the way are ranges of the
cache as it was sent, which `RunsOfIs` and `SacksOfIs` show of the source. The rest
is `disjoint_u32_range`. `DisjointIs` says by its four cases that taking a block off
a range leaves the range's other bytes, `TakeOffIs` the same of all ranges, and
`WithoutIs` of all blocks one after the other.

**`TxTimersProofs`.**
* `TimersRtoCovers`: for any bounds with MIN_RTO of at least a second and any
  samples, the RTO stays in its bounds and covers the round trip last measured, up
  to MAX_RTO. That is not inductive, since the next RTO comes from SRTT and RTTVAR,
  and SRTT is smoothed from RTTVAR. `VarianceKeepsUp` adds that twice RTTVAR is not
  below SRTT but for roundings: so a sample that SRTT misses comes back in the gap
  that enters RTTVAR, of which the RTO takes four. The roundings are small beside
  MIN_RTO. `TimersRtoStep` shows that every step of the timers is one of `Rto`.
* `QueueClocksInside`, `QueueRetransAhead`, `QueueRefines`: the clocks and the mark
  stay inside the cache, and the cache implements `ByteQueue`, for a stream that
  ends before the sequence numbers wrap (`NoWrap`, a premise of the three: it also
  keeps the stream short enough for the u32 comparisons to order any two of its
  numbers). `QueueInv` says where the bytes are: the ring holds the bytes from
  `sequence` on, wherever it was cut when it grew (`RingInv`); the sequence number
  counts what was acknowledged, the SYN and the FIN included (`PositionInv`); clocks
  are in order and inside (`ClockInv`).

**`WindowProofs`.** For any capacity, stream and segment size, and any order of
segments, repeated and overlapping: `WindowRefines` (the window implements
`Reassembly`), `WindowFilledIsHeld`, `WindowSizeSpans`, `WindowTypeOK`, for a stream
that ends before the sequence numbers wrap (`NoWrap`, as for the queue; behind the
wrap `OutputIsStream` is refuted). `WindowInv` says: the bytes handed out are the
first of the stream, and `size` reaches from them to the last that arrived
(`Spanned`); the ranges are apart, lie behind the head, and all their bytes are in
their place of the ring (`RangesHeld`). The refinement needs no more of a range than
that, and that the one a segment falls into begins no later and reaches to its end:
so `insert`, which may cut a range short behind the segment
(`HandsOutAllContiguous`), still hands out what it must. `InsertIs` is the fact about
the ranges, `StorePlaces` the one about the ring, wrapped and grown, and `PopKeeps`
the one about taking the first range.

**`RingProofs`** has the facts about the ring on their own: growing a ring keeps
its bytes in their order, wrapped or not (`ExtendKeeps`); appending, dropping from
the front and reading do to it what they do to a sequence (`AppendHolds`,
`DropHolds`, `ReadHolds`).

**`EgressProofs`.** For any datagrams, payloads, MTUs of 68 and more, calls and
errors: `EgressReassemblable`, `EgressFitsSource`, `EgressLastFragment`,
`EgressFreshIdentification`. `EgressInv` says of a loop that has come to `n`: the
packets so far join up to `n` (`JoinedSoFar`), are cut at multiples of 8 with 8 bytes
or more left (`CutRight`), the MTU has not changed since the call read it (`Room`,
which is where the lock of `tx` matters), and no identification in use is further
back than packets were numbered (`Recent`; it speaks of identifications that are
used up, since a datagram's fragments share one). `LengthFits` is the arithmetic of the
alignment. `EgressHeaderReads`: the source reads every TCP header as it was meant.
`HeadersInv` adds that the packets of a call are as long as its header and their
payload, and that all segments have the same header; `NewAckRight` and
`NewAckSynRight` follow the two constructors, option by option, to a length that the
data offset can hold, for up to four SACK blocks of those that are given.

Two of these facts are about what a recursion computes: the ranges left after `k`
blocks, and the length of a header up to its `i`-th option. `Repeated` shows that a
function with the recursion's equation exists, so that the defined one has it, and
`Counted` leads from each number to the next; both go back to `LeastExists`, that a
set of naturals has a least member.

**`TcpTxProofs`.** For any stream, segment sizes, cache and windows and every
interleaving of reader, ticker and packet loop, with a remote that closes, losses,
failing sends and MTU changes: `TxTypeOK`, `TxNothingLost`, `TxPlacedRight`,
`TxSequence`, `TxFinEnds`, the action property `TxNeverBack`, and `TxWithinGrant`
when acknowledgements keep their order (`ReorderAcks = FALSE`: a late one sets a
window that is no longer granted). `TxInv` has two parts. One
holds always: types, and that cache and queue are no longer than what was forwarded
(`TxTypes`), and that there is no FIN while the remote is open (`Opened`).
The other, `Ordered`, holds until a FIN is early and says what the three senders
rely on of each other between their locks: before the SYN is acknowledged
everything is queued (`Handshake`); after it the source's next byte lies in the
cache or at its end, so that no acknowledgement reaches beyond it (`Sending`); every
packet on the way carries bytes the cache holds or held, and a FIN only behind the
last byte (`OnTheWay`); the cache and the window set are inside the grant
(`InsideGrant`). That `append_cache` never fails after it has drained the queue
follows from `SendableFits`.

**`IngressProofs`.** For any datagrams, fragments, repeats, hosts and timer:
`DefragNeverMixes`, `DefragReturnsWhole`, `DefragCompletesInTime`,
`FirstSourceIsAddressed`. `DefragInv` relates the group to what has arrived: which
datagrams a live group may hold units of (`LeftOver`); that, undisturbed by repeats
and strangers, the length it has counted is that of the units it holds (`Counted`),
so that a group complete by its count is complete; and that in time what has come
is in the group or returned (`Kept`). `HostInv` ties the flag, the addresses learned
and the frames seen.

The assumptions are the `ASSUME`s of the component modules, which TLC evaluates
in the runs: `None` is no key or worker, `Unmapped` no source or port and
`Unspecified` no hardware address,
limits are naturals, MTUs are at least 68, a cache or window holds no more than
`MAX_U32_WINDOW_SIZE`, 16 MiB (the code's capacity is 65,535 shifted by the source's
wscale, so this covers shifts of up to 8 and says nothing of larger ones), the
segment sizes have a largest one, the bounds of the RTO are in order, twice the largest window is below 2^32, the cache of
`FastRetransmit` ends before it, and (a fact of arithmetic that the provers lack) a
smaller shift gives a smaller positive number.

Only model-checked: liveness (`LossRepaired`, `TickerEnds`,
`ReceivedUnlessSpread`, `StreamGetsThrough`, `LoopEnds`), since the prover does not
handle fairness. Neither proved nor covered by a passing run: the caches across the
32-bit wrap, where `OutputIsStream` fails for the receive window.

## Not modelled

* The SOCKS client wraps async-socks5 and has no state of its own; pcap is pure
  I/O; the command line is start-up. Their outcomes are choices in the models.
* Of the packet layers, what has no bearing on lengths, options or fragments:
  field by field parsing, checksums and display, done by pnet without state.
* The parsing of a completed datagram (`Fragmentation::concatenate`).
* The late call of a removed connection meets its successor in `StreamLifecycle`,
  which bounds such calls; what it does to the successor's bytes is not followed.
* `FastRetransmit` has no appending and no timers, `TcpTx` no time and no
  wrap, `TxProgress` the clocks but no RTO.

## Plan

1. `TcpConnection`: `StreamLifecycle` with `TcpTx`, for the bytes that a late call
   of a removed connection sends in its successor's name.
2. Appending and the timer in `FastRetransmit`, with `TxTimers` for the clocks.
3. Theorems: the caches across the 32-bit wrap.
