------------------------------- MODULE UdpNat -------------------------------
(***************************************************************************)
(* The UDP side of the Redirector (src/lib.rs): source sockets are mapped  *)
(* to at most MAX_UDP_PORT local ports, each served by a DatagramWorker    *)
(* (src/socks/mod.rs) whose receive task runs concurrently with the        *)
(* Redirector's packet loop.                                               *)
(*                                                                         *)
(*   datagrams[p]    the Redirector holds a DatagramWorker for port p      *)
(*   datagram_map[s] the local port of source s, or Unmapped               *)
(*   lru_src, lru_age  udp_lru: the source stored for a port, and its rank *)
(*                   (1 = most recently used, 0 = not in the cache)        *)
(*   worker_src[p]   the AtomicU64 a worker shares with its task           *)
(*   is_closed[p]    the AtomicBool a worker shares with its task          *)
(*   task[p]         the receive task of port p and with it the socket:    *)
(*     "free" no socket is bound to the port, "recv" blocked in recv_from, *)
(*     "lock" holds a reply and waits for the Forwarder's mutex, "done"    *)
(*     ended, the socket lives on in the send half of the worker           *)
(*   last_reply      <<owner of the port, receiver>> of the last reply     *)
(*                   forwarded to a source                                 *)
(*   recency         history: the mapped sources ranked by the last        *)
(*                   datagram they sent                                    *)
(***************************************************************************)
EXTENDS Naturals, FiniteSets

CONSTANTS Sources, Ports, Unmapped, MAX_UDP_PORT

ASSUME NatAssumption ==
    /\ MAX_UDP_PORT \in Nat \ {0}
    /\ IsFiniteSet(Ports)
    /\ Unmapped \notin Sources \cup Ports

VARIABLES datagrams, datagram_map, lru_src, lru_age, worker_src, is_closed,
          task, last_reply, recency

lru == <<lru_src, lru_age>>
worker == <<worker_src, is_closed, task>>
natVars == <<datagrams, datagram_map, lru, worker, last_reply, recency>>

\* LruCache, as ranks: put and get make k the most recently used key, pop
\* removes k, pop_lru takes the key of the highest rank.
MoveToFront(rank, k) ==
    [q \in DOMAIN rank |->
        IF q = k THEN 1
        ELSE IF rank[q] > 0 /\ (rank[k] = 0 \/ rank[q] < rank[k])
             THEN rank[q] + 1 ELSE rank[q]]

Pop(rank, k) ==
    [q \in DOMAIN rank |->
        IF q = k THEN 0
        ELSE IF rank[q] > rank[k] THEN rank[q] - 1 ELSE rank[q]]

LeastRecentlyUsed(rank, k) == rank[k] > 0 /\ \A q \in DOMAIN rank : rank[q] <= rank[k]

LruKeys == {p \in Ports : lru_src[p] # Unmapped}

NatInit ==
    /\ datagrams = [p \in Ports |-> FALSE]
    /\ datagram_map = [s \in Sources |-> Unmapped]
    /\ lru_src = [p \in Ports |-> Unmapped]
    /\ lru_age = [p \in Ports |-> 0]
    /\ worker_src = [p \in Ports |-> Unmapped]
    /\ is_closed = [p \in Ports |-> FALSE]
    /\ task = [p \in Ports |-> "free"]
    /\ last_reply = <<Unmapped, Unmapped>>
    /\ recency = [s \in Sources |-> 0]

-----------------------------------------------------------------------------
(* handle_udp: bind_local_udp_port, then send_to, which changes no state.  *)

\* Mutant: the LRU is looked at, not updated.
HandleUdpMapped_Peek(s) ==
    /\ datagram_map[s] # Unmapped
    /\ recency' = MoveToFront(recency, s)
    /\ UNCHANGED <<datagrams, datagram_map, lru, worker, last_reply>>

\* The source has a local port: only the LRU is updated.
HandleUdpMapped(s) ==
    /\ datagram_map[s] # Unmapped
    /\ lru_age' = MoveToFront(lru_age, datagram_map[s])
    /\ recency' = MoveToFront(recency, s)
    /\ UNCHANGED <<datagrams, datagram_map, lru_src, worker, last_reply>>

\* There is room and DatagramWorker::bind succeeds on a port p that no live
\* socket uses: a worker and its receive task start.
HandleUdpBind(s, p) ==
    /\ datagram_map[s] = Unmapped
    /\ Cardinality(LruKeys) < MAX_UDP_PORT
    /\ task[p] = "free"
    /\ datagrams' = [datagrams EXCEPT ![p] = TRUE]
    /\ worker_src' = [worker_src EXCEPT ![p] = s]
    /\ is_closed' = [is_closed EXCEPT ![p] = FALSE]
    /\ task' = [task EXCEPT ![p] = "recv"]
    /\ datagram_map' = [datagram_map EXCEPT ![s] = p]
    /\ lru_src' = [lru_src EXCEPT ![p] = s]
    /\ lru_age' = MoveToFront(lru_age, p)
    /\ recency' = MoveToFront(recency, s)
    /\ UNCHANGED last_reply

\* Mutant: the previous source keeps its entry in datagram_map.
HandleUdpReuse_KeepPrevious(s, p) ==
    /\ datagram_map[s] = Unmapped
    /\ LeastRecentlyUsed(lru_age, p)
    /\ datagram_map' = [datagram_map EXCEPT ![s] = p]
    /\ recency' = MoveToFront(Pop(recency, lru_src[p]), s)
    /\ lru_src' = [lru_src EXCEPT ![p] = s]
    /\ lru_age' = MoveToFront(Pop(lru_age, p), p)
    /\ UNCHANGED <<datagrams, worker, last_reply>>

\* The cache is full, or the bind failed (which may happen at any time): the
\* port of the least recently used source is taken over. With an empty cache
\* the error of the bind is returned and nothing changes.
HandleUdpReuse(s, p) ==
    /\ datagram_map[s] = Unmapped
    /\ LeastRecentlyUsed(lru_age, p)
    /\ LET prev_src == lru_src[p] IN
        /\ datagram_map' = [datagram_map EXCEPT ![prev_src] = Unmapped, ![s] = p]
        /\ recency' = MoveToFront(Pop(recency, prev_src), s)
    /\ lru_src' = [lru_src EXCEPT ![p] = s]
    /\ lru_age' = MoveToFront(Pop(lru_age, p), p)
    /\ UNCHANGED <<datagrams, worker, last_reply>>

\* handle_icmpv4: port unreachable from s. The worker is dropped, which sets
\* is_closed; its task only sees that after its next receive.
UnbindLocalUdpPort(s) ==
    /\ datagram_map[s] # Unmapped
    /\ LET p == datagram_map[s] IN
        /\ datagrams' = [datagrams EXCEPT ![p] = FALSE]
        /\ is_closed' = [is_closed EXCEPT ![p] = TRUE]
        /\ task' = [task EXCEPT ![p] = IF @ = "done" THEN "free" ELSE @]
        /\ lru_src' = [lru_src EXCEPT ![p] = Unmapped]
        /\ lru_age' = Pop(lru_age, p)
    /\ datagram_map' = [datagram_map EXCEPT ![s] = Unmapped]
    /\ recency' = Pop(recency, s)
    /\ UNCHANGED <<worker_src, last_reply>>

-----------------------------------------------------------------------------
(* The receive task of port p. Any peer may send to a bound port, so a     *)
(* reply can arrive at any time. A TimedOut error only repeats the loop.   *)

\* When the task ends the socket stays open as long as the worker lives.
EndTask(p) == task' = [task EXCEPT ![p] = IF datagrams[p] THEN "done" ELSE "free"]

RecvFrom(p) ==
    /\ task[p] = "recv"
    /\ \/ is_closed[p] /\ EndTask(p)
       \/ ~is_closed[p] /\ task' = [task EXCEPT ![p] = "lock"]
    /\ UNCHANGED <<datagrams, datagram_map, lru, worker_src, is_closed, last_reply, recency>>

RecvError(p) ==
    /\ task[p] = "recv"
    /\ is_closed' = [is_closed EXCEPT ![p] = TRUE]
    /\ EndTask(p)
    /\ UNCHANGED <<datagrams, datagram_map, lru, worker_src, last_reply, recency>>

\* The Forwarder's mutex is acquired, the reply goes to worker_src, and the
\* head of the loop tests is_closed.
Forward(p) ==
    /\ task[p] = "lock"
    /\ last_reply' = <<lru_src[p], worker_src[p]>>
    /\ IF is_closed[p] THEN EndTask(p) ELSE task' = [task EXCEPT ![p] = "recv"]
    /\ UNCHANGED <<datagrams, datagram_map, lru, worker_src, is_closed, recency>>

HandleUdp(s) ==
    \/ HandleUdpMapped(s)
    \/ \E p \in Ports : HandleUdpBind(s, p) \/ HandleUdpReuse(s, p)

Worker(p) == RecvFrom(p) \/ RecvError(p) \/ Forward(p)

NatNext ==
    \/ \E s \in Sources : HandleUdp(s) \/ UnbindLocalUdpPort(s)
    \/ \E p \in Ports : Worker(p)

NatSpec == NatInit /\ [][NatNext]_natVars

-----------------------------------------------------------------------------
NatTypeOK ==
    /\ datagrams \in [Ports -> BOOLEAN]
    /\ datagram_map \in [Sources -> Ports \cup {Unmapped}]
    /\ lru_src \in [Ports -> Sources \cup {Unmapped}]
    /\ lru_age \in [Ports -> Nat]
    /\ worker_src \in [Ports -> Sources \cup {Unmapped}]
    /\ is_closed \in [Ports -> BOOLEAN]
    /\ task \in [Ports -> {"free", "recv", "lock", "done"}]
    /\ last_reply \in (Sources \cup {Unmapped}) \X (Sources \cup {Unmapped})
    /\ recency \in [Sources -> Nat]

\* The two directions of the NAT agree: s is mapped to p exactly when the LRU
\* holds s for p, so no two sources share a local port.
MapMatchesLru ==
    \A s \in Sources, p \in Ports : datagram_map[s] = p <=> lru_src[p] = s

\* Every port handed out by bind_local_udp_port has a worker, so the unwrap in
\* handle_udp cannot fail; and no worker is kept for an unmapped port.
WorkersMatchLru == \A p \in Ports : datagrams[p] <=> lru_src[p] # Unmapped

\* udp_lru is consistent in itself: its keys are the ports with a rank.
LruWellFormed == \A p \in Ports : lru_age[p] > 0 <=> lru_src[p] # Unmapped

\* A worker the Redirector holds has its socket; a port without worker whose
\* socket is still open is one whose task has been told to end.
SocketsMatchWorkers ==
    \A p \in Ports :
        /\ datagrams[p] => task[p] # "free"
        /\ ~datagrams[p] => task[p] # "done" /\ (task[p] = "free" \/ is_closed[p])

\* At most MAX_UDP_PORT ports are bound (the limit of bind_local_udp_port).
PortsBounded == Cardinality(LruKeys) <= MAX_UDP_PORT

\* The NAT's maps, its LRU, its workers and their sockets stay consistent
\* whatever the sources, the peers and the receive tasks do.
NatConsistent ==
    /\ MapMatchesLru
    /\ WorkersMatchLru
    /\ LruWellFormed
    /\ SocketsMatchWorkers
    /\ PortsBounded

\* A source that loses its port to another one is the source that has been
\* silent for longest, by the order of the datagrams themselves (recency).
EvictsLongestSilent ==
    [][\A s, t \in Sources :
        (/\ datagram_map[s] # Unmapped /\ datagram_map'[s] = Unmapped
         /\ datagram_map[t] = Unmapped /\ datagram_map'[t] # Unmapped)
        => \A u \in Sources : recency[u] <= recency[s]]_natVars

-----------------------------------------------------------------------------
(* Expectations the code does not meet: TLC refutes them. *)

\* The "Full Cone NAT" (README.md:12) that drops "the previous UDP connection"
\* (dev.md:109) when a port is taken over: a reply that arrives on a port a
\* source owns goes to that source.
RepliesReachOwner == last_reply[1] # Unmapped => last_reply[2] = last_reply[1]
=============================================================================
