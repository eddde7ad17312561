--------------------------- MODULE StreamLifecycle --------------------------
(***************************************************************************)
(* The life of the TCP streams: the Redirector's packet loop with its maps *)
(* `streams` and `states`, the Forwarder's map `states` behind the mutex   *)
(* `tx`, and the two tasks every StreamWorker spawns, which run in         *)
(* parallel with the loop on tokio's threaded runtime.                     *)
(*                                                                         *)
(* A worker stands for one connection attempt: it names the TcpTxState     *)
(* made for the attempt, the StreamWorker and its tasks. What runs under   *)
(* one lock of `tx` never awaits and is one step. Between two locks, and   *)
(* at every await, the other tasks may run.                                *)
(*                                                                         *)
(* A panic inside a lock poisons the mutex; every later lock().unwrap()    *)
(* panics too.                                                             *)
(***************************************************************************)
EXTENDS Integers, FiniteSets

CONSTANTS
    Keys,            \* (source, destination) pairs
    Workers,         \* connection attempts
    None,
    MAX_RECV_ZERO    \* reads of length 0 taken as the end, less one

ASSUME LifecycleAssumption ==
    /\ None \notin Keys /\ None \notin Workers
    /\ MAX_RECV_ZERO \in Nat

VARIABLES
    streams,        \* Redirector.streams: key |-> worker or None
    rx_states,      \* Redirector.states: the keys with a TcpRxState
    tx_states,      \* Forwarder.states: key |-> worker or None
    poisoned,       \* the mutex is poisoned
    pc,             \* where the packet loop is
    cur,            \* the key of the packet being handled
    loaded,         \* is_writable or is_readable, as read on entry
    key_of,         \* worker |-> its key, None before the attempt
    reader,         \* worker |-> where its reader task is
    ticker,         \* worker |-> where its tick task is
    recv_zero,      \* worker |-> reads of length 0 in a row
    is_read_closed, is_write_closed,   \* the shared flags of a worker
    write_gone,     \* workers whose write half is forgotten or dropped
    late            \* history: worker |-> locked calls of its tasks after
                    \* is_read_closed was set

mapVars == <<streams, rx_states, tx_states>>
mainVars == <<pc, cur, loaded>>
taskVars == <<reader, ticker, recv_zero, late>>
flagVars == <<is_read_closed, is_write_closed, write_gone>>
vars == <<mapVars, poisoned, mainVars, key_of, taskVars, flagVars>>

MainStates ==
    {"idle", "rst", "syn", "set_state", "connecting", "refused", "clean_up",
     "ack", "sending", "sent", "send_error", "tail", "fin", "admit", "panicked"}
ReaderStates ==
    {"none", "check", "reading", "data", "zero", "forward", "close",
     "closed", "done", "panicked"}
TickerStates == {"none", "check", "tick", "done", "panicked"}

TypeOK ==
    /\ streams \in [Keys -> Workers \cup {None}]
    /\ rx_states \in SUBSET Keys
    /\ tx_states \in [Keys -> Workers \cup {None}]
    /\ poisoned \in BOOLEAN
    /\ pc \in MainStates /\ cur \in Keys \cup {None}
    /\ pc \notin {"idle", "panicked"} => cur \in Keys
    /\ loaded \in BOOLEAN
    /\ key_of \in [Workers -> Keys \cup {None}]
    /\ reader \in [Workers -> ReaderStates]
    /\ ticker \in [Workers -> TickerStates]
    /\ recv_zero \in [Workers -> Nat]
    /\ late \in [Workers -> Nat]
    /\ is_read_closed \in SUBSET Workers
    /\ is_write_closed \in SUBSET Workers
    /\ write_gone \in SUBSET Workers

Init ==
    /\ streams = [k \in Keys |-> None]
    /\ rx_states = {}
    /\ tx_states = [k \in Keys |-> None]
    /\ poisoned = FALSE
    /\ pc = "idle" /\ cur = None /\ loaded = FALSE
    /\ key_of = [w \in Workers |-> None]
    /\ reader = [w \in Workers |-> "none"]
    /\ ticker = [w \in Workers |-> "none"]
    /\ recv_zero = [w \in Workers |-> 0]
    /\ late = [w \in Workers |-> 0]
    /\ is_read_closed = {} /\ is_write_closed = {} /\ write_gone = {}

-----------------------------------------------------------------------------
(* The packet loop. One packet is handled to its end before the next. *)

\* Steps that lock tx, and those of them that unwrap the connection's state.
Locking == MainStates \ {"idle", "sending", "fin", "panicked"}
Unwrapping == {"connecting", "refused", "ack", "sent", "send_error", "tail", "admit"}

\* The step at pc runs and finds what it unwraps.
Locked(at) ==
    /\ pc = at
    /\ ~poisoned
    /\ at \in Unwrapping => tx_states[cur] # None

Goto(at) == pc' = at /\ UNCHANGED <<cur, loaded>>

\* Mutants: the TcpRxState stays; the dropped worker closes its write half only.
RemoveStream_KeepRx(k) ==
    LET gone == {streams[k]} \ {None} IN
    /\ streams' = [streams EXCEPT ![k] = None]
    /\ is_read_closed' = is_read_closed \cup gone
    /\ is_write_closed' = is_write_closed \cup gone
    /\ write_gone' = write_gone \cup gone
    /\ UNCHANGED <<rx_states, tx_states>>

RemoveStream_WriteOnly(k) ==
    LET gone == {streams[k]} \ {None} IN
    /\ streams' = [streams EXCEPT ![k] = None]
    /\ rx_states' = rx_states \ {k}
    /\ is_write_closed' = is_write_closed \cup gone
    /\ write_gone' = write_gone \cup gone
    /\ UNCHANGED <<tx_states, is_read_closed>>

\* streams.remove and states.remove; dropping a StreamWorker closes it.
RemoveStream(k) ==
    LET gone == {streams[k]} \ {None} IN
    /\ streams' = [streams EXCEPT ![k] = None]
    /\ rx_states' = rx_states \ {k}
    /\ is_read_closed' = is_read_closed \cup gone
    /\ is_write_closed' = is_write_closed \cup gone
    /\ write_gone' = write_gone \cup gone
    /\ UNCHANGED tx_states

\* The rest of clean_up: the Forwarder forgets the connection.
CleanUp ==
    /\ Locked("clean_up")
    /\ tx_states' = [tx_states EXCEPT ![cur] = None]
    /\ Goto("idle")
    /\ UNCHANGED <<streams, rx_states, poisoned, key_of, taskVars, flagVars>>

\* A packet for k arrives; the handler begins.
Receive(k, at) ==
    /\ pc = "idle"
    /\ pc' = at /\ cur' = k
    /\ UNCHANGED <<poisoned, key_of, taskVars>>

\* handle_tcp_rst
HandleRst(k) ==
    /\ Receive(k, "clean_up")
    /\ RemoveStream(k)
    /\ UNCHANGED loaded

\* handle_tcp_syn; a SYN for an established stream is dropped.
HandleSyn(k) ==
    /\ streams[k] = None
    /\ \E w \in Workers : key_of[w] = None
    /\ Receive(k, "syn")
    /\ RemoveStream(k)
    /\ UNCHANGED loaded

SynCleanUp ==
    /\ Locked("syn")
    /\ tx_states' = [tx_states EXCEPT ![cur] = None]
    /\ Goto("set_state")
    /\ UNCHANGED <<streams, rx_states, poisoned, key_of, taskVars, flagVars>>

SetState(w) ==
    /\ Locked("set_state")
    /\ key_of[w] = None
    /\ key_of' = [key_of EXCEPT ![w] = cur]
    /\ tx_states' = [tx_states EXCEPT ![cur] = w]
    /\ Goto("connecting")
    /\ UNCHANGED <<streams, rx_states, poisoned, taskVars, flagVars>>

\* StreamWorker::connect: the SOCKS server answers, the SYN is answered, the
\* tasks are spawned and the connection is entered into the maps. The tasks run
\* before that (they are spawned, and connect returns, ahead of the two inserts)
\* but look at neither map: streams and states belong to the packet loop.
ConnectOk ==
    /\ Locked("connecting")
    /\ LET w == tx_states[cur] IN
        /\ streams' = [streams EXCEPT ![cur] = w]
        /\ reader' = [reader EXCEPT ![w] = "check"]
        /\ ticker' = [ticker EXCEPT ![w] = "check"]
    /\ rx_states' = rx_states \cup {cur}
    /\ Goto("idle")
    /\ UNCHANGED <<tx_states, poisoned, key_of, recv_zero, late, flagVars>>

\* The SOCKS server, or sending the ACK/SYN, fails.
ConnectError ==
    /\ pc = "connecting"
    /\ Goto("refused")
    /\ UNCHANGED <<mapVars, poisoned, key_of, taskVars, flagVars>>

\* ACK/RST, then clean_up; if sending fails the handler returns at once.
Refused ==
    /\ Locked("refused")
    /\ \/ RemoveStream(cur) /\ Goto("clean_up")
       \/ Goto("idle") /\ UNCHANGED <<mapVars, flagVars>>
    /\ UNCHANGED <<poisoned, key_of, taskVars>>

\* handle_tcp_ack and handle_tcp_fin answer an unknown stream with a RST.
HandleUnknown(k) ==
    /\ streams[k] = None
    /\ Receive(k, "rst")
    /\ UNCHANGED <<loaded, mapVars, flagVars>>

SendRst ==
    /\ Locked("rst")
    /\ Goto("idle")
    /\ UNCHANGED <<mapVars, poisoned, key_of, taskVars, flagVars>>

\* Mutant: an unknown stream is not told apart.
HandleAck_Unknown(k) ==
    /\ Receive(k, "ack")
    /\ loaded' = (streams[k] \notin is_write_closed)
    /\ UNCHANGED <<mapVars, flagVars>>

\* handle_tcp_ack: is_writable is read before tx is locked.
HandleAck(k) ==
    /\ streams[k] # None
    /\ Receive(k, "ack")
    /\ loaded' = (streams[k] \notin is_write_closed)
    /\ UNCHANGED <<mapVars, flagVars>>

\* The acknowledgement is applied. There may be bytes to send on, an error, or
\* none of both; an ACK0 with nothing left to send ends a half-closed stream.
Ack ==
    /\ Locked("ack")
    /\ \/ \E at \in {"sending", "tail", "idle"} :
            Goto(at) /\ UNCHANGED <<mapVars, flagVars>>
       \/ ~loaded /\ RemoveStream(cur) /\ Goto("clean_up")
    /\ UNCHANGED <<poisoned, key_of, taskVars>>

\* stream.send(..).await; it fails for certain when the write half is gone.
Send ==
    /\ pc = "sending"
    /\ \/ streams[cur] \notin write_gone /\ Goto("sent")
       \/ Goto("send_error")
    /\ UNCHANGED <<mapVars, poisoned, key_of, taskVars, flagVars>>

Sent ==
    /\ Locked("sent")
    /\ Goto("tail") \/ Goto("idle")
    /\ UNCHANGED <<mapVars, poisoned, key_of, taskVars, flagVars>>

SendError ==
    /\ Locked("send_error")
    /\ \/ RemoveStream(cur) /\ Goto("clean_up")
       \/ Goto("idle") /\ UNCHANGED <<mapVars, flagVars>>
    /\ UNCHANGED <<poisoned, key_of, taskVars>>

\* Remaining data is sent, and a FIN in the packet or waiting is handled.
AckTail ==
    /\ Locked("tail")
    /\ Goto("fin") \/ Goto("idle")
    /\ UNCHANGED <<mapVars, poisoned, key_of, taskVars, flagVars>>

\* handle_tcp_fin for a packet with FIN alone.
HandleFin(k) ==
    /\ streams[k] # None
    /\ Receive(k, "fin")
    /\ UNCHANGED <<loaded, mapVars, flagVars>>

\* is_readable is read before tx is locked. Nothing more is done if there is no
\* FIN, or one that is early with a payload.
Fin ==
    /\ pc = "fin"
    /\ pc' \in {"admit", "idle"}
    /\ loaded' = (streams[cur] \notin is_read_closed)
    /\ UNCHANGED <<cur, mapVars, poisoned, key_of, taskVars, flagVars>>

\* The FIN is acknowledged; then the write half is shut down, or, if the
\* remote had closed already, everything is removed. The last alternative is
\* that sending the ACK0 fails, or that the FIN is early and only an ACK0 is sent.
Admit ==
    /\ Locked("admit")
    /\ \/ /\ loaded
          /\ is_write_closed' = is_write_closed \cup {streams[cur]}
          /\ write_gone' = IF streams[cur] \in is_write_closed THEN write_gone
                           ELSE write_gone \cup {streams[cur]}
          /\ Goto("idle")
          /\ UNCHANGED <<mapVars, is_read_closed>>
       \/ ~loaded /\ RemoveStream(cur) /\ Goto("clean_up")
       \/ Goto("idle") /\ UNCHANGED <<mapVars, flagVars>>
    /\ UNCHANGED <<poisoned, key_of, taskVars>>

\* A lock().unwrap() of a poisoned mutex, or an unwrap() of no state.
MainPanic ==
    /\ pc \in Locking
    /\ poisoned \/ (pc \in Unwrapping /\ tx_states[cur] = None)
    /\ poisoned' = TRUE
    /\ Goto("panicked")
    /\ UNCHANGED <<mapVars, key_of, taskVars, flagVars>>

Packet(k) ==
    HandleSyn(k) \/ HandleRst(k) \/ HandleUnknown(k) \/ HandleAck(k) \/ HandleFin(k)

Handler ==
    \/ CleanUp \/ SynCleanUp \/ ConnectOk \/ ConnectError \/ Refused \/ SendRst
    \/ \E w \in Workers : SetState(w)
    \/ Ack \/ Send \/ Sent \/ SendError \/ AckTail \/ Fin \/ Admit \/ MainPanic

-----------------------------------------------------------------------------
(* The tasks of a worker *)

\* tx.lock().unwrap() and a call that unwraps the state of the worker's key,
\* made by the task whose next place is after: the call is made, or panics.
Call(w, task, at, after) ==
    /\ task[w] = at
    /\ \/ /\ ~poisoned /\ tx_states[key_of[w]] # None
          /\ task' = [task EXCEPT ![w] = after]
          /\ late' = [late EXCEPT ![w] = IF w \in is_read_closed THEN @ + 1 ELSE @]
          /\ UNCHANGED poisoned
       \/ /\ poisoned \/ tx_states[key_of[w]] = None
          /\ task' = [task EXCEPT ![w] = "panicked"]
          /\ poisoned' = TRUE
          /\ UNCHANGED late

ReaderCheck(w) ==
    /\ reader[w] = "check"
    /\ reader' = [reader EXCEPT ![w] = IF w \in is_read_closed THEN "done" ELSE "reading"]
    /\ UNCHANGED <<recv_zero, late, poisoned, flagVars>>

\* stream_rx.read(..).await returns bytes, nothing (the remote has ended), or
\* a timeout, after which it is tried again.
ReadReturns(w) ==
    /\ reader[w] = "reading"
    /\ \E at \in {"data", "zero", "check"} : reader' = [reader EXCEPT ![w] = at]
    /\ UNCHANGED <<recv_zero, late, poisoned, flagVars>>

ReadError(w) ==
    /\ reader[w] = "reading"
    /\ reader' = [reader EXCEPT ![w] = "done"]
    /\ is_read_closed' = is_read_closed \cup {w}
    /\ is_write_closed' = is_write_closed \cup {w}
    /\ UNCHANGED <<recv_zero, late, poisoned, write_gone>>

\* The flag is loaded again after the await.
ReaderData(w) ==
    /\ reader[w] = "data"
    /\ IF w \in is_read_closed
       THEN reader' = [reader EXCEPT ![w] = "done"] /\ UNCHANGED recv_zero
       ELSE /\ reader' = [reader EXCEPT ![w] = "forward"]
            /\ recv_zero' = [recv_zero EXCEPT ![w] = 0]
    /\ UNCHANGED <<late, poisoned, flagVars>>

ReaderZero(w) ==
    /\ reader[w] = "zero"
    /\ IF w \in is_read_closed
       THEN reader' = [reader EXCEPT ![w] = "done"] /\ UNCHANGED recv_zero
       ELSE /\ recv_zero' = [recv_zero EXCEPT ![w] = @ + 1]
            /\ reader' = [reader EXCEPT ![w] =
                    IF recv_zero[w] + 1 > MAX_RECV_ZERO THEN "close" ELSE "check"]
    /\ UNCHANGED <<late, poisoned, flagVars>>

ReaderForward(w) ==
    /\ Call(w, reader, "forward", "check")
    /\ UNCHANGED <<recv_zero, flagVars>>

ReaderClose(w) ==
    /\ Call(w, reader, "close", "closed")
    /\ UNCHANGED <<recv_zero, flagVars>>

ReaderClosed(w) ==
    /\ reader[w] = "closed"
    /\ reader' = [reader EXCEPT ![w] = "done"]
    /\ is_read_closed' = is_read_closed \cup {w}
    /\ UNCHANGED <<recv_zero, late, poisoned, is_write_closed, write_gone>>

\* A step of the reader that waits for nobody, and any step of it.
ReaderStep(w) ==
    /\ \/ ReaderCheck(w) \/ ReaderData(w) \/ ReaderZero(w)
       \/ ReaderForward(w) \/ ReaderClose(w) \/ ReaderClosed(w)
    /\ pc # "panicked"
    /\ UNCHANGED <<mapVars, mainVars, key_of, ticker>>

ReaderWakes(w) ==
    /\ ReadReturns(w) \/ ReadError(w)
    /\ pc # "panicked"
    /\ UNCHANGED <<mapVars, mainVars, key_of, ticker>>

\* Mutants: the flag is never tested; a closed worker's loop continues
\* in place of breaking.
TickerCheck_Forever(w) ==
    /\ ticker[w] = "check"
    /\ ticker' = [ticker EXCEPT ![w] = "tick"]
    /\ UNCHANGED <<late, poisoned>>

TickerCheck_Continue(w) ==
    /\ ticker[w] = "check"
    /\ ticker' = [ticker EXCEPT ![w] = IF w \in is_read_closed THEN "check" ELSE "tick"]
    /\ UNCHANGED <<late, poisoned>>

TickerCheck(w) ==
    /\ ticker[w] = "check"
    /\ ticker' = [ticker EXCEPT ![w] = IF w \in is_read_closed THEN "done" ELSE "tick"]
    /\ UNCHANGED <<late, poisoned>>

TickerStep(w) ==
    /\ TickerCheck(w) \/ Call(w, ticker, "tick", "check")
    /\ pc # "panicked"
    /\ UNCHANGED <<mapVars, mainVars, key_of, reader, recv_zero, flagVars>>

Next ==
    \/ \E k \in Keys : Packet(k)
    \/ Handler
    \/ \E w \in Workers : ReaderStep(w) \/ ReaderWakes(w) \/ TickerStep(w)

Spec == Init /\ [][Next]_vars

\* tokio polls every task that can run; a handler that has begun goes on.
\* Nothing makes a packet arrive or the remote answer a read.
FairSpec ==
    /\ Spec
    /\ WF_vars(Handler)
    /\ \A w \in Workers : WF_vars(ReaderStep(w)) /\ WF_vars(TickerStep(w))

-----------------------------------------------------------------------------
(* Properties *)

\* A key in Redirector.streams has a TcpRxState and the very TcpTxState that
\* was made for the stream's worker, at every moment: clean_up and the SYN
\* handler take the maps apart and put them together in the right order.
MapsAgree ==
    /\ rx_states = {k \in Keys : streams[k] # None}
    /\ \A k \in Keys : streams[k] # None =>
        /\ tx_states[k] = streams[k]
        /\ key_of[streams[k]] = k

\* Every get_state(..).unwrap() of the packet loop finds a state, although
\* it locks tx anew for each and awaits in between.
MainUnwrapsState == pc \in Unwrapping => tx_states[cur] # None

\* A worker that has not been closed for reading is the one registered for
\* its key, so two connections of a key never are open at once.
OpenIsRegistered ==
    \A w \in Workers :
        reader[w] # "none" /\ w \notin is_read_closed =>
            reader[w] = "panicked" \/ streams[key_of[w]] = w

\* After a worker is closed, its reader and its tick task enter the Forwarder
\* at most once more each: both load the flag again before another call.
AtMostOneLateCall == \A w \in Workers : late[w] <= 2

\* The tick task of a closed worker ends, so dropped streams leave no timer.
TickerEnds ==
    \A w \in Workers :
        w \in is_read_closed ~> ticker[w] \in {"done", "panicked"} \/ pc = "panicked"

-----------------------------------------------------------------------------
(* Expectations the code does not meet: TLC refutes them. *)

\* The states.get(&key).unwrap() of forward, tick and close (lib.rs:1372,
\* 805, 1385) asserts that the connection of a running task exists.
TasksUnwrapState ==
    \A w \in Workers : reader[w] # "panicked" /\ ticker[w] # "panicked"

\* The socket is shut down for writing only when its read half is gone too:
\* OwnedWriteHalf::forget leaves the connection as it is until then.
RemoteSeesEnd(w) == w \in write_gone /\ reader[w] \in {"done", "panicked"}

\* shutdown "shuts down the read, write, or both halves of this connection"
\* (socks/mod.rs:172): the remote learns that the source has ended.
ShutdownReachesRemote ==
    \A w \in Workers : w \in write_gone ~> RemoteSeesEnd(w) \/ pc = "panicked"
=============================================================================
