------------------------------- MODULE Ingress ------------------------------
(***************************************************************************)
(* The front of the packet loop: Redirector::open hands every captured     *)
(* frame to handle_arp or handle_ipv4. Both learn the hardware address of  *)
(* a source, to which the Forwarder addresses what it sends; handle_ipv4   *)
(* passes fragments on to the Defraggler, and whole packets and completed  *)
(* datagrams to the handlers of ICMP, TCP and UDP (other modules).         *)
(*                                                                         *)
(* Hosts are known by their IPv4 address. The capture also shows the       *)
(* frames of the local host and of hosts that are no source.               *)
(***************************************************************************)
EXTENDS Defrag, Sequences

CONSTANTS
    Hosts,          \* the hosts of the link
    Network,        \* src_ip_addr, those that are to be redirected
    Local,          \* local_ip_addr, the host pcap2socks runs on
    Sender,         \* the source whose datagrams Defrag follows
    Unspecified,    \* HARDWARE_ADDR_UNSPECIFIED
    MaxRejoins      \* times a host comes back with another adapter

ASSUME IngressAssumption ==
    /\ Network \subseteq Hosts /\ Local \in Hosts /\ Sender \in Network \ {Local}
    /\ Unspecified \notin Hosts \cup Hosts \X (0 .. MaxRejoins) /\ MaxRejoins \in Nat

VARIABLES
    adapter,            \* the hardware address each host sends with
    src_hardware_addr,  \* of the Forwarder; Unspecified where it has none
    is_tx_src_hardware_addr_set,
    frame,              \* the frame this step sends to a source, or NoFrame
    seen                \* history: the adapters of sources, as they were handled

hostVars == <<adapter, src_hardware_addr, is_tx_src_hardware_addr_set, frame, seen>>
allVars == <<vars, hostVars>>

NoFrame == [to |-> Unspecified, hardware_addr |-> Unspecified]

IngressInit ==
    /\ Init
    /\ adapter = [h \in Hosts |-> <<h, 0>>]
    /\ src_hardware_addr = [h \in Hosts |-> Unspecified]
    /\ is_tx_src_hardware_addr_set = FALSE
    /\ frame = NoFrame /\ seen = <<>>

\* Mutant: the host's own frames count as a source's.
IsSource_Local(h) == h \in Network

\* The guard both handlers begin with.
IsSource(h) == h # Local /\ h \in Network

\* "Set forwarder's hardware address": the flag is one for all sources.
Learn(h) ==
    /\ src_hardware_addr' =
        IF is_tx_src_hardware_addr_set THEN src_hardware_addr
        ELSE [src_hardware_addr EXCEPT ![h] = adapter[h]]
    /\ is_tx_src_hardware_addr_set' = TRUE
    /\ seen' = IF h = Local \/ \E i \in DOMAIN seen : seen[i][1] = h THEN seen
               ELSE Append(seen, adapter[h])

\* A frame to h, addressed by the map as it is then.
Addressed(h, map) == frame' = [to |-> h, hardware_addr |-> map[h]]

\* handle_arp, of a packet for the published address: learn, then
\* send_arp_reply.
HandleArp(h) ==
    /\ IsSource(h)
    /\ Learn(h)
    /\ Addressed(h, src_hardware_addr')
    /\ UNCHANGED <<vars, adapter>>

\* handle_ipv4 of a packet that is not a fragment.
HandleIpv4(h) ==
    /\ IsSource(h)
    /\ Learn(h)
    /\ frame' = NoFrame
    /\ UNCHANGED <<vars, adapter>>

\* handle_ipv4 of a fragment of Sender.
HandleFragment ==
    /\ IsSource(Sender)
    /\ Learn(Sender)
    /\ \E o \in Fragments : Arrives(o) \/ Repeated(o) \/ OtherProtocol(o)
    /\ frame' = NoFrame
    /\ UNCHANGED adapter

\* A worker has the Forwarder send to a source it works for: send_ethernet.
SendEthernet(h) ==
    /\ \E i \in DOMAIN seen : seen[i][1] = h
    /\ Addressed(h, src_hardware_addr)
    /\ UNCHANGED <<vars, adapter, src_hardware_addr, is_tx_src_hardware_addr_set, seen>>

\* The environment: a host returns with another adapter, time passes, the
\* sender goes on to its next datagram.
Rejoin(h) ==
    /\ h # Local /\ adapter[h][2] < MaxRejoins
    /\ adapter' = [adapter EXCEPT ![h][2] = @ + 1]
    /\ frame' = NoFrame
    /\ UNCHANGED <<vars, src_hardware_addr, is_tx_src_hardware_addr_set, seen>>

Elapse ==
    /\ NextDatagram \/ Tick
    /\ frame' = NoFrame
    /\ UNCHANGED <<adapter, src_hardware_addr, is_tx_src_hardware_addr_set, seen>>

IngressNext ==
    \/ \E h \in Hosts : HandleArp(h) \/ HandleIpv4(h) \/ SendEthernet(h)
    \/ \E h \in Network : Rejoin(h)
    \/ HandleFragment \/ Elapse

IngressSpec == IngressInit /\ [][IngressNext]_allVars

-----------------------------------------------------------------------------
(* Properties *)

\* What the Forwarder sends to the first source it saw is addressed to that
\* source's adapter, as long as the source keeps it and whatever else the
\* capture shows: the frames of the local host, of hosts that are no source
\* and of later sources must not take the one place there is.
FirstSourceAddressed ==
    seen # <<>> /\ frame.to = seen[1][1] /\ adapter[frame.to] = seen[1]
        => frame.hardware_addr = adapter[frame.to]

-----------------------------------------------------------------------------
(* Expectations the code does not meet: TLC refutes them. *)

\* The source "can be a single IPv4 address ... or an IPv4 CIDR network"
\* (README.md:51): a source that has asked for the published address is
\* answered at its adapter. Only the first one is.
EverySourceAddressed ==
    [][\A h \in Network : HandleArp(h) => frame'.hardware_addr = adapter[h]]_allVars
=============================================================================
