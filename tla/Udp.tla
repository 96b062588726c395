--------------------------------- MODULE Udp --------------------------------
(***************************************************************************)
(* UDP (core/udp.c): the list of pcbs, linked through their next fields,   *)
(* binding, connecting and removing them, and which of them a datagram     *)
(* goes to.  A datagram is well formed and its checksum right.  The list   *)
(* moves the pcb of a datagram to the front.  LWIP_UDP_TODO is not set.    *)
(* A port of its own is the DHCP client's (LWIP_DHCP): what comes for it   *)
(* skips the list and goes to the pcb of the interface's client or nobody. *)
(***************************************************************************)
EXTENDS Integers, Sequences, FiniteSets

CONSTANTS
  UPcbs,              \* MEMP_UDP_PCB
  FixedPorts,         \* ports applications ask for
  DHCP_CLIENT_PORT, DHCP_SERVER_PORT,
  DhcpPcb,            \* netif->dhcp->pcb, if it is one of the pcbs
  UDP_LOCAL_PORT_RANGE_START, UDP_LOCAL_PORT_RANGE_END,
  Remotes,            \* remote end points: address and port
  MyIp,               \* the address of the interface
  Locals              \* local addresses applications ask for

VARIABLES
  pcb,                \* per pcb: whether it is allocated, and its fields
  udp_pcbs,           \* the head of the list
  last                \* the datagram just delivered and the pcb it went to

vars == <<pcb, udp_pcbs, last>>

NULL == "NULL"

Zero == [local_ip |-> "any", local_port |-> 0, remote_ip |-> "any", remote_port |-> 0,
         connected |-> FALSE, next |-> NULL]

Free == [Zero EXCEPT !.next = "free"]

Nothing == [p |-> NULL, d |-> [ip |-> "none", port |-> 0, dest |-> 0, bcast |-> FALSE]]

Init == pcb = [p \in UPcbs |-> Free] /\ udp_pcbs = NULL /\ last = Nothing

Allocated(p) == pcb[p].next # "free"

\* The list from a pcb on; one that runs in a circle is cut.
ListFrom(head, next) ==
  LET walk[k \in 0..Cardinality(UPcbs) + 1] ==
        IF k = 0 THEN <<>>
        ELSE LET s == walk[k - 1]
                 p == IF s = <<>> THEN head ELSE next[s[Len(s)]]
             IN  IF p \in UPcbs /\ Len(s) = k - 1 THEN Append(s, p) ELSE s
  IN  walk[Cardinality(UPcbs) + 1]

Chained == ListFrom(udp_pcbs, [p \in UPcbs |-> pcb[p].next])

Listed == LET l == Chained IN {l[i] : i \in DOMAIN l}

InList(p) == p \in Listed

PrevOf(p) == IF udp_pcbs = p THEN NULL ELSE CHOOSE q \in Listed : pcb[q].next = p

-----------------------------------------------------------------------------
(* Binding.                                                                *)

Used == {pcb[p].local_port : p \in Listed}

Range == UDP_LOCAL_PORT_RANGE_START..(UDP_LOCAL_PORT_RANGE_END - 1)

\* The first port of the range that no pcb of the list has, the last one of the
\* range excepted; 0 if there is none.
NewPort ==
  LET ok == Range \ Used
  IN  IF Chained = <<>> THEN UDP_LOCAL_PORT_RANGE_START
      ELSE IF ok = {} THEN 0 ELSE CHOOSE n \in ok : \A m \in ok : n <= m

\* Mutant: a pcb that is bound again is put on the list again.
Enlist2(f, p) == [f EXCEPT ![p].next = udp_pcbs]

\* A pcb that is bound or connected is put on the list unless it is there.
Enlist(f, p) == IF InList(p) THEN f ELSE [f EXCEPT ![p].next = udp_pcbs]

HeadWith(p) == IF InList(p) THEN udp_pcbs ELSE p

\* udp_bind(); the address is set even if no port is found.
udp_bind(p, ip, port) ==
  LET n == IF port = 0 THEN NewPort ELSE port
      a == [pcb EXCEPT ![p].local_ip = ip]
  IN  /\ Allocated(p)
      /\ pcb' = IF n = 0 THEN a ELSE Enlist([a EXCEPT ![p].local_port = n], p)
      /\ udp_pcbs' = IF n = 0 THEN udp_pcbs ELSE HeadWith(p)
      /\ last' = Nothing

\* A pcb without a port is bound to a new one first.
Autobound(p) ==
  IF pcb[p].local_port # 0 THEN [ok |-> TRUE, pcb |-> pcb]
  ELSE [ok |-> NewPort # 0, pcb |-> IF NewPort = 0 THEN pcb
                                    ELSE [pcb EXCEPT ![p].local_port = NewPort]]

udp_connect(p, r) ==
  LET b == Autobound(p)
  IN  /\ Allocated(p)
      /\ IF ~b.ok THEN UNCHANGED <<pcb, udp_pcbs>>
         ELSE /\ pcb' = Enlist([b.pcb EXCEPT ![p].remote_ip = r.ip, ![p].remote_port = r.port,
                                             ![p].connected = TRUE], p)
              /\ udp_pcbs' = HeadWith(p)
      /\ last' = Nothing

Disconnected(p) ==
  [pcb EXCEPT ![p].connected = FALSE, ![p].remote_ip = "any", ![p].remote_port = 0]

udp_disconnect(p) ==
  /\ Allocated(p)
  /\ pcb' = Disconnected(p)
  /\ last' = Nothing /\ UNCHANGED udp_pcbs

\* udp_sendto(): what changes here is the port; the datagram leaves if the pcb's
\* address is the interface's and there is memory for the header.
udp_sendto(p) ==
  LET b == Autobound(p)
  IN  /\ Allocated(p) /\ pcb[p].local_port = 0 /\ b.ok
      /\ pcb' = Enlist(b.pcb, p)
      /\ udp_pcbs' = HeadWith(p)
      /\ last' = Nothing

\* A new pcb is on no list.  Its receive function, set at once, never changes.
udp_new(p) ==
  /\ ~Allocated(p)
  /\ pcb' = [pcb EXCEPT ![p] = Zero]
  /\ last' = Nothing /\ UNCHANGED udp_pcbs

\* The pcb before it is linked to the one after it.
udp_remove(p) ==
  LET q == IF InList(p) THEN PrevOf(p) ELSE NULL
      f == IF q = NULL THEN pcb ELSE [pcb EXCEPT ![q].next = pcb[p].next]
  IN  /\ Allocated(p)
      /\ udp_pcbs' = IF udp_pcbs = p THEN pcb[p].next ELSE udp_pcbs
      /\ pcb' = [f EXCEPT ![p] = Free]
      /\ last' = Nothing

-----------------------------------------------------------------------------
(* udp_input().                                                            *)

local_match(p, d) ==
  /\ pcb[p].local_port = d.dest
  /\ \/ ~d.bcast /\ pcb[p].local_ip \in {"any", MyIp}
     \/ d.bcast

\* The first pcb of the list among some.
FirstOf(some) ==
  LET l == Chained
      at == {i \in DOMAIN l : l[i] \in some}
  IN  IF at = {} THEN NULL ELSE l[CHOOSE i \in at : \A j \in at : i <= j]

\* The first pcb whose remote end is the sender.
Perfect(d) ==
  FirstOf({p \in UPcbs : /\ local_match(p, d) /\ pcb[p].remote_port = d.port
                         /\ pcb[p].remote_ip \in {"any", d.ip}})

\* The first pcb that is not connected.
Unconnected(d) == FirstOf({p \in UPcbs : local_match(p, d) /\ ~pcb[p].connected})

\* The pcb found by its remote end moves to the front of the list.
Moved(p) ==
  IF udp_pcbs = p THEN pcb
  ELSE [pcb EXCEPT ![PrevOf(p)].next = pcb[p].next, ![p].next = udp_pcbs]

\* The DHCP client's pcb, if it has one and the datagram is its server's.
ForDhcp(d) ==
  IF /\ d.port = DHCP_SERVER_PORT /\ DhcpPcb \in UPcbs /\ Allocated(DhcpPcb)
     /\ pcb[DhcpPcb].remote_ip \in {"any", d.ip}
  THEN DhcpPcb ELSE NULL

\* A datagram nobody takes is dropped, with an ICMP error (see Ip).
udp_input(d) ==
  LET own == d.dest = DHCP_CLIENT_PORT
      p   == IF own THEN NULL ELSE Perfect(d)
      q   == CASE own -> ForDhcp(d) [] ~own /\ p # NULL -> p [] OTHER -> Unconnected(d)
  IN  /\ pcb' = IF p = NULL THEN pcb ELSE Moved(p)
      /\ udp_pcbs' = IF p = NULL THEN udp_pcbs ELSE p
      /\ last' = IF q # NULL THEN [p |-> q, d |-> d] ELSE Nothing

\* dhcp_start() of the interface: its pcb hears any server.
dhcp_start ==
  LET p == DhcpPcb
  IN  /\ p \in UPcbs /\ ~Allocated(p)
      /\ pcb' = [pcb EXCEPT ![p] = [Zero EXCEPT !.local_port = DHCP_CLIENT_PORT, !.connected = TRUE,
                                                !.remote_port = DHCP_SERVER_PORT, !.next = udp_pcbs]]
      /\ udp_pcbs' = p /\ last' = Nothing

dhcp_stop == DhcpPcb \in UPcbs /\ udp_remove(DhcpPcb)

\* A port of DHCP, if there is a client.
OfDhcp(n) == IF DhcpPcb \in UPcbs THEN {n} ELSE {}

Ports == FixedPorts \cup Range \cup OfDhcp(DHCP_CLIENT_PORT)

Datagrams == {[ip |-> r.ip, port |-> n, dest |-> m, bcast |-> b] :
                r \in Remotes, n \in {s.port : s \in Remotes} \cup OfDhcp(DHCP_SERVER_PORT),
                m \in Ports, b \in BOOLEAN}

Next ==
  \/ \E p \in UPcbs \ {DhcpPcb} :
       \/ udp_new(p) \/ udp_remove(p) \/ udp_disconnect(p) \/ udp_sendto(p)
       \/ \E ip \in Locals, port \in FixedPorts \cup {0} : udp_bind(p, ip, port)
       \/ \E r \in Remotes : udp_connect(p, r)
  \/ \E d \in Datagrams : udp_input(d)
  \/ dhcp_start \/ dhcp_stop

Spec == Init /\ [][Next]_vars

-----------------------------------------------------------------------------
(* Properties.                                                             *)

\* The list holds exactly the pcbs that have a port, each once, and ends: binding
\* twice, connecting, moving to the front and removing in any order keep it whole.
UdpListIntact ==
  /\ Len(Chained) <= Cardinality(UPcbs)
  /\ \A p \in UPcbs : InList(p) <=> Allocated(p) /\ pcb[p].local_port # 0
  /\ Chained # <<>> => pcb[Chained[Len(Chained)]].next = NULL

\* No two pcbs are given the same port, also when pcbs are bound again or removed
\* in between.
EphemeralUnique ==
  \A p, q \in UPcbs :
    /\ Allocated(p) /\ Allocated(q)
    /\ pcb[p].local_port \in Range /\ pcb[p].local_port = pcb[q].local_port
    => p = q

\* The remote end of a pcb is the sender.
FromPeer(p, d) == pcb[p].remote_ip \in {"any", d.ip} /\ pcb[p].remote_port = d.port

\* A connected pcb hears only its peer, and a datagram from the peer of a connected
\* pcb goes to a connected one: what was connected and disconnected before, and the
\* order of the list, do not matter.  Only the DHCP client hears what comes for its
\* port, whoever else is bound to it, and nothing else.
ConnectedFirst ==
  last.p # NULL =>
    /\ pcb[last.p].connected => FromPeer(last.p, last.d)
    /\ (\E q \in Listed : pcb[q].connected /\ local_match(q, last.d) /\ FromPeer(q, last.d))
         => pcb[last.p].connected
    /\ last.p = DhcpPcb <=> last.d.dest = DHCP_CLIENT_PORT
=============================================================================
