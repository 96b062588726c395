--------------------------------- MODULE Ip ---------------------------------
(***************************************************************************)
(* The IP layer (core/ipv4/ip.c, ip_addr.c) with ICMP (icmp.c): routing,   *)
(* input, forwarding and output of packets in a network of nodes that all  *)
(* run this code.  Fragments are in IpFrag, address resolution in Etharp:  *)
(* a packet put on a link here reaches the interface it is for.  Headers   *)
(* are well formed.  Compiled with IP_FORWARD, LWIP_ICMP, LWIP_IGMP and    *)
(* LWIP_DHCP, without LWIP_BROADCAST_PING and LWIP_MULTICAST_PING.         *)
(***************************************************************************)
EXTENDS Integers, Sequences, FiniteSets

CONSTANTS
  Iface,              \* per interface: node, link, ip and gw, a next-hop interface
  NetifList,          \* per node: its interfaces in the order of netif_list
  NetifDefault,       \* per node: netif_default
  LinkOf,             \* per address: the link in whose network it is
  Bcast,              \* per link: the broadcast address of its network
  Members,            \* interfaces that are members of the multicast group
  OpenUdp,            \* nodes with a UDP pcb for the port
  Inject,             \* what applications send: node, dst, proto and ttl
  MaxSent             \* how many of them

VARIABLES
  wire,               \* packets on their way, each to an interface
  up,                 \* interfaces that are up
  sent                \* how many packets applications have sent

vars == <<wire, up, sent>>

Ifaces == DOMAIN Iface

Nodes == DOMAIN NetifList

Init ==
  /\ wire = {} /\ up = Ifaces /\ sent = 0

-----------------------------------------------------------------------------
(* Addresses and routes.                                                   *)

ip_addr_ismulticast(a) == a = "group"

\* The address of the interface itself is none.
ip_addr_isbroadcast(a, n) ==
  \/ a \in {"255.255.255.255", "0.0.0.0"}
  \/ a # Iface[n].ip /\ a = Bcast[Iface[n].link]

netcmp(a, n) == a \in DOMAIN LinkOf /\ LinkOf[a] = Iface[n].link

\* The first interface that is up and in whose network the address is, or the
\* default one.
ip_route(node, a) ==
  LET l  == NetifList[node]
      at == {i \in DOMAIN l : l[i] \in up /\ netcmp(a, l[i])}
      d  == NetifDefault[node]
  IN  IF at # {} THEN l[CHOOSE i \in at : \A j \in at : i <= j]
      ELSE IF d \in up THEN d ELSE "none"

\* Output on an interface: to all others of the link, to the one that has the
\* address, or to the gateway.
Receivers(n, a) ==
  LET on == {m \in Ifaces \ {n} : Iface[m].link = Iface[n].link}
  IN  IF ip_addr_isbroadcast(a, n) \/ ip_addr_ismulticast(a) THEN on
      ELSE IF netcmp(a, n) THEN {m \in on : Iface[m].ip = a}
      ELSE on \cap {Iface[n].gw}

Put(n, pkt) == {[to |-> m, pkt |-> pkt] : m \in Receivers(n, pkt.dst)}

Packet(src, dst, proto, ttl) == [src |-> src, dst |-> dst, proto |-> proto, ttl |-> ttl]

\* ip_output(): the source is the address of the interface.
ip_output(node, dst, proto, ttl) ==
  LET n == ip_route(node, dst)
  IN  IF n = "none" THEN {} ELSE Put(n, Packet(Iface[n].ip, dst, proto, ttl))

-----------------------------------------------------------------------------
(* ICMP.                                                                   *)

ICMP_TTL == 2

IsIcmp(proto) == proto \in {"echo", "reply", "error"}

\* icmp_dest_unreach() and icmp_time_exceeded().
icmp_send_response(node, pkt) == ip_output(node, pkt.src, "error", ICMP_TTL)

\* An echo request is answered on the interface it came from, unless it went to
\* many; the rest is dropped.
icmp_input(n, pkt) ==
  IF /\ pkt.proto = "echo"
     /\ ~ip_addr_ismulticast(pkt.dst) /\ ~ip_addr_isbroadcast(pkt.dst, n)
  THEN Put(n, Packet(pkt.dst, pkt.src, "reply", ICMP_TTL))
  ELSE {}

-----------------------------------------------------------------------------
(* ip_forward(): the packets to send.                                      *)

\* The field has eight bits.
ttl_next(ttl) == (ttl - 1) % 256

\* A packet whose time is over: there is no error about ICMP.
Dies(node, pkt) ==
  IF IsIcmp(pkt.proto) THEN {} ELSE icmp_send_response(node, pkt)

\* Nothing goes back to the interface it came from.
ip_forward(n, pkt) ==
  LET node == Iface[n].node
      to   == ip_route(node, pkt.dst)
      ttl  == ttl_next(pkt.ttl)
  IN  IF to \in {"none", n} THEN {}
      ELSE IF ttl = 0 THEN Dies(node, pkt)
      ELSE Put(to, [pkt EXCEPT !.ttl = ttl])

-----------------------------------------------------------------------------
(* ip_input().                                                             *)

\* Whether one of the node's interfaces, the receiving one first, has the packet's
\* destination; a DHCP answer is taken by the receiving one in any case.
Accepts(n, pkt) ==
  \/ /\ ip_addr_ismulticast(pkt.dst)
     /\ n \in Members
  \/ /\ ~ip_addr_ismulticast(pkt.dst)
     /\ \E m \in up : /\ Iface[m].node = Iface[n].node /\ Iface[m].ip # "0.0.0.0"
                      /\ pkt.dst = Iface[m].ip \/ ip_addr_isbroadcast(pkt.dst, m)
  \/ pkt.proto = "dhcp"

\* A source that stands for many is refused, except with a DHCP answer that was
\* not addressed to the node.
BadSource(n, pkt) ==
  /\ pkt.proto # "dhcp" /\ pkt.src # "0.0.0.0"
  /\ ip_addr_isbroadcast(pkt.src, n) \/ ip_addr_ismulticast(pkt.src)

ToMany(n, pkt) == ip_addr_isbroadcast(pkt.dst, n) \/ ip_addr_ismulticast(pkt.dst)

\* The protocols; there is an error about a port or a protocol nobody has, unless
\* the packet went to many.
Dispatch(n, pkt) ==
  LET node == Iface[n].node
      unr  == \/ pkt.proto = "udp" /\ node \notin OpenUdp
              \/ pkt.proto = "other"
  IN  IF IsIcmp(pkt.proto) THEN icmp_input(n, pkt)
      ELSE IF unr /\ ~ToMany(n, pkt) THEN icmp_send_response(node, pkt)
      ELSE {}

ip_input(w) ==
  LET n == w.to
      p == w.pkt
      r == IF BadSource(n, p) THEN {}
           ELSE IF Accepts(n, p) THEN Dispatch(n, p)
           ELSE IF ip_addr_isbroadcast(p.dst, n) THEN {}
           ELSE ip_forward(n, p)
  IN  /\ wire' = (wire \ {w}) \cup r
      /\ UNCHANGED <<up, sent>>

Receive == \E w \in wire : ip_input(w)

\* The network loses a packet.
Lose(w) == wire' = wire \ {w} /\ UNCHANGED <<up, sent>>

Send(m) ==
  /\ sent < MaxSent /\ sent' = sent + 1
  /\ wire' = wire \cup ip_output(m.node, m.dst, m.proto, m.ttl)
  /\ UNCHANGED <<up>>

\* An interface goes down or up between packets.
Toggle(n) ==
  /\ up' = IF n \in up THEN up \ {n} ELSE up \cup {n}
  /\ UNCHANGED <<wire, sent>>

Next ==
  \/ Receive
  \/ \E w \in wire : Lose(w)
  \/ \E m \in Inject : Send(m)
  \/ \E n \in Ifaces : Toggle(n)

Spec == Init /\ [][Next]_vars

-----------------------------------------------------------------------------
(* Properties.                                                             *)

\* Every packet dies in the end, also when the routes of two nodes form a loop and
\* errors are sent about packets that die: errors breed no errors.
PacketsDie == <>[](wire = {})
=============================================================================
