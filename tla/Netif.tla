------------------------------- MODULE Netif --------------------------------
(***************************************************************************)
(* Network interfaces (core/netif.c): the list of interfaces, their state  *)
(* and addresses, the default interface, and the TCP connections and       *)
(* listeners that follow a change of address.                              *)
(***************************************************************************)
EXTENDS Integers, Sequences, FiniteSets

CONSTANTS
  Netifs,             \* the structures the application has
  Addrs               \* addresses; "any" is 0.0.0.0

VARIABLES
  netif_list, netif_default,
  netif,              \* per structure: address and flags
  active,             \* local addresses of the active connections
  listen,             \* local addresses of the listeners
  gone                \* addresses that went with a removed interface

vars == <<netif_list, netif_default, netif, active, listen, gone>>

None == "none"

Blank == [ip |-> "any", up |-> FALSE, link |-> FALSE]

Init ==
  /\ netif_list = <<>> /\ netif_default = None
  /\ netif = [n \in Netifs |-> Blank]
  /\ active = {} /\ listen = {} /\ gone = {}

Listed == {netif_list[i] : i \in DOMAIN netif_list}

Without(s, n) == SelectSeq(s, LAMBDA m : m # n)

-----------------------------------------------------------------------------
(* Addresses.                                                              *)

\* netif_set_ipaddr(): connections that use the old address are aborted.
AbortOld(old, new) == IF old = new THEN active ELSE active \ {old}

\* Listeners bound to the old address follow.
Rebound(old, new) ==
  IF old = new \/ old \notin listen \/ old = "any" THEN listen
  ELSE (listen \ {old}) \cup {new}

netif_set_ipaddr(n, ip) ==
  /\ n \in Listed
  /\ netif' = [netif EXCEPT ![n].ip = ip]
  /\ active' = AbortOld(netif[n].ip, ip)
  /\ listen' = Rebound(netif[n].ip, ip)
  /\ gone' = gone \ {ip}
  /\ UNCHANGED <<netif_list, netif_default>>

-----------------------------------------------------------------------------
(* The list.                                                               *)

\* The structure is reset and its address set, from 0.0.0.0; it is listed if the
\* driver's init succeeds.
netif_add(n, ip, ok) ==
  /\ n \notin Listed
  /\ netif' = [netif EXCEPT ![n] = [Blank EXCEPT !.ip = ip]]
  /\ active' = AbortOld("any", ip)
  /\ listen' = Rebound("any", ip)
  /\ netif_list' = IF ok THEN <<n>> \o netif_list ELSE netif_list
  /\ gone' = IF ok THEN gone \ {ip} ELSE gone
  /\ UNCHANGED <<netif_default>>

\* A removed interface is no longer the default.
DefaultWithout(n) == IF netif_default = n THEN None ELSE netif_default

netif_remove(n) ==
  /\ n \in Listed
  /\ netif_list' = Without(netif_list, n)
  /\ netif_default' = DefaultWithout(n)
  /\ gone' = gone \cup {netif[n].ip}
  /\ UNCHANGED <<netif, active, listen>>

netif_set_default(n) ==
  /\ n \in Listed
  /\ netif_default' = n
  /\ UNCHANGED <<netif_list, netif, active, listen, gone>>

netif_set_up(n) ==
  /\ n \in Listed /\ ~netif[n].up
  /\ netif' = [netif EXCEPT ![n].up = TRUE]
  /\ UNCHANGED <<netif_list, netif_default, active, listen, gone>>

netif_set_down(n) ==
  /\ n \in Listed /\ netif[n].up
  /\ netif' = [netif EXCEPT ![n].up = FALSE]
  /\ UNCHANGED <<netif_list, netif_default, active, listen, gone>>

netif_set_link(n, up) ==
  /\ n \in Listed
  /\ netif' = [netif EXCEPT ![n].link = up]
  /\ UNCHANGED <<netif_list, netif_default, active, listen, gone>>

\* ip_route(), for a destination in the network of the interface with an address
\* or in none: the interface a new connection or listener takes its address from.
ip_route(to) ==
  LET on == {i \in DOMAIN netif_list : netif[netif_list[i]].up /\ netif[netif_list[i]].ip = to}
  IN  IF on # {} THEN netif_list[CHOOSE i \in on : \A j \in on : i <= j]
      ELSE IF netif_default # None /\ netif[netif_default].up THEN netif_default ELSE None

\* tcp_connect() and tcp_bind() as they use an interface's address.
Connect(to) ==
  LET n == ip_route(to)
  IN  /\ n # None /\ netif[n].ip # "any"
      /\ active' = active \cup {netif[n].ip}
      /\ UNCHANGED <<netif_list, netif_default, netif, listen, gone>>

Listen(n) ==
  /\ n \in Listed
  /\ listen' = listen \cup {netif[n].ip}
  /\ UNCHANGED <<netif_list, netif_default, netif, active, gone>>

Next ==
  \/ \E n \in Netifs, ip \in Addrs, ok \in BOOLEAN : netif_add(n, ip, ok)
  \/ \E n \in Netifs, ip \in Addrs : netif_set_ipaddr(n, ip)
  \/ \E n \in Netifs :
       \/ netif_remove(n) \/ netif_set_default(n) \/ netif_set_up(n) \/ netif_set_down(n)
       \/ \E up \in BOOLEAN : netif_set_link(n, up)
       \/ Listen(n)
  \/ \E to \in Addrs : Connect(to)

Spec == Init /\ [][Next]_vars

-----------------------------------------------------------------------------
(* Properties.                                                             *)

\* Routing never yields an interface that was removed or is down, whatever was
\* added, removed and made the default before.
RouteSound ==
  \A to \in Addrs : ip_route(to) # None => ip_route(to) \in Listed /\ netif[ip_route(to)].up

\* No connection outlives the address it uses: each has the address of an
\* interface, unless the interface was removed.
AddressesLive ==
  \A a \in active : a \in gone \/ \E n \in Listed : netif[n].ip = a
=============================================================================
