------------------------------- MODULE Etharp -------------------------------
(***************************************************************************)
(* Address resolution on Ethernet (netif/etharp.c): the table of addresses *)
(* with its timers, the packets that wait for an address, the recycling of *)
(* entries.  A host's Ethernet address is known by the host's name.        *)
(* Compiled without LWIP_NETIF_HWADDRHINT, with ARP_QUEUEING and           *)
(* ETHARP_TRUST_IP_MAC.                                                    *)
(***************************************************************************)
EXTENDS Integers, Sequences, FiniteSets

CONSTANTS
  Hosts,              \* addresses on the link
  Gw,                 \* the gateway's address, or "0.0.0.0"
  ARP_TABLE_SIZE, ARP_MAXAGE, ARP_MAXPENDING,
  MEMP_NUM_ARP_QUEUE,
  MaxPackets          \* packets the stack sends

ArpConstants ==
  /\ ARP_TABLE_SIZE \in Nat \ {0} /\ MaxPackets \in Nat
  /\ {"none", "group"} \cap (Hosts \cup {Gw}) = {}

VARIABLES
  arp_table,
  etharp_cached_entry,
  packets,            \* how many packets were sent, each known by its number
  dest,               \* the next hop of each packet
  wire                \* the frames sent: packet and Ethernet address, in order

vars == <<arp_table, etharp_cached_entry, packets, dest, wire>>

Slots == 1..ARP_TABLE_SIZE

NoSlot == 0

NoPacket == 0

Empty == [state |-> "EMPTY", ip |-> "none", mac |-> "none", ctime |-> 0, q |-> <<>>]

Init ==
  /\ arp_table = [i \in Slots |-> Empty] /\ etharp_cached_entry = 1
  /\ packets = 0 /\ dest = <<>> /\ wire = <<>>

-----------------------------------------------------------------------------
(* find_entry().                                                           *)

InState(s) == {i \in Slots : arp_table[i].state = s}

\* The oldest of some entries; of several as old the last.
Oldest(s) ==
  CHOOSE i \in s : \A j \in s \ {i} :
    \/ arp_table[j].ctime < arp_table[i].ctime
    \/ arp_table[j].ctime = arp_table[i].ctime /\ j < i

First(s) == CHOOSE i \in s : \A j \in s : i <= j

Known(ip) == {i \in Slots : arp_table[i].state # "EMPTY" /\ arp_table[i].ip = ip}

\* The entry to recycle: an empty one, else the oldest of the resolved ones,
\* else of the pending ones that nothing waits for, else of the others.
Victim(hard) ==
  LET idle == {i \in InState("PENDING") : arp_table[i].q = <<>>}
  IN  IF InState("EMPTY") # {} THEN First(InState("EMPTY"))
      ELSE IF ~hard THEN NoSlot
      ELSE IF InState("STABLE") # {} THEN Oldest(InState("STABLE"))
      ELSE IF idle # {} THEN Oldest(idle)
      ELSE Oldest(InState("PENDING"))

\* The entry that has the address: the cached one if it is resolved, else the
\* first of the table.
Found(ip) ==
  LET c == arp_table[etharp_cached_entry]
  IN  IF c.state = "STABLE" /\ c.ip = ip THEN etharp_cached_entry
      ELSE IF Known(ip) # {} THEN First(Known(ip)) ELSE NoSlot

\* Mutant: the packets that wait stay with the recycled entry.
RecycledKeepsQueue(i, ip) == [arp_table EXCEPT ![i].state = "EMPTY", ![i].ip = ip, ![i].ctime = 0]

\* The packets that wait for a recycled entry are dropped.
Recycled(i, ip) ==
  [arp_table EXCEPT ![i] = [Empty EXCEPT !.ip = ip, !.mac = arp_table[i].mac]]

\* The entry to use and the table with that entry in it.
find_entry(ip, hard) ==
  LET f == Found(ip)
      v == Victim(hard)
  IN  IF f # NoSlot THEN [i |-> f, tab |-> arp_table]
      ELSE [i |-> v, tab |-> IF v = NoSlot THEN arp_table ELSE Recycled(v, ip)]

-----------------------------------------------------------------------------
(* Input.                                                                  *)

\* What waits is sent in order.
Flush(q, mac) == [k \in DOMAIN q |-> [packet |-> q[k], mac |-> mac]]

\* update_arp_entry(): with ETHARP_TRY_HARD an entry is recycled if need be.
update_arp_entry(ip, mac, hard) ==
  \E f \in {find_entry(ip, hard)} :
      IF f.i = NoSlot THEN UNCHANGED <<arp_table, etharp_cached_entry, wire>>
      ELSE /\ arp_table' = [f.tab EXCEPT ![f.i].state = "STABLE", ![f.i].mac = mac,
                                         ![f.i].ctime = 0, ![f.i].q = <<>>]
           /\ etharp_cached_entry' = f.i
           /\ wire' = wire \o Flush(f.tab[f.i].q, mac)

\* An ARP packet for us makes an entry in any case; others only if there is an
\* empty one.  The reply to a request changes no state here.
etharp_arp_input(ip, for_us) ==
  /\ update_arp_entry(ip, ip, for_us)
  /\ UNCHANGED <<packets, dest>>

\* An IP packet from the link; one from beyond the gateway is ignored.
etharp_ip_input(ip) ==
  /\ update_arp_entry(ip, ip, FALSE)
  /\ UNCHANGED <<packets, dest>>

-----------------------------------------------------------------------------
(* Output.                                                                 *)

Waiting ==
  LET sum[i \in 0..ARP_TABLE_SIZE] ==
        IF i = 0 THEN 0 ELSE sum[i - 1] + Len(arp_table[i].q)
  IN  sum[ARP_TABLE_SIZE]

\* Mutant: a query starts the time of a pending entry anew.
QueriedAnew(f, n, room) ==
  IF f.tab[f.i].state = "STABLE" THEN f.tab
  ELSE [f.tab EXCEPT ![f.i].state = "PENDING", ![f.i].ctime = 0,
                     ![f.i].q = IF room THEN Append(@, n) ELSE @]

\* etharp_query(): the entry is pending and a request is broadcast, and the
\* packet waits if there are a queue entry and a copy for it.
Queried(f, n, room) ==
  IF f.tab[f.i].state = "STABLE" THEN f.tab
  ELSE [f.tab EXCEPT ![f.i].state = "PENDING",
                     ![f.i].q = IF room THEN Append(@, n) ELSE @]

etharp_query(ip, n, mem) ==
  LET f == find_entry(ip, TRUE)
      t == Queried(f, n, mem /\ Waiting < MEMP_NUM_ARP_QUEUE)
  IN  /\ arp_table' = t
      /\ etharp_cached_entry' = f.i
      /\ wire' = IF t[f.i].state = "STABLE" /\ n # NoPacket
                 THEN Append(wire, [packet |-> n, mac |-> t[f.i].mac]) ELSE wire

\* A query without a packet, as dhcp_check() makes it.
etharp_probe(ip) == etharp_query(ip, NoPacket, FALSE) /\ UNCHANGED <<packets, dest>>

\* etharp_output(): a packet for a host on the link or, through the gateway, for
\* any other.
etharp_output(ip, mem) ==
  LET hop == IF ip \in Hosts THEN ip ELSE Gw
  IN  /\ packets < MaxPackets /\ hop # "0.0.0.0"
      /\ packets' = packets + 1
      /\ dest' = Append(dest, hop)
      /\ etharp_query(hop, packets + 1, mem)

\* Broadcasts and multicasts need no resolution; without a gateway there is no
\* way off the link.
etharp_output_direct ==
  /\ packets < MaxPackets
  /\ packets' = packets + 1
  /\ dest' = Append(dest, "group")
  /\ wire' = Append(wire, [packet |-> packets + 1, mac |-> "group"])
  /\ UNCHANGED <<arp_table, etharp_cached_entry>>

-----------------------------------------------------------------------------
(* etharp_tmr(), every ARP_TMR_INTERVAL.                                   *)

\* The time of an empty entry, which nothing reads, is left out.
Aged(e) ==
  IF e.state = "EMPTY" THEN e
  ELSE IF \/ e.state = "STABLE" /\ e.ctime + 1 >= ARP_MAXAGE
          \/ e.state = "PENDING" /\ e.ctime + 1 >= ARP_MAXPENDING
  THEN [e EXCEPT !.state = "EMPTY", !.ctime = 0, !.q = <<>>] ELSE [e EXCEPT !.ctime = @ + 1]

etharp_tmr ==
  /\ arp_table' = [i \in Slots |-> Aged(arp_table[i])]
  /\ UNCHANGED <<etharp_cached_entry, packets, dest, wire>>

Next ==
  \/ \E ip \in Hosts, for_us \in BOOLEAN : etharp_arp_input(ip, for_us)
  \/ \E ip \in Hosts : etharp_ip_input(ip)
  \/ \E ip \in Hosts \cup {"far"}, mem \in BOOLEAN : etharp_output(ip, mem)
  \/ \E ip \in Hosts : etharp_probe(ip)
  \/ etharp_output_direct
  \/ etharp_tmr

Spec == Init /\ [][Next]_vars

FairSpec == Spec /\ WF_vars(etharp_tmr)

-----------------------------------------------------------------------------
(* Properties.                                                             *)

\* An address has one entry, and packets wait only for entries that are pending,
\* as the assertion in find_entry() says: entries are found, recycled, resolved
\* and expire in any order.
TableSound ==
  /\ \A i, j \in Slots :
       /\ arp_table[i].state # "EMPTY" /\ arp_table[j].state # "EMPTY"
       /\ arp_table[i].ip = arp_table[j].ip
       => i = j
  /\ \A i \in Slots : arp_table[i].q # <<>> => arp_table[i].state = "PENDING"

\* A frame goes to the Ethernet address of its packet's next hop, also when the
\* entry the packet waited in is recycled for another address.
NeverMisdirected == \A k \in DOMAIN wire : wire[k].mac = dest[wire[k].packet]

\* Packets for one next hop leave in the order they were sent, none twice:
\* packets that waited are not overtaken.
InOrder ==
  \A j, k \in DOMAIN wire :
    j < k /\ dest[wire[j].packet] = dest[wire[k].packet]
      => wire[j].packet < wire[k].packet

\* No packet goes astray or overtakes another, however entries are resolved,
\* recycled and expire (etharp.c).
ArpSound == TableSound /\ NeverMisdirected /\ InOrder

Pending(i, ip) == arp_table[i].state = "PENDING" /\ arp_table[i].ip = ip

\* A request that is not answered is given up, however often the address is
\* asked for meanwhile: no entry is pending for ever (the timer runs on).
PendingEnds ==
  \A i \in Slots, ip \in Hosts : Pending(i, ip) ~> ~Pending(i, ip)
=============================================================================
