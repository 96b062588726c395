------------------------------- MODULE AutoIp -------------------------------
(***************************************************************************)
(* Link-local addresses (core/ipv4/autoip.c): hosts on one link that all   *)
(* run this code choose addresses, probe them with ARP, announce and       *)
(* defend them, while links go down and up and another machine may use an  *)
(* address without asking.  ARP messages arrive before the next tick of    *)
(* autoip_tmr(); a host answers requests for its address (etharp.c).       *)
(* Random waits are any of a small set.                                    *)
(***************************************************************************)
EXTENDS Integers, FiniteSets

CONSTANTS
  AHosts,
  Seed,               \* per host: LWIP_AUTOIP_CREATE_SEED_ADDR
  RangeSize,          \* addresses of the range, 0 .. RangeSize - 1
  PROBE_NUM, ANNOUNCE_NUM, MAX_CONFLICTS,
  Waits,              \* random waits, in ticks
  RateLimit,          \* RATE_LIMIT_INTERVAL in ticks
  DEFEND_INTERVAL,
  MaxTried,           \* bound on tried_llipaddr
  Foreign             \* addresses the other machine may claim

VARIABLES
  autoip,             \* per host: struct autoip
  netif,              \* per host: address of the interface, up, and the link's state
  arp                 \* ARP messages on the link: sender, source and target address

vars == <<autoip, netif, arp>>

NoAddr == -1

Off == [state |-> "OFF", ll |-> NoAddr, sent_num |-> 0, ttw |-> 0, lastconflict |-> 0,
        tried |-> 0]

Init ==
  /\ autoip = [h \in AHosts |-> Off]
  /\ netif = [h \in AHosts |-> [ip |-> NoAddr, up |-> FALSE, link |-> TRUE]]
  /\ arp = {}

\* What a host sends reaches the hosts whose link is up, if its own is.
Cast(h, sip, dip) == IF netif[h].link THEN {[by |-> h, sip |-> sip, dip |-> dip]} ELSE {}

\* autoip_create_addr(): the addresses are tried one after the other, round the
\* range.
autoip_create_addr(h, tried) == (Seed[h] + tried) % RangeSize

\* autoip_start_probing(): slowly, after many conflicts.
Probing(a, ttw) ==
  [a EXCEPT !.state = "PROBING", !.sent_num = 0,
            !.ttw = IF a.tried > MAX_CONFLICTS THEN RateLimit ELSE ttw]

\* autoip_start(): the interface loses its address and the next one is tried.
Restarted(h, a, ttw) ==
  Probing([Off EXCEPT !.ll = autoip_create_addr(h, a.tried), !.tried = a.tried + 1], ttw)

Unset(n) == [n EXCEPT !.up = FALSE, !.ip = NoAddr]

autoip_start(h, ttw) ==
  /\ autoip[h].state = "OFF" /\ autoip[h].tried < MaxTried
  /\ autoip' = [autoip EXCEPT ![h] = Restarted(h, @, ttw)]
  /\ netif' = [netif EXCEPT ![h] = Unset(@)]
  /\ UNCHANGED arp

\* The address stays with the interface, which is down.
autoip_stop(h) ==
  /\ autoip[h].state # "OFF"
  /\ autoip' = [autoip EXCEPT ![h].state = "OFF"]
  /\ netif' = [netif EXCEPT ![h].up = FALSE]
  /\ UNCHANGED arp

\* The link goes down, and what was on it is lost.
LinkDown(h) ==
  /\ netif[h].link
  /\ netif' = [netif EXCEPT ![h].link = FALSE]
  /\ arp' = {}
  /\ UNCHANGED autoip

\* autoip_network_changed(), when the link comes up: the address is probed again.
NetworkChanged(h, ttw) ==
  IF autoip[h].state = "OFF" THEN UNCHANGED autoip /\ netif' = [netif EXCEPT ![h].link = TRUE]
  ELSE /\ autoip' = [autoip EXCEPT ![h] = Probing(@, ttw)]
       /\ netif' = [netif EXCEPT ![h].link = TRUE, ![h].up = FALSE]

LinkUp(h, ttw) ==
  /\ ~netif[h].link
  /\ NetworkChanged(h, ttw)
  /\ UNCHANGED arp

-----------------------------------------------------------------------------
(* autoip_tmr(), when all messages have arrived.                           *)

\* The wait goes on.
Waited(a) == [a EXCEPT !.ttw = @ - 1]

Probe(h, a, ttw) ==
  IF a.sent_num >= PROBE_NUM
  THEN /\ autoip' = [autoip EXCEPT ![h] = [a EXCEPT !.state = "ANNOUNCING", !.sent_num = 0, !.ttw = 1]]
       /\ UNCHANGED <<netif, arp>>
  ELSE /\ autoip' = [autoip EXCEPT ![h] = [a EXCEPT !.sent_num = @ + 1, !.ttw = ttw]]
       /\ arp' = Cast(h, NoAddr, a.ll)
       /\ UNCHANGED netif

\* The address is first used, and then announced; netif_set_up() announces it too
\* if the interface was down.
Announce(h, a) ==
  LET n == a.sent_num + 1
      b == IF n >= ANNOUNCE_NUM THEN [a EXCEPT !.state = "BOUND", !.sent_num = 0, !.ttw = 0]
           ELSE [a EXCEPT !.sent_num = n, !.ttw = 1]
  IN  /\ autoip' = [autoip EXCEPT ![h] = b]
      /\ netif' = IF a.sent_num = 0 THEN [netif EXCEPT ![h].ip = a.ll, ![h].up = TRUE] ELSE netif
      /\ arp' = Cast(h, a.ll, a.ll)

autoip_tmr(h, ttw) ==
  LET a == [autoip[h] EXCEPT !.lastconflict = IF @ > 0 THEN @ - 1 ELSE 0]
  IN  /\ arp = {}
      /\ IF a.state \in {"PROBING", "ANNOUNCING"} /\ a.ttw > 0
         THEN autoip' = [autoip EXCEPT ![h] = Waited(a)] /\ UNCHANGED <<netif, arp>>
         ELSE CASE a.state = "PROBING"    -> Probe(h, a, ttw)
                [] a.state = "ANNOUNCING" -> Announce(h, a)
                [] OTHER -> autoip' = [autoip EXCEPT ![h] = a] /\ UNCHANGED <<netif, arp>>

-----------------------------------------------------------------------------
(* ARP messages, at every host whose link is up.                           *)

\* Before the address is used: someone has it, or someone else probes it.
Conflict(h, m) == m.sip = autoip[h].ll \/ m.dip = autoip[h].ll

Unused(a) == a.state = "PROBING" \/ (a.state = "ANNOUNCING" /\ a.sent_num = 0)

\* What a host makes of a message: "restart", "defend" or "ignore".
Reaction(h, m) ==
  LET a == autoip[h]
  IN  IF ~netif[h].link \/ m.by = h \/ a.state = "OFF" THEN "ignore"
      ELSE IF Unused(a) THEN (IF Conflict(h, m) THEN "restart" ELSE "ignore")
      ELSE IF m.sip # a.ll THEN "ignore"
      ELSE IF a.lastconflict > 0 THEN "restart" ELSE "defend"

\* etharp_arp_input() answers a request for the interface's address.
Replies(m) ==
  UNION {Cast(h, netif[h].ip, m.sip) :
           h \in {x \in AHosts : x # m.by /\ netif[x].link /\ netif[x].ip # NoAddr /\ netif[x].ip = m.dip}}

Announces(m) ==
  UNION {Cast(h, autoip[h].ll, autoip[h].ll) : h \in {x \in AHosts : Reaction(x, m) = "defend"}}

\* autoip_arp_reply() and autoip_handle_arp_conflict() at every host, and the
\* answers.  A message that answers is not answered itself here.
Deliver(m, ttw) ==
  /\ \A h \in AHosts : Reaction(h, m) = "restart" => autoip[h].tried < MaxTried
  /\ autoip' = [h \in AHosts |->
       CASE Reaction(h, m) = "restart" -> Restarted(h, autoip[h], ttw)
         [] Reaction(h, m) = "defend"  -> [autoip[h] EXCEPT !.lastconflict = DEFEND_INTERVAL]
         [] OTHER -> autoip[h]]
  /\ netif' = [h \in AHosts |-> IF Reaction(h, m) = "restart" THEN Unset(netif[h]) ELSE netif[h]]
  /\ arp' = (arp \ {m}) \cup Announces(m) \cup (IF m.sip = m.dip THEN {} ELSE Replies(m))

\* The other machine claims an address.
Claim(a) ==
  /\ arp = {}
  /\ arp' = {[by |-> "other", sip |-> a, dip |-> a]}
  /\ UNCHANGED <<autoip, netif>>

Next ==
  \/ \E h \in AHosts, ttw \in Waits : autoip_start(h, ttw) \/ autoip_tmr(h, ttw) \/ LinkUp(h, ttw)
  \/ \E h \in AHosts : autoip_stop(h) \/ LinkDown(h)
  \/ \E m \in arp, ttw \in Waits : Deliver(m, ttw)
  \/ \E a \in Foreign : Claim(a)

Spec == Init /\ [][Next]_vars

-----------------------------------------------------------------------------
(* Properties.                                                             *)

\* Two hosts that can hear each other never use the same address, although they
\* begin with the same one, probe at the same time, and are cut off and joined
\* again.
NoDuplicateAddress ==
  \A g, h \in AHosts :
    /\ g # h /\ netif[g].link /\ netif[h].link /\ netif[g].up /\ netif[h].up
    /\ arp = {}
    => netif[g].ip # netif[h].ip

\* The address an interface uses is the one the host chose, and it is probed or
\* announced: no conflict leaves the interface up with the old address.
UsesChosen ==
  \A h \in AHosts :
    netif[h].up => /\ netif[h].ip = autoip[h].ll
                   /\ autoip[h].state \in {"ANNOUNCING", "BOUND"}
=============================================================================
