------------------------------- MODULE PppIpcp ------------------------------
(***************************************************************************)
(* What IPCP negotiates, netif/ppp/ipcp.c: addresses, Van Jacobson header   *)
(* compression and the name servers.  As in PppLcp a request waits for its   *)
(* answer; packets and timers are PppFsm's.  The two name servers are one,  *)
(* and the form of the compression option of RFC 1172, which only other      *)
(* implementations ask for, is left out.                                   *)
(***************************************************************************)
EXTENDS Integers, Sequences, FiniteSets

CONSTANTS
  Ends,
  WantSet,        \* by end: wantoptions: ouraddr, hisaddr, neg_vj, slots, cflag, usepeerdns
  AllowSet,       \* by end: allowoptions: neg_addr, neg_vj, slots, cflag, dns
  MaxNakLoops

VARIABLES
  wo, ao, go, ho,
  req_addr,       \* wantoptions' req_addr: the peer is still to tell its address
  cis_received,   \* the peer's request has been seen
  req, ans, st, nakloops

vars == <<wo, ao, go, ho, req_addr, cis_received, req, ans, st, nakloops>>

NoAddr == "0.0.0.0"
Nothing == [none |-> TRUE]
Other(n) == CHOOSE m \in Ends : m # n

\* ipcp_resetci(): an address that is not configured is the peer's to choose.
ipcp_resetci(n) ==
  [neg_addr |-> TRUE, old_addrs |-> FALSE, ouraddr |-> wo[n].ouraddr, hisaddr |-> wo[n].hisaddr,
   neg_vj |-> wo[n].neg_vj, slots |-> wo[n].slots, cflag |-> wo[n].cflag,
   req_dns |-> wo[n].usepeerdns, dns |-> NoAddr]
accept_local(n) == wo[n].ouraddr = NoAddr
accept_remote(n) == wo[n].hisaddr = NoAddr

Init ==
  /\ wo \in {w \in [Ends -> UNION {WantSet[n] : n \in Ends}] : \A n \in Ends : w[n] \in WantSet[n]}
  /\ ao \in {a \in [Ends -> UNION {AllowSet[n] : n \in Ends}] : \A n \in Ends : a[n] \in AllowSet[n]}
  /\ go = [n \in Ends |-> ipcp_resetci(n)]
  /\ ho = [n \in Ends |-> <<>>]
  /\ req_addr = [n \in Ends |-> ao[n].neg_addr]
  /\ cis_received = [n \in Ends |-> FALSE]
  /\ req = [n \in Ends |-> Nothing] /\ ans = [n \in Ends |-> Nothing]
  /\ st = [n \in Ends |-> "asking"] /\ nakloops = [n \in Ends |-> 0]

-----------------------------------------------------------------------------
(* Requests.                                                               *)

\* ipcp_cilen() changes what is asked for: a rejected address is asked for in the
\* old form, rejected compression once more as long as the peer was not heard.
ipcp_cilen(n) ==
  LET g == go[n]
      old == ~g.neg_addr /\ ~g.old_addrs
  IN  [g EXCEPT !.neg_addr = @ \/ old, !.old_addrs = @ \/ old,
                !.neg_vj = @ \/ (wo[n].neg_vj /\ ~cis_received[n])]

\* ipcp_addci()
ipcp_addci(g) ==
  LET d == (IF g.neg_addr THEN {IF g.old_addrs THEN "addrs" ELSE "addr"} ELSE {})
           \cup (IF g.neg_vj THEN {"vj"} ELSE {}) \cup (IF g.req_dns THEN {"dns"} ELSE {})
  IN  [o \in d |-> CASE o = "addr" -> g.ouraddr [] o = "addrs" -> <<g.ouraddr, g.hisaddr>>
                     [] o = "vj" -> [slots |-> g.slots, cflag |-> g.cflag]
                     [] o = "dns" -> g.dns]

Ask(n) ==
  /\ st[n] = "asking" /\ req[n] = Nothing /\ ans[n] = Nothing
  /\ go' = [go EXCEPT ![n] = ipcp_cilen(n)]
  /\ req' = [req EXCEPT ![n] = ipcp_addci(ipcp_cilen(n))]
  /\ UNCHANGED <<wo, ao, ho, req_addr, cis_received, ans, st, nakloops>>

-----------------------------------------------------------------------------
(* Answers: ipcp_reqci().                                                  *)

Ack == [orc |-> "ACK"]
Rej == [orc |-> "REJ"]
Nak(v) == [orc |-> "NAK", val |-> v]

\* The peer's address is the one configured for it, or, if none is, any it names.
JudgedAddr(n, v) ==
  IF v # wo[n].hisaddr /\ (v = NoAddr \/ ~accept_remote(n)) THEN Nak(wo[n].hisaddr)
  ELSE IF v = NoAddr THEN Rej ELSE Ack

JudgedVj(n, v) ==
  LET w == [slots |-> IF v.slots > ao[n].slots THEN ao[n].slots ELSE v.slots,
            cflag |-> IF v.cflag /\ ~ao[n].cflag THEN wo[n].cflag ELSE v.cflag]
  IN  IF v.slots > ao[n].slots \/ (v.cflag /\ ~ao[n].cflag) THEN Nak(w) ELSE Ack

Judged(n, o, v) ==
  CASE o = "addr"  -> IF ~ao[n].neg_addr THEN Rej ELSE JudgedAddr(n, v)
    [] o = "addrs" -> Rej
    [] o = "vj"    -> IF ~ao[n].neg_vj THEN Rej ELSE JudgedVj(n, v)
    [] o = "dns"   -> IF ao[n].dns = NoAddr THEN Rej
                      ELSE IF v # ao[n].dns THEN Nak(ao[n].dns) ELSE Ack

\* The answer, and whether it asks for the peer's address: once, if the request
\* names none and would otherwise be acknowledged.
ipcp_reqci(n, r) ==
  LET tired == nakloops[n] >= MaxNakLoops
      v  == [o \in DOMAIN r |-> LET j == Judged(n, o, r[o])
                                IN  IF j.orc = "NAK" /\ tired THEN Rej ELSE j]
      of(orc) == {o \in DOMAIN r : v[o].orc = orc}
      named == "addr" \in DOMAIN r /\ Judged(n, "addr", r["addr"]).orc # "REJ"
      asks == of("REJ") = {} /\ ~named /\ req_addr[n] /\ ~tired
      naks == [o \in of("NAK") \cup (IF asks THEN {"addr"} ELSE {}) |->
                 IF o \in of("NAK") THEN v[o].val ELSE wo[n].hisaddr]
  IN  [code |-> IF of("REJ") # {} THEN "REJ" ELSE IF DOMAIN naks # {} THEN "NAK" ELSE "ACK",
       opts |-> IF of("REJ") # {} THEN [o \in of("REJ") |-> r[o]]
                ELSE IF DOMAIN naks # {} THEN naks ELSE r,
       req_addr |-> req_addr[n]
                    /\ ~(asks /\ of("NAK") = {})
                    /\ ~("addr" \in DOMAIN r /\ ao[n].neg_addr
                         /\ r["addr"] = NoAddr /\ accept_remote(n))]

Answer(n) ==
  LET m == Other(n)
      a == ipcp_reqci(m, req[n])
  IN  /\ req[n] # Nothing
      /\ req' = [req EXCEPT ![n] = Nothing]
      /\ ans' = [ans EXCEPT ![n] = [code |-> a.code, opts |-> a.opts]]
      /\ ho' = [ho EXCEPT ![m] = IF a.code = "ACK" THEN req[n] ELSE <<>>]
      /\ req_addr' = [req_addr EXCEPT ![m] = a.req_addr]
      /\ cis_received' = [cis_received EXCEPT ![m] = TRUE]
      /\ nakloops' = [nakloops EXCEPT ![m] = IF a.code = "ACK" THEN 0
                                             ELSE IF a.code = "NAK" THEN @ + 1 ELSE @]
      /\ UNCHANGED <<wo, ao, go, st>>

-----------------------------------------------------------------------------
(* What is made of an answer.                                              *)

Given(n, a) == IF accept_local(n) /\ a # NoAddr THEN a ELSE go[n].ouraddr

\* ipcp_nakci(): an address is adopted by who has none of its own; an address the
\* peer asks for unasked is told in the next request.
Adopted(n, q) ==
  LET d == DOMAIN q
      ours == IF "addr" \in d THEN Given(n, q["addr"]) ELSE go[n].ouraddr
      unasked == "addr" \in d /\ ~(go[n].neg_addr /\ ~go[n].old_addrs)
  IN  [go[n] EXCEPT !.ouraddr = ours,
         !.old_addrs = @ /\ ~unasked,
         !.neg_addr = @ \/ (unasked /\ ours # NoAddr),
         !.slots = IF "vj" \in d /\ q["vj"].slots < @ THEN q["vj"].slots ELSE @,
         !.cflag = @ /\ ~("vj" \in d /\ ~q["vj"].cflag),
         !.dns = IF "dns" \in d THEN q["dns"] ELSE @]

\* An unasked address while the old form is asked for is no answer.
NakBad(n, q) == "addr" \in DOMAIN q /\ go[n].neg_addr /\ go[n].old_addrs

ipcp_nakci(n) ==
  /\ ans[n].code = "NAK"
  /\ IF NakBad(n, ans[n].opts) THEN st' = [st EXCEPT ![n] = "bad"] /\ UNCHANGED go
     ELSE go' = [go EXCEPT ![n] = Adopted(n, ans[n].opts)] /\ UNCHANGED st

ipcp_rejci(n) ==
  LET d == DOMAIN ans[n].opts
  IN  /\ ans[n].code = "REJ"
      /\ go' = [go EXCEPT ![n].neg_addr = @ /\ d \cap {"addr", "addrs"} = {},
                          ![n].neg_vj = @ /\ "vj" \notin d,
                          ![n].req_dns = @ /\ "dns" \notin d]
      /\ UNCHANGED st

ipcp_ackci(n) ==
  /\ ans[n].code = "ACK"
  /\ st' = [st EXCEPT ![n] = IF ans[n].opts = ipcp_addci(go[n]) THEN "acked" ELSE "bad"]
  /\ UNCHANGED go

Take(n) ==
  /\ ans[n] # Nothing
  /\ ipcp_nakci(n) \/ ipcp_rejci(n) \/ ipcp_ackci(n)
  /\ ans' = [ans EXCEPT ![n] = Nothing]
  /\ UNCHANGED <<wo, ao, ho, req_addr, cis_received, req, nakloops>>

\* ipcp_up(): without both addresses the protocol is closed again.
HisAddr(n) == IF "addr" \in DOMAIN ho[n] THEN ho[n]["addr"] ELSE wo[n].hisaddr

ipcp_up(n) ==
  /\ \A m \in Ends : st[m] \in {"acked", "up", "closed"}
  /\ st[n] = "acked"
  /\ st' = [st EXCEPT ![n] = IF HisAddr(n) = NoAddr \/ go[n].ouraddr = NoAddr
                             THEN "closed" ELSE "up"]
  /\ UNCHANGED <<wo, ao, go, ho, req_addr, cis_received, req, ans, nakloops>>

Next == \E n \in Ends : Ask(n) \/ Answer(n) \/ Take(n) \/ ipcp_up(n)

\* PppFsm sends a request again until it is answered, at each end.
Spec ==
  /\ Init /\ [][Next]_vars
  /\ \A n \in Ends : WF_vars(Ask(n)) /\ WF_vars(Answer(n)) /\ WF_vars(Take(n)) /\ WF_vars(ipcp_up(n))

-----------------------------------------------------------------------------
(* Properties.                                                             *)

\* When both ends are up they mean the same: an end that let its address be chosen
\* uses the address the other one will route to, compressed headers use no more
\* slots than either end has, and the name server is one the peer really named
\* (ipcp_reqci, ipcp_nakci, ipcp_up).
IpcpAgrees ==
  (\A n \in Ends : st[n] = "up") =>
    \A n \in Ends :
      LET m == Other(n)
      IN  /\ accept_local(n) => go[n].ouraddr = HisAddr(m)
          /\ "vj" \in DOMAIN ho[m] =>
               /\ go[n].neg_vj /\ ho[m]["vj"].slots <= wo[n].slots
               /\ ho[m]["vj"].slots <= ao[m].slots
          /\ go[n].req_dns => go[n].dns = ao[m].dns /\ go[n].dns # NoAddr

Concluded == \A n \in Ends : st[n] \in {"up", "closed"}

\* Every negotiation ends, whatever is configured at either end: with the
\* interface up or the protocol closed (ipcp_cilen, ipcp_rejci, req_addr,
\* maxnakloops).
IpcpConverges == <>Concluded
=============================================================================
