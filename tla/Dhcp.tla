-------------------------------- MODULE Dhcp --------------------------------
(***************************************************************************)
(* The DHCP client of one interface (core/dhcp.c) and a server.  Messages  *)
(* are lost, late or come twice; making one may fail for want of a pbuf.   *)
(* Durations of the retry timer are left out: it runs or not, and ends at  *)
(* any time.  T1 and T2 are counters of coarse ticks that wrap at 0.  The  *)
(* server offers a client the address it has leased to it.                 *)
(***************************************************************************)
EXTENDS Integers, FiniteSets

CONSTANTS
  Addrs,            \* addresses of the server's pool
  Leases,           \* times a server grants: ticks until renewing and rebinding, or Infinite
  T_WRAP,           \* the counter's largest value (0xffff)
  SELECT_TRIES, CHECK_TRIES, REBIND_TRIES, REBOOT_TRIES,
  MaxXid, MaxTries, MaxAnswers  \* bounds

VARIABLES
  dhcp,             \* the client: netif->dhcp, NoDhcp without one
  xid,              \* the transaction number, static in dhcp_create_request()
  nif,              \* the interface: up, ip_addr
  out, in,          \* the last request on its way, and the server's answers
  lease             \* the server's lease for this client

vars == <<dhcp, xid, nif, out, in, lease>>

Infinite == -1      \* 0xffffffff seconds

NoTimes == [t1 |-> 0, t2 |-> 0]

NoDhcp == [state |-> "NONE", tries |-> 0, xid |-> 0, offered |-> "any", server |-> FALSE,
           times |-> NoTimes, timer |-> FALSE, t1 |-> 0, t2 |-> 0]

\* A client cleared by memset().
Cleared == [NoDhcp EXCEPT !.state = "OFF"]

Init ==
  /\ dhcp = NoDhcp /\ xid = 0
  /\ nif = [up |-> FALSE, ip |-> "any"]
  /\ out = {} /\ in = {} /\ lease = "none"

\* What a call works on.
St == [d |-> dhcp, xid |-> xid, nif |-> nif, out |-> out]

Becomes(s) ==
  /\ s.xid <= MaxXid
  /\ dhcp' = s.d /\ xid' = s.xid /\ nif' = s.nif /\ out' = s.out

-----------------------------------------------------------------------------
(* Requests.                                                               *)

dhcp_set_state(s, st) ==
  IF s.d.state = st THEN s ELSE [s EXCEPT !.d.state = st, !.d.tries = 0]

\* dhcp_create_request(): the first message of a state begins a new transaction.
\* Without a pbuf neither changes.
dhcp_create_request(s) ==
  LET x == IF s.d.tries = 0 THEN s.xid + 1 ELSE s.xid
  IN  [s EXCEPT !.xid = x, !.d.xid = x]

\* The message type is sent with ciaddr or the requested address ip; the retry
\* timer runs also if it could not be.  A server address of 0 is nobody's.
Request(s, type, ip, unicast, ok) ==
  LET t == dhcp_create_request(s)
      m == [type |-> type, xid |-> t.xid, ip |-> ip]
      u == IF ~ok THEN s
           ELSE IF unicast /\ ~s.d.server THEN t ELSE [t EXCEPT !.out = {m}]
  IN  [u EXCEPT !.d.tries = IF @ < MaxTries THEN @ + 1 ELSE @, !.d.timer = TRUE]

dhcp_discover(s, ok) ==
  Request(dhcp_set_state([s EXCEPT !.d.offered = "any"], "SELECTING"), "DISCOVER", "any", FALSE, ok)

dhcp_select(s, ok) == Request(dhcp_set_state(s, "REQUESTING"), "REQUEST", s.d.offered, FALSE, ok)

dhcp_renew(s, ok) == Request(dhcp_set_state(s, "RENEWING"), "RENEW", s.nif.ip, TRUE, ok)

dhcp_rebind(s, ok) == Request(dhcp_set_state(s, "REBINDING"), "RENEW", s.nif.ip, FALSE, ok)

dhcp_reboot(s, ok) == Request(dhcp_set_state(s, "REBOOTING"), "RENEW", s.d.offered, FALSE, ok)

dhcp_decline(s, ok) ==
  Request(dhcp_set_state(s, "BACKING_OFF"), "DECLINE", s.d.offered, FALSE, ok)

Unconfigured(s) == [s EXCEPT !.nif = [up |-> FALSE, ip |-> "any"]]

\* dhcp_release(): the server's address is cleared before the message goes to it.
Released(s, ok) ==
  LET o == dhcp_set_state(s, "OFF")
      c == [o EXCEPT !.d.server = FALSE, !.d.offered = "any", !.d.times = NoTimes]
  IN  Unconfigured(Request(c, "RELEASE", "any", TRUE, ok))

\* dhcp_check(): asks by ARP whether anyone has the address.
dhcp_check(s) ==
  LET c == dhcp_set_state(s, "CHECKING")
  IN  [c EXCEPT !.d.tries = IF @ < MaxTries THEN @ + 1 ELSE @, !.d.timer = TRUE]

Ticks(old, offered) == CASE offered = Infinite -> old [] offered = 0 -> 1 [] OTHER -> offered

\* dhcp_bind(): T1 and T2 as offered, at least a tick; a counter without an end is
\* left as it is.
dhcp_bind(s) ==
  dhcp_set_state([s EXCEPT !.d.t1 = Ticks(@, s.d.times.t1),
                           !.d.t2 = Ticks(@, s.d.times.t2),
                           !.nif  = [up |-> TRUE, ip |-> s.d.offered]], "BOUND")

-----------------------------------------------------------------------------
(* Calls of the application.                                               *)

\* dhcp_start(), also of a client that runs: it is cleared and begins anew.  If
\* the first message cannot be made the client is freed (dhcp_stop()).
dhcp_start(ok) ==
  /\ IF ok THEN Becomes(dhcp_discover([St EXCEPT !.d = Cleared], TRUE))
           ELSE dhcp' = NoDhcp /\ UNCHANGED <<xid, nif, out>>
  /\ UNCHANGED <<in, lease>>

dhcp_stop ==
  /\ dhcp # NoDhcp
  /\ dhcp' = NoDhcp
  /\ UNCHANGED <<xid, nif, out, in, lease>>

dhcp_release(ok) ==
  /\ dhcp # NoDhcp
  /\ Becomes(Released(St, ok))
  /\ UNCHANGED <<in, lease>>

\* dhcp_inform(): a client of its own sends one message; the transaction number
\* is shared.
dhcp_inform ==
  /\ xid < MaxXid
  /\ xid' = xid + 1
  /\ UNCHANGED <<dhcp, nif, out, in, lease>>

dhcp_network_changed(ok) ==
  LET s == [St EXCEPT !.d.tries = 0]
  IN  /\ dhcp.state \notin {"NONE", "OFF"}
      /\ IF dhcp.state \in {"REBINDING", "RENEWING", "BOUND", "REBOOTING"}
         THEN Becomes(dhcp_reboot([s EXCEPT !.nif.up = FALSE], ok))
         ELSE Becomes(dhcp_discover(s, ok))
      /\ UNCHANGED <<in, lease>>

-----------------------------------------------------------------------------
(* Time.                                                                   *)

\* dhcp_timeout(): the retry timer of dhcp_fine_tmr() ended.
dhcp_timeout(s, ok) ==
  CASE s.d.state \in {"BACKING_OFF", "SELECTING"} -> dhcp_discover(s, ok)
    [] s.d.state = "REQUESTING" /\ s.d.tries <= SELECT_TRIES -> dhcp_select(s, ok)
    [] s.d.state = "REQUESTING" /\ s.d.tries > SELECT_TRIES -> dhcp_discover(Released(s, ok), ok)
    [] s.d.state = "CHECKING" /\ s.d.tries <= CHECK_TRIES -> dhcp_check(s)
    [] s.d.state = "CHECKING" /\ s.d.tries > CHECK_TRIES -> dhcp_bind(s)
    [] s.d.state = "RENEWING" -> dhcp_renew(s, ok)
    [] s.d.state = "REBINDING" /\ s.d.tries <= REBIND_TRIES -> dhcp_rebind(s, ok)
    [] s.d.state = "REBINDING" /\ s.d.tries > REBIND_TRIES -> dhcp_discover(Released(s, ok), ok)
    [] s.d.state = "REBOOTING" /\ s.d.tries < REBOOT_TRIES -> dhcp_reboot(s, ok)
    [] s.d.state = "REBOOTING" /\ s.d.tries >= REBOOT_TRIES -> dhcp_discover(s, ok)
    [] OTHER -> s

dhcp_fine_tmr(ok) ==
  /\ dhcp.timer
  /\ Becomes(dhcp_timeout([St EXCEPT !.d.timer = FALSE], ok))
  /\ UNCHANGED <<in, lease>>

Down(t) == IF t = 0 THEN T_WRAP ELSE t - 1

\* The states in which T1 and T2 are heeded.
Timely(s) == s.d.state \in {"REQUESTING", "BOUND", "RENEWING"}

dhcp_t1_timeout(s, ok) == IF Timely(s) THEN dhcp_renew(s, ok) ELSE s

dhcp_t2_timeout(s, ok) == IF Timely(s) THEN dhcp_rebind(s, ok) ELSE s

\* T1 does not count in the tick in which T2 ends.
Coarse(s, ok) ==
  LET a == [s EXCEPT !.d.t2 = Down(@)]
      b == [a EXCEPT !.d.t1 = Down(@)]
  IN  IF s.d.t2 = 1 THEN dhcp_t2_timeout(a, ok)
      ELSE IF s.d.t1 = 1 THEN dhcp_t1_timeout(b, ok) ELSE b

dhcp_coarse_tmr(ok) ==
  /\ dhcp # NoDhcp
  /\ Becomes(Coarse(St, ok))
  /\ UNCHANGED <<in, lease>>

-----------------------------------------------------------------------------
(* Replies.                                                                *)

\* Mutant: replies of earlier transactions are taken.
MatchesAny(m) == dhcp # NoDhcp

\* The transaction and the hardware address (a client has its own) are those of
\* the last request.
Matches(m) == dhcp # NoDhcp /\ m.xid = dhcp.xid

\* dhcp_handle_ack(): times and address of the lease are taken.
dhcp_handle_ack(s, m) == [s EXCEPT !.d.offered = m.ip, !.d.times = m.times]

\* dhcp_handle_offer(): an offer without the server's identifier is not taken; the
\* retry timer was stopped for it (see Reply).
dhcp_handle_offer(s, m, ok) ==
  IF m.id THEN dhcp_select([s EXCEPT !.d.server = TRUE, !.d.offered = m.ip], ok) ELSE s

dhcp_handle_nak(s, ok) == dhcp_discover(dhcp_set_state(Unconfigured(s), "BACKING_OFF"), ok)

\* dhcp_recv(): an answer to a renewal binds with what was offered before.
Reply(s, m, ok) ==
  LET u == [s EXCEPT !.d.timer = FALSE]
  IN  CASE m.type = "ACK" /\ s.d.state = "REQUESTING" -> dhcp_check(dhcp_handle_ack(u, m))
        [] m.type = "ACK" /\ s.d.state \in {"REBOOTING", "REBINDING", "RENEWING"} -> dhcp_bind(u)
        [] m.type = "NAK" /\ s.d.state \in {"REBOOTING", "REQUESTING", "REBINDING", "RENEWING"} ->
             dhcp_handle_nak(u, ok)
        [] m.type = "OFFER" /\ s.d.state = "SELECTING" -> dhcp_handle_offer(u, m, ok)
        [] OTHER -> s

dhcp_recv(m, ok) ==
  /\ Matches(m)
  /\ Becomes(Reply(St, m, ok))
  /\ UNCHANGED <<in, lease>>

\* The ARP answer of another host with the address.
dhcp_arp_reply(ok) ==
  /\ dhcp.state = "CHECKING"
  /\ Becomes(dhcp_decline(St, ok))
  /\ UNCHANGED <<in, lease>>

-----------------------------------------------------------------------------
(* The server.                                                             *)

\* An answer, with the server's identifier or without it, and the times granted.
Answer(q, type, a, id, times) ==
  /\ in' = in \cup {[type |-> type, xid |-> q.xid, ip |-> a, id |-> id, times |-> times]}
  /\ Cardinality(in') <= MaxAnswers

Offer(q, a) ==
  /\ q.type = "DISCOVER" /\ lease \in {"none", a}
  /\ \E id \in BOOLEAN : Answer(q, "OFFER", a, id, NoTimes)
  /\ UNCHANGED lease

Grant(q) ==
  LET held == lease = q.ip \/ (q.type = "REQUEST" /\ lease = "none")
  IN  /\ q.type \in {"REQUEST", "RENEW"}
      /\ \E l \in IF held THEN Leases ELSE {NoTimes} :
           Answer(q, IF held THEN "ACK" ELSE "NAK", q.ip, TRUE, l)
      /\ lease' = IF held THEN q.ip ELSE lease

Declined(q) == q.type = "DECLINE" /\ q.ip = lease /\ lease' = "none" /\ UNCHANGED in

\* The server's lease ends or is forgotten.
Revoke == lease # "none" /\ lease' = "none" /\ UNCHANGED in

Server ==
  /\ \/ \E q \in out : (\E a \in Addrs : Offer(q, a)) \/ Grant(q) \/ Declined(q)
     \/ Revoke
  /\ UNCHANGED <<dhcp, xid, nif, out>>

Next ==
  \/ \E ok \in BOOLEAN :
       \/ dhcp_start(ok) \/ dhcp_release(ok) \/ dhcp_network_changed(ok)
       \/ dhcp_fine_tmr(ok) \/ dhcp_coarse_tmr(ok) \/ dhcp_arp_reply(ok)
       \/ \E m \in in : dhcp_recv(m, ok)
  \/ dhcp_stop \/ dhcp_inform
  \/ Server

Spec == Init /\ [][Next]_vars

-----------------------------------------------------------------------------
(* Properties.                                                             *)

Awaiting == {"SELECTING", "REQUESTING", "CHECKING", "RENEWING", "REBINDING", "REBOOTING", "BACKING_OFF"}

\* An offer without the server's identifier came, or may have.
Unnamed == \E m \in in : m.type = "OFFER" /\ ~m.id /\ Matches(m)

\* The client hangs in one state only: in every state that awaits something the
\* retry timer runs, whatever could not be sent, except that an offer without the
\* server's identifier stops the timer of a selecting client (dhcp.c:1454) and is
\* not taken (dhcp.c:228).  A bound client has T1 or T2 ahead unless its lease is
\* infinite.
TimerRuns ==
  /\ dhcp.state \in Awaiting => dhcp.timer \/ (dhcp.state = "SELECTING" /\ Unnamed)
  /\ dhcp.state = "BOUND" =>
       dhcp.t1 + dhcp.t2 > 0 \/ dhcp.times = [t1 |-> Infinite, t2 |-> Infinite]

Acked(a) == \E m \in in : m.type = "ACK" /\ m.xid = dhcp'.xid /\ m.ip = a

\* An address that was checked is taken only if the server acknowledged this
\* address in the client's last transaction: late answers to earlier ones, offers
\* of other addresses and requests that could not be sent do not change that.
CheckedStep == dhcp.state = "CHECKING" /\ dhcp'.state = "BOUND" => Acked(nif'.ip)

CheckedAcked == [][CheckedStep]_vars
=============================================================================
