-------------------------------- MODULE PppOe -------------------------------
(***************************************************************************)
(* PPP over Ethernet, netif/ppp/ppp_oe.c and what ppp.c does for it: the    *)
(* discovery of an access concentrator, the session, its end, and the unit   *)
(* it belongs to.  Everything but pppOverEthernetOpen() and pppClose() runs  *)
(* in the tcpip thread.  Tags and cookies are left out, a Host-Uniq is the   *)
(* index of the softc.                                                     *)
(***************************************************************************)
EXTENDS Integers, Sequences, FiniteSets

CONSTANTS
  PPPOE_DISC_MAXPADI, PPPOE_DISC_MAXPADR,
  MaxOpens,       \* calls of pppOverEthernetOpen()
  MaxCalls,       \* calls of pppClose() and pppSigHUP()
  MaxAc,          \* answers of the concentrator
  MaxErrs         \* transmissions that find no memory

VARIABLES
  sc,             \* the list of softcs, oldest first
  openFlag, phase, lcp,
  cbs,            \* callbacks queued for the tcpip thread
  calls, ac, errs

unit == <<openFlag, phase, lcp, cbs>>
vars == <<sc, openFlag, phase, lcp, cbs, calls, ac, errs>>

\* t and tup count the pending pppoe_timeout and pppoe_linkstatus_up.
pppoe_create ==
  [state |-> "INITIAL", dest |-> "bcast", session |-> 0, padi |-> 0, padr |-> 0, t |-> 0, tup |-> 0]

Init ==
  /\ sc = <<>> /\ openFlag = FALSE /\ phase = "DEAD" /\ lcp = "INITIAL" /\ cbs = <<>>
  /\ calls = 0 /\ ac = 0 /\ errs = 0

Last == Len(sc)                  \* pc->pppoe_sc
Untimed(s) == [s EXCEPT !.t = IF @ = 0 THEN 0 ELSE @ - 1]
Timed(s)   == [s EXCEPT !.t = @ + 1]

\* pppoe_disconnect(): the PADT is sent from a timeout.
pppoe_disconnect(s) ==
  IF s.state \notin {"SESSION", "CLOSING"} THEN s ELSE Timed([s EXCEPT !.state = "CLOSING"])

\* pppLinkDown() and pppLinkTerminated() of the unit.
Disconnected(s) == [s EXCEPT ![Last] = pppoe_disconnect(@)]

-----------------------------------------------------------------------------
(* The user.                                                               *)

\* The timeout is set whether or not the PADI could be sent.
pppoe_connect(s) == Timed([s EXCEPT !.state = "PADI_SENT"])

pppOverEthernetOpen ==
  /\ ~openFlag /\ Len(sc) < MaxOpens
  /\ sc' = Append(sc, pppoe_connect(pppoe_create))
  /\ openFlag' = TRUE /\ phase' = "INITIALIZE" /\ lcp' = "INITIAL"
  /\ UNCHANGED <<cbs, calls, ac, errs>>

\* pppClose() and pppSigHUP()
UserCalls ==
  /\ openFlag /\ calls < MaxCalls /\ calls' = calls + 1
  /\ \E c \in {"pppStopCB", "pppHupCB"} : cbs' = Append(cbs, c)
  /\ UNCHANGED <<sc, openFlag, phase, lcp, ac, errs>>

-----------------------------------------------------------------------------
(* LCP, by what it does to the session.                                     *)

Ended == IF phase = "DEAD" THEN "DEAD" ELSE "TERMINATE"

\* What a hang-up makes of the automaton, and what lcp_close() does.
Hup(l) == CASE l \in {"REQSENT", "OPENED", "STOPPED"} -> "STARTING"
            [] l \in {"CLOSING", "CLOSED"} -> "INITIAL" [] OTHER -> l
Stop(l) == CASE l \in {"REQSENT", "OPENED"} -> "CLOSING" [] l = "STARTING" -> "INITIAL"
             [] l = "STOPPED" -> "CLOSED" [] OTHER -> l

\* lcp_lowerdown() and link_terminated(): an open LCP and a phase other than DEAD
\* each disconnect.
HupDisconnects(s) ==
  LET d == IF lcp = "OPENED" THEN Disconnected(s) ELSE s
  IN  IF phase # "DEAD" THEN Disconnected(d) ELSE d

Callback ==
  /\ cbs # <<>> /\ cbs' = Tail(cbs) /\ UNCHANGED <<calls, ac, errs>>
  /\ CASE Head(cbs) = "pppStartCB" ->
            /\ lcp' = IF lcp \in {"INITIAL", "CLOSED", "STARTING"} THEN "REQSENT" ELSE lcp
            /\ phase' = "ESTABLISH" /\ UNCHANGED <<sc, openFlag>>
       [] Head(cbs) = "pppStopCB" ->
            /\ lcp' = Stop(lcp) /\ phase' = Ended /\ UNCHANGED openFlag
            /\ sc' = IF lcp = "OPENED" THEN Disconnected(sc) ELSE sc
       [] Head(cbs) = "pppHupCB" ->
            /\ lcp' = Hup(lcp) /\ phase' = "DEAD" /\ UNCHANGED openFlag
            /\ sc' = HupDisconnects(sc)
       \* pppOverEthernetInitFailed(): pppoe_destroy() is given the interface of
       \* the unit, finds no softc for it and frees none.
       [] Head(cbs) = "InitFailed" ->
            /\ lcp' = Stop(Hup(lcp)) /\ phase' = "DEAD" /\ openFlag' = FALSE
            /\ sc' = HupDisconnects(sc)

\* The peer's part, heard through the session.
Heard == sc # <<>> /\ sc[Last].state = "SESSION"
LcpUp ==
  /\ Heard /\ lcp = "REQSENT" /\ lcp' = "OPENED" /\ phase' = "NETWORK"
  /\ UNCHANGED <<sc, openFlag, cbs, calls, ac, errs>>
\* Also a renegotiation calls link_down() and with it disconnects.
LcpDown ==
  /\ Heard /\ lcp = "OPENED" /\ lcp' \in {"REQSENT", "CLOSING"} /\ phase' = Ended
  /\ sc' = Disconnected(sc) /\ UNCHANGED <<openFlag, cbs, calls, ac, errs>>
LcpFinished ==
  /\ lcp \in {"REQSENT", "CLOSING"} /\ lcp' = (IF lcp = "CLOSING" THEN "CLOSED" ELSE "STOPPED")
  /\ phase' = "DEAD" /\ sc' = (IF phase = "DEAD" THEN sc ELSE Disconnected(sc))
  /\ UNCHANGED <<openFlag, cbs, calls, ac, errs>>

-----------------------------------------------------------------------------
(* Discovery.                                                              *)

\* sc_linkStatusCB(pd, 0)
Failed == cbs' = Append(cbs, "InitFailed")

Softc(i, s) == sc' = [sc EXCEPT ![i] = s]
Keep == UNCHANGED <<openFlag, phase, lcp, calls>>

\* pppoe_abort_connect()
Aborted(s) == [s EXCEPT !.state = "INITIAL", !.padi = @ + 1, !.dest = "bcast"]

\* The PADT goes out, if it can, and the session is over.
pppoe_do_disconnect(s) == [s EXCEPT !.state = "INITIAL", !.dest = "bcast", !.session = 0]

\* What a PADI or PADR that could not be sent makes of the count of retries.
Sends(k, e) == k - (IF e THEN 1 ELSE 0)

PadiAgain(s, e) == Timed([s EXCEPT !.padi = Sends(@ + 1, e)])

\* pppoe_timeout()
pppoe_timeout(i) ==
  LET s == Untimed(sc[i])
  IN  /\ sc[i].t > 0 /\ Keep /\ UNCHANGED ac
      /\ \E e \in BOOLEAN :
           /\ e => errs < MaxErrs /\ s.state \in {"PADI_SENT", "PADR_SENT"}
           /\ errs' = errs + (IF e THEN 1 ELSE 0)
           /\ CASE s.state = "PADI_SENT" /\ s.padi + 1 >= PPPOE_DISC_MAXPADI ->
                     Softc(i, Aborted(s)) /\ Failed
                [] s.state = "PADI_SENT" /\ s.padi + 1 < PPPOE_DISC_MAXPADI ->
                     Softc(i, PadiAgain(s, e)) /\ UNCHANGED cbs
                [] s.state = "PADR_SENT" /\ s.padr + 1 >= PPPOE_DISC_MAXPADR ->
                     /\ Softc(i, Timed([s EXCEPT !.state = "PADI_SENT", !.padr = 0, !.dest = "bcast"]))
                     /\ UNCHANGED cbs
                [] s.state = "PADR_SENT" /\ s.padr + 1 < PPPOE_DISC_MAXPADR ->
                     Softc(i, Timed([s EXCEPT !.padr = Sends(@ + 1, e)])) /\ UNCHANGED cbs
                [] s.state = "CLOSING" ->
                     Softc(i, pppoe_do_disconnect(s)) /\ Failed
                [] OTHER -> Softc(i, s) /\ UNCHANGED cbs

pppoe_linkstatus_up(i) ==
  /\ sc[i].tup > 0 /\ Softc(i, [sc[i] EXCEPT !.tup = @ - 1])
  /\ cbs' = Append(cbs, "pppStartCB") /\ Keep /\ UNCHANGED <<ac, errs>>

\* A softc is found by the token of its requests only during discovery.
pppoe_find_softc_by_hunique(i) == sc[i].state \in {"PADI_SENT", "PADR_SENT"}

\* An offer is taken by asking the concentrator that made it.
PADO(s) == Timed([Untimed(s) EXCEPT !.state = "PADR_SENT", !.dest = "ac", !.padr = 0])

PADS(s) == [Untimed(s) EXCEPT !.state = "SESSION", !.session = 1, !.tup = @ + 1]

pppoe_clear_softc(s) == [Untimed(s) EXCEPT !.state = "INITIAL", !.dest = "bcast", !.session = 0]

\* A packet of the concentrator: an offer, a session or the end of one.
pppoe_dispatch_disc_pkt(i) ==
  /\ ac < MaxAc /\ ac' = ac + 1 /\ Keep /\ UNCHANGED errs
  /\ pppoe_find_softc_by_hunique(i)
  /\ \/ sc[i].state = "PADI_SENT" /\ Softc(i, PADO(sc[i])) /\ UNCHANGED cbs
     \/ Softc(i, PADS(sc[i])) /\ UNCHANGED cbs
     \/ Softc(i, pppoe_clear_softc(sc[i])) /\ Failed

-----------------------------------------------------------------------------
Discovery(i) == pppoe_timeout(i) \/ pppoe_linkstatus_up(i) \/ pppoe_dispatch_disc_pkt(i)

Next ==
  \/ pppOverEthernetOpen \/ UserCalls \/ Callback \/ LcpUp \/ LcpDown \/ LcpFinished
  \/ \E i \in 1..Len(sc) : Discovery(i)

\* The tcpip thread runs what is queued and due.
Fairness ==
  /\ WF_vars(Callback) /\ WF_vars(LcpFinished)
  /\ \A i \in 1..MaxOpens : WF_vars(i <= Len(sc) /\ pppoe_timeout(i))

Spec == Init /\ [][Next]_vars /\ Fairness

-----------------------------------------------------------------------------
(* Properties.                                                             *)

\* The softcs earlier sessions leave behind are inert: at most one takes part in
\* discovery or carries a session, and none does for a unit that is free
\* (the state is INITIAL whenever sc_linkStatusCB(pd, 0) frees the unit).
OneSession ==
  /\ \A i \in 1..Len(sc) : sc[i].state # "INITIAL" => i = Last
  /\ ~openFlag => \A i \in 1..Len(sc) : sc[i].state = "INITIAL"

Busy(i) == i <= Len(sc) /\ sc[i].state \in {"PADI_SENT", "PADR_SENT", "CLOSING"}

\* Discovery ends and so does a session that is being closed: retries are counted,
\* and however LCP, the user and the concentrator cross, a timeout is left to end
\* it (pppoe_timeout, pppoe_disconnect).
DiscoveryEnds ==
  \A i \in 1..MaxOpens : Busy(i) ~> ~Busy(i)
=============================================================================
