------------------------------- MODULE PppUnit ------------------------------
(***************************************************************************)
(* The life of a PPP unit over a serial line, ppp.c of netif/ppp: the user  *)
(* opens and closes it, pppMain() reads in a thread of its own, and what it *)
(* and the user want of LCP is a callback of the tcpip thread, which also    *)
(* runs LCP's timeouts.  A unit that is free is opened again while callbacks *)
(* for it may still be queued.                                             *)
(***************************************************************************)
EXTENDS Integers, Sequences, FiniteSets

CONSTANTS
  TCPIP_MBOX_SIZE,
  MaxOpens,       \* sessions
  MaxHups         \* calls of pppSigHUP()

VARIABLES
  openFlag, kill_link, sig_hup, if_up,
  phase,          \* lcp_phase
  lcp,            \* the state of LCP's automaton, see PppFsm
  main,           \* the thread: "none", "start", "loop"
  mbox,           \* callbacks on their way to the tcpip thread
  opens, hups

vars == <<openFlag, kill_link, sig_hup, if_up, phase, lcp, main, mbox, opens, hups>>

Init ==
  /\ openFlag = FALSE /\ kill_link = FALSE /\ sig_hup = FALSE /\ if_up = FALSE
  /\ phase = "DEAD" /\ lcp = "INITIAL" /\ main = "none" /\ mbox = <<>>
  /\ opens = 0 /\ hups = 0

-----------------------------------------------------------------------------
(* The user's thread.                                                      *)

pppOverSerialOpen ==
  /\ ~openFlag /\ opens < MaxOpens
  /\ openFlag' = TRUE /\ kill_link' = FALSE /\ sig_hup' = FALSE /\ if_up' = FALSE
  /\ phase' = "INITIALIZE" /\ lcp' = "INITIAL" /\ main' = "start"
  /\ opens' = opens + 1 /\ UNCHANGED <<mbox, hups>>

pppClose ==
  /\ openFlag /\ kill_link' = TRUE
  /\ UNCHANGED <<openFlag, sig_hup, if_up, phase, lcp, main, mbox, opens, hups>>

pppSigHUP ==
  /\ openFlag /\ hups < MaxHups /\ hups' = hups + 1 /\ sig_hup' = TRUE
  /\ UNCHANGED <<openFlag, kill_link, if_up, phase, lcp, main, mbox, opens>>

-----------------------------------------------------------------------------
(* pppMain().                                                              *)

tcpip_callback(cb) == Len(mbox) < TCPIP_MBOX_SIZE /\ mbox' = Append(mbox, cb)

MainStart ==
  /\ main = "start" /\ tcpip_callback("pppStartCB") /\ main' = "loop"
  /\ UNCHANGED <<openFlag, kill_link, sig_hup, if_up, phase, lcp, opens, hups>>

\* Mutant: a wish to close is lost when the line hangs up at the same time.
LoopHupFirst ==
  /\ main = "loop"
  /\ IF phase = "DEAD" THEN /\ openFlag' = FALSE /\ main' = "none"
                            /\ UNCHANGED <<kill_link, sig_hup, mbox>>
     ELSE /\ kill_link \/ sig_hup
          /\ kill_link' = FALSE
          /\ IF kill_link THEN UNCHANGED <<sig_hup, mbox>>
             ELSE tcpip_callback("pppHupCB") /\ sig_hup' = FALSE
          /\ UNCHANGED <<openFlag, main>>
  /\ UNCHANGED <<if_up, phase, lcp, opens, hups>>

\* The last thing the thread does is to free the unit.
MainLoop ==
  /\ main = "loop"
  /\ IF phase = "DEAD" THEN /\ openFlag' = FALSE /\ main' = "none"
                            /\ UNCHANGED <<kill_link, sig_hup, mbox>>
     ELSE /\ kill_link \/ sig_hup
          /\ IF kill_link THEN /\ tcpip_callback("pppStopCB") /\ kill_link' = FALSE
                               /\ UNCHANGED sig_hup
             ELSE tcpip_callback("pppHupCB") /\ sig_hup' = FALSE /\ UNCHANGED kill_link
          /\ UNCHANGED <<openFlag, main>>
  /\ UNCHANGED <<if_up, phase, lcp, opens, hups>>

-----------------------------------------------------------------------------
(* The tcpip thread.                                                       *)

Ended == IF phase = "DEAD" THEN "DEAD" ELSE "TERMINATE"

\* lcp_lowerup() and lcp_open()
pppStartCB ==
  /\ lcp' = IF lcp \in {"INITIAL", "CLOSED", "STARTING"} THEN "REQSENT" ELSE lcp
  /\ phase' = "ESTABLISH" /\ UNCHANGED if_up

\* lcp_close(): an open LCP takes the interface down and says so to the peer.
pppStopCB ==
  /\ lcp' = (CASE lcp \in {"REQSENT", "OPENED"} -> "CLOSING" [] lcp = "STARTING" -> "INITIAL"
               [] lcp = "STOPPED" -> "CLOSED" [] OTHER -> lcp)
  /\ phase' = Ended /\ if_up' = (if_up /\ lcp # "OPENED")

\* lcp_lowerdown() and link_terminated()
pppHupCB ==
  /\ lcp' = (CASE lcp \in {"REQSENT", "OPENED", "STOPPED"} -> "STARTING"
               [] lcp \in {"CLOSING", "CLOSED"} -> "INITIAL" [] OTHER -> lcp)
  /\ phase' = "DEAD" /\ if_up' = (if_up /\ lcp # "OPENED")

Callback ==
  /\ mbox # <<>> /\ mbox' = Tail(mbox)
  /\ CASE Head(mbox) = "pppStartCB" -> pppStartCB
       [] Head(mbox) = "pppStopCB"  -> pppStopCB
       [] Head(mbox) = "pppHupCB"   -> pppHupCB
  /\ UNCHANGED <<openFlag, kill_link, sig_hup, main, opens, hups>>

Other == UNCHANGED <<openFlag, kill_link, sig_hup, main, mbox, opens, hups>>

\* The peer is heard as long as pppMain() reads.
LcpUp ==
  /\ main = "loop" /\ lcp = "REQSENT" /\ lcp' = "OPENED" /\ phase' = "NETWORK"
  /\ if_up' = TRUE /\ Other
\* It ends the link, or asks to negotiate anew.
LcpDown ==
  /\ main = "loop" /\ lcp = "OPENED" /\ lcp' \in {"REQSENT", "CLOSING"}
  /\ phase' = Ended /\ if_up' = FALSE /\ Other
\* A negotiation that fails, after many timeouts, each longer than a callback is
\* queued or a thread starts, and the end of a termination: link_terminated().
LcpGivesUp ==
  /\ mbox = <<>> /\ main # "start" /\ lcp = "REQSENT"
  /\ lcp' = "STOPPED" /\ phase' = "DEAD"
  /\ UNCHANGED if_up /\ Other
LcpFinished ==
  /\ lcp = "CLOSING" /\ lcp' = "CLOSED" /\ phase' = "DEAD" /\ UNCHANGED if_up /\ Other

-----------------------------------------------------------------------------
Next ==
  \/ pppOverSerialOpen \/ pppClose \/ pppSigHUP \/ MainStart \/ MainLoop
  \/ Callback \/ LcpUp \/ LcpDown \/ LcpGivesUp \/ LcpFinished

\* The two threads run, and the requests that end a link are sent only so often.
Fairness == WF_vars(MainStart) /\ WF_vars(MainLoop) /\ WF_vars(Callback) /\ WF_vars(LcpFinished)

Spec == Init /\ [][Next]_vars /\ Fairness

-----------------------------------------------------------------------------
(* Properties.                                                             *)

\* The interface of a unit is up only while the unit is open and LCP is: neither
\* a line that hangs up nor the callbacks an earlier session left behind leave an
\* interface without a thread that reads for it (sifup, sifdown, link_down).
IfUpOwned == if_up => openFlag /\ lcp = "OPENED"

Closing == openFlag /\ kill_link

\* A unit that is to be closed is free in the end, whatever crosses the wish: a
\* hang-up, the peer's own termination, a negotiation, callbacks of an earlier
\* session (kill_link, the loop of pppMain, lcp_close).
CloseEnds == Closing ~> ~openFlag
=============================================================================
