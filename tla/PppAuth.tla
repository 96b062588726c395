------------------------------- MODULE PppAuth ------------------------------
(***************************************************************************)
(* The phases of a PPP link and the authentication between them: auth.c,   *)
(* pap.c and chap.c of netif/ppp, both sides of either protocol, with the   *)
(* part of pppInput() that decides what a phase lets through.  LCP and IPCP *)
(* are reduced to the calls they make; the peer sends any packet at any     *)
(* time.  No rechallenge is ever sent: chal_interval is never set.          *)
(***************************************************************************)
EXTENDS Integers, Sequences, FiniteSets

CONSTANTS
  MaxLinks,       \* times LCP comes up
  MaxTransmits,   \* us_maxtransmits and max_transmits
  IdMod,          \* challenge identifiers wrap here
  MaxChallenges,  \* challenges of the peer
  AuthRequired,   \* what ppp_settings.auth_required may be
  Closes          \* lcp_close() may be called by the user

VARIABLE u        \* the unit

vars == <<u>>

None == "none"
Bits == {"CHAP_PEER", "PAP_PEER", "CHAP_WITHPEER", "PAP_WITHPEER"}

\* lcp is LCP's state as far as it matters, go and ho what it negotiated; cc, cs,
\* pc, ps the client and server states of CHAP and PAP; the t fields count the
\* pending timeouts; met holds what has been authenticated since the link is up.
Init ==
  \E required \in AuthRequired :
    u = [auth_required |-> required,
         phase |-> "DEAD", lcp |-> "DEAD", links |-> 0, go |-> None, ho |-> None,
         pending |-> {}, met |-> {}, challenged |-> 0,
         cc |-> "INITIAL", cs |-> "INITIAL", chal_id |-> 0, chal_transmits |-> 0,
         tchal |-> 0, tresp |-> 0,
         pc |-> "INITIAL", ps |-> "INITIAL", us_transmits |-> 0, treq |-> 0, tlisten |-> 0,
         num_np_open |-> 0, num_np_up |-> 0, ipcp |-> "INITIAL"]

TIMEOUT(n) == n + 1
UNTIMEOUT(n) == IF n = 0 THEN 0 ELSE n - 1

-----------------------------------------------------------------------------
(* CHAP and PAP: the lower layer and the calls of link_established().       *)

ChapGenChallenge(s) ==
  [s EXCEPT !.chal_id = (@ + 1) % IdMod, !.chal_transmits = 0]
ChapSendChallenge(s) ==
  [s EXCEPT !.tchal = TIMEOUT(@), !.chal_transmits = @ + 1]
ChapSendResponse(s) == [s EXCEPT !.cc = "RESPONSE", !.tresp = TIMEOUT(@)]
upap_sauthreq(s) ==
  [s EXCEPT !.treq = TIMEOUT(@), !.us_transmits = @ + 1, !.pc = "AUTHREQ"]

\* Nothing is PENDING when the lower layer comes up: the link is established first.
ChapLowerUp(s) ==
  [s EXCEPT !.cc = IF @ = "INITIAL" THEN "CLOSED" ELSE @,
            !.cs = IF @ = "INITIAL" THEN "CLOSED" ELSE @]
upap_lowerup(s) ==
  [s EXCEPT !.pc = IF @ = "INITIAL" THEN "CLOSED" ELSE @,
            !.ps = IF @ = "INITIAL" THEN "CLOSED" ELSE @]

ChapLowerDown(s) ==
  [s EXCEPT !.tchal = IF s.cs = "INITIAL_CHAL" THEN UNTIMEOUT(@) ELSE @,
            !.tresp = IF s.cc = "RESPONSE" THEN UNTIMEOUT(@) ELSE @,
            !.cc = "INITIAL", !.cs = "INITIAL"]
upap_lowerdown(s) ==
  [s EXCEPT !.treq = IF s.pc = "AUTHREQ" THEN UNTIMEOUT(@) ELSE @,
            !.tlisten = IF s.ps = "LISTEN" THEN UNTIMEOUT(@) ELSE @,
            !.pc = "INITIAL", !.ps = "INITIAL"]

ChapAuthPeer(s) == [ChapSendChallenge(ChapGenChallenge(s)) EXCEPT !.cs = "INITIAL_CHAL"]
ChapAuthWithPeer(s) == [s EXCEPT !.cc = "LISTEN"]
upap_authpeer(s) == [s EXCEPT !.ps = "LISTEN", !.tlisten = TIMEOUT(@)]
upap_authwithpeer(s) == upap_sauthreq([s EXCEPT !.us_transmits = 0])

-----------------------------------------------------------------------------
(* IPCP, by what fsm.c makes of these calls.                               *)

np_up(s)   == [s EXCEPT !.num_np_up = @ + 1]
np_down(s) == [s EXCEPT !.num_np_up = @ - 1]

ipcp_lowerup(s) ==
  [s EXCEPT !.ipcp = CASE @ = "INITIAL" -> "CLOSED" [] @ = "STARTING" -> "REQSENT" [] OTHER -> @]
ipcp_lowerdown(s) ==
  [IF s.ipcp = "OPENED" THEN np_down(s) ELSE s EXCEPT
     !.ipcp = CASE @ \in {"CLOSED", "CLOSING"} -> "INITIAL"
                [] @ \in {"REQSENT", "OPENED", "STOPPED"} -> "STARTING" [] OTHER -> @]
ipcp_open(s) ==
  [s EXCEPT !.ipcp = CASE @ = "INITIAL" -> "STARTING" [] @ = "CLOSED" -> "REQSENT" [] OTHER -> @]
ipcp_close(s) ==
  [IF s.ipcp = "OPENED" THEN np_down(s) ELSE s EXCEPT
     !.ipcp = CASE @ = "STARTING" -> "INITIAL" [] @ = "STOPPED" -> "CLOSED"
                [] @ \in {"REQSENT", "OPENED"} -> "CLOSING" [] OTHER -> @]

-----------------------------------------------------------------------------
(* auth.c                                                                  *)

link_down(s) ==
  [ipcp_close(ipcp_lowerdown(upap_lowerdown(ChapLowerDown(s)))) EXCEPT
     !.num_np_open = 0, !.num_np_up = 0,
     !.phase = IF @ = "DEAD" THEN @ ELSE "TERMINATE"]

\* fsm_close() of an OPENED LCP calls lcp_down() at once.
lcp_close(s) ==
  LET p == [s EXCEPT !.phase = IF @ = "DEAD" THEN @ ELSE "TERMINATE"]
  IN  [IF s.lcp = "OPENED" THEN link_down(p) ELSE p EXCEPT
         !.lcp = IF @ = "DEAD" THEN @ ELSE "CLOSING"]

\* IPCP is the one network protocol there is.
network_phase(s) == [ipcp_open([s EXCEPT !.phase = "NETWORK"]) EXCEPT !.num_np_open = @ + 1]

np_finished(s) ==
  LET t == [s EXCEPT !.num_np_open = @ - 1]
  IN  IF t.num_np_open <= 0 THEN lcp_close(t) ELSE t

\* Mutant: one success is taken for all.
ClearedAll(s, bit) == network_phase([s EXCEPT !.pending = {}, !.met = @ \cup {bit}])

\* auth_peer_success() and auth_withpeer_success()
Cleared(s, bit) ==
  LET t == [s EXCEPT !.pending = @ \ {bit}, !.met = @ \cup {bit}]
  IN  IF t.pending = {} THEN network_phase(t) ELSE t

auth_peer_fail(s) == lcp_close(s)
\* auth_withpeer_fail() sets an error code and leaves the rest to the peer.
auth_withpeer_fail(s) == s

\* What has to be done before the network phase.
Demanded(go, ho) ==
  (CASE go = "chap" -> {"CHAP_PEER"} [] go = "upap" -> {"PAP_PEER"} [] OTHER -> {})
  \cup (CASE ho = "chap" -> {"CHAP_WITHPEER"} [] ho = "upap" -> {"PAP_WITHPEER"} [] OTHER -> {})

\* null_login() accepts nobody: a peer that must authenticate itself and does not is
\* sent away.
link_established(s) ==
  LET l == [ipcp_lowerup(upap_lowerup(ChapLowerUp(s))) EXCEPT !.phase = "AUTHENTICATE", !.met = {}]
      p == CASE l.go = "chap" -> ChapAuthPeer(l) [] l.go = "upap" -> upap_authpeer(l)
             [] OTHER -> l
      w == CASE l.ho = "chap" -> ChapAuthWithPeer(p) [] l.ho = "upap" -> upap_authwithpeer(p)
             [] OTHER -> p
      a == [w EXCEPT !.pending = Demanded(l.go, l.ho)]
  IN  IF l.auth_required /\ l.go = None THEN lcp_close(l)
      ELSE IF a.pending = {} THEN network_phase(a) ELSE a

link_terminated(s) == [s EXCEPT !.phase = "DEAD"]

-----------------------------------------------------------------------------
(* LCP and IPCP.                                                           *)

lcp_open ==
  /\ u.lcp = "DEAD" /\ u.links < MaxLinks
  /\ u' = [u EXCEPT !.lcp = "ESTABLISH", !.phase = "ESTABLISH"]

lcp_up ==
  /\ u.lcp = "ESTABLISH" /\ u.links < MaxLinks
  /\ \E go, ho \in {None, "chap", "upap"} :
       u' = link_established([u EXCEPT !.lcp = "OPENED", !.links = @ + 1, !.go = go, !.ho = ho])

\* The peer renegotiates, or the line is lost and LCP starts again.
lcp_down ==
  /\ u.lcp = "OPENED"
  /\ u' = [link_down(u) EXCEPT !.lcp = "ESTABLISH"]

UserClose == Closes /\ u.lcp \in {"OPENED", "ESTABLISH"} /\ u' = lcp_close(u)

lcp_finished == u.lcp = "CLOSING" /\ u' = [link_terminated(u) EXCEPT !.lcp = "DEAD"]

\* lcp_rprotrej(): the peer does not know CHAP, PAP or IPCP.
ChapProtocolReject(s) ==
  ChapLowerDown(IF s.cs \notin {"INITIAL", "CLOSED"} THEN auth_peer_fail(s) ELSE s)
upap_protrej(s) ==
  upap_lowerdown(IF s.ps = "LISTEN" THEN auth_peer_fail(s) ELSE s)

lcp_rprotrej ==
  /\ u.lcp = "OPENED"
  /\ u' \in {ChapProtocolReject(u), upap_protrej(u)}

\* What pppInput() lets through beside LCP.
Passes(proto) ==
  /\ u.phase \in {"AUTHENTICATE", "NETWORK", "TERMINATE"}
  /\ proto = "IPCP" => u.phase # "AUTHENTICATE"

ipcp_up ==
  /\ u.ipcp = "REQSENT" /\ Passes("IPCP")
  /\ u' = np_up([u EXCEPT !.ipcp = "OPENED"])

\* IPCP gives up, is closed by its own end, or by the peer.
ipcp_finished ==
  /\ u.ipcp \in {"REQSENT", "OPENED", "CLOSING"}
  /\ u' = np_finished([IF u.ipcp = "OPENED" THEN np_down(u) ELSE u EXCEPT
                         !.ipcp = IF @ = "CLOSING" THEN "CLOSED" ELSE "STOPPED"])

-----------------------------------------------------------------------------
(* chap.c                                                                  *)

ChapChallengeTimeout ==
  /\ u.tchal > 0
  /\ LET s == [u EXCEPT !.tchal = @ - 1]
     IN  u' = IF s.cs # "INITIAL_CHAL" THEN s
              ELSE IF s.chal_transmits >= MaxTransmits
              THEN auth_peer_fail([s EXCEPT !.cs = "BADAUTH"])
              ELSE ChapSendChallenge(s)

ChapResponseTimeout ==
  /\ u.tresp > 0
  /\ LET s == [u EXCEPT !.tresp = @ - 1]
     IN  u' = IF s.cc # "RESPONSE" THEN s ELSE ChapSendResponse(s)

ChapReceiveChallenge(s) ==
  IF s.cc \in {"CLOSED", "PENDING"} \/ s.challenged = MaxChallenges THEN s
  ELSE ChapSendResponse([s EXCEPT !.tresp = IF s.cc = "RESPONSE" THEN UNTIMEOUT(@) ELSE @,
                                  !.challenged = @ + 1])

\* good: the digest is the one of the secret, the identifier and the challenge.
ChapReceiveResponse(s, id, good) ==
  IF s.cs \in {"CLOSED", "PENDING", "OPEN", "BADAUTH"} \/ id # s.chal_id THEN s
  ELSE LET t == [s EXCEPT !.tchal = UNTIMEOUT(@)]
       IN  IF ~good THEN auth_peer_fail([t EXCEPT !.cs = "BADAUTH"])
           ELSE IF s.cs = "INITIAL_CHAL" THEN Cleared([t EXCEPT !.cs = "OPEN"], "CHAP_PEER")
           ELSE [t EXCEPT !.cs = "OPEN"]

ChapReceiveSuccess(s) ==
  IF s.cc # "RESPONSE" THEN s
  ELSE Cleared([s EXCEPT !.tresp = UNTIMEOUT(@), !.cc = "OPEN"], "CHAP_WITHPEER")

ChapReceiveFailure(s) ==
  IF s.cc # "RESPONSE" THEN s ELSE auth_withpeer_fail([s EXCEPT !.tresp = UNTIMEOUT(@)])

ChapInput ==
  /\ Passes("CHAP")
  /\ u' \in {ChapReceiveChallenge(u), ChapReceiveSuccess(u), ChapReceiveFailure(u)}
            \cup {ChapReceiveResponse(u, id, good) : id \in 0..IdMod - 1, good \in BOOLEAN}

-----------------------------------------------------------------------------
(* pap.c                                                                   *)

upap_timeout ==
  /\ u.treq > 0
  /\ LET s == [u EXCEPT !.treq = @ - 1]
     IN  u' = IF s.pc # "AUTHREQ" THEN s
              ELSE IF s.us_transmits >= MaxTransmits
              THEN auth_withpeer_fail([s EXCEPT !.pc = "BADAUTH"])
              ELSE upap_sauthreq(s)

\* The state is set after the link has been taken down.
upap_reqtimeout ==
  /\ u.tlisten > 0
  /\ LET s == [u EXCEPT !.tlisten = @ - 1]
     IN  u' = IF s.ps # "LISTEN" THEN s ELSE [auth_peer_fail(s) EXCEPT !.ps = "BADAUTH"]

\* check_passwd() takes every password.
upap_rauthreq(s) ==
  IF s.ps # "LISTEN" THEN s
  ELSE [Cleared([s EXCEPT !.ps = "OPEN"], "PAP_PEER") EXCEPT !.tlisten = UNTIMEOUT(@)]

upap_rauthack(s) ==
  IF s.pc # "AUTHREQ" THEN s
  ELSE Cleared([s EXCEPT !.treq = UNTIMEOUT(@), !.pc = "OPEN"], "PAP_WITHPEER")

\* The timeout of the request is left running.
upap_rauthnak(s) ==
  IF s.pc # "AUTHREQ" THEN s ELSE auth_withpeer_fail([s EXCEPT !.pc = "BADAUTH"])

upap_input ==
  /\ Passes("PAP")
  /\ u' \in {upap_rauthreq(u), upap_rauthack(u), upap_rauthnak(u)}

-----------------------------------------------------------------------------
Next ==
  \/ lcp_open \/ lcp_up \/ lcp_down \/ UserClose \/ lcp_finished \/ lcp_rprotrej
  \/ ipcp_up \/ ipcp_finished
  \/ ChapInput \/ ChapChallengeTimeout \/ ChapResponseTimeout
  \/ upap_input \/ upap_timeout \/ upap_reqtimeout

\* Timeouts expire and a termination ends.
Fairness ==
  /\ WF_vars(ChapChallengeTimeout) /\ WF_vars(upap_timeout) /\ WF_vars(upap_reqtimeout)
  /\ WF_vars(lcp_finished)

Spec == Init /\ [][Next]_vars /\ Fairness

-----------------------------------------------------------------------------
(* Properties.                                                             *)

\* The network phase is entered only when everything LCP negotiated has been
\* authenticated on this very link, the peer if that is required: neither an earlier
\* link's success nor one of two answers is enough (auth_pending in link_established,
\* auth_peer_success and auth_withpeer_success).  LCP is open then, as the comment
\* "Toss all non-LCP packets unless LCP is OPEN" of pppInput (ppp.c:1637) has it, but
\* for one case: pppInput lets CHAP pass in the terminate phase, ChapReceiveChallenge
\* answers in state INITIAL, and the success that follows starts the network phase.
NetworkAuthenticated ==
  u.phase = "NETWORK" =>
    IF u.lcp = "OPENED"
    THEN /\ Demanded(u.go, u.ho) \subseteq u.met
         /\ u.auth_required => u.go # None
    ELSE u.cc = "OPEN"

\* The network protocol is up only on an open link in the network phase, whichever way
\* that began, and the count of those that are up is exact: link_down() leaves none
\* behind (num_np_up in np_up and np_down, ipcp_lowerdown, pppInput).
NetworkLate ==
  /\ u.ipcp = "OPENED" => u.lcp = "OPENED" /\ u.phase = "NETWORK"
  /\ u.num_np_up = (IF u.ipcp = "OPENED" THEN 1 ELSE 0)

Challenging == u.cs = "INITIAL_CHAL"
Listening == u.ps = "LISTEN"
Requesting == u.pc = "AUTHREQ"

\* No link waits for ever for a peer that does not authenticate itself, or to be
\* authenticated by PAP: transmissions are counted and the listener is timed
\* (chal_transmits, us_transmits, us_reqtimeout).
AuthEnds ==
  /\ Challenging ~> ~Challenging
  /\ Listening ~> ~Listening
  /\ Requesting ~> ~Requesting
=============================================================================
