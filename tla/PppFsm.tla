------------------------------- MODULE PppFsm -------------------------------
(***************************************************************************)
(* The finite state machine of PPP's control protocols, netif/ppp/fsm.c,   *)
(* which LCP and IPCP both are: two peers that run it over a link that      *)
(* keeps the order of what it carries and may lose any of it.  What is      *)
(* negotiated is one option: a value the peer acknowledges, answers with a  *)
(* better one (CONFNAK) or rejects, 0 standing for the option left out.     *)
(***************************************************************************)
EXTENDS Integers, Sequences, FiniteSets

CONSTANTS
  Peers,          \* the two ends
  Wants,          \* the values resetci() may start a negotiation with
  Accepts,        \* by peer: the values its reqci() acknowledges
  Hint,           \* by peer: the value it puts into a CONFNAK
  MaxConfReqs,    \* maxconfreqtransmits
  MaxTermReqs,    \* maxtermtransmits
  MaxNakLoops,    \* maxnakloops
  IdMod,          \* identifiers wrap here
  LinkCap,        \* packets under way in one direction, others are lost
  MaxOps,         \* calls of open, close, lower layer up and down, Protocol-Rejects
  MaxLost,        \* packets lost otherwise
  MaxLate,        \* timeouts that expire with a packet still under way
  MaxSlips,       \* by peer: Terminate-Acks taken in OPENED
  Calls           \* what there is of "up", "down", "open", "close", "protrej", "other"

VARIABLES
  f,              \* the struct fsm of each peer
  link,           \* by sender: packets under way
  ops, lost, late

vars == <<f, link, ops, lost, late>>

States == {"INITIAL", "STARTING", "CLOSED", "STOPPED", "CLOSING", "STOPPING",
           "REQSENT", "ACKRCVD", "ACKSENT", "OPENED"}
Negotiating == {"REQSENT", "ACKRCVD", "ACKSENT"}

\* up and timer are what the callbacks and TIMEOUT() have been told last; want is
\* gotoptions, his the options last acknowledged; out what the handler sends.  misuse
\* and slips are history: up() or down() called twice in a row, and the
\* Terminate-Acks that were taken in OPENED.
fsm_init ==
  [state |-> "INITIAL", id |-> 0, reqid |-> 0, seen_ack |-> FALSE, retransmits |-> 0,
   nakloops |-> 0, timer |-> 0, up |-> FALSE, misuse |-> FALSE, slips |-> 0, want |-> 0,
   his |-> 0, out |-> <<>>]

Init ==
  /\ f = [n \in Peers |-> fsm_init] /\ link = [n \in Peers |-> <<>>]
  /\ ops = 0 /\ lost = 0 /\ late = 0

Peer(n) == CHOOSE m \in Peers : m # n

-----------------------------------------------------------------------------
(* What the handlers are made of.                                          *)

To(s, state) == [s EXCEPT !.state = state]
fsm_sdata(s, code, id, val) ==
  [s EXCEPT !.out = Append(@, [code |-> code, id |-> id, val |-> val])]
TIMEOUT(s) == [s EXCEPT !.timer = @ + 1]
UNTIMEOUT(s) == [s EXCEPT !.timer = IF @ = 0 THEN 0 ELSE @ - 1]

\* The layer above is told; telling it twice is a misuse.
Up(s)   == [s EXCEPT !.up = TRUE, !.misuse = @ \/ s.up]
Down(s) == [s EXCEPT !.up = FALSE, !.misuse = @ \/ ~s.up]

\* fsm_sconfreq(): a negotiation that is not under way starts from want.
fsm_sconfreq(s, retransmit, want) ==
  LET r == IF s.state \in Negotiating THEN s
           ELSE [s EXCEPT !.want = want, !.nakloops = 0]
      q == IF retransmit THEN r
           ELSE [r EXCEPT !.retransmits = MaxConfReqs, !.id = (@ + 1) % IdMod,
                          !.reqid = (r.id + 1) % IdMod]
  IN  TIMEOUT([fsm_sdata(q, "CONFREQ", q.reqid, q.want)
                 EXCEPT !.seen_ack = FALSE, !.retransmits = @ - 1])

\* A TERMREQ under a new identifier, and the timeout for it.
Term(s) ==
  LET i == (s.id + 1) % IdMod
  IN  TIMEOUT([fsm_sdata(s, "TERMREQ", i, 0)
                 EXCEPT !.id = i, !.reqid = i, !.retransmits = @ - 1])
TermFirst(s) == Term([s EXCEPT !.retransmits = MaxTermReqs])

-----------------------------------------------------------------------------
(* The layer below and the user.                                           *)

fsm_lowerup(s, want) ==
  CASE s.state = "INITIAL"  -> To(s, "CLOSED")
    [] s.state = "STARTING" -> To(fsm_sconfreq(s, FALSE, want), "REQSENT")
    [] OTHER -> s

\* Mutant: the timer of a negotiation keeps running when the link is lost.
LowerdownTimed(s) ==
  CASE s.state = "CLOSED"  -> To(s, "INITIAL")
    [] s.state = "STOPPED" -> To(s, "STARTING")
    [] s.state = "CLOSING" -> To(UNTIMEOUT(s), "INITIAL")
    [] s.state \in Negotiating \cup {"STOPPING"} -> To(s, "STARTING")
    [] s.state = "OPENED"  -> To(Down(s), "STARTING")
    [] OTHER -> s

fsm_lowerdown(s) ==
  CASE s.state = "CLOSED"  -> To(s, "INITIAL")
    [] s.state = "STOPPED" -> To(s, "STARTING")
    [] s.state = "CLOSING" -> To(UNTIMEOUT(s), "INITIAL")
    [] s.state \in Negotiating \cup {"STOPPING"} -> To(UNTIMEOUT(s), "STARTING")
    [] s.state = "OPENED"  -> To(Down(s), "STARTING")
    [] OTHER -> s

\* OPT_RESTART and OPT_SILENT are never set by lcp_open() and ipcp_open() as
\* they are configured.
fsm_open(s, want) ==
  CASE s.state = "INITIAL" -> To(s, "STARTING")
    [] s.state = "CLOSED"  -> To(fsm_sconfreq(s, FALSE, want), "REQSENT")
    [] s.state = "CLOSING" -> To(s, "STOPPING")
    [] OTHER -> s

fsm_close(s) ==
  CASE s.state = "STARTING" -> To(s, "INITIAL")
    [] s.state = "STOPPED"  -> To(s, "CLOSED")
    [] s.state = "STOPPING" -> To(s, "CLOSING")
    [] s.state \in Negotiating -> To(TermFirst(UNTIMEOUT(s)), "CLOSING")
    [] s.state = "OPENED"   -> To(TermFirst(Down(s)), "CLOSING")
    [] OTHER -> s

\* The peer does not know the protocol: what there is of it ends.
fsm_protreject(s) ==
  CASE s.state = "CLOSING" -> To(UNTIMEOUT(s), "CLOSED")
    [] s.state \in Negotiating \cup {"STOPPING"} -> To(UNTIMEOUT(s), "STOPPED")
    [] s.state = "OPENED"  -> To(TermFirst(Down(s)), "STOPPING")
    [] OTHER -> s

fsm_timeout(s, want) ==
  LET t == [s EXCEPT !.timer = @ - 1]
  IN  CASE s.state \in {"CLOSING", "STOPPING"} ->
             IF s.retransmits <= 0
             THEN To(t, IF s.state = "CLOSING" THEN "CLOSED" ELSE "STOPPED") ELSE Term(t)
        [] s.state \in Negotiating ->
             IF s.retransmits <= 0 THEN To(t, "STOPPED")
             ELSE To(fsm_sconfreq(t, TRUE, want),
                     IF s.state = "ACKRCVD" THEN "REQSENT" ELSE s.state)
        [] OTHER -> t

-----------------------------------------------------------------------------
(* Packets.                                                                *)

\* reqci(): what is answered to a request.
Verdict(n, s, val) ==
  IF val = 0 \/ val \in Accepts[n] THEN "CONFACK"
  ELSE IF s.nakloops >= MaxNakLoops THEN "CONFREJ" ELSE "CONFNAK"

fsm_rconfreq(n, s, p, want) ==
  LET r == CASE s.state = "OPENED"  -> fsm_sconfreq(Down(s), FALSE, want)
             [] s.state = "STOPPED" -> To(fsm_sconfreq(s, FALSE, want), "REQSENT")
             [] OTHER -> s
      code == Verdict(n, r, p.val)
      a == fsm_sdata(r, code, p.id, IF code = "CONFNAK" THEN Hint[n] ELSE p.val)
  IN  IF s.state = "CLOSED" THEN fsm_sdata(s, "TERMACK", p.id, 0)
      ELSE IF s.state \in {"CLOSING", "STOPPING"} THEN s
      ELSE IF code # "CONFACK"
      THEN [a EXCEPT !.state = IF @ = "ACKRCVD" THEN @ ELSE "REQSENT",
                     !.nakloops = IF code = "CONFNAK" THEN @ + 1 ELSE @]
      ELSE LET b == [a EXCEPT !.his = p.val, !.nakloops = 0]
           IN  IF r.state = "ACKRCVD" THEN Up(To(UNTIMEOUT(b), "OPENED"))
               ELSE To(b, "ACKSENT")

\* An answer counts once, and only the one to the last request.
Answers(s, p) == p.id = s.reqid /\ ~s.seen_ack

\* ackci(): what is acknowledged must be what was asked for.
fsm_rconfack(s, p, want) ==
  LET r == [s EXCEPT !.seen_ack = TRUE]
  IN  IF ~Answers(s, p) \/ p.val # s.want THEN s
      ELSE CASE s.state \in {"CLOSED", "STOPPED"} -> fsm_sdata(r, "TERMACK", p.id, 0)
             [] s.state = "REQSENT" -> [To(r, "ACKRCVD") EXCEPT !.retransmits = MaxConfReqs]
             [] s.state = "ACKRCVD" ->
                  To(fsm_sconfreq(UNTIMEOUT(r), FALSE, want), "REQSENT")
             [] s.state = "ACKSENT" ->
                  Up([To(UNTIMEOUT(r), "OPENED") EXCEPT !.retransmits = MaxConfReqs])
             [] s.state = "OPENED" -> To(fsm_sconfreq(Down(r), FALSE, want), "REQSENT")
             [] OTHER -> r

\* nakci() adopts the value of the CONFNAK, rejci() leaves the option out.  Neither
\* LCP's nor IPCP's ever returns the negative value that would stop the protocol,
\* and an answer of a peer that runs this code is never a bad one.
fsm_rconfnakrej(s, p, want) ==
  LET r == [s EXCEPT !.seen_ack = TRUE, !.want = IF p.code = "CONFNAK" THEN p.val ELSE 0]
  IN  IF ~Answers(s, p) THEN s
      ELSE CASE s.state \in {"CLOSED", "STOPPED"} -> fsm_sdata(r, "TERMACK", p.id, 0)
             [] s.state \in {"REQSENT", "ACKSENT"} -> fsm_sconfreq(UNTIMEOUT(r), FALSE, want)
             [] s.state = "ACKRCVD" ->
                  To(fsm_sconfreq(UNTIMEOUT(r), FALSE, want), "REQSENT")
             [] s.state = "OPENED" -> To(fsm_sconfreq(Down(r), FALSE, want), "REQSENT")
             [] OTHER -> r

fsm_rtermreq(s, p) ==
  LET r == CASE s.state \in {"ACKRCVD", "ACKSENT"} -> To(s, "REQSENT")
             [] s.state = "OPENED" ->
                  TIMEOUT([To(Down(s), "STOPPING") EXCEPT !.retransmits = 0])
             [] OTHER -> s
  IN  fsm_sdata(r, "TERMACK", p.id, 0)

\* In OPENED: down(), a new request and its timeout, but the state stays OPENED.
fsm_rtermack(s, want) ==
  CASE s.state = "CLOSING"  -> To(UNTIMEOUT(s), "CLOSED")
    [] s.state = "STOPPING" -> To(UNTIMEOUT(s), "STOPPED")
    [] s.state = "ACKRCVD"  -> To(s, "REQSENT")
    [] s.state = "OPENED"   ->
         [fsm_sconfreq(Down(s), FALSE, want) EXCEPT !.slips = @ + 1]
    [] OTHER -> s

fsm_rcoderej(s) == IF s.state = "ACKRCVD" THEN To(s, "REQSENT") ELSE s

\* A code the protocol does not know.
Unknown(s) == fsm_sdata([s EXCEPT !.id = (@ + 1) % IdMod], "CODEREJ", (s.id + 1) % IdMod, 0)

\* fsm_input()
fsm_input(n, s, p, want) ==
  IF s.state \in {"INITIAL", "STARTING"} THEN s
  ELSE CASE p.code = "CONFREQ" -> fsm_rconfreq(n, s, p, want)
         [] p.code = "CONFACK" -> fsm_rconfack(s, p, want)
         [] p.code \in {"CONFNAK", "CONFREJ"} -> fsm_rconfnakrej(s, p, want)
         [] p.code = "TERMREQ" -> fsm_rtermreq(s, p)
         [] p.code = "TERMACK" -> fsm_rtermack(s, want)
         [] p.code = "CODEREJ" -> fsm_rcoderej(s)
         [] OTHER -> Unknown(s)

-----------------------------------------------------------------------------
(* Steps.                                                                  *)

\* What a handler sends enters the link as long as the link takes it.
Sent(n, s, l) ==
  [l EXCEPT ![n] = SubSeq(@ \o s.out, 1,
                          IF Len(@ \o s.out) < LinkCap THEN Len(@ \o s.out) ELSE LinkCap)]
Becomes(n, s, l) ==
  f' = [f EXCEPT ![n] = [s EXCEPT !.out = <<>>]] /\ link' = Sent(n, s, l)

\* "other": an extension one end knows and the other does not.
Ordered(n) ==
  /\ ops < MaxOps /\ ops' = ops + 1 /\ UNCHANGED <<lost, late>>
  /\ \E w \in Wants, s \in Calls :
       Becomes(n, CASE s = "up"    -> fsm_lowerup(f[n], w)
                    [] s = "down"  -> fsm_lowerdown(f[n])
                    [] s = "open"  -> fsm_open(f[n], w)
                    [] s = "close" -> fsm_close(f[n])
                    [] s = "protrej" -> fsm_protreject(f[n])
                    [] s = "other" -> fsm_sdata(f[n], "OTHER", 0, 0), link)

\* A timeout is longer than a packet takes, but for the packets that are late.
Timeout(n) ==
  /\ f[n].timer > 0
  /\ IF \A m \in Peers : link[m] = <<>> THEN UNCHANGED late
     ELSE late < MaxLate /\ late' = late + 1
  /\ \E w \in Wants : Becomes(n, fsm_timeout(f[n], w), link)
  /\ UNCHANGED <<ops, lost>>

Receive(n) ==
  LET m == Peer(n)
  IN  /\ link[m] # <<>>
      /\ f[n].slips < MaxSlips \/ f[n].state # "OPENED" \/ Head(link[m]).code # "TERMACK"
      /\ \E w \in Wants :
           Becomes(n, fsm_input(n, f[n], Head(link[m]), w), [link EXCEPT ![m] = Tail(@)])
      /\ UNCHANGED <<ops, lost, late>>

Lose(n) ==
  /\ lost < MaxLost /\ link[n] # <<>>
  /\ lost' = lost + 1 /\ link' = [link EXCEPT ![n] = Tail(@)]
  /\ UNCHANGED <<f, ops, late>>

Next == \E n \in Peers : Ordered(n) \/ Timeout(n) \/ Receive(n) \/ Lose(n)

\* Packets that are not lost arrive, and a timeout that is pending is not put off
\* for ever by what the other peer's timer sets going: both take timeouttime.
Fairness == \A n \in Peers : SF_vars(Timeout(n)) /\ WF_vars(Receive(n))

Spec == Init /\ [][Next]_vars /\ Fairness

-----------------------------------------------------------------------------
(* Properties.                                                             *)

\* A layer above that is up has its protocol OPENED, and hears up() and down() in
\* turn, however requests, terminations and losses of the link cross (the calls of
\* callbacks->up and ->down all over fsm.c).  The one exception: a Terminate-Ack taken
\* in OPENED says down() and leaves the state OPENED, though fsm.h:89 calls that
\* "Connection available"; down() is then said again when the state is left.
UpWhileOpened ==
  \A n \in Peers :
    /\ f[n].up => f[n].state = "OPENED"
    /\ (f[n].misuse \/ (f[n].state = "OPENED" /\ ~f[n].up)) => f[n].slips > 0

Waiting(n) == f[n].state \in Negotiating \cup {"CLOSING", "STOPPING"}

\* A timeout is pending in the states that wait for an answer, one only, and none in
\* the others: no peer waits without one, none is started twice and none is left
\* behind by a state change (TIMEOUT and UNTIMEOUT in fsm.c).  Each Terminate-Ack
\* taken in OPENED, and nothing else, leaves one more than that.
OneTimeout ==
  \A n \in Peers :
    LET due == IF Waiting(n) THEN 1 ELSE 0
    IN  f[n].timer \in due..due + f[n].slips

\* When the layers above are up at both ends with nothing under way they mean the
\* same: each holds as acknowledged what the other one asked for, whichever answers
\* came late (reqid and seen_ack in fsm_rconfack).
Agreed ==
  (\A n \in Peers : f[n].up /\ link[n] = <<>>)
    => \A n \in Peers : f[n].his = f[Peer(n)].want

AtRest == \A n \in Peers : f[n].timer = 0

\* Once nobody opens, closes or loses anything, and no packet takes longer than a
\* timeout, both come to rest: no two peers keep each other negotiating or
\* terminating for ever (retransmits, maxnakloops).  A late packet may leave one end
\* OPENED and the other CLOSED, and these two do: each Terminate-Ack makes a request
\* and a timeout, each request a Terminate-Ack.
Settles == <>[]AtRest
=============================================================================
