------------------------------- MODULE PppLcp -------------------------------
(***************************************************************************)
(* What LCP negotiates, netif/ppp/lcp.c: the requests, the answers and what *)
(* each end makes of them until both requests are acknowledged.  Packets,   *)
(* identifiers and timers are PppFsm's; here a request waits for its answer. *)
(* MTUs are small numbers, a control character map is a set of characters,  *)
(* and the two kinds of header compression are one option.  The peer may be *)
(* the node itself: a line that is looped back.                            *)
(***************************************************************************)
EXTENDS Integers, Sequences, FiniteSets

CONSTANTS
  Ends,           \* the two ends of a line
  WantSet,        \* by end: the wantoptions it may be configured with
  AllowSet,       \* by end: the allowoptions it may be configured with
  Draws,          \* by end: what magic() returns, one after the other
  PPP_MINMRU, PPP_DEFMRU, PPP_MRU, AllChars,
  MaxNakLoops, lcp_loopbackfail

VARIABLES
  wo, ao,         \* lcp_wantoptions, lcp_allowoptions
  go, ho,         \* lcp_gotoptions, lcp_hisoptions
  req, ans,       \* by end: its request and the answer to it under way
  live,           \* the ends on the line: only one, and it is looped back
  st,             \* "asking", "acked", "bad" (the answer is ignored), "closed"
  nakloops, drawn

vars == <<wo, ao, go, ho, req, ans, live, st, nakloops, drawn>>

Other(n) == IF live = {n} THEN n ELSE CHOOSE m \in live : m # n
Nothing == [none |-> TRUE]
Magic(n, k) == Draws[n][k + 1]

\* lcp_resetci(): the negotiation starts from wantoptions and a new magic number.
lcp_resetci(n) ==
  [neg |-> wo[n].neg, mru |-> wo[n].mru, asyncmap |-> wo[n].asyncmap,
   magic |-> Magic(n, 0), numloops |-> 0]

Init ==
  /\ wo \in {w \in [Ends -> UNION {WantSet[n] : n \in Ends}] : \A n \in Ends : w[n] \in WantSet[n]}
  /\ ao \in {a \in [Ends -> UNION {AllowSet[n] : n \in Ends}] : \A n \in Ends : a[n] \in AllowSet[n]}
  /\ live \in {Ends} \cup {{n} : n \in Ends}
  /\ go = [n \in Ends |-> lcp_resetci(n)]
  /\ ho = [n \in Ends |-> <<>>]
  /\ req = [n \in Ends |-> Nothing] /\ ans = [n \in Ends |-> Nothing]
  /\ st = [n \in Ends |-> "asking"]
  /\ nakloops = [n \in Ends |-> 0] /\ drawn = [n \in Ends |-> 1]

-----------------------------------------------------------------------------
(* Requests.                                                               *)

\* lcp_addci(): an option at its default is not asked for; of the two ways to
\* authenticate the peer CHAP is asked for first.
lcp_addci(g) ==
  LET asks == {o \in {"mru", "asyncmap", "magic", "comp"} : o \in g.neg}
              \ ((IF g.mru = PPP_DEFMRU THEN {"mru"} ELSE {})
                 \cup (IF g.asyncmap = AllChars THEN {"asyncmap"} ELSE {}))
      auth == IF g.neg \cap {"chap", "upap"} = {} THEN {} ELSE {"auth"}
  IN  [o \in asks \cup auth |->
         CASE o = "mru" -> g.mru [] o = "asyncmap" -> g.asyncmap [] o = "magic" -> g.magic
           [] o = "auth" -> IF "chap" \in g.neg THEN "chap" ELSE "upap"
           [] o = "comp" -> TRUE]

Ask(n) ==
  /\ st[n] = "asking" /\ req[n] = Nothing /\ ans[n] = Nothing
  /\ req' = [req EXCEPT ![n] = lcp_addci(go[n])]
  /\ UNCHANGED <<wo, ao, live, go, ho, ans, st, nakloops, drawn>>

-----------------------------------------------------------------------------
(* Answers: lcp_reqci().                                                   *)

\* The verdict on one option, and the value that goes into a CONFNAK.
Ack == [orc |-> "ACK"]
Rej == [orc |-> "REJ"]
Nak(v) == [orc |-> "NAK", val |-> v]

\* Too short a packet is refused.
JudgedMru(n, v) == IF v < PPP_MINMRU THEN Nak(PPP_MINMRU) ELSE Ack

\* The characters this end must not see are added to the map.
JudgedMap(n, v) ==
  IF ao[n].asyncmap \subseteq v THEN Ack ELSE Nak(ao[n].asyncmap \cup v)

JudgedAuth(n, v) ==
  IF v \in ao[n].neg THEN Ack ELSE Nak(IF v = "upap" THEN "chap" ELSE "upap")

\* The peer's magic number must not be the own one.
JudgedMagic(n, v) ==
  IF "magic" \in go[n].neg /\ v = go[n].magic THEN Nak(Magic(n, drawn[n])) ELSE Ack

\* What is not allowed is rejected, but a magic number is allowed to whom asks
\* for one himself.
Allowed(n, o) ==
  CASE o = "auth"  -> ao[n].neg \cap {"chap", "upap"} # {}
    [] o = "magic" -> "magic" \in ao[n].neg \cup go[n].neg
    [] OTHER -> o \in ao[n].neg

Judged(n, o, v) ==
  IF ~Allowed(n, o) THEN Rej
  ELSE CASE o = "mru" -> JudgedMru(n, v) [] o = "asyncmap" -> JudgedMap(n, v)
         [] o = "auth" -> JudgedAuth(n, v) [] o = "magic" -> JudgedMagic(n, v)
         [] o = "comp" -> Ack

\* After maxnakloops what would be refused is rejected, but for a magic number.
Verdict(n, o, v) ==
  LET j == Judged(n, o, v)
  IN  IF j.orc = "NAK" /\ nakloops[n] >= MaxNakLoops /\ o # "magic" THEN Rej ELSE j

\* One rejection makes the answer a CONFREJ, else one refusal makes it a CONFNAK.
lcp_reqci(n, r) ==
  LET v  == [o \in DOMAIN r |-> Verdict(n, o, r[o])]
      of(orc) == {o \in DOMAIN r : v[o].orc = orc}
  IN  [code |-> IF of("REJ") # {} THEN "REJ" ELSE IF of("NAK") # {} THEN "NAK" ELSE "ACK",
       opts |-> IF of("REJ") # {} THEN [o \in of("REJ") |-> r[o]]
                ELSE IF of("NAK") # {} THEN [o \in of("NAK") |-> v[o].val] ELSE r,
       ho   |-> [o \in of("ACK") |-> r[o]]]

\* m answers the request of n.
Answer(n) ==
  LET m == Other(n)
      a == lcp_reqci(m, req[n])
  IN  /\ req[n] # Nothing /\ st[m] # "closed"
      /\ req' = [req EXCEPT ![n] = Nothing]
      /\ ans' = [ans EXCEPT ![n] = [code |-> a.code, opts |-> a.opts]]
      /\ ho' = [ho EXCEPT ![m] = a.ho]
      /\ nakloops' = [nakloops EXCEPT ![m] = IF a.code = "ACK" THEN 0
                                             ELSE IF a.code = "NAK" THEN @ + 1 ELSE @]
      /\ drawn' = [drawn EXCEPT ![m] =
                     IF "magic" \in DOMAIN req[n] /\ Judged(m, "magic", req[n].magic).orc = "NAK"
                     THEN @ + 1 ELSE @]
      /\ UNCHANGED <<wo, ao, live, go, st>>

-----------------------------------------------------------------------------
(* What is made of an answer.                                              *)

\* lcp_nakci(): the peer's values are adopted as far as they are tolerable.
Adopted(n, g, q) ==
  LET d == DOMAIN q
  IN  [g EXCEPT
         !.mru = IF "mru" \in d /\ (q.mru <= wo[n].mru \/ q.mru < PPP_DEFMRU) THEN q.mru ELSE @,
         !.asyncmap = IF "asyncmap" \in d THEN @ \cup q.asyncmap ELSE @,
         !.neg = IF "auth" \notin d THEN @
                 ELSE IF q.auth = "upap" THEN @ \ {"chap"}
                 ELSE IF "chap" \in @ THEN @ ELSE @ \ {"upap"},
         !.magic = IF "magic" \in d THEN Magic(n, drawn[n]) ELSE @,
         !.numloops = IF "magic" \in d THEN @ + 1 ELSE 0]

\* A CONFNAK of PAP to an end that did not ask for CHAP is no answer.
NakBad(g, q) == "auth" \in DOMAIN q /\ q.auth = "upap" /\ "chap" \notin g.neg

lcp_nakci(n) ==
  LET g == Adopted(n, go[n], ans[n].opts)
  IN  /\ ans[n].code = "NAK"
      /\ IF NakBad(go[n], ans[n].opts) THEN st' = [st EXCEPT ![n] = "bad"] /\ UNCHANGED go
         ELSE /\ go' = [go EXCEPT ![n] = g]
              /\ st' = [st EXCEPT ![n] = IF g.numloops >= lcp_loopbackfail
                                         THEN "closed" ELSE "asking"]
      /\ drawn' = [drawn EXCEPT ![n] = IF "magic" \in DOMAIN ans[n].opts THEN @ + 1 ELSE @]

\* lcp_rejci(): what the peer rejects is left out; with CHAP goes PAP.
lcp_rejci(n) ==
  LET off == UNION {IF o = "auth" THEN {"chap", "upap"} ELSE {o} : o \in DOMAIN ans[n].opts}
  IN  /\ ans[n].code = "REJ"
      /\ go' = [go EXCEPT ![n].neg = @ \ off]
      /\ UNCHANGED <<st, drawn>>

\* lcp_ackci(): the answer must repeat the request.
lcp_ackci(n) ==
  /\ ans[n].code = "ACK"
  /\ st' = [st EXCEPT ![n] = IF ans[n].opts = lcp_addci(go[n]) THEN "acked" ELSE "bad"]
  /\ UNCHANGED <<go, drawn>>

Take(n) ==
  /\ ans[n] # Nothing
  /\ lcp_nakci(n) \/ lcp_rejci(n) \/ lcp_ackci(n)
  /\ ans' = [ans EXCEPT ![n] = Nothing]
  /\ UNCHANGED <<wo, ao, live, ho, req, nakloops>>

Next == \E n \in live : Ask(n) \/ Answer(n) \/ Take(n)

\* PppFsm sends a request again until it is answered.
Spec == Init /\ [][Next]_vars /\ WF_vars(Next)

-----------------------------------------------------------------------------
(* Properties.                                                             *)

Up == \A n \in live : st[n] = "acked"
Lesser(a, b) == IF a < b THEN a ELSE b
Greater(a, b) == IF a > b THEN a ELSE b
Has(h, o) == o \in DOMAIN h

\* lcp_up(): what n sets for sending and for receiving.
SendMru(n) == Lesser(ao[n].mru, IF Has(ho[n], "mru") THEN ho[n].mru ELSE PPP_MRU)
RecvMru(n) == IF "mru" \in go[n].neg THEN Greater(wo[n].mru, go[n].mru) ELSE PPP_MRU
SendMap(n) == IF Has(ho[n], "asyncmap") THEN ho[n].asyncmap ELSE AllChars
RecvMap(n) == IF "asyncmap" \in go[n].neg THEN go[n].asyncmap ELSE {}

\* Once both requests are acknowledged the two ends fit together: what one end
\* sends is no longer than the other takes, escapes every character that either
\* end must not see on the line, compresses headers only as the other expects,
\* and who must authenticate, and how, is known to both (lcp_up, lcp_reqci).
LcpFits ==
  Up => \A n \in live :
          LET m == Other(n)
          IN  /\ SendMru(n) <= RecvMru(m)
              /\ RecvMap(m) \cup (IF Has(ho[n], "asyncmap") THEN ao[n].asyncmap ELSE {})
                   \subseteq SendMap(n)
              /\ Has(ho[n], "comp") => "comp" \in go[m].neg
              /\ go[m].neg \cap {"chap", "upap"} # {} =>
                   Has(ho[n], "auth") /\ ho[n].auth \in ao[n].neg \cap go[m].neg

\* A line that is looped back is never taken for a peer as long as magic numbers
\* are asked for: the node does not come up with itself (the magic number in
\* lcp_reqci and lcp_nakci, lcp_loopbackfail).
LoopDetected ==
  (Cardinality(live) = 1 /\ \E n \in live : "magic" \in wo[n].neg) => ~Up

Concluded == \A n \in live : st[n] \in {"acked", "closed"}

\* Every negotiation ends: with both requests acknowledged or the line given up,
\* whatever the two ends want and allow, and no answer is one the other end
\* cannot take (lcp_nakci, lcp_rejci, maxnakloops).
LcpConverges == <>Concluded
=============================================================================
