------------------------------ MODULE PppFrame ------------------------------
(***************************************************************************)
(* How PPP puts packets on a serial line and finds them again, ppp.c of     *)
(* netif/ppp: pppifOutput() and pppWrite() at one end, pppInProc() at the   *)
(* other, over a line that may lose or change octets.  An octet is <<n>>;   *)
(* the two octets of a checksum are <<1, body>> and <<2, body>>, a checksum *)
(* that tells all bodies apart.  That pbufs chain is Pbuf's: a packet under  *)
(* construction is a sequence, and allocating for it may fail.              *)
(***************************************************************************)
EXTENDS Integers, Sequences, FiniteSets, SequencesExt

CONSTANTS
  Packets,        \* what is sent, in order: [proto, data, control]
  Accm,           \* characters below 32 to be escaped, at both ends
  Accomp, Pcomp,  \* header compression, negotiated for pppifOutput()
  FcsEscapes,     \* the octets of a checksum that have to be escaped
  MaxNoise,       \* octets the line loses or changes
  MaxFails        \* allocations and writes that fail

VARIABLES
  next,           \* packets sent
  flagged,        \* the next frame starts with a flag: the line has been idle
  line,           \* octets under way
  rx,             \* pc: inState, inEscaped, the octets since inFCS was set, proto, inHead
  got,            \* packets passed to pppInput()
  noise, fails

vars == <<next, flagged, line, rx, got, noise, fails>>

FLAG == <<126>>
ESC  == <<125>>
ALLSTATIONS == <<255>>
UI   == <<3>>

\* XOR with PPP_TRANS.
Trans(b) ==
  IF Len(b) = 2 THEN <<IF b[1] > 2 THEN b[1] - 2 ELSE b[1] + 2, b[2]>>
  ELSE IF (b[1] \div 32) % 2 = 1 THEN <<b[1] - 32>> ELSE <<b[1] + 32>>

Fcs(body) == <<<<1, body>>, <<2, body>>>>

\* inFCS = PPP_GOODFCS: the checksum that came is that of what came before it.
GoodFcs(run) ==
  LET n == Len(run) - 2
  IN  n >= 0 /\ SubSeq(run, n + 1, n + 2) = Fcs(SubSeq(run, 1, n))

-----------------------------------------------------------------------------
(* Sending.                                                                *)

ESCAPE_P(b) ==
  IF Len(b) = 2 THEN b[1] \in FcsEscapes
  ELSE b \in {FLAG, ESC} \/ (b[1] < 32 /\ b[1] \in Accm)

pppAppend(b) == IF ESCAPE_P(b) THEN <<ESC, Trans(b)>> ELSE <<b>>
Escaped(s) == FlattenSeq([i \in 1..Len(s) |-> pppAppend(s[i])])

\* pppWrite() is given the uncompressed header, pppifOutput() makes one.
Header(p) ==
  (IF p.control \/ ~Accomp THEN <<ALLSTATIONS, UI>> ELSE <<>>)
  \o (IF p.control \/ ~Pcomp \/ p.proto > 255 THEN <<<<p.proto \div 256>>>> ELSE <<>>)
  \o <<<<p.proto % 256>>>>
Frame(p) == LET body == Header(p) \o p.data IN Escaped(body \o Fcs(body)) \o <<FLAG>>

\* pppifOutput() and pppWrite(): what does not fit into memory is not sent, though
\* lastXMit may have been set by then; of what the device does not take the rest is dropped, and lastXMit = 0 makes the
\* next frame start with a flag.
Send ==
  /\ next < Len(Packets)
  /\ LET f == (IF flagged THEN <<FLAG>> ELSE <<>>) \o Frame(Packets[next + 1])
     IN  \/ line' = line \o f /\ flagged' = FALSE /\ UNCHANGED fails
         \/ /\ fails < MaxFails /\ fails' = fails + 1
            /\ \/ line' = line /\ flagged' \in {flagged, FALSE}
               \/ \E k \in 0..Len(f) - 1 : line' = line \o SubSeq(f, 1, k) /\ flagged' = TRUE
  /\ next' = next + 1
  /\ UNCHANGED <<rx, got, noise>>

\* PPP_MAXIDLEFLAG has passed since the last transmission.
Idle ==
  /\ ~flagged /\ next < Len(Packets) /\ flagged' = TRUE
  /\ UNCHANGED <<next, line, rx, got, noise, fails>>

\* The line loses an octet or turns it into another one.
Noise ==
  /\ noise < MaxNoise /\ line # <<>> /\ noise' = noise + 1
  /\ \/ line' = Tail(line)
     \/ \E b \in {FLAG, ESC, <<0>>} \ {Head(line)} : line' = <<b>> \o Tail(line)
  /\ UNCHANGED <<next, flagged, rx, got, fails>>

-----------------------------------------------------------------------------
(* Receiving: pppInProc().                                                 *)

Header0 == {"PDIDLE", "PDSTART", "PDADDRESS"}
Head0(r) == [r EXCEPT !.data = <<>>]     \* inHead = inTail = NULL

pppDrop(r) == Head0(r)

\* A character of the header; each state falls through to the next one unless the
\* character is what the state waits for.
InHeader(r, b) ==
  LET s == IF r.state \in {"PDSTART"} \/ (r.state = "PDIDLE" /\ b = ALLSTATIONS)
           THEN [r EXCEPT !.run = <<>>] ELSE r
  IN  IF r.state = "PDIDLE" /\ b # ALLSTATIONS THEN r
      ELSE IF r.state \in Header0 /\ b = ALLSTATIONS THEN [s EXCEPT !.state = "PDCONTROL"]
      ELSE IF r.state # "PDPROTOCOL1" /\ b = UI THEN [s EXCEPT !.state = "PDPROTOCOL1"]
      ELSE IF Len(b) = 2 THEN [s EXCEPT !.proto = -1, !.state = "PDDATA"]
      ELSE IF b[1] % 2 = 1 THEN [s EXCEPT !.proto = b[1], !.state = "PDDATA"]
      ELSE [s EXCEPT !.proto = b[1] * 256, !.state = "PDPROTOCOL2"]

\* A character of the data; an octet of a checksum stands for any protocol.
InData(r, b) ==
  IF r.state = "PDPROTOCOL2"
  THEN [r EXCEPT !.proto = IF Len(b) = 2 THEN -1 ELSE @ + b[1], !.state = "PDDATA"]
  ELSE [r EXCEPT !.data = Append(@, b)]

\* A flag ends what there is and starts a frame.
Flagged(r) ==
  [IF r.state \in {"PDIDLE", "PDSTART", "PDADDRESS"} THEN r ELSE pppDrop(r) EXCEPT
     !.run = <<>>, !.state = "PDADDRESS", !.escaped = FALSE]

Complete(r) == r.state = "PDDATA" /\ GoodFcs(r.run)
Packet(r) == [proto |-> r.proto, data |-> SubSeq(r.data, 1, Len(r.data) - 2)]

pppInProc ==
  /\ line # <<>> /\ line' = Tail(line)
  /\ LET b == Head(line)
         c == IF rx.escaped THEN Trans(b) ELSE b
         r == [rx EXCEPT !.escaped = FALSE]
         h == InHeader(r, c)
     IN  CASE b = ESC -> rx' = [rx EXCEPT !.escaped = TRUE] /\ UNCHANGED <<got, fails>>
           [] b = FLAG ->
                /\ rx' = Flagged(IF Complete(rx) THEN Head0(rx) ELSE rx)
                \* tcpip_callback() may find no room.
                /\ \/ got' = (IF Complete(rx) THEN Append(got, Packet(rx)) ELSE got) /\ UNCHANGED fails
                   \/ /\ Complete(rx) /\ fails < MaxFails
                      /\ fails' = fails + 1 /\ UNCHANGED got
           [] Len(b) = 1 /\ b[1] < 32 /\ b[1] \in Accm -> UNCHANGED <<rx, got, fails>>
           [] OTHER ->
                /\ UNCHANGED got
                /\ \/ /\ rx' = IF r.state \in {"PDPROTOCOL2", "PDDATA"}
                               THEN [InData(r, c) EXCEPT !.run = Append(@, c)]
                               ELSE [h EXCEPT !.run = Append(@, c)]
                      /\ UNCHANGED fails
                   \* No pbuf for the data: the rest is read as if a frame began.
                   \/ /\ r.state = "PDDATA" /\ fails < MaxFails /\ fails' = fails + 1
                      /\ rx' = [pppDrop(r) EXCEPT !.state = "PDSTART", !.run = Append(@, c)]
  /\ UNCHANGED <<next, flagged, noise>>

-----------------------------------------------------------------------------
Init ==
  /\ next = 0 /\ flagged = TRUE /\ line = <<>> /\ got = <<>> /\ noise = 0 /\ fails = 0
  /\ rx = [state |-> "PDIDLE", escaped |-> FALSE, run |-> <<>>, proto |-> 0, data |-> <<>>]

Next == Send \/ Idle \/ Noise \/ pppInProc

Spec == Init /\ [][Next]_vars

-----------------------------------------------------------------------------
(* Properties.                                                             *)

Sent == [i \in 1..next |-> [proto |-> Packets[i].proto, data |-> Packets[i].data]]
\* The packets that arrive are packets that were sent, in their order.
Within(s, t) ==
  \E m \in [1..Len(s) -> 1..Len(t)] :
    \A i \in 1..Len(s) : s[i] = t[m[i]] /\ \A j \in 1..i - 1 : m[j] < m[i]

\* Whatever the line, the device and the pool do, a packet is passed on as it was
\* sent or not at all: never the data of two frames in one, never with another
\* protocol, never twice (inHead, inFCS, inEscaped and inState in pppInProc).
FramesIntact == Within(got, Sent)

\* A disturbance costs the frames it touches and no more: one for each failure of
\* a node, two for each octet the line changes, which may be the flag between two
\* (PDSTART, lastXMit, the flag that ends a frame).
LossBounded == line = <<>> => Len(got) >= next - fails - 2 * noise
=============================================================================
