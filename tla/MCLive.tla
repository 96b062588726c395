------------------------------- MODULE MCLive -------------------------------
(***************************************************************************)
(* What must happen in the end, with the fairness of timers and threads:   *)
(* TCP connections, the services above the link and the control protocols  *)
(* of PPP, each in behaviours of its own (`part'), checked by one run.     *)
(* That P is always followed by ~P is written []<>~P, which is the same    *)
(* and needs no tableau.                                                   *)
(***************************************************************************)
EXTENDS Integers, Sequences, FiniteSets

VARIABLES
  part,          \* the component this behaviour is one of
  s1, s2, s3, s4, s5, s6, s7, s8, s9, s10, s11   \* its variables

vars == <<part, s1, s2, s3, s4, s5, s6, s7, s8, s9, s10, s11>>

-----------------------------------------------------------------------------
(* Constants of the components.                                            *)

\* Ip: hosts H and S joined by a router R with two links to S; R's default route
\* goes over the first, S's back over the second.
Interface(node, link, ip, gw) == [node |-> node, link |-> link, ip |-> ip, gw |-> gw]
Interfaces ==
  [h  |-> Interface("H", 1, "h", "r1"),  r1 |-> Interface("R", 1, "r1", "h"),
   r2 |-> Interface("R", 2, "r2", "s2"), s2 |-> Interface("S", 2, "s2", "r2"),
   r3 |-> Interface("R", 3, "r3", "s3"), s3 |-> Interface("S", 3, "s3", "r3")]
Lists == [H |-> <<"h">>, R |-> <<"r1", "r2", "r3">>, S |-> <<"s2", "s3">>]
Defaults == [H |-> "h", R |-> "r2", S |-> "s3"]
Links == [h |-> 1, r1 |-> 1, b1 |-> 1, r2 |-> 2, s2 |-> 2, b2 |-> 2, r3 |-> 3, s3 |-> 3, b3 |-> 3]
Broadcasts == <<"b1", "b2", "b3">>
Sends ==
  {[node |-> "H", dst |-> d, proto |-> p, ttl |-> t] :
     d \in {"far", "s3", "b1", "b2", "group"}, p \in {"udp", "echo", "other"}, t \in {1, 4}}

\* IpFrag: two datagrams and where they are cut.
Chains == [x |-> <<3, 4>>, y |-> <<4>>]

\* Dns: requests 1 to 3 are for these names; 3 is made from the callback of 1.
Names == <<"m", "n", "o">>
Follow == <<3, 0, 0>>

\* Api: what the threads of a listening and of a connecting netconn call.
Ops == [x |-> {"listen", "delconn"}, y |-> {"connect", "write", "delconn"}]

\* PppFsm: what each peer accepts, and what it proposes instead.
Acceptable == [a |-> {1, 2}, b |-> {2}]
Proposal == [a |-> 1, b |-> 2]

\* PppLcp: options each end may want and allow, and its magic numbers; the first
\* two are the same.
Opts(neg, mrus, maps) ==
  {[neg |-> n, mru |-> u, asyncmap |-> m] : n \in neg, u \in mrus, m \in maps}
LcpWants ==
  [a |-> Opts({{"mru", "asyncmap", "chap", "upap", "magic"}}, {1, 4}, {{}}),
   b |-> Opts({{"mru", "asyncmap", "magic", "comp"}, {"upap", "magic"}}, {3}, {{"y"}})]
LcpAllows ==
  [a |-> Opts({{"mru", "asyncmap", "magic", "comp", "chap", "upap"},
               {"mru", "asyncmap", "chap"}}, {4}, {{"x"}}),
   b |-> Opts({{"mru", "asyncmap", "magic", "upap"}, {"comp", "chap"}}, {4}, {{"y"}})]
Magics == [a |-> <<1, 2, 3, 4, 5, 6, 7, 8, 9>>, b |-> <<1, 12, 13, 14, 15, 16, 17, 18, 19>>]

\* PppIpcp: what each end may want and allow.
Want(ours, his, vj, slots, c, dns) ==
  {[ouraddr |-> o, hisaddr |-> h, neg_vj |-> v, slots |-> slots, cflag |-> c, usepeerdns |-> d] :
     o \in ours, h \in his, v \in vj, d \in dns}
Allow(addr, vj, slots, cs, dns) ==
  {[neg_addr |-> n, neg_vj |-> v, slots |-> slots, cflag |-> c, dns |-> d] :
     n \in addr, v \in vj, c \in cs, d \in dns}
IpcpWants ==
  [a |-> Want({"0.0.0.0"}, {"0.0.0.0"}, {TRUE}, 15, FALSE, {TRUE}),
   b |-> Want({"0.0.0.0", "S"}, {"C"}, {TRUE}, 3, TRUE, {TRUE})]
IpcpAllows ==
  [a |-> Allow({TRUE}, {TRUE}, 15, {TRUE}, {"0.0.0.0"}),
   b |-> Allow(BOOLEAN, BOOLEAN, 3, {FALSE}, {"0.0.0.0", "D"})]

-----------------------------------------------------------------------------
(* The components.                                                         *)

Pcbs == INSTANCE TcpPcbs WITH
  Pcbs <- {"p1", "p2"}, LPcbs <- {"l1"}, Peers <- {"a"}, NoPeer <- "none",
  Ports <- {7}, EphPorts <- {}, Prios <- {}, TCP_PRIO_NORMAL <- 2,
  TCP_PRIO_MAX <- 3, LISTEN_PRIO <- 0, TCP_MAXRTX <- 1, TCP_SYNMAXRTX <- 1,
  FinWaitTicks <- 1, SynRcvdTicks <- 1, MslTicks <- 1, MaxAge <- 2,
  Routes <- {TRUE, FALSE}, ErrfSet <- TRUE, AbortUnconnected <- FALSE, pcb <- s1,
  lpcb <- s2, bound <- s3, active <- s4, tw <- s5, listen <- s6, stale <- s7,
  walk <- s8

Recv == INSTANCE TcpRecv WITH
  M <- 64, ISN <- 60, N <- 8, MaxSeg <- 5, TCP_WND <- 6, MSS <- 3,
  TCP_WND_UPDATE_THRESHOLD <- 2, Answers <- {"ERR_OK"}, Memory <- {TRUE},
  FinBeyond <- FALSE, rcv_nxt <- s1, rcv_wnd <- s2, rcv_ann_wnd <- s3,
  rcv_ann_right_edge <- s4, ooseq <- s5, refused_data <- s6, ack <- s7,
  delivered <- s8, unread <- s9, eof <- s10, panic <- s11

Arp == INSTANCE Etharp WITH
  Hosts <- {"gw", "b"}, Gw <- "gw", ARP_TABLE_SIZE <- 2, ARP_MAXAGE <- 3,
  ARP_MAXPENDING <- 2, MEMP_NUM_ARP_QUEUE <- 2, MaxPackets <- 1,
  arp_table <- s1, etharp_cached_entry <- s2, packets <- s3, dest <- s4,
  wire <- s5

Frag == INSTANCE IpFrag WITH
  Chain <- Chains, Mtus <- {2, 3}, OFF_UNIT <- 2, IP_REASS_MAX_PBUFS <- 3,
  IP_REASS_MAXAGE <- 1, MEMP_NUM_REASSDATA <- 2, net <- s1,
  reassdatagrams <- s2, ip_reass_pbufcount <- s3, delivered <- s4, panic <- s5

Ip == INSTANCE Ip WITH
  Iface <- Interfaces, NetifList <- Lists, NetifDefault <- Defaults,
  LinkOf <- Links, Bcast <- Broadcasts, Members <- {"s2"}, OpenUdp <- {"S"},
  Inject <- Sends, MaxSent <- 1, wire <- s1, up <- s2, sent <- s3

Dns == INSTANCE Dns WITH
  DNS_TABLE_SIZE <- 2, DNS_MAX_SERVERS <- 2, DNS_MAX_RETRIES <- 1,
  DNS_MAX_TTL <- 1, NameOf <- Names, Then <- Follow,
  AsksOn <- {"answer", "timeout", "error"}, LocalNames <- {"n"},
  Ttls <- {0, 2}, tab <- s1, seqno <- s2, req <- s3, told <- s4,
  servers <- s5, peer <- s6, sent <- s7, local <- s8, nested <- s9

Api == INSTANCE Api WITH
  Conns <- {"x", "y"}, OpsOf <- Ops, TCPIP_MBOX_SIZE <- 2,
  DEFAULT_TCP_RECVMBOX_SIZE <- 1, DEFAULT_ACCEPTMBOX_SIZE <- 1,
  WriteLen <- 2, SndBuf <- 1, MaxData <- 1, MaxFails <- 1, conn <- s1,
  user <- s2, mbox <- s3, tcpip <- s4, got <- s5, fails <- s6

Fsm == INSTANCE PppFsm WITH
  Peers <- {"a", "b"}, Wants <- {1, 2}, Accepts <- Acceptable,
  Hint <- Proposal, MaxConfReqs <- 2, MaxTermReqs <- 1, MaxNakLoops <- 1,
  IdMod <- 8, LinkCap <- 2, MaxOps <- 4, MaxLost <- 1, MaxLate <- 0,
  MaxSlips <- 1, Calls <- {"up", "down", "open", "close"}, f <- s1,
  link <- s2, ops <- s3, lost <- s4, late <- s5

Lcp == INSTANCE PppLcp WITH
  Ends <- {"a", "b"}, WantSet <- LcpWants, AllowSet <- LcpAllows,
  Draws <- Magics, PPP_MINMRU <- 2, PPP_DEFMRU <- 3, PPP_MRU <- 3,
  AllChars <- {"x", "y", "z"}, MaxNakLoops <- 2, lcp_loopbackfail <- 3,
  wo <- s1, ao <- s2, go <- s3, ho <- s4, req <- s5, ans <- s6, live <- s7,
  st <- s8, nakloops <- s9, drawn <- s10

Ipcp == INSTANCE PppIpcp WITH
  Ends <- {"a", "b"}, WantSet <- IpcpWants, AllowSet <- IpcpAllows,
  MaxNakLoops <- 2, wo <- s1, ao <- s2, go <- s3, ho <- s4, req_addr <- s5,
  cis_received <- s6, req <- s7, ans <- s8, st <- s9, nakloops <- s10

Auth == INSTANCE PppAuth WITH
  MaxLinks <- 2, MaxTransmits <- 1, IdMod <- 2, MaxChallenges <- 1,
  AuthRequired <- {FALSE}, Closes <- TRUE, u <- s1

Unit == INSTANCE PppUnit WITH
  TCPIP_MBOX_SIZE <- 3, MaxOpens <- 3, MaxHups <- 2, openFlag <- s1,
  kill_link <- s2, sig_hup <- s3, if_up <- s4, phase <- s5, lcp <- s6,
  main <- s7, mbox <- s8, opens <- s9, hups <- s10

Oe == INSTANCE PppOe WITH
  PPPOE_DISC_MAXPADI <- 2, PPPOE_DISC_MAXPADR <- 2, MaxOpens <- 2,
  MaxCalls <- 1, MaxAc <- 2, MaxErrs <- 1, sc <- s1, openFlag <- s2,
  phase <- s3, lcp <- s4, cbs <- s5, calls <- s6, ac <- s7, errs <- s8

-----------------------------------------------------------------------------
Unused == "unused"

Init ==
  \/ /\ part = "pcbs" /\ Pcbs!Init
     /\ s9 = Unused /\ s10 = Unused /\ s11 = Unused
  \/ /\ part = "recv" /\ Recv!Init
  \/ /\ part = "etharp" /\ Arp!Init
     /\ s6 = Unused /\ s7 = Unused /\ s8 = Unused /\ s9 = Unused
     /\ s10 = Unused /\ s11 = Unused
  \/ /\ part = "frag" /\ Frag!Init
     /\ s6 = Unused /\ s7 = Unused /\ s8 = Unused /\ s9 = Unused
     /\ s10 = Unused /\ s11 = Unused
  \/ /\ part = "ip" /\ Ip!Init
     /\ s4 = Unused /\ s5 = Unused /\ s6 = Unused /\ s7 = Unused
     /\ s8 = Unused /\ s9 = Unused /\ s10 = Unused /\ s11 = Unused
  \/ /\ part = "dns" /\ Dns!Init
     /\ s10 = Unused /\ s11 = Unused
  \/ /\ part = "api" /\ Api!Init
     /\ s7 = Unused /\ s8 = Unused /\ s9 = Unused /\ s10 = Unused
     /\ s11 = Unused
  \/ /\ part = "fsm" /\ Fsm!Init
     /\ s6 = Unused /\ s7 = Unused /\ s8 = Unused /\ s9 = Unused
     /\ s10 = Unused /\ s11 = Unused
  \/ /\ part = "lcp" /\ Lcp!Init
     /\ s11 = Unused
  \/ /\ part = "ipcp" /\ Ipcp!Init
     /\ s11 = Unused
  \/ /\ part = "auth" /\ Auth!Init
     /\ s2 = Unused /\ s3 = Unused /\ s4 = Unused /\ s5 = Unused
     /\ s6 = Unused /\ s7 = Unused /\ s8 = Unused /\ s9 = Unused
     /\ s10 = Unused /\ s11 = Unused
  \/ /\ part = "unit" /\ Unit!Init
     /\ s11 = Unused
  \/ /\ part = "oe" /\ Oe!Init
     /\ s9 = Unused /\ s10 = Unused /\ s11 = Unused

Next ==
  \/ /\ part = "pcbs" /\ Pcbs!Next
     /\ UNCHANGED <<part, s9, s10, s11>>
  \/ /\ part = "recv" /\ Recv!Next
     /\ UNCHANGED <<part>>
  \/ /\ part = "etharp" /\ Arp!Next
     /\ UNCHANGED <<part, s6, s7, s8, s9, s10, s11>>
  \/ /\ part = "frag" /\ Frag!Next
     /\ UNCHANGED <<part, s6, s7, s8, s9, s10, s11>>
  \/ /\ part = "ip" /\ Ip!Next
     /\ UNCHANGED <<part, s4, s5, s6, s7, s8, s9, s10, s11>>
  \/ /\ part = "dns" /\ Dns!Next
     /\ UNCHANGED <<part, s10, s11>>
  \/ /\ part = "api" /\ Api!Next
     /\ UNCHANGED <<part, s7, s8, s9, s10, s11>>
  \/ /\ part = "fsm" /\ Fsm!Next
     /\ UNCHANGED <<part, s6, s7, s8, s9, s10, s11>>
  \/ /\ part = "lcp" /\ Lcp!Next
     /\ UNCHANGED <<part, s11>>
  \/ /\ part = "ipcp" /\ Ipcp!Next
     /\ UNCHANGED <<part, s11>>
  \/ /\ part = "auth" /\ Auth!Next
     /\ UNCHANGED <<part, s2, s3, s4, s5, s6, s7, s8, s9, s10, s11>>
  \/ /\ part = "unit" /\ Unit!Next
     /\ UNCHANGED <<part, s11>>
  \/ /\ part = "oe" /\ Oe!Next
     /\ UNCHANGED <<part, s9, s10, s11>>

pcbsVars == Pcbs!vars
recvVars == Recv!vars
etharpVars == Arp!vars
fragVars == Frag!vars
ipVars == Ip!vars
dnsVars == Dns!vars
apiVars == Api!vars
fsmVars == Fsm!vars
lcpVars == Lcp!vars
ipcpVars == Ipcp!vars
authVars == Auth!vars
unitVars == Unit!vars
oeVars == Oe!vars

\* TCP: tcp_slowtmr() and tcp_fasttmr() run, the peer retransmits what can be
\* taken, and the application reads.
TcpFairness ==
  /\ WF_pcbsVars(part = "pcbs" /\ Pcbs!tcp_slowtmr)
  /\ <>[](part = "recv" /\ Recv!NextAcceptable) => []<><<part = "recv" /\ s1' # s1>>_recvVars
  /\ WF_recvVars(part = "recv" /\ Recv!tcp_fasttmr /\ s6' = <<>>)
  /\ WF_recvVars(part = "recv" /\ \E len \in 1..8 : len = s9 /\ Recv!tcp_recved(len))

\* The timers of ARP, reassembly and DNS run, packets arrive, the tcpip thread and
\* those of the applications run, and TCP goes on.
NetFairness ==
  /\ WF_etharpVars(part = "etharp" /\ Arp!etharp_tmr)
  /\ WF_fragVars(part = "frag" /\ Frag!ip_reass_tmr)
  /\ WF_ipVars(part = "ip" /\ Ip!Receive)
  /\ WF_dnsVars(part = "dns" /\ Dns!dns_tmr)
  /\ WF_apiVars(part = "api" /\ Api!tcpip_thread)
  /\ \A c \in {"x", "y"} :
       /\ WF_apiVars(part = "api" /\ Api!tcpip_apimsg(c))
       /\ WF_apiVars(part = "api" /\ Api!Returned(c))
       /\ WF_apiVars(part = "api" /\ Api!GoesOn(c))
       /\ WF_apiVars(part = "api" /\ Api!Posted(c))

\* PPP: timeouts expire, packets that are not lost arrive, the two threads of a
\* unit run, and the requests that end a link are sent only so often.
PppFairness ==
  /\ \A n \in {"a", "b"} :
       /\ SF_fsmVars(part = "fsm" /\ Fsm!Timeout(n))
       /\ WF_fsmVars(part = "fsm" /\ Fsm!Receive(n))
  /\ WF_lcpVars(part = "lcp" /\ Lcp!Next)
  /\ \A n \in {"a", "b"} :
       /\ WF_ipcpVars(part = "ipcp" /\ Ipcp!Ask(n))
       /\ WF_ipcpVars(part = "ipcp" /\ Ipcp!Answer(n))
       /\ WF_ipcpVars(part = "ipcp" /\ Ipcp!Take(n))
       /\ WF_ipcpVars(part = "ipcp" /\ Ipcp!ipcp_up(n))
  /\ WF_authVars(part = "auth" /\ Auth!ChapChallengeTimeout)
  /\ WF_authVars(part = "auth" /\ Auth!upap_timeout)
  /\ WF_authVars(part = "auth" /\ Auth!upap_reqtimeout)
  /\ WF_authVars(part = "auth" /\ Auth!lcp_finished)
  /\ WF_unitVars(part = "unit" /\ Unit!MainStart)
  /\ WF_unitVars(part = "unit" /\ Unit!MainLoop)
  /\ WF_unitVars(part = "unit" /\ Unit!Callback)
  /\ WF_unitVars(part = "unit" /\ Unit!LcpFinished)
  /\ WF_oeVars(part = "oe" /\ Oe!Callback)
  /\ WF_oeVars(part = "oe" /\ Oe!LcpFinished)
  /\ \A i \in 1..2 : WF_oeVars(part = "oe" /\ i <= Len(s1) /\ Oe!pppoe_timeout(i))

Spec == Init /\ [][Next]_vars /\ TcpFairness /\ NetFairness /\ PppFairness

-----------------------------------------------------------------------------
(* Properties.                                                             *)

Silent == <>[][~(part = "pcbs" /\ Pcbs!tcp_input)]_pcbsVars
Timing(p) == part = "pcbs" /\ Pcbs!Timing(p)
SynSent(p) == part = "pcbs" /\ Pcbs!SynSent(p)

\* What is waited for in the parts, numbered so that one formula speaks of all.
Unresolved(k) == part = "etharp" /\ \E i \in 1..2 : Arp!Pending(i, <<"gw", "b">>[k])
Incomplete(k) == part = "frag" /\ Frag!Incomplete(<<"x", "y">>[k])
InTransit == part = "ip" /\ s1 # {}

Waits(r) == part = "dns" /\ Dns!Waits(r)
InCall(k) ==
  /\ part = "api" /\ k <= 2
  /\ LET c == <<"x", "y">>[k]
     IN  Api!InCall(c) /\ ~Api!ConnectRefused(c) /\ Api!Running

Negotiating == (part = "lcp" /\ ~Lcp!Concluded) \/ (part = "ipcp" /\ ~Ipcp!Concluded)
Authenticating == part = "auth" /\ (Auth!Challenging \/ Auth!Listening \/ Auth!Requesting)
Closing == part = "unit" /\ Unit!Closing
Freed == part = "unit" /\ ~s1
Busy(i) == part = "oe" /\ Oe!Busy(i)

\* What the slow timer promises: with no segment from the peer any more, a pcb
\* does not stay for ever in a state it can only leave by a segment
\* (tcp_slowtmr(), TcpPcbs!Reclaimed).
Reclaimed == Silent => \A p \in {"p1", "p2"} : []<>~Timing(p)

\* A connection attempt whose SYN could be sent ends, also when there is no route
\* for what follows: it succeeds, or tcp_slowtmr() gives it up and calls the error
\* callback (TcpPcbs!SynGivenUp).
SynGivenUp == Silent => \A p \in {"p1", "p2"} : []<>~SynSent(p)

\* While there is memory for ACKs, the window that opened since the last
\* announcement is below the two thresholds: an application that has read
\* everything never leaves the peer in front of a closed window (tcp_recved(),
\* tcp_update_rcv_ann_wnd()).
WindowAnnounced == part = "recv" => Recv!WindowAnnounced

\* In the end the application has every byte and knows that there are no more
\* (tcp_receive(), tcp_fasttmr()).
AllDelivered == []<>(part = "recv" => Recv!Complete)

\* Nothing waits for ever below: an unanswered ARP request is given up
\* (etharp_tmr()), an incomplete datagram is dropped unless an assertion stops the
\* program (ip_reass_tmr()), and a packet in a routing loop dies (ip_forward()).
NetEnds == \A k \in 1..2 : []<>~(Unresolved(k) \/ Incomplete(k) \/ InTransit)

\* Whoever waits is answered: a DNS request by an address or by its failure,
\* unless it was made in the callback of an error response (dns_check_entry(),
\* dns_recv()); a call of the sequential API by its handler, a callback or the
\* error of the connection, unless tcp_connect() refused or the tcpip thread itself
\* is stuck (tcpip_apimsg(), err_tcp(), Api!CallsReturn).
CallsEnd == \A k \in 1..3 : []<>~(Waits(k) \/ InCall(k))

\* Everything comes to an end: negotiations whatever the two ends want, with no
\* packet later than a timeout (fsm.c, lcp.c, ipcp.c), waiting for a peer to
\* authenticate itself (chap.c, pap.c), the closing of a unit (ppp.c), discovery
\* (ppp_oe.c).
PppEnds ==
  /\ <>[](part = "fsm" => Fsm!AtRest)
  /\ \A i \in 1..2 : []<>~(Negotiating \/ Authenticating \/ Busy(i))
  /\ Closing ~> Freed
=============================================================================
