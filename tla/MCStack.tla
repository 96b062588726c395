------------------------------ MODULE MCStack -------------------------------
(***************************************************************************)
(* The parts of the stack around TCP: memory, buffers, timeouts, sockets   *)
(* and the sequential API, the ARP table, interfaces and their addresses,  *)
(* reassembly, datagram pcbs and groups, DNS, and PPP from its serial line *)
(* to its units, each in behaviours of its own (`part'), checked by one    *)
(* run for what they must never do.                                        *)
(***************************************************************************)
EXTENDS Integers, Sequences, FiniteSets

VARIABLES
  part,          \* the component this behaviour is one of
  s1, s2, s3, s4, s5, s6, s7, s8, s9, s10, s11, s12, s13   \* its variables

vars == <<part, s1, s2, s3, s4, s5, s6, s7, s8, s9, s10, s11, s12, s13>>

-----------------------------------------------------------------------------
(* Constants of the components.                                            *)

\* SysTimeo: the periods of the timers that set themselves again.
Periods == [arp |-> 4, dns |-> 3]

\* Udp: remote end points.
Remotes == {[ip |-> "a", port |-> 9], [ip |-> "b", port |-> 9]}

\* IpFrag: two datagrams and where they are cut.
Chains == [x |-> <<3, 4>>, y |-> <<4>>]

\* Dns: requests 1 to 4 are for these names; 3 is made from the callback of 1, and
\* 4 from that of 2.
Names == <<"m", "n", "o", "n">>
Follow == <<3, 4, 0, 0>>

\* Api: what the threads of a listening and of a connecting netconn call; and of a
\* listening one and two that it accepts.
Ops == [x |-> {"listen", "delconn"}, y |-> {"connect", "write", "close", "delconn"}]
AcceptOps == [x |-> {"listen", "delconn"}, y |-> {"delconn"}, z |-> {"delconn"}]

\* Dhcp: leases with an end, without one, and with one for renewing only.
Leases == {[t1 |-> 1, t2 |-> 2], [t1 |-> -1, t2 |-> -1], [t1 |-> 2, t2 |-> -1]}

\* AutoIp: both hosts begin with the same address.
Seeds == [x |-> 0, y |-> 0]

\* PppFsm: what each peer accepts, and what it proposes instead.
Acceptable == [a |-> {1, 2}, b |-> {2}]
Proposal == [a |-> 1, b |-> 2]

\* PppLcp: options each end may want and allow, and its magic numbers; the first
\* two are the same.
Opts(neg, mrus, maps) ==
  {[neg |-> n, mru |-> u, asyncmap |-> m] : n \in neg, u \in mrus, m \in maps}
LcpWants ==
  [a |-> Opts({{"mru", "asyncmap", "magic", "comp"},
               {"mru", "asyncmap", "chap", "upap", "magic"}}, {1, 4}, {{}}),
   b |-> Opts({{"mru", "asyncmap", "magic", "comp"}, {"upap", "magic"}}, {3}, {{"y"}})]
LcpAllows ==
  [a |-> Opts({{"mru", "asyncmap", "magic", "comp", "chap", "upap"},
               {"mru", "asyncmap", "chap"}}, {4}, {{}, {"x"}}),
   b |-> Opts({{"mru", "asyncmap", "magic", "upap"}, {"comp", "chap"}}, {4}, {{"y"}})]
Magics == [a |-> <<1, 2, 3, 4, 5, 6, 7, 8, 9>>, b |-> <<1, 12, 13, 14, 15, 16, 17, 18, 19>>]

\* PppIpcp: what each end may want and allow.
Want(ours, his, vj, slots, c, dns) ==
  {[ouraddr |-> o, hisaddr |-> h, neg_vj |-> v, slots |-> slots, cflag |-> c, usepeerdns |-> d] :
     o \in ours, h \in his, v \in vj, d \in dns}
Allow(addr, vj, slots, cs, dns) ==
  {[neg_addr |-> n, neg_vj |-> v, slots |-> slots, cflag |-> c, dns |-> d] :
     n \in addr, v \in vj, c \in cs, d \in dns}
IpcpWants ==
  [a |-> Want({"0.0.0.0"}, {"0.0.0.0"}, {TRUE}, 15, FALSE, {TRUE}),
   b |-> Want({"0.0.0.0", "S"}, {"0.0.0.0", "C"}, BOOLEAN, 3, TRUE, {TRUE})]
IpcpAllows ==
  [a |-> Allow({TRUE}, {TRUE}, 15, {TRUE}, {"0.0.0.0"}),
   b |-> Allow(BOOLEAN, BOOLEAN, 3, {FALSE}, {"0.0.0.0", "D"})]

\* PppFrame: packets with octets that need an escape, one of a control protocol.
PppPacket(proto, data, control) == [proto |-> proto, data |-> data, control |-> control]
PppPackets ==
  <<PppPacket(33, <<<<126>>>>, FALSE), PppPacket(49185, <<<<17>>, <<125>>>>, TRUE),
    PppPacket(33, <<<<255>>, <<3>>>>, FALSE)>>

\* Vj: headers of three conversations for two slots; values wrap, and both special
\* encodings happen.
Header(kind, conn, seq, ack, win, id, data) ==
  [kind |-> kind, conn |-> conn, seq |-> seq, ack |-> ack, win |-> win, id |-> id,
   data |-> data, rest |-> 0, urg |-> FALSE, urp |-> 0, psh |-> FALSE]
Headers ==
  {Header("tcp", "A", 0, 0, 1, 0, 1), Header("tcp", "A", 1, 0, 1, 1, 1),
   [Header("tcp", "A", 3, 2, 2, 1, 0) EXCEPT !.urg = TRUE, !.urp = 2],
   Header("tcp", "B", 14, 0, 1, 1, 2), [Header("tcp", "B", 0, 2, 1, 2, 2) EXCEPT !.psh = TRUE],
   Header("spans", "C", 1, 0, 0, 0, 0), Header("tcp", "C", 0, 0, 0, 0, 0),
   Header("plain", "A", 0, 0, 0, 0, 0)}
Zeros == Header("tcp", "none", 0, 0, 0, 0, 0)

-----------------------------------------------------------------------------
(* The components.                                                         *)

Heap == INSTANCE Mem WITH
  MEM_SIZE <- 10, HDR <- 1, MIN_SIZE <- 2, MaxOwned <- 3,
  Elements <- <<1, 2, 3>>, ram <- s1, lfree <- s2, owned <- s3,
  memp_tab <- s4, taken <- s5

ASSUME HeapConstants == Heap!MemConstants

Pb == INSTANCE Pbuf WITH
  POOL <- {"p1", "p2"}, ROM <- {}, RAM <- {"m1"}, PBUF_POOL_BUFSIZE <- 2,
  Headroom <- 1, MaxLen <- 2, MaxRef <- 2, pb <- s1, alive <- s2, held <- s3

ASSUME PacketConstants == Pb!PbufConstants

Timeo == INSTANCE SysTimeo WITH
  Cyclic <- Periods, TCP_TMR_INTERVAL <- 2, Delays <- {1, 3},
  MEMP_NUM_SYS_TIMEOUT <- 5, MaxPcbs <- 2, MaxClock <- 8, list <- s1,
  active <- s2, pcbs <- s3, clock <- s4, fired <- s5, failed <- s6

Sock == INSTANCE Sockets WITH
  NUM_SOCKETS <- 2, Conns <- {"n"}, Threads <- {"t1", "t2"}, MaxItems <- 2,
  sock <- s1, cn <- s2, box <- s3, new <- s4, cb <- s5, th <- s6

Arp == INSTANCE Etharp WITH
  Hosts <- {"gw", "b", "c"}, Gw <- "gw", ARP_TABLE_SIZE <- 2,
  ARP_MAXAGE <- 2, ARP_MAXPENDING <- 1, MEMP_NUM_ARP_QUEUE <- 2,
  MaxPackets <- 2, arp_table <- s1, etharp_cached_entry <- s2, packets <- s3,
  dest <- s4, wire <- s5

ASSUME LinkConstants == Arp!ArpConstants

Frag == INSTANCE IpFrag WITH
  Chain <- Chains, Mtus <- {2, 3}, OFF_UNIT <- 2, IP_REASS_MAX_PBUFS <- 3,
  IP_REASS_MAXAGE <- 1, MEMP_NUM_REASSDATA <- 2, net <- s1,
  reassdatagrams <- s2, ip_reass_pbufcount <- s3, delivered <- s4, panic <- s5

Dns == INSTANCE Dns WITH
  DNS_TABLE_SIZE <- 2, DNS_MAX_SERVERS <- 2, DNS_MAX_RETRIES <- 1,
  DNS_MAX_TTL <- 1, NameOf <- Names, Then <- Follow,
  AsksOn <- {"answer", "timeout", "error"}, LocalNames <- {"n"},
  Ttls <- {0, 2}, tab <- s1, seqno <- s2, req <- s3, told <- s4,
  servers <- s5, peer <- s6, sent <- s7, local <- s8, nested <- s9

Api == INSTANCE Api WITH
  Conns <- {"x", "y"}, OpsOf <- Ops, TCPIP_MBOX_SIZE <- 2,
  DEFAULT_TCP_RECVMBOX_SIZE <- 1, DEFAULT_ACCEPTMBOX_SIZE <- 1,
  WriteLen <- 2, SndBuf <- 1, MaxData <- 1, MaxFails <- 1, conn <- s1,
  user <- s2, mbox <- s3, tcpip <- s4, got <- s5, fails <- s6

Accept == INSTANCE Api WITH
  Conns <- {"x", "y", "z"}, OpsOf <- AcceptOps, TCPIP_MBOX_SIZE <- 2,
  DEFAULT_TCP_RECVMBOX_SIZE <- 1, DEFAULT_ACCEPTMBOX_SIZE <- 1,
  WriteLen <- 2, SndBuf <- 1, MaxData <- 0, MaxFails <- 0, conn <- s1,
  user <- s2, mbox <- s3, tcpip <- s4, got <- s5, fails <- s6

If == INSTANCE Netif WITH
  Netifs <- {"lo", "en"}, Addrs <- {"any", "a", "b"}, netif_list <- s1,
  netif_default <- s2, netif <- s3, active <- s4, listen <- s5, gone <- s6

Loop == INSTANCE Loopback WITH
  LWIP_LOOPBACK_MAX_PBUFS <- 3, CountMod <- 16, MaxLooped <- 6, loop <- s1,
  loop_cnt_current <- s2, sent <- s3, overlapped <- s4

UdpPcbs == INSTANCE Udp WITH
  UPcbs <- {"p1", "p2", "p3"}, DhcpPcb <- "none", FixedPorts <- {7},
  DHCP_CLIENT_PORT <- 68, DHCP_SERVER_PORT <- 67,
  UDP_LOCAL_PORT_RANGE_START <- 100, UDP_LOCAL_PORT_RANGE_END <- 102,
  Remotes <- Remotes, MyIp <- "me", Locals <- {"any"}, pcb <- s1,
  udp_pcbs <- s2, last <- s3

\* One pcb is the DHCP client's, and an application may ask for its port.
DhcpUdp == INSTANCE Udp WITH
  UPcbs <- {"p1", "p2", "d"}, DhcpPcb <- "d", FixedPorts <- {68},
  DHCP_CLIENT_PORT <- 68, DHCP_SERVER_PORT <- 67,
  UDP_LOCAL_PORT_RANGE_START <- 100, UDP_LOCAL_PORT_RANGE_END <- 102,
  Remotes <- Remotes, MyIp <- "me", Locals <- {"any"}, pcb <- s1,
  udp_pcbs <- s2, last <- s3

RawPcbs == INSTANCE Raw WITH
  RPcbs <- {"p1", "p2", "p3"}, Protos <- {"icmp", "udp"}, raw_pcbs <- s1,
  next <- s2, proto <- s3, recv <- s4, walk <- s5, stale <- s6

Ig == INSTANCE Igmp WITH
  NetifSeq <- <<"n1", "n2">>, Groups <- {"g1"}, MEMP_NUM_IGMP_GROUP <- 3,
  IGMP_JOIN_DELAYING_MEMBER_TMR <- 2, IGMP_V1_DELAYING_MEMBER_TMR <- 4,
  MaxResps <- {0, 1, 2, 4}, MaxUse <- 2, group <- s1, filter <- s2, joined <- s3,
  asked <- s4

Auto == INSTANCE AutoIp WITH
  AHosts <- {"x", "y"}, Seed <- Seeds, RangeSize <- 3, PROBE_NUM <- 2,
  ANNOUNCE_NUM <- 2, MAX_CONFLICTS <- 1, Waits <- {0, 1}, RateLimit <- 2,
  DEFEND_INTERVAL <- 1, MaxTried <- 3, Foreign <- {0}, autoip <- s1,
  netif <- s2, arp <- s3

Lease == INSTANCE Dhcp WITH
  Addrs <- {"a", "b"}, Leases <- Leases, T_WRAP <- 2, SELECT_TRIES <- 1,
  CHECK_TRIES <- 1, REBIND_TRIES <- 1, REBOOT_TRIES <- 2, MaxXid <- 2,
  MaxTries <- 2, MaxAnswers <- 2, dhcp <- s1, xid <- s2, nif <- s3,
  out <- s4, in <- s5, lease <- s6

Fsm == INSTANCE PppFsm WITH
  Peers <- {"a", "b"}, Wants <- {1, 2}, Accepts <- Acceptable,
  Hint <- Proposal, MaxConfReqs <- 2, MaxTermReqs <- 1, MaxNakLoops <- 1,
  IdMod <- 8, LinkCap <- 2, MaxOps <- 5, MaxLost <- 1, MaxLate <- 1,
  MaxSlips <- 2, Calls <- {"up", "down", "open", "close", "protrej", "other"},
  f <- s1, link <- s2, ops <- s3, lost <- s4, late <- s5

Lcp == INSTANCE PppLcp WITH
  Ends <- {"a", "b"}, WantSet <- LcpWants, AllowSet <- LcpAllows,
  Draws <- Magics, PPP_MINMRU <- 2, PPP_DEFMRU <- 3, PPP_MRU <- 3,
  AllChars <- {"x", "y", "z"}, MaxNakLoops <- 2, lcp_loopbackfail <- 3,
  wo <- s1, ao <- s2, go <- s3, ho <- s4, req <- s5, ans <- s6, live <- s7,
  st <- s8, nakloops <- s9, drawn <- s10

Ipcp == INSTANCE PppIpcp WITH
  Ends <- {"a", "b"}, WantSet <- IpcpWants, AllowSet <- IpcpAllows,
  MaxNakLoops <- 2, wo <- s1, ao <- s2, go <- s3, ho <- s4, req_addr <- s5,
  cis_received <- s6, req <- s7, ans <- s8, st <- s9, nakloops <- s10

Auth == INSTANCE PppAuth WITH
  MaxLinks <- 2, MaxTransmits <- 1, IdMod <- 2, MaxChallenges <- 1,
  AuthRequired <- BOOLEAN, Closes <- TRUE, u <- s1

Unit == INSTANCE PppUnit WITH
  TCPIP_MBOX_SIZE <- 3, MaxOpens <- 3, MaxHups <- 2, openFlag <- s1,
  kill_link <- s2, sig_hup <- s3, if_up <- s4, phase <- s5, lcp <- s6,
  main <- s7, mbox <- s8, opens <- s9, hups <- s10

Oe == INSTANCE PppOe WITH
  PPPOE_DISC_MAXPADI <- 2, PPPOE_DISC_MAXPADR <- 2, MaxOpens <- 2,
  MaxCalls <- 1, MaxAc <- 2, MaxErrs <- 1, sc <- s1, openFlag <- s2,
  phase <- s3, lcp <- s4, cbs <- s5, calls <- s6, ac <- s7, errs <- s8

Line == INSTANCE PppFrame WITH
  Packets <- PppPackets, Accm <- {17}, Accomp <- TRUE, Pcomp <- TRUE,
  FcsEscapes <- {1}, MaxNoise <- 1, MaxFails <- 1, next <- s1, flagged <- s2,
  line <- s3, rx <- s4, got <- s5, noise <- s6, fails <- s7

Slots == INSTANCE Vj WITH
  MAX_SLOTS <- 2, compressSlot <- TRUE, U16 <- 4, U32 <- 16,
  Packets <- Headers, NoHeader <- Zeros, MaxSent <- 4, MaxDamaged <- 1,
  MaxVanished <- 1, MaxOpens <- 1, lru <- s1, tstate <- s2, rstate <- s3,
  last_xmit <- s4, last_recv <- s5, toss <- s6, line <- s7, behind <- s8,
  got <- s9, sent <- s10, damaged <- s11, vanished <- s12, opens <- s13

-----------------------------------------------------------------------------
Unused == "unused"

Init ==
  \/ /\ part = "mem" /\ Heap!Init
     /\ s6 = Unused /\ s7 = Unused /\ s8 = Unused /\ s9 = Unused
     /\ s10 = Unused /\ s11 = Unused /\ s12 = Unused /\ s13 = Unused
  \/ /\ part = "pbuf" /\ Pb!Init
     /\ s4 = Unused /\ s5 = Unused /\ s6 = Unused /\ s7 = Unused
     /\ s8 = Unused /\ s9 = Unused /\ s10 = Unused /\ s11 = Unused
     /\ s12 = Unused /\ s13 = Unused
  \/ /\ part = "timeo" /\ Timeo!Init
     /\ s7 = Unused /\ s8 = Unused /\ s9 = Unused /\ s10 = Unused
     /\ s11 = Unused /\ s12 = Unused /\ s13 = Unused
  \/ /\ part = "sockets" /\ Sock!Init
     /\ s7 = Unused /\ s8 = Unused /\ s9 = Unused /\ s10 = Unused
     /\ s11 = Unused /\ s12 = Unused /\ s13 = Unused
  \/ /\ part = "etharp" /\ Arp!Init
     /\ s6 = Unused /\ s7 = Unused /\ s8 = Unused /\ s9 = Unused
     /\ s10 = Unused /\ s11 = Unused /\ s12 = Unused /\ s13 = Unused
  \/ /\ part = "frag" /\ Frag!Init
     /\ s6 = Unused /\ s7 = Unused /\ s8 = Unused /\ s9 = Unused
     /\ s10 = Unused /\ s11 = Unused /\ s12 = Unused /\ s13 = Unused
  \/ /\ part = "dns" /\ Dns!Init
     /\ s10 = Unused /\ s11 = Unused /\ s12 = Unused /\ s13 = Unused
  \/ /\ part = "api" /\ Api!Init
     /\ s7 = Unused /\ s8 = Unused /\ s9 = Unused /\ s10 = Unused
     /\ s11 = Unused /\ s12 = Unused /\ s13 = Unused
  \/ /\ part = "accept" /\ Accept!Init
     /\ s7 = Unused /\ s8 = Unused /\ s9 = Unused /\ s10 = Unused
     /\ s11 = Unused /\ s12 = Unused /\ s13 = Unused
  \/ /\ part = "netif" /\ If!Init
     /\ s7 = Unused /\ s8 = Unused /\ s9 = Unused /\ s10 = Unused
     /\ s11 = Unused /\ s12 = Unused /\ s13 = Unused
  \/ /\ part = "loop" /\ Loop!Init
     /\ s5 = Unused /\ s6 = Unused /\ s7 = Unused /\ s8 = Unused
     /\ s9 = Unused /\ s10 = Unused /\ s11 = Unused /\ s12 = Unused
     /\ s13 = Unused
  \/ /\ part = "udp" /\ UdpPcbs!Init
     /\ s4 = Unused /\ s5 = Unused /\ s6 = Unused /\ s7 = Unused
     /\ s8 = Unused /\ s9 = Unused /\ s10 = Unused /\ s11 = Unused
     /\ s12 = Unused /\ s13 = Unused
  \/ /\ part = "udpdhcp" /\ DhcpUdp!Init
     /\ s4 = Unused /\ s5 = Unused /\ s6 = Unused /\ s7 = Unused
     /\ s8 = Unused /\ s9 = Unused /\ s10 = Unused /\ s11 = Unused
     /\ s12 = Unused /\ s13 = Unused
  \/ /\ part = "raw" /\ RawPcbs!Init
     /\ s7 = Unused /\ s8 = Unused /\ s9 = Unused /\ s10 = Unused
     /\ s11 = Unused /\ s12 = Unused /\ s13 = Unused
  \/ /\ part = "igmp" /\ Ig!Init
     /\ s5 = Unused /\ s6 = Unused /\ s7 = Unused /\ s8 = Unused
     /\ s9 = Unused /\ s10 = Unused /\ s11 = Unused /\ s12 = Unused
     /\ s13 = Unused
  \/ /\ part = "autoip" /\ Auto!Init
     /\ s4 = Unused /\ s5 = Unused /\ s6 = Unused /\ s7 = Unused
     /\ s8 = Unused /\ s9 = Unused /\ s10 = Unused /\ s11 = Unused
     /\ s12 = Unused /\ s13 = Unused
  \/ /\ part = "dhcp" /\ Lease!Init
     /\ s7 = Unused /\ s8 = Unused /\ s9 = Unused /\ s10 = Unused
     /\ s11 = Unused /\ s12 = Unused /\ s13 = Unused
  \/ /\ part = "fsm" /\ Fsm!Init
     /\ s6 = Unused /\ s7 = Unused /\ s8 = Unused /\ s9 = Unused
     /\ s10 = Unused /\ s11 = Unused /\ s12 = Unused /\ s13 = Unused
  \/ /\ part = "lcp" /\ Lcp!Init
     /\ s11 = Unused /\ s12 = Unused /\ s13 = Unused
  \/ /\ part = "ipcp" /\ Ipcp!Init
     /\ s11 = Unused /\ s12 = Unused /\ s13 = Unused
  \/ /\ part = "auth" /\ Auth!Init
     /\ s2 = Unused /\ s3 = Unused /\ s4 = Unused /\ s5 = Unused
     /\ s6 = Unused /\ s7 = Unused /\ s8 = Unused /\ s9 = Unused
     /\ s10 = Unused /\ s11 = Unused /\ s12 = Unused /\ s13 = Unused
  \/ /\ part = "unit" /\ Unit!Init
     /\ s11 = Unused /\ s12 = Unused /\ s13 = Unused
  \/ /\ part = "oe" /\ Oe!Init
     /\ s9 = Unused /\ s10 = Unused /\ s11 = Unused /\ s12 = Unused
     /\ s13 = Unused
  \/ /\ part = "frame" /\ Line!Init
     /\ s8 = Unused /\ s9 = Unused /\ s10 = Unused /\ s11 = Unused
     /\ s12 = Unused /\ s13 = Unused
  \/ /\ part = "vj" /\ Slots!Init

Next ==
  \/ /\ part = "mem" /\ Heap!Next
     /\ UNCHANGED <<part, s6, s7, s8, s9, s10, s11, s12, s13>>
  \/ /\ part = "pbuf" /\ Pb!Next
     /\ UNCHANGED <<part, s4, s5, s6, s7, s8, s9, s10, s11, s12, s13>>
  \/ /\ part = "timeo" /\ Timeo!Next
     /\ UNCHANGED <<part, s7, s8, s9, s10, s11, s12, s13>>
  \/ /\ part = "sockets" /\ Sock!Next
     /\ UNCHANGED <<part, s7, s8, s9, s10, s11, s12, s13>>
  \/ /\ part = "etharp" /\ Arp!Next
     /\ UNCHANGED <<part, s6, s7, s8, s9, s10, s11, s12, s13>>
  \/ /\ part = "frag" /\ Frag!Next
     /\ UNCHANGED <<part, s6, s7, s8, s9, s10, s11, s12, s13>>
  \/ /\ part = "dns" /\ Dns!Next
     /\ UNCHANGED <<part, s10, s11, s12, s13>>
  \/ /\ part = "api" /\ Api!Next
     /\ UNCHANGED <<part, s7, s8, s9, s10, s11, s12, s13>>
  \/ /\ part = "accept" /\ Accept!Next
     /\ UNCHANGED <<part, s7, s8, s9, s10, s11, s12, s13>>
  \/ /\ part = "netif" /\ If!Next
     /\ UNCHANGED <<part, s7, s8, s9, s10, s11, s12, s13>>
  \/ /\ part = "loop" /\ Loop!Next
     /\ UNCHANGED <<part, s5, s6, s7, s8, s9, s10, s11, s12, s13>>
  \/ /\ part = "udp" /\ UdpPcbs!Next
     /\ UNCHANGED <<part, s4, s5, s6, s7, s8, s9, s10, s11, s12, s13>>
  \/ /\ part = "udpdhcp" /\ DhcpUdp!Next
     /\ UNCHANGED <<part, s4, s5, s6, s7, s8, s9, s10, s11, s12, s13>>
  \/ /\ part = "raw" /\ RawPcbs!Next
     /\ UNCHANGED <<part, s7, s8, s9, s10, s11, s12, s13>>
  \/ /\ part = "igmp" /\ Ig!Next
     /\ UNCHANGED <<part, s5, s6, s7, s8, s9, s10, s11, s12, s13>>
  \/ /\ part = "autoip" /\ Auto!Next
     /\ UNCHANGED <<part, s4, s5, s6, s7, s8, s9, s10, s11, s12, s13>>
  \/ /\ part = "dhcp" /\ Lease!Next
     /\ UNCHANGED <<part, s7, s8, s9, s10, s11, s12, s13>>
  \/ /\ part = "fsm" /\ Fsm!Next
     /\ UNCHANGED <<part, s6, s7, s8, s9, s10, s11, s12, s13>>
  \/ /\ part = "lcp" /\ Lcp!Next
     /\ UNCHANGED <<part, s11, s12, s13>>
  \/ /\ part = "ipcp" /\ Ipcp!Next
     /\ UNCHANGED <<part, s11, s12, s13>>
  \/ /\ part = "auth" /\ Auth!Next
     /\ UNCHANGED <<part, s2, s3, s4, s5, s6, s7, s8, s9, s10, s11, s12, s13>>
  \/ /\ part = "unit" /\ Unit!Next
     /\ UNCHANGED <<part, s11, s12, s13>>
  \/ /\ part = "oe" /\ Oe!Next
     /\ UNCHANGED <<part, s9, s10, s11, s12, s13>>
  \/ /\ part = "frame" /\ Line!Next
     /\ UNCHANGED <<part, s8, s9, s10, s11, s12, s13>>
  \/ /\ part = "vj" /\ Slots!Next
     /\ UNCHANGED <<part>>

Spec == Init /\ [][Next]_vars

-----------------------------------------------------------------------------
(* Properties.                                                             *)

\* The heap and the pools lose and confuse nothing, whatever is allocated, shrunk
\* and freed in whatever order: the blocks tile the heap, each used block has one
\* owner, neighbours that are free are joined, the search starts low enough
\* (mem.c), and no element is given to two (memp.c).
HeapSound ==
  part = "mem" => Heap!HeapSound

\* Chains of buffers shared by several holders stay whole: a pbuf goes back to its
\* pool exactly when its last holder lets go, and the lengths that loops over a
\* packet stop at are those of its data (pbuf.c).
PbufsSound ==
  part = "pbuf" => Pb!PbufsSound

\* Nothing that is waited for is forgotten: every timeout runs when it is due and
\* the periodic timers stay set, until the pool of timeouts is used up (sys.c); a
\* thread in lwip_select() is woken for every socket with an event, also for what
\* came before the accept (sockets.c).
WakeupsSound ==
  /\ part = "timeo" => Timeo!DeltasExact /\ Timeo!TimersKept
  /\ part = "sockets" => Sock!EventsExact /\ Sock!NoLostWakeup

\* No packet goes to the wrong Ethernet address or overtakes another to the same
\* one, however entries are resolved, recycled and expire (etharp.c).
ArpSound ==
  part = "etharp" => Arp!ArpSound


\* Nobody is told the address of another name, and everybody is told once, but for
\* requests made in the callback of an error response (dns_recv(),
\* dns_check_entry()); a netconn's thread is signalled exactly when it waits, and a
\* write that returns ERR_OK wrote everything, whatever fails or is aborted between
\* (do_writemore(), accept_function(), err_tcp()).
ServicesSound ==
  /\ part = "dns" => Dns!AnsweredRight /\ Dns!HeardOnce
  /\ part = "api" => Api!SignalsExact /\ Api!WriteWhole
  /\ part = "accept" => Accept!SignalsExact /\ Accept!WriteWhole

\* Datagrams find their way: the list of UDP pcbs stays whole while pcbs move, bind
\* and go, and a connected pcb comes first and hears its peer only (udp.c).  The list
\* of raw pcbs stays whole exactly until a pcb that eats a packet is moved to the
\* front though its receive function removed it or the pcb before it (raw.c).  A
\* group is a member's as long as someone uses it, and queries about it are answered
\* unless half their response time is no tick (igmp.c).  Packets to oneself are
\* counted until one is taken while another waits (netif.c).
DatagramsSound ==
  /\ part = "udp" => UdpPcbs!UdpListIntact /\ UdpPcbs!EphemeralUnique /\ UdpPcbs!ConnectedFirst
  /\ part = "udpdhcp" => DhcpUdp!UdpListIntact /\ DhcpUdp!EphemeralUnique /\ DhcpUdp!ConnectedFirst
  /\ part = "raw" => RawPcbs!RawListIntact
  /\ part = "igmp" => Ig!GroupUsed /\ Ig!AnswerPending
  /\ part = "loop" => Loop!LoopCounted

\* An interface has an address it may use: routes lead to interfaces that are up
\* and connections use addresses that exist (netif.c), hosts that hear each other
\* use different ones (autoip.c), the DHCP client hangs only after an offer without
\* the server's identifier, and takes an address it has checked only after the
\* server acknowledged it (dhcp.c).
AddressesSound ==
  /\ [](part = "netif" => If!RouteSound /\ If!AddressesLive)
  /\ [](part = "autoip" => Auto!NoDuplicateAddress /\ Auto!UsesChosen)
  /\ [](part = "dhcp" => Lease!TimerRuns)
  /\ [][part = "dhcp" => Lease!CheckedStep]_vars

\* Octets are escaped and frames delimited so that a frame arrives as it was sent or
\* not at all (ppp.c).  A header is rebuilt as it was sent as long as no frame of its
\* conversation was lost since the last uncompressed one, whatever happens to the
\* others, and taken for another conversation's only after a frame vanished
\* unnoticed (vj.c).
LineSound ==
  /\ part = "frame" => Line!FramesIntact /\ Line!LossBounded
  /\ part = "vj" => Slots!VjExact

\* What is negotiated is understood alike at both ends: the layer above hears up
\* and down in turn, one timeout is pending where one is needed, except after a
\* Terminate-Ack taken in OPENED, and values that were acknowledged are those that
\* were asked for (fsm.c); the options LCP and IPCP agree on fit together, and a
\* looped line is detected (lcp.c, ipcp.c).
NegotiationSound ==
  /\ part = "fsm" => Fsm!UpWhileOpened /\ Fsm!OneTimeout /\ Fsm!Agreed
  /\ part = "lcp" => Lcp!LcpFits /\ Lcp!LoopDetected
  /\ part = "ipcp" => Ipcp!IpcpAgrees

\* The network protocol is up only on an open link, and the network phase begins
\* authenticated as negotiated, except on a link that CHAP's success finds not open
\* (auth.c); an interface that is up belongs to an open unit (ppp.c); sessions left
\* behind are inert (ppp_oe.c).
LinkSound ==
  /\ part = "auth" => Auth!NetworkAuthenticated /\ Auth!NetworkLate
  /\ part = "unit" => Unit!IfUpOwned
  /\ part = "oe" => Oe!OneSession
=============================================================================
