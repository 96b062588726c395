------------------------------ MODULE TcpPcbs ------------------------------
(***************************************************************************)
(* The TCP protocol control blocks of lwIP: the pcb pool, the four pcb     *)
(* lists, the connection state machine of tcp_process(), the calls of the  *)
(* raw API that move a pcb between lists, and the slow timer that reclaims *)
(* pcbs.  Sources: core/tcp.c, core/tcp_in.c, include/lwip/tcp.h.          *)
(*                                                                         *)
(* Segments are abstracted to what the state machine tells apart; the      *)
(* receive queues are the subject of TcpRecv.  A pcb's age is tcp_ticks -  *)
(* pcb->tmr, saturated at MaxAge.                                          *)
(***************************************************************************)
EXTENDS Integers, Sequences, FiniteSets

CONSTANTS
  Pcbs,             \* the slots of the MEMP_TCP_PCB pool
  LPcbs,            \* the slots of the MEMP_TCP_PCB_LISTEN pool
  Peers,            \* remote (address, port) pairs
  NoPeer,           \* the remote end of a pcb that has none
  Ports,            \* ports an application passes to tcp_bind (0: "any port")
  EphPorts,         \* TCP_LOCAL_PORT_RANGE_START .. TCP_LOCAL_PORT_RANGE_END
  Prios,            \* priorities an application passes to tcp_setprio
  TCP_PRIO_NORMAL,
  TCP_PRIO_MAX,
  LISTEN_PRIO,      \* lpcb->prio, which tcp_listen_with_backlog never sets
  TCP_MAXRTX,
  TCP_SYNMAXRTX,
  FinWaitTicks,     \* TCP_FIN_WAIT_TIMEOUT / TCP_SLOW_INTERVAL
  SynRcvdTicks,     \* TCP_SYN_RCVD_TIMEOUT / TCP_SLOW_INTERVAL
  MslTicks,         \* 2 * TCP_MSL / TCP_SLOW_INTERVAL
  MaxAge,           \* where a pcb's age saturates
  Routes,           \* what ip_route() may answer while connecting
  ErrfSet,          \* the application registers tcp_err() on its pcbs
  AbortUnconnected  \* the application may tcp_abort() an unconnected pcb

ASSUME PoolsDisjoint == Pcbs \cap LPcbs = {}
ASSUME NoPeerIsNone == NoPeer \notin Peers
ASSUME PortsAreNat == Ports \subseteq Nat /\ EphPorts \subseteq Nat \ {0}
ASSUME PriosAreNat ==
  /\ TCP_PRIO_NORMAL \in Nat /\ TCP_PRIO_MAX \in Nat /\ LISTEN_PRIO \in Nat
  /\ Prios \subseteq Nat
ASSUME RtxBounds ==
  /\ TCP_MAXRTX \in Nat /\ TCP_SYNMAXRTX \in Nat
  /\ TCP_SYNMAXRTX <= TCP_MAXRTX
ASSUME TickBounds ==
  /\ FinWaitTicks \in Nat /\ SynRcvdTicks \in Nat /\ MslTicks \in Nat
  /\ MaxAge \in Nat
  /\ MaxAge > FinWaitTicks /\ MaxAge > SynRcvdTicks /\ MaxAge > MslTicks
ASSUME FlagsAreBoolean ==
  /\ Routes \subseteq BOOLEAN /\ Routes # {}
  /\ ErrfSet \in BOOLEAN /\ AbortUnconnected \in BOOLEAN

VARIABLES
  pcb,      \* the pcb in each slot of the pool
  lpcb,     \* the listening pcb in each slot of its pool
  bound,    \* tcp_bound_pcbs, head first
  active,   \* tcp_active_pcbs
  tw,       \* tcp_tw_pcbs
  listen,   \* tcp_listen_pcbs
  stale,    \* slots freed while the application kept a pointer to them
  walk      \* where tcp_slowtmr() is in its walk of the lists

vars == <<pcb, lpcb, bound, active, tw, listen, stale, walk>>

\* States in which tcp_input() and tcp_slowtmr() expect a pcb of
\* tcp_active_pcbs to be.
ActiveStates == {"SYN_SENT", "SYN_RCVD", "ESTABLISHED", "FIN_WAIT_1",
                 "FIN_WAIT_2", "CLOSE_WAIT", "CLOSING", "LAST_ACK"}

\* FREE: the slot is in the memp pool.
States == ActiveStates \cup {"FREE", "CLOSED", "TIME_WAIT"}

\* IP_ADDR_ANY, or the address of the network interface.
Addrs == {"ANY", "HOST"}

\* nrtx is a u8_t that nothing clamps; the model stops counting one past the
\* limit that tcp_slowtmr() compares it with.
NrtxCap == TCP_MAXRTX + 1

\* syn: whether a SYN_SENT pcb has its SYN on unacked ("running": with the
\* retransmission timer on; "idle": with rtime still -1) or has none.
\* infr: TF_INFR.  app: the application holds a pointer to the pcb.
Pcb == [state : States, local_ip : Addrs, local_port : Nat,
        remote : Peers \cup {NoPeer}, prio : Nat, age : 0..MaxAge,
        nrtx : 0..NrtxCap, infr : BOOLEAN,
        syn : {"none", "idle", "running"}, app : BOOLEAN]

LPcb == [used : BOOLEAN, local_ip : Addrs, local_port : Nat]

Unused == [state |-> "FREE", local_ip |-> "ANY", local_port |-> 0,
           remote |-> NoPeer, prio |-> TCP_PRIO_NORMAL, age |-> 0,
           nrtx |-> 0, infr |-> FALSE, syn |-> "none", app |-> FALSE]

\* What tcp_alloc() leaves in a pcb.
Fresh == [Unused EXCEPT !.state = "CLOSED"]

LUnused == [used |-> FALSE, local_ip |-> "ANY", local_port |-> 0]

Idle == [list |-> "none", pos |-> 1]

Running == walk = Idle

-----------------------------------------------------------------------------
(* The lists.                                                              *)

On(s, p) == \E i \in DOMAIN s : s[i] = p

TCP_REG(s, p) == <<p>> \o s

TCP_RMV(s, p) ==
  IF On(s, p)
  THEN LET k == CHOOSE i \in DOMAIN s :
                  s[i] = p /\ \A j \in DOMAIN s : j < i => s[j] # p
       IN  [i \in 1..(Len(s) - 1) |-> IF i < k THEN s[i] ELSE s[i + 1]]
  ELSE s

\* tcp_input() moves the pcb a segment belongs to to the front of its list.
ToFront(s, p) == TCP_REG(TCP_RMV(s, p), p)

\* A slot goes back to the pool.  The application, if it still holds the pcb,
\* learns of it only through the error callback.
Forget(p, errf) ==
  stale' = IF pcb[p].app /\ ~(errf /\ ErrfSet) THEN stale \cup {p} ELSE stale

-----------------------------------------------------------------------------
(* Allocation.                                                             *)

PoolEmpty == \A p \in Pcbs : pcb[p].state # "FREE"

\* tcp_kill_timewait(): the last of the oldest pcbs of tcp_tw_pcbs.
tcp_kill_timewait(p) ==
  \E i \in DOMAIN tw :
    /\ tw[i] = p
    /\ \A j \in DOMAIN tw : /\ pcb[tw[j]].age <= pcb[p].age
                            /\ j > i => pcb[tw[j]].age < pcb[p].age

\* tcp_kill_prio(): the candidate the scan of tcp_active_pcbs is left with.
\* The scan never lowers "inactivity" when it finds a lower priority.
KillCandidate(prio) ==
  LET scan[i \in 0..Len(active)] ==
        IF i = 0
        THEN [inactive |-> {}, inactivity |-> 0, mprio |-> TCP_PRIO_MAX]
        ELSE LET best == scan[i - 1]
                 cand == pcb[active[i]]
             IN  IF /\ cand.prio <= prio
                    /\ cand.prio <= best.mprio
                    /\ cand.age >= best.inactivity
                 THEN [inactive |-> {active[i]}, inactivity |-> cand.age,
                       mprio |-> cand.prio]
                 ELSE best
  IN  scan[Len(active)].inactive

tcp_kill_prio(prio, p) == On(active, p) /\ KillCandidate(prio) = {p}

\* tcp_alloc(prio) returns slot p: a free one, or the one of the connection it
\* killed to make room.
tcp_alloc(prio, p) ==
  \/ pcb[p].state = "FREE"
  \/ PoolEmpty /\ tcp_kill_timewait(p)
  \/ PoolEmpty /\ tw = <<>> /\ tcp_kill_prio(prio, p)

\* tcp_abandon() of an active victim calls its error callback, of a TIME_WAIT
\* one it does not.
KillEffects(p) ==
  /\ tw' = TCP_RMV(tw, p)
  /\ Forget(p, pcb[p].state # "TIME_WAIT")

-----------------------------------------------------------------------------
(* The raw API.  Every call runs to completion between two events.         *)

tcp_new ==
  /\ Running
  /\ \E p \in Pcbs :
       /\ tcp_alloc(TCP_PRIO_NORMAL, p)
       /\ KillEffects(p)
       /\ active' = TCP_RMV(active, p)
       /\ pcb' = [pcb EXCEPT ![p] = [Fresh EXCEPT !.app = TRUE]]
  /\ UNCHANGED <<lpcb, bound, listen, walk>>

Overlap(c, ip, port) ==
  c.local_port = port /\ (c.local_ip = "ANY" \/ ip = "ANY" \/ c.local_ip = ip)

\* Mutant: tcp_new_port() without its scan of tcp_active_pcbs.
PortTakenSkipsActive(port) ==
  \/ \E i \in DOMAIN tw : pcb[tw[i]].local_port = port
  \/ \E i \in DOMAIN listen : lpcb[listen[i]].local_port = port

\* The scans of tcp_new_port() and tcp_bind().
PortTaken(port) ==
  \/ \E i \in DOMAIN active : pcb[active[i]].local_port = port
  \/ \E i \in DOMAIN tw : pcb[tw[i]].local_port = port
  \/ \E i \in DOMAIN listen : lpcb[listen[i]].local_port = port

tcp_new_port == {q \in EphPorts : ~PortTaken(q)}

\* Mutant: tcp_bind() without its scan of tcp_bound_pcbs.
AddressInUseSkipsBound(ip, port) ==
  \/ \E i \in DOMAIN listen : Overlap(lpcb[listen[i]], ip, port)
  \/ \E i \in DOMAIN active : Overlap(pcb[active[i]], ip, port)
  \/ \E i \in DOMAIN tw : /\ pcb[tw[i]].local_port = port
                          /\ pcb[tw[i]].local_ip = ip

AddressInUse(ip, port) ==
  \/ \E i \in DOMAIN listen : Overlap(lpcb[listen[i]], ip, port)
  \/ \E i \in DOMAIN active : Overlap(pcb[active[i]], ip, port)
  \/ \E i \in DOMAIN bound : Overlap(pcb[bound[i]], ip, port)
  \/ \E i \in DOMAIN tw : /\ pcb[tw[i]].local_port = port
                          /\ pcb[tw[i]].local_ip = ip

\* A pcb is bound once: tcp_bind() does not check, its comment asks for it.
tcp_bind(p) ==
  /\ Running
  /\ pcb[p].app /\ pcb[p].state = "CLOSED" /\ ~On(bound, p)
  /\ \E ip \in Addrs, req \in Ports :
       \E port \in IF req = 0 THEN tcp_new_port ELSE {req} :
         /\ ~AddressInUse(ip, port)
         /\ pcb' = [pcb EXCEPT ![p].local_ip = ip, ![p].local_port = port]
  /\ bound' = TCP_REG(bound, p)
  /\ UNCHANGED <<lpcb, active, tw, listen, stale, walk>>

\* Mutant: the pcb that was just given back is registered as the listener.
tcp_listen_keeps_pcb(p) ==
  /\ Running
  /\ pcb[p].app /\ pcb[p].state = "CLOSED" /\ On(bound, p)
  /\ \E l \in LPcbs :
       /\ ~lpcb[l].used
       /\ lpcb' = [lpcb EXCEPT ![l].used = TRUE]
       /\ listen' = TCP_REG(listen, p)
  /\ bound' = TCP_RMV(bound, p)
  /\ pcb' = [pcb EXCEPT ![p] = Unused]
  /\ UNCHANGED <<active, tw, stale, walk>>

\* The pcb is given back to the pool and replaced by a smaller listening one.
\* The code does not check that the pcb is bound; rawapi.txt has it bound first.
tcp_listen(p) ==
  /\ Running
  /\ pcb[p].app /\ pcb[p].state = "CLOSED" /\ On(bound, p)
  /\ \E l \in LPcbs :
       /\ ~lpcb[l].used
       /\ lpcb' = [lpcb EXCEPT ![l] =
                     [used |-> TRUE, local_ip |-> pcb[p].local_ip,
                      local_port |-> pcb[p].local_port]]
       /\ listen' = TCP_REG(listen, l)
  /\ bound' = TCP_RMV(bound, p)
  /\ pcb' = [pcb EXCEPT ![p] = Unused]
  /\ UNCHANGED <<active, tw, stale, walk>>

\* mem: tcp_enqueue() found memory for the SYN.  Without it tcp_connect()
\* fails, but the pcb has already moved to tcp_active_pcbs.  Sending the SYN
\* gives the pcb its local address; tcp_output_segment() returns before it
\* starts the retransmission timer when ip_route() finds no interface.
tcp_connect(p) ==
  /\ Running
  /\ pcb[p].app /\ pcb[p].state = "CLOSED"
  /\ \E peer \in Peers, route \in Routes, mem \in BOOLEAN :
     \E port \in IF pcb[p].local_port = 0 THEN tcp_new_port
                                          ELSE {pcb[p].local_port} :
       LET routed == pcb[p].local_ip # "ANY" \/ route
       IN  pcb' = [pcb EXCEPT ![p].state = "SYN_SENT",
                              ![p].remote = peer,
                              ![p].local_port = port,
                              ![p].local_ip = IF mem /\ routed THEN "HOST"
                                                               ELSE @,
                              ![p].syn = IF ~mem THEN "none"
                                         ELSE IF routed THEN "running"
                                         ELSE "idle"]
  /\ bound' = TCP_RMV(bound, p)
  /\ active' = TCP_REG(active, p)
  /\ UNCHANGED <<lpcb, tw, listen, stale, walk>>

\* tcp_close().  The FIN needs memory: without it the call fails and nothing
\* changes.  A successful close ends the application's use of the pcb.
CloseFrees(p) ==
  /\ pcb[p].state \in {"CLOSED", "SYN_SENT"}
  /\ pcb' = [pcb EXCEPT ![p] = Unused]
  /\ bound' = IF pcb[p].state = "CLOSED" THEN TCP_RMV(bound, p) ELSE bound
  /\ active' = IF pcb[p].state = "SYN_SENT" THEN TCP_RMV(active, p)
                                            ELSE active

CloseSendsFin(p) ==
  /\ pcb[p].state \in {"SYN_RCVD", "ESTABLISHED", "CLOSE_WAIT"}
  /\ pcb' = [pcb EXCEPT ![p].app = FALSE,
                        ![p].state = IF @ = "CLOSE_WAIT" THEN "LAST_ACK"
                                                         ELSE "FIN_WAIT_1"]
  /\ UNCHANGED <<bound, active>>

tcp_close(p) ==
  /\ Running
  /\ pcb[p].app
  /\ CloseFrees(p) \/ CloseSendsFin(p)
  /\ UNCHANGED <<lpcb, tw, listen, stale, walk>>

tcp_close_listen(l) ==
  /\ Running
  /\ lpcb[l].used
  /\ lpcb' = [lpcb EXCEPT ![l] = LUnused]
  /\ listen' = TCP_RMV(listen, l)
  /\ UNCHANGED <<pcb, bound, active, tw, stale, walk>>

\* tcp_abort() = tcp_abandon(pcb, 1): takes the pcb off tcp_tw_pcbs or off
\* tcp_active_pcbs.  The caller gives up its pointer.
tcp_abort(p) ==
  /\ Running
  /\ pcb[p].app
  /\ pcb[p].state = "CLOSED" => AbortUnconnected
  /\ tw' = TCP_RMV(tw, p)
  /\ active' = TCP_RMV(active, p)
  /\ pcb' = [pcb EXCEPT ![p] = Unused]
  /\ UNCHANGED <<lpcb, bound, listen, stale, walk>>

tcp_setprio(p) ==
  /\ Running
  /\ pcb[p].app
  /\ \E prio \in Prios : pcb' = [pcb EXCEPT ![p].prio = prio]
  /\ UNCHANGED <<lpcb, bound, active, tw, listen, stale, walk>>

-----------------------------------------------------------------------------
(* tcp_input(): demultiplexing and the state machine.                      *)

\* ack: no ACK flag; a duplicate ("dup3": the one that triggers the fast
\* retransmission) or out-of-range one; one equal to snd_nxt that acknowledges
\* nothing new ("idem"); one that acknowledges some or all that was sent.
\* inwnd: the sequence number is in the receive window.  fin: tcp_receive()
\* reached the peer's FIN (TF_GOT_FIN).  Of the flags tcp_process() does not
\* look at once it has seen a RST or a SYN, one combination is kept.
Segment ==
  { s \in [rst : BOOLEAN, syn : BOOLEAN, fin : BOOLEAN, inwnd : BOOLEAN,
           ack : {"none", "dup", "dup3", "idem", "part", "all"}] :
      /\ s.rst => ~s.syn /\ ~s.fin /\ s.ack \in {"none", "all"}
      /\ ~s.rst => s.inwnd
      /\ s.syn => ~s.fin }

AcksNew(seg) == seg.ack \in {"part", "all"}

AcksAllSent(seg) == seg.ack \in {"idem", "all"}

Match(p, peer, port) ==
  /\ pcb[p].remote = peer /\ pcb[p].local_port = port
  /\ pcb[p].local_ip = "HOST"

FirstMatch(s, p, peer, port) ==
  \E i \in DOMAIN s : /\ s[i] = p
                      /\ Match(p, peer, port)
                      /\ \A j \in DOMAIN s : j < i => ~Match(s[j], peer, port)

NoMatch(s, peer, port) == \A i \in DOMAIN s : ~Match(s[i], peer, port)

CountRtx(n) == IF n < NrtxCap THEN n + 1 ELSE n

\* tcp_receive()'s effect on the retransmission counter: the third duplicate
\* ACK retransmits (tcp_rexmit_fast), once until new data is acknowledged.
AckRtx(c, seg) ==
  IF AcksNew(seg) THEN [c EXCEPT !.nrtx = 0, !.infr = FALSE]
  ELSE IF seg.ack = "dup3" /\ ~c.infr
  THEN [c EXCEPT !.nrtx = CountRtx(@), !.infr = TRUE]
  ELSE c

\* The record of pcb p after a segment that keeps it on tcp_active_pcbs.
Stays(p, seg, st) ==
  /\ active' = ToFront(active, p)
  /\ pcb' = [pcb EXCEPT ![p] =
                [AckRtx(pcb[p], seg) EXCEPT !.state = st, !.age = 0]]
  /\ UNCHANGED <<tw, stale>>

\* Mutant: TCP_REG(&tcp_tw_pcbs, pcb) without the TCP_RMV before it.
ToTimeWaitNoRmv(p) ==
  /\ active' = ToFront(active, p)
  /\ tw' = TCP_REG(tw, p)
  /\ pcb' = [pcb EXCEPT ![p].state = "TIME_WAIT", ![p].age = 0]
  /\ UNCHANGED stale

ToTimeWait(p) ==
  /\ active' = TCP_RMV(active, p)
  /\ tw' = TCP_REG(tw, p)
  /\ pcb' = [pcb EXCEPT ![p].state = "TIME_WAIT", ![p].age = 0]
  /\ UNCHANGED stale

Removed(p, errf) ==
  /\ active' = TCP_RMV(active, p)
  /\ pcb' = [pcb EXCEPT ![p] = Unused]
  /\ Forget(p, errf)
  /\ UNCHANGED tw

\* Mutant: tcp_input() frees the reset pcb without TCP_EVENT_ERR.
ProcessRstSilently(p, seg) ==
  /\ seg.rst
  /\ IF IF pcb[p].state = "SYN_SENT" THEN AcksAllSent(seg) ELSE seg.inwnd
     THEN Removed(p, FALSE)
     ELSE active' = ToFront(active, p) /\ UNCHANGED <<pcb, tw, stale>>

\* RST: acceptable when it acknowledges our SYN, or lies in the window.
ProcessRst(p, seg) ==
  /\ seg.rst
  /\ IF IF pcb[p].state = "SYN_SENT" THEN AcksAllSent(seg) ELSE seg.inwnd
     THEN Removed(p, TRUE)
     ELSE active' = ToFront(active, p) /\ UNCHANGED <<pcb, tw, stale>>

\* A SYN for a synchronised connection is only acknowledged.
ProcessStraySyn(p, seg) ==
  /\ ~seg.rst /\ seg.syn /\ pcb[p].state \notin {"SYN_SENT", "SYN_RCVD"}
  /\ active' = ToFront(active, p)
  /\ UNCHANGED <<pcb, tw, stale>>

Processes(p, seg, states) ==
  /\ pcb[p].state \in states
  /\ ~seg.rst
  /\ seg.syn => pcb[p].state \in {"SYN_SENT", "SYN_RCVD"}

\* The SYN's acknowledgement does not reset nrtx: nothing is left on unacked.
\* The code reads the sequence number of the SYN on unacked: a pcb whose SYN
\* was never queued has none.
ProcessSynSent(p, seg) ==
  /\ Processes(p, seg, {"SYN_SENT"})
  /\ seg.syn /\ seg.ack # "none" => pcb[p].syn # "none"
  /\ active' = ToFront(active, p)
  /\ pcb' = [pcb EXCEPT ![p].age = 0,
                        ![p].state = IF seg.syn /\ AcksAllSent(seg)
                                     THEN "ESTABLISHED" ELSE @,
                        ![p].syn = IF seg.syn /\ AcksAllSent(seg)
                                   THEN "none" ELSE @]
  /\ UNCHANGED <<tw, stale>>

\* The ACK of our SYN: the accept callback takes or refuses the connection.
\* A refused one is aborted; the application never held it.
Accepted(p, seg) ==
  /\ AcksNew(seg)
  /\ active' = ToFront(active, p)
  /\ pcb' = [pcb EXCEPT ![p] =
                [AckRtx(pcb[p], seg) EXCEPT
                   !.state = IF seg.fin THEN "CLOSE_WAIT" ELSE "ESTABLISHED",
                   !.age = 0, !.app = TRUE]]
  /\ UNCHANGED <<tw, stale>>

Refused(p, seg) ==
  /\ AcksNew(seg)
  /\ Removed(p, TRUE)

\* Another copy of the peer's SYN retransmits ours (tcp_rexmit), any other
\* segment leaves the connection as it is (a wrong ACK is answered by a RST).
SynRcvdOther(p, seg) ==
  /\ ~AcksNew(seg)
  /\ active' = ToFront(active, p)
  /\ pcb' = [pcb EXCEPT ![p].age = 0,
                        ![p].nrtx = IF seg.ack = "none" /\ seg.syn
                                    THEN CountRtx(@) ELSE @]
  /\ UNCHANGED <<tw, stale>>

ProcessSynRcvd(p, seg) ==
  /\ Processes(p, seg, {"SYN_RCVD"})
  /\ Accepted(p, seg) \/ Refused(p, seg) \/ SynRcvdOther(p, seg)

ProcessEstablished(p, seg) ==
  /\ Processes(p, seg, {"ESTABLISHED", "CLOSE_WAIT"})
  /\ Stays(p, seg, IF seg.fin THEN "CLOSE_WAIT" ELSE pcb[p].state)

ProcessFinWait1(p, seg) ==
  /\ Processes(p, seg, {"FIN_WAIT_1"})
  /\ IF seg.fin /\ AcksAllSent(seg)
     THEN ToTimeWait(p)
     ELSE Stays(p, seg, IF seg.fin THEN "CLOSING"
                        ELSE IF AcksAllSent(seg) THEN "FIN_WAIT_2"
                        ELSE "FIN_WAIT_1")

ProcessFinWait2(p, seg) ==
  /\ Processes(p, seg, {"FIN_WAIT_2"})
  /\ IF seg.fin THEN ToTimeWait(p) ELSE Stays(p, seg, "FIN_WAIT_2")

ProcessClosing(p, seg) ==
  /\ Processes(p, seg, {"CLOSING"})
  /\ IF AcksAllSent(seg) THEN ToTimeWait(p) ELSE Stays(p, seg, "CLOSING")

\* TF_CLOSED: the pcb is freed without a call of the error callback.
ProcessLastAck(p, seg) ==
  /\ Processes(p, seg, {"LAST_ACK"})
  /\ IF AcksAllSent(seg) THEN Removed(p, FALSE) ELSE Stays(p, seg, "LAST_ACK")

tcp_process(p, seg) ==
  \/ ProcessRst(p, seg)
  \/ ProcessStraySyn(p, seg)
  \/ ProcessSynSent(p, seg)
  \/ ProcessSynRcvd(p, seg)
  \/ ProcessEstablished(p, seg)
  \/ ProcessFinWait1(p, seg)
  \/ ProcessFinWait2(p, seg)
  \/ ProcessClosing(p, seg)
  \/ ProcessLastAck(p, seg)

tcp_input_active ==
  /\ Running
  /\ \E peer \in Peers, port \in Ports \cup EphPorts, p \in Pcbs :
       /\ FirstMatch(active, p, peer, port)
       /\ \E seg \in Segment : tcp_process(p, seg)
  /\ UNCHANGED <<lpcb, bound, listen, walk>>

\* A FIN restarts the 2 MSL wait; nothing else changes the pcb.
tcp_timewait_input ==
  /\ Running
  /\ \E peer \in Peers, port \in Ports \cup EphPorts, p \in Pcbs :
       /\ NoMatch(active, peer, port)
       /\ FirstMatch(tw, p, peer, port)
       /\ pcb' = [pcb EXCEPT ![p].age = 0]
  /\ UNCHANGED <<lpcb, bound, active, tw, listen, stale, walk>>

\* A SYN for a listening pcb.  mem: tcp_enqueue() found memory for the SYN|ACK;
\* otherwise tcp_abandon() frees the new pcb at once.  A victim of tcp_alloc()
\* is gone either way.
ListenMatch(l, port) ==
  \E i \in DOMAIN listen :
    /\ listen[i] = l /\ lpcb[l].local_port = port
    /\ \A j \in DOMAIN listen : j < i => lpcb[listen[j]].local_port # port

tcp_listen_input ==
  /\ Running
  /\ \E peer \in Peers, l \in LPcbs, p \in Pcbs, mem \in BOOLEAN :
       LET port == lpcb[l].local_port
       IN  /\ ListenMatch(l, port)
           /\ NoMatch(active, peer, port) /\ NoMatch(tw, peer, port)
           /\ tcp_alloc(LISTEN_PRIO, p)
           /\ KillEffects(p)
           /\ active' = IF mem THEN ToFront(active, p) ELSE TCP_RMV(active, p)
           /\ pcb' = [pcb EXCEPT ![p] =
                        IF mem THEN [Fresh EXCEPT !.state = "SYN_RCVD",
                                                  !.local_ip = "HOST",
                                                  !.local_port = port,
                                                  !.remote = peer]
                               ELSE Unused]
           /\ listen' = ToFront(listen, l)
  /\ UNCHANGED <<lpcb, bound, walk>>

\* Any other segment for a listening pcb, and a SYN when tcp_alloc() finds
\* nothing to kill: at most a RST is sent, and the peer has to try again.
tcp_listen_ignores ==
  /\ Running
  /\ \E peer \in Peers, l \in LPcbs :
       LET port == lpcb[l].local_port
       IN  /\ ListenMatch(l, port)
           /\ NoMatch(active, peer, port) /\ NoMatch(tw, peer, port)
           /\ listen' = ToFront(listen, l)
  /\ UNCHANGED <<pcb, lpcb, bound, active, tw, stale, walk>>

-----------------------------------------------------------------------------
(* tcp_slowtmr(): one step per pcb it visits.                              *)

Aged(c) == [c EXCEPT !.age = IF @ < MaxAge THEN @ + 1 ELSE @]

\* ++tcp_ticks
SlowTmrStart ==
  /\ Running
  /\ pcb' = [p \in Pcbs |-> Aged(pcb[p])]
  /\ walk' = [list |-> "active", pos |-> 1]
  /\ UNCHANGED <<lpcb, bound, active, tw, listen, stale>>

\* Mutant: no timeout for LAST_ACK.
ExpiredNotLastAck(c) ==
  \/ c.state = "SYN_SENT" /\ c.nrtx = TCP_SYNMAXRTX
  \/ c.nrtx = TCP_MAXRTX
  \/ c.state = "FIN_WAIT_2" /\ c.age > FinWaitTicks
  \/ c.state = "SYN_RCVD" /\ c.age > SynRcvdTicks

Expired(c) ==
  \/ c.state = "SYN_SENT" /\ c.nrtx = TCP_SYNMAXRTX
  \/ c.nrtx = TCP_MAXRTX
  \/ c.state = "FIN_WAIT_2" /\ c.age > FinWaitTicks
  \/ c.state = "SYN_RCVD" /\ c.age > SynRcvdTicks
  \/ c.state = "LAST_ACK" /\ c.age > MslTicks

AtActive == walk.list = "active" /\ walk.pos \in DOMAIN active

AtTw == walk.list = "tw" /\ walk.pos \in DOMAIN tw

SlowTmrRemove ==
  /\ AtActive
  /\ LET p == active[walk.pos]
     IN  /\ Expired(pcb[p])
         /\ Removed(p, TRUE)
  /\ UNCHANGED <<lpcb, bound, listen, walk>>

\* Mutant: tcp_rexmit_rto() without ++pcb->nrtx.
SlowTmrKeepUncounted ==
  /\ AtActive
  /\ ~Expired(pcb[active[walk.pos]])
  /\ walk' = [walk EXCEPT !.pos = @ + 1]
  /\ UNCHANGED <<pcb, lpcb, bound, active, tw, listen, stale>>

\* The retransmission timer: it always runs for a SYN that was sent (the
\* model's RTO is one tick there), for any other state data may or may not be
\* outstanding.
SlowTmrKeep ==
  /\ AtActive
  /\ LET p == active[walk.pos]
         c == pcb[p]
     IN  /\ ~Expired(c)
         /\ \E fires \in IF c.state = "SYN_SENT" THEN {c.syn = "running"}
                                                 ELSE BOOLEAN :
              pcb' = [pcb EXCEPT ![p].nrtx = IF fires THEN CountRtx(@)
                                                      ELSE @]
  /\ walk' = [walk EXCEPT !.pos = @ + 1]
  /\ UNCHANGED <<lpcb, bound, active, tw, listen, stale>>

SlowTmrNextList ==
  /\ walk.list = "active" /\ walk.pos \notin DOMAIN active
  /\ walk' = [list |-> "tw", pos |-> 1]
  /\ UNCHANGED <<pcb, lpcb, bound, active, tw, listen, stale>>

SlowTmrTw ==
  /\ AtTw
  /\ LET p == tw[walk.pos]
     IN  IF pcb[p].age > MslTicks
         THEN /\ tw' = TCP_RMV(tw, p)
              /\ pcb' = [pcb EXCEPT ![p] = Unused]
              /\ Forget(p, FALSE)
              /\ UNCHANGED walk
         ELSE /\ walk' = [walk EXCEPT !.pos = @ + 1]
              /\ UNCHANGED <<tw, pcb, stale>>
  /\ UNCHANGED <<lpcb, bound, active, listen>>

SlowTmrEnd ==
  /\ walk.list = "tw" /\ walk.pos \notin DOMAIN tw
  /\ walk' = Idle
  /\ UNCHANGED <<pcb, lpcb, bound, active, tw, listen, stale>>

tcp_slowtmr ==
  \/ SlowTmrStart \/ SlowTmrRemove \/ SlowTmrKeep \/ SlowTmrNextList
  \/ SlowTmrTw \/ SlowTmrEnd

-----------------------------------------------------------------------------

Init ==
  /\ pcb = [p \in Pcbs |-> Unused]
  /\ lpcb = [l \in LPcbs |-> LUnused]
  /\ bound = <<>> /\ active = <<>> /\ tw = <<>> /\ listen = <<>>
  /\ stale = {}
  /\ walk = Idle

tcp_input ==
  tcp_input_active \/ tcp_timewait_input \/ tcp_listen_input
  \/ tcp_listen_ignores

Next ==
  \/ tcp_new
  \/ \E p \in Pcbs : \/ tcp_bind(p) \/ tcp_listen(p) \/ tcp_connect(p)
                     \/ tcp_close(p) \/ tcp_abort(p) \/ tcp_setprio(p)
  \/ \E l \in LPcbs : tcp_close_listen(l)
  \/ tcp_input
  \/ tcp_slowtmr

Spec == Init /\ [][Next]_vars

\* Lwip.Timer.tcp calls tcp_tmr() for ever; one call of tcp_slowtmr() finishes.
FairSpec == Spec /\ WF_vars(tcp_slowtmr)

-----------------------------------------------------------------------------
(* Properties.                                                             *)

NoDup(s) == \A i, j \in DOMAIN s : s[i] = s[j] => i = j

\* Every variable has its type: in particular every list links slots of its own
\* pool, and no timer counts past its bound.
TypeOK ==
  /\ pcb \in [Pcbs -> Pcb]
  /\ lpcb \in [LPcbs -> LPcb]
  /\ bound \in Seq(Pcbs) /\ active \in Seq(Pcbs) /\ tw \in Seq(Pcbs)
  /\ listen \in Seq(LPcbs)
  /\ stale \subseteq Pcbs
  /\ walk \in [list : {"none", "active", "tw"}, pos : Nat \ {0}]

\* The "axioms" of tcp.h, what tcp_pcbs_sane() tests, and more: a pcb is on
\* tcp_active_pcbs, on tcp_tw_pcbs or on tcp_listen_pcbs exactly when its state
\* says so, at most once, and only an allocated, unconnected pcb is on
\* tcp_bound_pcbs.  A list never reaches a slot that memp_free() gave back.
ListsExact ==
  /\ NoDup(bound) /\ NoDup(active) /\ NoDup(tw) /\ NoDup(listen)
  /\ \A p \in Pcbs : /\ On(active, p) <=> (pcb[p].state \in ActiveStates)
                     /\ On(tw, p) <=> (pcb[p].state = "TIME_WAIT")
                     /\ On(bound, p) => pcb[p].state = "CLOSED"
  /\ \A l \in LPcbs : On(listen, l) <=> lpcb[l].used

\* The application holds a pcb from tcp_new() or the accept callback until it
\* closes it, never once the connection is only being torn down.
HeldStates == {"CLOSED", "SYN_SENT", "ESTABLISHED", "CLOSE_WAIT"}

AppHolds == \A p \in Pcbs : pcb[p].app => pcb[p].state \in HeldStates

\* No call, segment or timer frees a pcb the application still holds without
\* calling its error callback: the application never keeps a pointer to a slot
\* that was given back (and perhaps to another connection).
NoStaleHandle == stale = {}

\* Two connections never share a local address, local port and peer: a segment
\* has one connection it can belong to.
TupleUnique ==
  \A p, q \in Pcbs :
    /\ p # q
    /\ pcb[p].state \in ActiveStates /\ pcb[q].state \in ActiveStates
    /\ pcb[p].local_ip = pcb[q].local_ip
    => \/ pcb[p].local_port # pcb[q].local_port
       \/ pcb[p].remote # pcb[q].remote

\* tcp_bind() gives an address and port to one owner: two pcbs that are bound
\* or listening never overlap.
BindExclusive ==
  /\ \A i, j \in DOMAIN bound :
       i # j => ~Overlap(pcb[bound[i]], pcb[bound[j]].local_ip,
                         pcb[bound[j]].local_port)
  /\ \A i, j \in DOMAIN listen :
       i # j => ~Overlap(lpcb[listen[i]], lpcb[listen[j]].local_ip,
                         lpcb[listen[j]].local_port)
  /\ \A i \in DOMAIN bound, j \in DOMAIN listen :
       ~Overlap(pcb[bound[i]], lpcb[listen[j]].local_ip,
                lpcb[listen[j]].local_port)

\* From some point on no segment arrives.
PeerSilent == <>[][~tcp_input]_vars

Timed == {"SYN_RCVD", "FIN_WAIT_2", "LAST_ACK", "TIME_WAIT"}

Timing(p) == pcb[p].state \in Timed

\* What the slow timer promises: with no segment from the peer any more, a pcb
\* does not stay for ever in a state it can only leave by a segment.
Reclaimed ==
  PeerSilent =>
    \A p \in Pcbs : Timing(p) ~> ~Timing(p)

Connecting(p) == pcb[p].state = "SYN_SENT" /\ pcb[p].syn # "none"

\* "If the connection could not be properly established [...] the "err"
\* callback function of this pcb [...] will be called" (rawapi.txt): an attempt
\* for which tcp_connect() returned ERR_OK ends.
ConnectEnds == PeerSilent => \A p \in Pcbs : Connecting(p) ~> ~Connecting(p)

SynSent(p) == pcb[p].state = "SYN_SENT" /\ pcb[p].syn = "running"

\* A connection attempt whose SYN could be sent ends: it succeeds, or
\* tcp_slowtmr() gives it up and calls the error callback.
SynGivenUp == PeerSilent => \A p \in Pcbs : SynSent(p) ~> ~SynSent(p)
=============================================================================
