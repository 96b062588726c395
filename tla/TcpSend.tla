------------------------------ MODULE TcpSend ------------------------------
(***************************************************************************)
(* The sending half of an lwIP TCP connection, from tcp_connect() on: the  *)
(* queues unsent and unacked, coalescing, the peer's window, congestion    *)
(* control, retransmission, the persist timer.  Sources: core/tcp_out.c,   *)
(* the ACK part of tcp_receive() in core/tcp_in.c, core/tcp.c.             *)
(*                                                                         *)
(* The application writes the bytes 1..N, in pieces, and closes.  The peer *)
(* keeps what comes in order, drops the rest and acknowledges everything.  *)
(* The network loses, duplicates and reorders.  A timer that runs may      *)
(* expire at any tick, so every retransmission may be a spurious one.      *)
(***************************************************************************)
EXTENDS TcpSeq, Sequences, FiniteSets

CONSTANTS
  ISS,                \* the sequence number of the first byte
  N,                  \* how much the application writes
  Chunk,              \* the longest tcp_write()
  TCP_MSS, PeerMss,   \* what the peer's MSS option says
  TCP_SND_BUF, TCP_SND_QUEUELEN,
  W,                  \* 2^16 in the code: cwnd, ssthresh and snd_buf are u16_t
  W8,                 \* 2^8 in the code: dupacks and nrtx are u8_t
  TCP_MAXRTX, TCP_SYNMAXRTX,
  PeerBuf,            \* the peer's receive buffer
  NetCap,             \* segments under way at a time, each way: more are lost
  Duplicates,         \* whether an acknowledgement may come again
  Copy, NoDelay       \* what the application asks for

ASSUME SendConstants ==
  /\ M \in Nat /\ M % 2 = 0 /\ ISS \in 0..(M - 1) /\ N \in Nat /\ 2 * (N + 3) < M
  /\ TCP_MSS \in Nat \ {0} /\ PeerMss \in Nat /\ W \in Nat /\ 10 * TCP_MSS < W
  /\ TCP_SND_BUF \in 1..(W - 1) /\ PeerBuf \in 0..(W - 1) /\ W8 \in Nat \ {0}
  /\ Chunk \in Nat /\ TCP_SND_QUEUELEN \in Nat \ {0} /\ NetCap \in Nat
  /\ Copy \in BOOLEAN /\ NoDelay \in BOOLEAN /\ Duplicates \subseteq BOOLEAN

VARIABLES
  pcb,        \* the sending side's fields of the struct tcp_pcb
  written,    \* how much tcp_write() has taken
  net,        \* segments on their way to the peer
  acks,       \* the peer's segments on their way here
  peer        \* the peer

vars == <<pcb, written, net, acks, peer>>

Least(m, n) == IF m < n THEN m ELSE n

-----------------------------------------------------------------------------
(* Segments and queues of them.                                            *)

Count(b) == IF b THEN 1 ELSE 0

TCP_TCPLEN(seg) == Len(seg.data) + Count(seg.fin \/ seg.syn)

SegEnd(seg) == Plus(seg.seqno, TCP_TCPLEN(seg))

\* What goes over the wire of a segment.
Wire(seg) == [seqno |-> seg.seqno, data |-> seg.data, fin |-> seg.fin, syn |-> seg.syn]

\* pbuf_clen() over a queue.
Clen(q) == LET sum[i \in 0..Len(q)] == IF i = 0 THEN 0 ELSE sum[i - 1] + q[i].clen
           IN  sum[Len(q)]

\* How far a walk from the head of q gets that stops at the first segment whose
\* position is not in s.
Walk(q, s) == CHOOSE k \in 0..Len(q) : 1..k \subseteq s /\ k + 1 \notin s

\* Where the walks over unsent and unacked put a segment.
Insert(q, seg) ==
  LET k == Walk(q, {i \in DOMAIN q : TCP_SEQ_LT(q[i].seqno, seg.seqno)})
  IN  SubSeq(q, 1, k) \o <<seg>> \o SubSeq(q, k + 1, Len(q))

\* The segments from the head of q whose positions are in s are freed.
Freed(q, s) == SubSeq(q, Walk(q, s) + 1, Len(q))

-----------------------------------------------------------------------------
(* tcp_enqueue().                                                          *)

\* The new segments for some data or a FIN.  Without TCP_WRITE_FLAG_COPY the
\* data has a pbuf of its own behind the header's.
NewSegs(p, data, fin) ==
  LET n   == IF fin THEN 1 ELSE (Len(data) + p.mss - 1) \div p.mss
      seg(i) == [seqno |-> Plus(p.snd_lbb, (i - 1) * p.mss),
                 data  |-> SubSeq(data, (i - 1) * p.mss + 1, Least(i * p.mss, Len(data))),
                 clen  |-> IF Copy \/ fin THEN 1 ELSE 2,
                 fin |-> fin, syn |-> FALSE]
  IN  [i \in 1..n |-> seg(i)]

\* The first new segment joins the last unsent one.  Its header pbuf is freed
\* when it holds no data: with a FIN, and with data that was not copied.
Coalesce(p, q) ==
  LET u    == p.unsent[Len(p.unsent)]
      kept == IF q[1].fin THEN 0 ELSE 1
      m    == [u EXCEPT !.data = @ \o q[1].data, !.fin = q[1].fin, !.clen = @ + kept]
  IN  [p EXCEPT !.unsent = SubSeq(@, 1, Len(@) - 1) \o <<m>> \o Tail(q),
                !.snd_queuelen = @ + kept + Clen(Tail(q))]

Joins(p, q) ==
  /\ p.unsent # <<>>
  /\ LET u == p.unsent[Len(p.unsent)]
     IN  /\ TCP_TCPLEN(u) # 0 /\ ~u.syn /\ ~u.fin
         /\ Len(u.data) + Len(q[1].data) <= p.mss
         /\ Plus(u.seqno, Len(u.data)) = q[1].seqno

\* ERR_MEM leaves only TF_NAGLEMEMERR behind.
EnqueueFails(p) == [p EXCEPT !.memerr = TRUE]

Room(p, data, fin) ==
  /\ Len(data) <= p.snd_buf
  /\ p.snd_queuelen < TCP_SND_QUEUELEN
  /\ p.snd_queuelen + Clen(NewSegs(p, data, fin)) <= TCP_SND_QUEUELEN

\* The FIN takes a byte of snd_buf without a test that there is one.
Enqueued(p, data, fin) ==
  LET q    == NewSegs(p, data, fin)
      size == Len(data) + Count(fin)
      r    == IF Joins(p, q) THEN Coalesce(p, q)
              ELSE [p EXCEPT !.unsent = @ \o q, !.snd_queuelen = @ + Clen(q)]
  IN  [r EXCEPT !.snd_lbb = Plus(@, size), !.snd_buf = (@ - size) % W,
                !.tf_fin = @ \/ fin]

-----------------------------------------------------------------------------
(* tcp_output().                                                           *)

\* ntohl(seg->tcphdr->seqno) - pcb->lastack + seg->len, a u32_t.
Reach(p, seg) == (seg.seqno - p.lastack + Len(seg.data)) % M

tcp_do_output_nagle(p) ==
  \/ p.unacked = <<>> \/ NoDelay \/ p.infr
  \/ Len(p.unsent) > 1 \/ Len(p.unsent[1].data) >= p.mss


\* The first unsent segment may be sent.
Goes(p) ==
  /\ p.unsent # <<>>
  /\ Reach(p, p.unsent[1]) <= Least(p.snd_wnd, p.cwnd)
  /\ tcp_do_output_nagle(p) \/ p.memerr \/ p.tf_fin

\* Mutant: a segment always goes to the end of unacked.
SendHeadAppend(p) ==
  LET seg == p.unsent[1]
  IN  [p EXCEPT !.unsent = Tail(@), !.unacked = Append(@, seg),
                !.snd_nxt = IF TCP_SEQ_LT(@, SegEnd(seg)) THEN SegEnd(seg) ELSE @,
                !.rtime = TRUE]

\* One turn of the loop.  tcp_output_segment() starts the timer; unacked stays
\* ordered although retransmissions go out behind newer segments.
SendHead(p) ==
  LET seg == p.unsent[1]
      u   == p.unacked
  IN  [p EXCEPT !.unsent = Tail(@),
                !.snd_nxt = IF TCP_SEQ_LT(@, SegEnd(seg)) THEN SegEnd(seg) ELSE @,
                !.unacked = IF u # <<>> /\ TCP_SEQ_LT(seg.seqno, u[Len(u)].seqno)
                            THEN Insert(u, seg) ELSE Append(u, seg),
                !.rtime = TRUE]

\* The pcb and the segments sent after at most n turns.
Turns(p) ==
  LET run[n \in 0..Len(p.unsent)] ==
        IF n = 0 THEN [pcb |-> p, sent |-> {}]
        ELSE LET r == run[n - 1]
             IN  IF Goes(r.pcb)
                 THEN [pcb |-> SendHead(r.pcb), sent |-> r.sent \cup {Wire(r.pcb.unsent[1])}]
                 ELSE r
  IN  run[Len(p.unsent)]

\* Mutant: the persist timer is started only for a window of zero.
PersistsOnZero(p) == p.unsent # <<>> /\ ~p.persist /\ p.snd_wnd = 0

Persists(p) ==
  p.unsent # <<>> /\ ~p.persist /\ Reach(p, p.unsent[1]) > p.snd_wnd

\* TF_ACK_NOW, which would make an empty ACK and nothing else of a call that may
\* send no segment, is left out: the peer sends no data, and the SYN|ACK that sets
\* the flag finds unsent empty.
tcp_output(p) ==
  LET t == Turns(p)
  IN  [t EXCEPT !.pcb.persist = @ \/ Persists(t.pcb), !.pcb.memerr = FALSE]

-----------------------------------------------------------------------------
(* Retransmission.                                                         *)

tcp_rexmit_rto(p) ==
  IF p.unacked = <<>> THEN [pcb |-> p, sent |-> {}]
  ELSE tcp_output([p EXCEPT !.unsent = p.unacked \o @, !.unacked = <<>>, !.nrtx = (@ + 1) % W8])

tcp_rexmit(p) ==
  IF p.unacked = <<>> THEN p
  ELSE [p EXCEPT !.unacked = Tail(@), !.unsent = Insert(@, p.unacked[1]), !.nrtx = (@ + 1) % W8]

AtLeast(n, least, default) == IF n < least THEN default ELSE n

tcp_rexmit_fast(p) ==
  IF p.unacked = <<>> \/ p.infr THEN p
  ELSE LET th == AtLeast(Least(p.cwnd, p.snd_wnd) \div 2, 2 * p.mss, 2 * p.mss)
       IN  [tcp_rexmit(p) EXCEPT !.ssthresh = th, !.cwnd = (th + 3 * p.mss) % W,
                                 !.infr = TRUE]

\* Mutant: the probe carries the next sequence number.
ProbeAtNxt(p) ==
  LET q == p.unacked \o p.unsent
  IN  IF q = <<>> THEN {}
      ELSE {[seqno |-> p.snd_nxt, data |-> SubSeq(q[1].data, 1, Least(1, Len(q[1].data))),
             fin |-> q[1].fin /\ q[1].data = <<>>, syn |-> FALSE]}

\* The probe repeats the first byte, or a lone FIN, that is not acknowledged.
tcp_zero_window_probe(p) ==
  LET q == p.unacked \o p.unsent
  IN  IF q = <<>> THEN {}
      ELSE {[seqno |-> q[1].seqno, data |-> SubSeq(q[1].data, 1, Least(1, Len(q[1].data))),
             fin |-> q[1].fin /\ q[1].data = <<>>, syn |-> FALSE]}

-----------------------------------------------------------------------------
(* The ACK part of tcp_receive().  The peer sends no data: its sequence    *)
(* number is 0 in the SYN and 1 afterwards.                                *)

\* Mutant: every segment updates the window.
SndWndAlways(p, a) ==
  [p EXCEPT !.snd_wnd = a.wnd, !.snd_wl1 = 1, !.snd_wl2 = a.ackno, !.persist = @ /\ a.wnd = 0]

\* A window update is taken from a segment that is not older than the last.
SndWnd(p, a) ==
  IF \/ p.snd_wl1 < 1
     \/ TCP_SEQ_LT(p.snd_wl2, a.ackno)
     \/ p.snd_wl2 = a.ackno /\ a.wnd > p.snd_wnd
  THEN [p EXCEPT !.snd_wnd = a.wnd, !.snd_wl1 = 1, !.snd_wl2 = a.ackno,
                 !.persist = @ /\ a.wnd = 0]
  ELSE p

Wider(w, n) == IF (w + n) % W > w THEN (w + n) % W ELSE w

\* A duplicate: of an ACK, with no change of the window, while the timer runs.
DupAck(p, a, edge) ==
  IF Plus(p.snd_wl2, p.snd_wnd) = edge /\ p.rtime /\ p.lastack = a.ackno
  THEN LET d == (p.dupacks + 1) % W8
           q == [p EXCEPT !.dupacks = d]
       IN  IF d > 3 THEN [q EXCEPT !.cwnd = Wider(@, p.mss)]
           ELSE IF d = 3 THEN tcp_rexmit_fast(q) ELSE q
  ELSE [p EXCEPT !.dupacks = 0]

\* Congestion avoidance and slow start.
Grown(p) ==
  IF p.cwnd < p.ssthresh THEN Wider(p.cwnd, p.mss)
  ELSE Wider(p.cwnd, (p.mss * p.mss) \div p.cwnd)

\* Mutant: snd_queuelen counts segments, not pbufs.
FreeAckedSegs(p, ua, us) ==
  [p EXCEPT !.unacked = ua, !.unsent = us,
            !.snd_queuelen = @ - (Len(p.unacked) - Len(ua)) - (Len(p.unsent) - Len(us))]

FreeAcked(p, ua, us) ==
  [p EXCEPT !.unacked = ua, !.unsent = us,
            !.snd_queuelen = @ - (Clen(p.unacked) - Clen(ua)) - (Clen(p.unsent) - Clen(us))]

\* Segments that the timeout moved back to unsent are acknowledged there.
Unsent(p, a) ==
  Freed(p.unsent, {i \in DOMAIN p.unsent :
                     TCP_SEQ_BETWEEN(a.ackno, SegEnd(p.unsent[i]), p.snd_nxt)})

NewAck(p, a) ==
  LET acked == Minus(a.ackno, p.lastack)
      q == [p EXCEPT !.cwnd = IF p.infr THEN p.ssthresh ELSE @, !.infr = FALSE,
                     !.nrtx = 0, !.dupacks = 0, !.snd_buf = (@ + acked) % W,
                     !.lastack = a.ackno]
      left == Freed(p.unacked, {i \in DOMAIN p.unacked :
                                  TCP_SEQ_LEQ(SegEnd(p.unacked[i]), a.ackno)})
      r == FreeAcked(q, left, q.unsent)
  IN  [r EXCEPT !.cwnd = Grown(q), !.rtime = left # <<>>]

tcp_receive(p, a) ==
  LET edge == Plus(p.snd_wl2, p.snd_wnd)
      w    == SndWnd(p, a)
      r    == IF TCP_SEQ_LEQ(a.ackno, w.lastack) THEN DupAck(w, a, edge)
              ELSE IF TCP_SEQ_BETWEEN(a.ackno, Plus(w.lastack, 1), w.snd_nxt)
              THEN NewAck(w, a) ELSE w
  IN  FreeAcked(r, r.unacked, Unsent(r, a))

\* The MSS after tcp_parseopt() has met the peer's option.
tcp_parseopt == IF PeerMss > TCP_MSS \/ PeerMss = 0 THEN TCP_MSS ELSE PeerMss

\* tcp_process() in SYN_SENT: the SYN is taken off unacked.
SynAcked(p, a) ==
  LET mss == tcp_parseopt
  IN  [p EXCEPT !.state = "ESTABLISHED", !.snd_buf = (@ + 1) % W, !.lastack = a.ackno,
                !.snd_wnd = a.wnd, !.snd_wl1 = -1, !.mss = mss, !.ssthresh = 10 * mss,
                !.cwnd = IF @ = 1 THEN 2 * mss ELSE mss, !.snd_queuelen = @ - 1,
                !.unacked = Tail(@), !.rtime = Tail(p.unacked) # <<>>,
                !.nrtx = IF Tail(p.unacked) # <<>> THEN 0 ELSE @]

-----------------------------------------------------------------------------
(* The network and the peer.                                               *)

\* What is under way after more is sent: at most NetCap segments.
Carry(under, more) ==
  LET all == under \cup more
  IN  IF Cardinality(all) <= NetCap THEN {all}
      ELSE {s \in SUBSET all : Cardinality(s) = NetCap}

PeerAck(q) ==
  [ackno |-> Plus(ISS, Len(q.got) + Count(q.fin)), wnd |-> PeerBuf - q.unread, syn |-> FALSE]

PeerSynAck == [ackno |-> ISS, wnd |-> PeerBuf, syn |-> TRUE]

\* What the peer takes of a segment: the part that continues what it has and
\* fits in its buffer.
PeerTakes(q, m) ==
  LET off  == Minus(Plus(ISS, Len(q.got)), m.seqno)
      new  == IF off < 0 THEN <<>> ELSE SubSeq(m.data, off + 1, Len(m.data))
      took == SubSeq(new, 1, Least(Len(new), PeerBuf - q.unread))
  IN  IF q.fin THEN q
      ELSE [q EXCEPT !.got = @ \o took, !.unread = @ + Len(took),
                     !.fin = m.fin /\ off >= 0 /\ off <= Len(m.data) /\ took = new]

PeerInput(m) ==
  LET q == IF m.syn THEN peer ELSE PeerTakes(peer, m)
  IN  /\ m \in net
      /\ net' = net \ {m}
      /\ peer' = q
      /\ acks' \in Carry(acks, {IF m.syn THEN PeerSynAck ELSE PeerAck(q)})
      /\ UNCHANGED <<pcb, written>>

\* The peer's application reads, and the window is announced anew.
PeerReads ==
  /\ peer.unread > 0
  /\ peer' = [peer EXCEPT !.unread = 0]
  /\ acks' \in Carry(acks, {PeerAck([peer EXCEPT !.unread = 0])})
  /\ UNCHANGED <<pcb, written, net>>

\* The network loses a segment, either way.
Lose ==
  /\ \/ \E m \in net : net' = net \ {m} /\ UNCHANGED acks
     \/ \E a \in acks : acks' = acks \ {a} /\ UNCHANGED net
  /\ UNCHANGED <<pcb, written, peer>>

-----------------------------------------------------------------------------
(* The actions of the sending side.                                        *)

Alive == pcb.state # "GONE"

\* tcp_connect(): the SYN is queued and sent.
Init ==
  LET syn == [seqno |-> Plus(ISS, -1), data |-> <<>>, clen |-> 1, fin |-> FALSE, syn |-> TRUE]
  IN  /\ pcb = [state |-> "SYN_SENT", mss |-> TCP_MSS, snd_nxt |-> ISS, snd_lbb |-> ISS,
                lastack |-> Plus(ISS, -1), snd_wnd |-> PeerBuf, snd_wl1 |-> -1,
                snd_wl2 |-> ISS, snd_buf |-> TCP_SND_BUF - 1, snd_queuelen |-> 1,
                unsent |-> <<>>, unacked |-> <<syn>>, rtime |-> TRUE, persist |-> FALSE,
                nrtx |-> 0, dupacks |-> 0, cwnd |-> 1, ssthresh |-> 10 * TCP_MSS,
                infr |-> FALSE, memerr |-> FALSE, tf_fin |-> FALSE]
      /\ net = {Wire(syn)} /\ acks = {} /\ written = 0
      /\ peer = [got |-> <<>>, unread |-> 0, fin |-> FALSE]

Emit(o) == pcb' = o.pcb /\ net' \in Carry(net, o.sent)

\* tcp_write() of n bytes.  mem: the pools have what it takes.
tcp_write(n, mem) ==
  LET data == [i \in 1..n |-> written + i]
  IN  /\ pcb.state = "ESTABLISHED" /\ written + n <= N
      /\ IF mem /\ Room(pcb, data, FALSE)
         THEN pcb' = Enqueued(pcb, data, FALSE) /\ written' = written + n
         ELSE pcb' = EnqueueFails(pcb) /\ UNCHANGED written
      /\ UNCHANGED <<net, acks, peer>>

\* The application calls tcp_output() after it has written.
CallOutput ==
  /\ Alive /\ Emit(tcp_output(pcb)) /\ UNCHANGED <<written, acks, peer>>

\* tcp_close() once everything is written: a FIN, if there is room for it.
tcp_close(mem) ==
  /\ pcb.state = "ESTABLISHED" /\ written = N
  /\ IF mem /\ Room(pcb, <<>>, TRUE)
     THEN \E p \in {[Enqueued(pcb, <<>>, TRUE) EXCEPT !.state = "FIN_WAIT_1"]} :
            Emit(tcp_output(p))
     ELSE pcb' = EnqueueFails(pcb) /\ UNCHANGED net
  /\ UNCHANGED <<written, acks, peer>>

\* tcp_input() of a segment of the peer.  again: the network repeats it later.
\* A FIN that is acknowledged ends the sending half.
tcp_input(a, again) ==
  /\ Alive /\ a \in acks
  /\ acks' = IF again THEN acks ELSE acks \ {a}
  /\ \E p \in {IF pcb.state = "SYN_SENT" THEN SynAcked(pcb, a)
              ELSE IF a.syn THEN pcb ELSE tcp_receive(pcb, a)} : Emit(tcp_output(p))
  /\ UNCHANGED <<written, peer>>

tcp_pcb_purge(p) == [p EXCEPT !.unsent = <<>>, !.unacked = <<>>, !.rtime = FALSE]

\* tcp_slowtmr(): the pcb has retransmitted too often and is freed.
GiveUp ==
  /\ Alive
  /\ \/ pcb.nrtx = TCP_MAXRTX
     \/ pcb.state = "SYN_SENT" /\ pcb.nrtx = TCP_SYNMAXRTX
  /\ pcb' = [tcp_pcb_purge(pcb) EXCEPT !.state = "GONE", !.snd_queuelen = 0]
  /\ UNCHANGED <<written, net, acks, peer>>

MayTick ==
  /\ Alive /\ pcb.nrtx # TCP_MAXRTX
  /\ ~(pcb.state = "SYN_SENT" /\ pcb.nrtx = TCP_SYNMAXRTX)

\* tcp_slowtmr(): the persist timer expires.  The poll at the end of the tick
\* calls tcp_output().
PersistExpires ==
  /\ MayTick /\ pcb.persist
  /\ LET o == tcp_output(pcb)
     IN  Emit([o EXCEPT !.sent = @ \cup tcp_zero_window_probe(pcb)])
  /\ UNCHANGED <<written, acks, peer>>

\* tcp_slowtmr(): the retransmission timer, which rests while the persist timer
\* runs, expires.
RtoExpires ==
  /\ MayTick /\ ~pcb.persist /\ pcb.rtime /\ pcb.unacked # <<>>
  /\ LET th == AtLeast(Least(pcb.cwnd, pcb.snd_wnd) \div 2, pcb.mss, 2 * pcb.mss)
         o  == tcp_rexmit_rto([pcb EXCEPT !.ssthresh = th, !.cwnd = pcb.mss])
         t  == tcp_output(o.pcb)
     IN  Emit([t EXCEPT !.sent = @ \cup o.sent])
  /\ UNCHANGED <<written, acks, peer>>

Next ==
  \/ \E n \in 1..Chunk, mem \in BOOLEAN : tcp_write(n, mem)
  \/ CallOutput
  \/ \E mem \in BOOLEAN : tcp_close(mem)
  \/ \E a \in acks, again \in Duplicates : tcp_input(a, again)
  \/ GiveUp
  \/ PersistExpires
  \/ RtoExpires
  \/ \E m \in net : PeerInput(m)
  \/ PeerReads
  \/ Lose

Spec == Init /\ [][Next]_vars

-----------------------------------------------------------------------------
(* Properties.                                                             *)

\* The pcb's fields, the queues and the peer keep their types.
TypeOK ==
  /\ pcb.state \in {"SYN_SENT", "ESTABLISHED", "FIN_WAIT_1", "GONE"}
  /\ {pcb.snd_nxt, pcb.snd_lbb, pcb.lastack, pcb.snd_wl2} \subseteq 0..(M - 1)
  /\ {pcb.snd_buf, pcb.cwnd, pcb.ssthresh, pcb.snd_wnd} \subseteq 0..(W - 1)
  /\ {pcb.nrtx, pcb.dupacks} \subseteq 0..(W8 - 1)
  /\ peer.unread \in 0..PeerBuf /\ written \in 0..N

Queued == pcb.unacked \o pcb.unsent

\* The bytes from lastack that a segment holds, as offsets.
Span(seg) == {Minus(seg.seqno, pcb.lastack) + k : k \in 0..(TCP_TCPLEN(seg) - 1)}

\* However timeouts, fast retransmits, coalescing and partial acknowledgements
\* move segments between unsent and unacked, every byte that is not yet
\* acknowledged is in exactly one of them, under its own sequence number, and
\* each queue is in order (tcp_enqueue, tcp_output, tcp_rexmit, tcp_receive).
NoByteLost ==
  Alive =>
    /\ \A i, j \in DOMAIN Queued : i # j => Span(Queued[i]) \cap Span(Queued[j]) = {}
    /\ \A d \in 0..(Minus(pcb.snd_lbb, pcb.lastack) - 1) :
         \E i \in DOMAIN Queued : d \in Span(Queued[i])
    /\ \A i \in DOMAIN Queued : \A k \in DOMAIN Queued[i].data :
         Plus(ISS, Queued[i].data[k]) = Plus(Queued[i].seqno, k)
    /\ \A q \in {pcb.unacked, pcb.unsent} : \A i \in 1..(Len(q) - 1) :
         TCP_SEQ_LT(q[i].seqno, q[i + 1].seqno)

\* snd_queuelen is the number of pbufs on the queues and stays within its limit,
\* and snd_buf what the bytes on them leave of TCP_SND_BUF: neither drifts over
\* any sequence of failed writes, coalescing and acknowledgements, so the
\* assertions of tcp_enqueue() and tcp_receive() hold; and every variable keeps
\* its type.
SendAccounts ==
  /\ TypeOK
  /\ Alive =>
       /\ pcb.snd_queuelen = Clen(Queued) /\ pcb.snd_queuelen <= TCP_SND_QUEUELEN
       /\ pcb.snd_buf = (TCP_SND_BUF - Minus(pcb.snd_lbb, pcb.lastack)) % W
       /\ pcb.state = "ESTABLISHED" => pcb.snd_buf <= TCP_SND_BUF

\* Nothing but a probe goes beyond what the peer has room for, whatever order
\* its window updates arrive in (the snd_wl1/snd_wl2 test of tcp_receive).
PeerNotOverrun ==
  \A m \in net :
    Len(m.data) > 1 => Minus(Plus(m.seqno, Len(m.data)), ISS)
                         <= Len(peer.got) + PeerBuf - peer.unread

\* As long as something waits on a queue a timer runs for it, or tcp_output()
\* has something to do: the connection cannot fall silent.  The persist timer
\* and the retransmission timer exclude each other, and tcp_output() starts
\* each on its own condition.
TimerArmed ==
  Alive /\ Queued # <<>> =>
    \/ pcb.persist
    \/ pcb.unacked # <<>> /\ pcb.rtime
    \/ Goes(pcb) \/ Persists(pcb)

Delivery == INSTANCE ByteStream
              WITH Stream <- [i \in 1..N |-> i], delivered <- peer.got, eof <- peer.fin

\* What the peer gets is the stream that was written: the sending side, with
\* the network, implements ByteStream.
DeliversByteStream == Delivery!Spec
=============================================================================
