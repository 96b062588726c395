------------------------------ MODULE TcpRecv ------------------------------
(***************************************************************************)
(* The receiving half of an lwIP TCP connection that is ESTABLISHED or     *)
(* CLOSE_WAIT: the data part of tcp_receive(), the out-of-sequence queue,  *)
(* the receive window and its announcement, data the application refuses,  *)
(* delayed ACKs.  Sources: core/tcp_in.c, core/tcp.c, core/tcp_out.c.      *)
(*                                                                         *)
(* The peer sends the bytes 1..N and then a FIN.  Whatever slice of that   *)
(* stream it may have sent can arrive at any moment, any number of times:  *)
(* this covers loss, duplication, reordering, and retransmissions that cut *)
(* the stream differently.  A byte's value is its position.                *)
(***************************************************************************)
EXTENDS TcpSeq, Sequences, FiniteSets

CONSTANTS
  ISN,        \* the peer's initial sequence number
  N,          \* length of the peer's stream
  MaxSeg,     \* largest segment the peer sends
  TCP_WND,
  MSS,        \* pcb->mss
  TCP_WND_UPDATE_THRESHOLD,
  Answers,    \* what the receive callback may return
  Memory,     \* whether pbuf_alloc() may succeed for an empty ACK
  FinBeyond   \* the peer's FIN may be one past the window, as lwIP's own is

ASSUME SpaceIsEven == M \in Nat /\ M % 2 = 0
ASSUME StreamFits ==
  /\ N \in Nat /\ TCP_WND \in Nat \ {0}
  /\ 2 * (N + TCP_WND + 2) < M      \* no two positions in play are M/2 apart
ASSUME SeqIsSeq == ISN \in 0..(M - 1)
ASSUME SizesAreNat ==
  /\ MaxSeg \in Nat \ {0} /\ MSS \in Nat \ {0}
  /\ TCP_WND_UPDATE_THRESHOLD \in Nat \ {0}
ASSUME AnswersOk == Answers \subseteq {"ERR_OK", "ERR_MEM"} /\ "ERR_OK" \in Answers
ASSUME ChoicesOk == Memory \subseteq BOOLEAN /\ Memory # {} /\ FinBeyond \in BOOLEAN

VARIABLES
  rcv_nxt, rcv_wnd, rcv_ann_wnd, rcv_ann_right_edge,
  ooseq,          \* pcb->ooseq, head first
  refused_data,   \* bytes the callback did not take
  ack,            \* which of TF_ACK_DELAY and TF_ACK_NOW are set
  delivered,      \* the bytes the callback took
  unread,         \* how many of them tcp_recved() has not returned yet
  eof,            \* the callback was called with a NULL pbuf
  panic           \* an LWIP_ASSERT failed: the process has aborted

vars == <<rcv_nxt, rcv_wnd, rcv_ann_wnd, rcv_ann_right_edge, ooseq,
          refused_data, ack, delivered, unread, eof, panic>>

-----------------------------------------------------------------------------
(* Segments.                                                               *)

ACK_DELAY == "TF_ACK_DELAY"

ACK_NOW == "TF_ACK_NOW"

\* A window update worth announcing.
Worthwhile == IF TCP_WND \div 2 < MSS THEN TCP_WND \div 2 ELSE MSS

FinLen(fin) == IF fin THEN 1 ELSE 0

TCP_TCPLEN(seg) == Len(seg.data) + FinLen(seg.fin)

\* The sequence number after the data of a segment.
End(seg) == Plus(seg.seqno, Len(seg.data))

\* pbuf_realloc() to n bytes.
Shrink(seg, n) == [seg EXCEPT !.data = SubSeq(@, 1, n)]

Stream == [i \in 1..N |-> i]

Slice(i, n, fin) == [seqno |-> Plus(ISN, i), data |-> SubSeq(Stream, i, i + n - 1),
                     fin |-> fin]

PeerSegs ==
  { Slice(c[1], c[2], FALSE) : c \in { d \in (1..(N + 2)) \X (0..MaxSeg) :
                                         d[2] > 0 => d[1] + d[2] <= N + 1 } }
    \cup { Slice(N + 1 - n, n, TRUE) : n \in { m \in 0..MaxSeg : m <= N } }

\* An honest peer stays within the window it was told of, but for the probe of
\* a window it believes to be closed.
MayArrive(seg) ==
  \/ TCP_SEQ_GEQ(rcv_ann_right_edge, Plus(seg.seqno, TCP_TCPLEN(seg)))
  \/ FinBeyond /\ seg.fin /\ TCP_SEQ_GEQ(rcv_ann_right_edge, End(seg))
  \/ /\ TCP_TCPLEN(seg) = 1 /\ seg.seqno = rcv_ann_right_edge
     /\ TCP_SEQ_GEQ(rcv_nxt, rcv_ann_right_edge)

-----------------------------------------------------------------------------
(* The out-of-sequence queue.                                              *)

\* How many segments of q, from its head, a segment swallows, and whether it
\* takes over a FIN from them.  finlen: a FIN it took over counts as a byte.
Swallow(seg, q, finlen) ==
  LET run[i \in 0..Len(q)] ==
        IF i = 0 THEN [n |-> 0, fin |-> seg.fin]
        ELSE LET before == run[i - 1]
                 right == Plus(End(seg), IF finlen THEN FinLen(before.fin) ELSE 0)
             IN  IF before.n = i - 1 /\ TCP_SEQ_GEQ(right, End(q[i]))
                 THEN [n |-> i, fin |-> before.fin \/ q[i].fin]
                 ELSE before
  IN  run[Len(q)]

Rest(q, n) == SubSeq(q, n + 1, Len(q))

\* Mutant: the new segment is not trimmed to the one that follows it.
OosInsertUntrimmed(seg, q) ==
  LET s == Swallow(seg, q, FALSE)
  IN  <<[seg EXCEPT !.fin = s.fin]>> \o Rest(q, s.n)

\* tcp_oos_insert_segment(): the segment goes before q.  One with a FIN holds
\* all that can follow.
tcp_oos_insert_segment(seg, q) ==
  LET s    == Swallow(seg, q, FALSE)
      cseg == [seg EXCEPT !.fin = s.fin]
      rest == Rest(q, s.n)
  IN  IF seg.fin THEN <<seg>>
      ELSE IF rest # <<>> /\ TCP_SEQ_GT(End(seg), rest[1].seqno)
      THEN <<Shrink(cseg, Minus(rest[1].seqno, seg.seqno))>> \o rest
      ELSE <<cseg>> \o rest

\* The last segment of a queue is cut where the new one starts.
CutLast(q, seqno) ==
  [i \in DOMAIN q |->
     IF i = Len(q) /\ TCP_SEQ_GT(End(q[i]), seqno)
     THEN Shrink(q[i], Minus(seqno, q[i].seqno)) ELSE q[i]]

\* The walk that finds the segment's place in the ordered queue.  Of two
\* segments with one sequence number the longer stays; nothing is put behind a
\* FIN.
OosPlace(seg) ==
  LET before == {i \in DOMAIN ooseq : TCP_SEQ_LT(ooseq[i].seqno, seg.seqno)}
      front  == SubSeq(ooseq, 1, Cardinality(before))
      back   == Rest(ooseq, Cardinality(before))
  IN  IF \/ /\ back # <<>> /\ back[1].seqno = seg.seqno
            /\ Len(seg.data) <= Len(back[1].data)
         \/ back = <<>> /\ front # <<>> /\ front[Len(front)].fin
      THEN ooseq
      ELSE CutLast(front, seg.seqno) \o tcp_oos_insert_segment(seg, back)

-----------------------------------------------------------------------------
(* tcp_receive(), for a segment that takes part of the sequence space.     *)

\* Mutant: the length is reduced but the payload pointer stays.
FrontTrimKeepsPayload(seg) ==
  IF TCP_SEQ_BETWEEN(rcv_nxt, Plus(seg.seqno, 1),
                     Plus(seg.seqno, TCP_TCPLEN(seg) - 1))
  THEN [seg EXCEPT !.seqno = rcv_nxt,
                   !.data = SubSeq(@, 1, Len(@) - Minus(rcv_nxt, seg.seqno))]
  ELSE seg

\* What was already received is cut from the front of the segment.
FrontTrim(seg) ==
  IF TCP_SEQ_BETWEEN(rcv_nxt, Plus(seg.seqno, 1),
                     Plus(seg.seqno, TCP_TCPLEN(seg) - 1))
  THEN [seg EXCEPT !.seqno = rcv_nxt,
                   !.data = SubSeq(@, Minus(rcv_nxt, seg.seqno) + 1, Len(@))]
  ELSE seg

InWindow(seqno) ==
  TCP_SEQ_BETWEEN(seqno, rcv_nxt, Plus(rcv_nxt, rcv_wnd - 1))

\* What does not fit in the window is cut off, the FIN first.
WindowTrim(seg) ==
  IF TCP_TCPLEN(seg) > rcv_wnd
  THEN [Shrink(seg, rcv_wnd) EXCEPT !.fin = FALSE]
  ELSE seg

\* The in-sequence segment against the queue: a FIN bins the queue; otherwise
\* the segments it covers are freed and it is cut where the next one starts.
\* The code takes that place from pcb->ooseq, which still points to the first
\* queued segment even when that one was just freed: tcp_seg_free() leaves the
\* old header readable, so the segment is cut at the FIRST segment's start.
OoseqTrim(seg) ==
  LET s    == Swallow(seg, ooseq, TRUE)
      rest == Rest(ooseq, s.n)
      took == [seg EXCEPT !.fin = s.fin]
  IN  IF seg.fin THEN [seg |-> seg, ooseq |-> <<>>]
      ELSE IF rest # <<>>
              /\ TCP_SEQ_GT(Plus(took.seqno, TCP_TCPLEN(took)), rest[1].seqno)
      THEN [seg |-> Shrink(took, Minus(ooseq[1].seqno, took.seqno)),
            ooseq |-> rest]
      ELSE [seg |-> took, ooseq |-> rest]

\* Mutant: the dequeued segments do not use up the window.
DequeueKeepsWindow(seg, q) ==
  LET run[i \in 0..Len(q)] ==
        IF i = 0
        THEN [n |-> 0, nxt |-> Plus(seg.seqno, TCP_TCPLEN(seg)),
              wnd |-> rcv_wnd - TCP_TCPLEN(seg), data |-> seg.data,
              fin |-> seg.fin, ok |-> TRUE]
        ELSE LET before == run[i - 1]
             IN  IF before.n = i - 1 /\ q[i].seqno = before.nxt
                 THEN [before EXCEPT !.n = i,
                                     !.nxt = Plus(@, TCP_TCPLEN(q[i])),
                                     !.data = @ \o q[i].data,
                                     !.fin = @ \/ q[i].fin]
                 ELSE before
  IN  run[Len(q)]

\* The segment is taken, and after it the queued ones that are now in
\* sequence.  ok: the assertions on rcv_wnd hold.
Dequeue(seg, q) ==
  LET run[i \in 0..Len(q)] ==
        IF i = 0
        THEN [n |-> 0, nxt |-> Plus(seg.seqno, TCP_TCPLEN(seg)),
              wnd |-> rcv_wnd - TCP_TCPLEN(seg), data |-> seg.data,
              fin |-> seg.fin, ok |-> rcv_wnd >= TCP_TCPLEN(seg)]
        ELSE LET before == run[i - 1]
             IN  IF before.n = i - 1 /\ q[i].seqno = before.nxt
                 THEN [n    |-> i,
                       nxt  |-> Plus(before.nxt, TCP_TCPLEN(q[i])),
                       wnd  |-> before.wnd - TCP_TCPLEN(q[i]),
                       data |-> before.data \o q[i].data,
                       fin  |-> before.fin \/ q[i].fin,
                       ok   |-> before.ok /\ before.wnd >= TCP_TCPLEN(q[i])]
                 ELSE before
  IN  run[Len(q)]

\* Mutant: a window that cannot grow is announced as closed.
AnnWndCloses(nxt, wnd) ==
  IF TCP_SEQ_GEQ(Plus(nxt, wnd), Plus(rcv_ann_right_edge, Worthwhile))
  THEN wnd ELSE 0

\* Mutant: the whole buffer is announced, whatever is in use.
AnnWndWhole(nxt, wnd) == TCP_WND

\* tcp_update_rcv_ann_wnd(): the window to announce for a new rcv_nxt and
\* rcv_wnd.  Its right edge moves by a useful amount or stays.
AnnWnd(nxt, wnd) ==
  IF TCP_SEQ_GEQ(Plus(nxt, wnd), Plus(rcv_ann_right_edge, Worthwhile))
  THEN wnd
  ELSE IF TCP_SEQ_GT(nxt, rcv_ann_right_edge) THEN 0
  ELSE Minus(rcv_ann_right_edge, nxt)

\* What is left unchanged by a segment that is not taken.
Untaken == [nxt |-> rcv_nxt, wnd |-> rcv_wnd, ann |-> rcv_ann_wnd,
            ooseq |-> ooseq, data |-> <<>>, fin |-> FALSE, ok |-> TRUE,
            ack |-> ack, empty |-> FALSE]

\* The macro tcp_ack(): every second segment is acknowledged at once.
tcp_ack == IF ACK_DELAY \in ack THEN (ack \ {ACK_DELAY}) \cup {ACK_NOW}
                                ELSE ack \cup {ACK_DELAY}

\* copied: tcp_seg_copy() found a free segment.  ack: the ACK flags it leaves.
\* empty: tcp_send_empty_ack() is called at once.
tcp_receive(inseg, copied) ==
  LET seg   == FrontTrim(inseg)
      trim  == OoseqTrim(WindowTrim(seg))
      taken == Dequeue(trim.seg, trim.ooseq)
  IN  IF TCP_TCPLEN(inseg) = 0
      THEN [Untaken EXCEPT !.ack = IF InWindow(inseg.seqno) THEN @
                                   ELSE @ \cup {ACK_NOW}]
      ELSE IF ~InWindow(seg.seqno)
      THEN [Untaken EXCEPT !.empty = TRUE,
                           !.ack = IF TCP_SEQ_LT(seg.seqno, rcv_nxt)
                                   THEN @ \cup {ACK_NOW} ELSE @]
      ELSE IF seg.seqno # rcv_nxt
      THEN [Untaken EXCEPT !.empty = TRUE,
                           !.ooseq = IF copied THEN OosPlace(seg) ELSE @]
      ELSE [nxt |-> taken.nxt, wnd |-> taken.wnd,
            ann |-> AnnWnd(taken.nxt, taken.wnd),
            ooseq |-> Rest(trim.ooseq, taken.n),
            data |-> taken.data, fin |-> taken.fin, ok |-> taken.ok,
            ack |-> IF taken.fin THEN tcp_ack \cup {ACK_NOW} ELSE tcp_ack,
            empty |-> FALSE]

-----------------------------------------------------------------------------
(* The actions.                                                            *)

\* tcp_send_empty_ack() announces the window and clears the ACK flags, if it is
\* called and finds a pbuf.
Announce(nxt, ann, flags, called) ==
  \/ /\ called /\ TRUE \in Memory
     /\ ack' = {} /\ rcv_ann_right_edge' = Plus(nxt, ann)
  \/ /\ called => FALSE \in Memory
     /\ ack' = flags /\ UNCHANGED rcv_ann_right_edge

\* Mutant: the kept data is dropped when it is offered again.
KeptDropped == <<>>

\* Data the callback refused, and is offered again.
Kept == refused_data

\* tcp_input() for a segment of this connection.  Refused data is offered
\* first; if the callback refuses it again the segment is dropped and nothing
\* changes.
tcp_input(seg) ==
  /\ ~panic
  /\ MayArrive(seg)
  /\ \E copied \in BOOLEAN, answer \in Answers :
     \E r \in {tcp_receive(seg, copied)} :
       IF r.ok
       THEN /\ rcv_nxt' = r.nxt /\ rcv_wnd' = r.wnd /\ rcv_ann_wnd' = r.ann
            /\ ooseq' = r.ooseq
            /\ LET took == Kept \o IF answer = "ERR_OK" THEN r.data ELSE <<>>
               IN  /\ delivered' = delivered \o took
                   /\ unread' = unread + Len(took)
            /\ refused_data' = IF answer = "ERR_OK" THEN <<>> ELSE r.data
            /\ eof' = (eof \/ r.fin)
            /\ Announce(r.nxt, r.ann, r.ack, r.empty \/ ACK_NOW \in r.ack)
            /\ UNCHANGED panic
       ELSE /\ panic' = TRUE
            /\ UNCHANGED <<rcv_nxt, rcv_wnd, rcv_ann_wnd, rcv_ann_right_edge,
                           ooseq, refused_data, ack, delivered, unread, eof>>

\* Mutant: the update is sent for the length of this call, not of all calls.
tcp_recved_each(len) ==
  /\ ~panic
  /\ len \in 1..unread
  /\ LET wnd == IF rcv_wnd + len > TCP_WND THEN TCP_WND ELSE rcv_wnd + len
         ann == AnnWnd(rcv_nxt, wnd)
     IN  /\ rcv_wnd' = wnd /\ rcv_ann_wnd' = ann
         /\ Announce(rcv_nxt, ann, ack, len >= TCP_WND_UPDATE_THRESHOLD)
  /\ unread' = unread - len
  /\ UNCHANGED <<rcv_nxt, ooseq, refused_data, delivered, eof, panic>>

\* Mutant: the bytes are not returned to the window.
tcp_recved_forgets(len) ==
  /\ ~panic
  /\ len \in 1..unread
  /\ unread' = unread - len
  /\ UNCHANGED <<rcv_nxt, rcv_wnd, rcv_ann_wnd, rcv_ann_right_edge, ooseq,
                 refused_data, ack, delivered, eof, panic>>

\* The application has processed len bytes.  The peer is told at once when the
\* right edge of the window moves far enough.
tcp_recved(len) ==
  /\ ~panic
  /\ len \in 1..unread
  /\ LET wnd   == IF rcv_wnd + len > TCP_WND THEN TCP_WND ELSE rcv_wnd + len
         ann   == AnnWnd(rcv_nxt, wnd)
         moved == Minus(Plus(rcv_nxt, wnd), rcv_ann_right_edge)
         grown == moved >= Worthwhile /\ moved >= TCP_WND_UPDATE_THRESHOLD
     IN  /\ rcv_wnd' = wnd /\ rcv_ann_wnd' = ann
         /\ Announce(rcv_nxt, ann, IF grown THEN ack \cup {ACK_NOW} ELSE ack,
                     grown)
  /\ unread' = unread - len
  /\ UNCHANGED <<rcv_nxt, ooseq, refused_data, delivered, eof, panic>>

\* tcp_fasttmr(): refused data is offered again, and a delayed ACK is sent.
\* Its flag is cleared even when there was no memory for the ACK.
tcp_fasttmr ==
  /\ ~panic
  /\ \E answer \in Answers :
       LET took == IF answer = "ERR_OK" THEN Kept ELSE <<>>
       IN  /\ delivered' = delivered \o took
           /\ unread' = unread + Len(took)
           /\ refused_data' = IF answer = "ERR_OK" THEN <<>> ELSE refused_data
  /\ IF ACK_DELAY \in ack
     THEN /\ ack' = {}
          /\ \E sent \in Memory :
               rcv_ann_right_edge' = IF sent THEN Plus(rcv_nxt, rcv_ann_wnd)
                                             ELSE rcv_ann_right_edge
     ELSE UNCHANGED <<ack, rcv_ann_right_edge>>
  /\ UNCHANGED <<rcv_nxt, rcv_wnd, rcv_ann_wnd, ooseq, eof, panic>>

\* Any data segment this side sends carries the ACK and the window.
tcp_output_segment ==
  /\ ~panic
  /\ ack' = {}
  /\ rcv_ann_right_edge' = Plus(rcv_nxt, rcv_ann_wnd)
  /\ UNCHANGED <<rcv_nxt, rcv_wnd, rcv_ann_wnd, ooseq, refused_data, delivered,
                 unread, eof, panic>>

\* tcp_slowtmr() drops the queue of a connection that was idle too long.
DropOoseq ==
  /\ ~panic
  /\ ooseq # <<>>
  /\ ooseq' = <<>>
  /\ UNCHANGED <<rcv_nxt, rcv_wnd, rcv_ann_wnd, rcv_ann_right_edge,
                 refused_data, ack, delivered, unread, eof, panic>>

\* After the handshake, whose last segment announced the whole window.
Init ==
  /\ rcv_nxt = Plus(ISN, 1)
  /\ rcv_wnd = TCP_WND /\ rcv_ann_wnd = TCP_WND
  /\ rcv_ann_right_edge = Plus(ISN, 1 + TCP_WND)
  /\ ooseq = <<>> /\ refused_data = <<>> /\ delivered = <<>>
  /\ ack = {} /\ unread = 0 /\ eof = FALSE /\ panic = FALSE

Next ==
  \/ \E seg \in PeerSegs : tcp_input(seg)
  \/ \E len \in 1..N : tcp_recved(len)
  \/ tcp_fasttmr
  \/ tcp_output_segment
  \/ DropOoseq

Spec == Init /\ [][Next]_vars

\* What comes next in the stream can arrive and be taken: the peer keeps
\* retransmitting it, or probes with it.
NextAcceptable ==
  ~panic /\ ~eof /\ rcv_wnd > 0 /\ TCP_SEQ_GEQ(rcv_ann_right_edge, rcv_nxt)

\* Weak fairness of the arrival of that segment, with its ENABLED written out.
PeerPersists == <>[]NextAcceptable => []<><<rcv_nxt' # rcv_nxt>>_vars

\* tcp_fasttmr() keeps running and in the end the application takes what it
\* refused; it reads what it took.
FairSpec ==
  /\ Spec
  /\ PeerPersists
  /\ WF_vars(tcp_fasttmr /\ refused_data' = <<>>)
  /\ WF_vars(\E len \in 1..N : len = unread /\ tcp_recved(len))

-----------------------------------------------------------------------------
(* Properties.                                                             *)

SeqNos == 0..(M - 1)

\* Every variable has its type: in particular both windows stay within the
\* buffer, so their u16_t never wraps.
TypeOK ==
  /\ rcv_nxt \in SeqNos /\ rcv_ann_right_edge \in SeqNos
  /\ rcv_wnd \in 0..TCP_WND /\ rcv_ann_wnd \in 0..TCP_WND
  /\ \A i \in DOMAIN ooseq : ooseq[i].seqno \in SeqNos /\ ooseq[i].fin \in BOOLEAN
  /\ ack \subseteq {ACK_DELAY, ACK_NOW}
  /\ unread \in 0..N /\ eof \in BOOLEAN /\ panic \in BOOLEAN

\* Position of rcv_nxt in the stream.
Received == Len(delivered) + Len(refused_data) + FinLen(eof)

\* What the callback took and what is kept for it are together the beginning of
\* the stream, and rcv_nxt, which the peer sees as our ACK, is right behind
\* them: nothing is acknowledged that the application will not get.
StreamPrefix ==
  LET got == delivered \o refused_data
  IN  /\ Len(got) <= N /\ got = SubSeq(Stream, 1, Len(got))
      /\ eof => Len(got) = N
      /\ rcv_nxt = Plus(ISN, 1 + Received)

\* The comment of tcp_receive(): the queue "is ordered by sequence number".
\* Its segments do not overlap, are all past rcv_nxt, hold the peer's bytes,
\* and only the last may carry the FIN.
OoseqOrdered ==
  \A i \in DOMAIN ooseq :
    LET s   == ooseq[i]
        pos == Minus(s.seqno, ISN)
    IN  /\ TCP_SEQ_GT(s.seqno, rcv_nxt)
        /\ i < Len(ooseq) => TCP_SEQ_GEQ(ooseq[i + 1].seqno, End(s)) /\ ~s.fin
        /\ s.data = SubSeq(Stream, pos, pos + Len(s.data) - 1)
        /\ s.fin => pos + Len(s.data) = N + 1

\* The receive window is the buffer less what the application has not given
\* back, and less the FIN: it neither leaks nor grows, and every variable keeps
\* its type.
WindowExact ==
  TypeOK /\ rcv_wnd + unread + Len(refused_data) + FinLen(eof) = TCP_WND

\* The right edge of the announced window never moves back: what the peer was
\* allowed to send stays allowed.
EdgeNeverRetreats ==
  [][TCP_SEQ_GEQ(rcv_ann_right_edge', rcv_ann_right_edge)]_vars

\* While there is memory for ACKs, the window that opened since the last
\* announcement is below the two thresholds: an application that has read
\* everything never leaves the peer in front of a closed window.
WindowAnnounced ==
  LET hidden == Minus(Plus(rcv_nxt, rcv_wnd), rcv_ann_right_edge)
  IN  hidden < Worthwhile \/ hidden < TCP_WND_UPDATE_THRESHOLD

\* No assertion of tcp_receive() fails.
NoPanic == ~panic

\* The callback hears of the end even while the last data it refused is kept for
\* it; the stream has ended when there is none left.
Abstract == INSTANCE ByteStream WITH eof <- eof /\ refused_data = <<>>

\* The receiver implements the byte stream: what tcp_input() and tcp_fasttmr()
\* pass to the callback is the peer's data in order, once, and then its end,
\* whatever the callback refuses.
ImplementsByteStream == Abstract!Spec

Complete == delivered = Stream /\ eof

\* In the end the application has every byte and knows that there are no more.
AllDelivered == <>Complete
=============================================================================
