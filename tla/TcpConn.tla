------------------------------ MODULE TcpConn ------------------------------
(***************************************************************************)
(* One accepted connection as the OCaml library sees it: the tcp_wrap that *)
(* lwip_stubs.c hangs on the pcb, the callbacks lwIP calls with it, the    *)
(* Lwt threads that read, write and close through lwip.ml, and the OCaml   *)
(* collector, which finalizes the wrapper.  Sources: lib/lwip_stubs.c,     *)
(* lib/lwip.ml.                                                            *)
(*                                                                         *)
(* Everything runs in one system thread.  A step is what runs between two  *)
(* points where an Lwt thread gives up control: an event of lwIP with the  *)
(* callbacks it makes, or the part of a thread up to its next wait.  A     *)
(* thread that was signalled runs at some later step.                      *)
(***************************************************************************)
EXTENDS Naturals, Sequences, FiniteSets

CONSTANTS
  Threads,    \* the Lwt threads that use the connection
  MaxData,    \* packets the peer sends
  MaxWrite,   \* longest write, in send buffers (TCP_SND_BUF)
  QueueLen,   \* TCP_SND_QUEUELEN
  Memory,     \* whether allocations for sending may succeed
  Losable,    \* states of the pcb in which the connection may be lost
  Eager,      \* the listener may be woken inside the accept callback
  Early       \* the segment that ends the handshake may carry data and a FIN

ASSUME BoundsAreNat ==
  /\ MaxData \in Nat /\ MaxWrite \in Nat \ {0} /\ QueueLen \in Nat \ {0}
ASSUME ModesAreBoolean ==
  /\ Memory \subseteq BOOLEAN /\ Memory # {}
  /\ Eager \in BOOLEAN /\ Early \in BOOLEAN

VARIABLES
  pcb,        \* state of the lwIP pcb; FREE: its memory was given back
  queue,      \* what is on unsent and unacked: "syn", "data", "fin"
  accepting,  \* lwIP is still inside the accept callback
  started,    \* listen_forever has started the threads of the connection
  coming,     \* packets the peer has not sent yet
  tw,         \* the tcp_wrap and its tcp_desc
  thr,        \* where each thread is
  rx_cond, tx_cond,  \* the threads waiting on the two conditions, first first
  misuse,     \* freed memory that was used: "tw", "pcb"
  lost        \* lwIP has given up a connection the application had not closed

vars == <<pcb, queue, accepting, started, coming, tw, thr, rx_cond, tx_cond,
          misuse, lost>>

\* pcb: tw->pcb is not NULL.  rx: pbufs on the receive list.
Tw == [live : BOOLEAN, pcb : BOOLEAN, rx : 0..MaxData,
       state : {"TCP_ACCEPTED", "TCP_CLOSING"}]

\* n: send buffers left to write, or attempts to close left.
Thread == [pc : {"idle", "read", "rxwait", "write", "txwait", "close",
                 "raised", "done"}, n : Nat]

CloseRetries == 3

-----------------------------------------------------------------------------
(* Lwt_condition.signal wakes the first waiter, if there is one.           *)

rx_notify ==
  IF rx_cond = <<>> THEN UNCHANGED <<thr, rx_cond>>
  ELSE /\ thr' = [thr EXCEPT ![Head(rx_cond)].pc = "read"]
       /\ rx_cond' = Tail(rx_cond)

tx_notify ==
  IF tx_cond = <<>> THEN UNCHANGED <<thr, tx_cond>>
  ELSE /\ thr' = [thr EXCEPT ![Head(tx_cond)].pc = "write"]
       /\ tx_cond' = Tail(tx_cond)

-----------------------------------------------------------------------------
(* The callbacks.  All are called with tw, which lwIP keeps as             *)
(* callback_arg for as long as the pcb lives.                              *)

\* Mutant: the first packet wakes nobody.
tcp_recv_cb_silent ==
  /\ tw' = [tw EXCEPT !.rx = IF @ > 0 /\ tw.state = "TCP_CLOSING" THEN @
                             ELSE @ + 1]
  /\ UNCHANGED <<misuse, thr, rx_cond>>

\* tcp_recv_cb() with a pbuf.
tcp_recv_cb ==
  IF ~tw.live
  THEN misuse' = misuse \cup {"tw"} /\ UNCHANGED <<tw, thr, rx_cond>>
  ELSE /\ tw' = [tw EXCEPT !.rx = IF @ > 0 /\ tw.state = "TCP_CLOSING" THEN @
                                  ELSE @ + 1]
       /\ IF tw.rx = 0 THEN rx_notify ELSE UNCHANGED <<thr, rx_cond>>
       /\ UNCHANGED misuse

\* tcp_recv_cb() with NULL: the peer has closed.
tcp_recv_cb_eof ==
  IF ~tw.live
  THEN misuse' = misuse \cup {"tw"} /\ UNCHANGED <<tw, thr, rx_cond>>
  ELSE /\ tw' = [tw EXCEPT !.state = "TCP_CLOSING"]
       /\ rx_notify
       /\ UNCHANGED misuse

\* Mutant: an acknowledgement wakes nobody.
tcp_sent_cb_silent == UNCHANGED <<misuse, thr, tx_cond>>

tcp_sent_cb ==
  IF ~tw.live
  THEN misuse' = misuse \cup {"tw"} /\ UNCHANGED <<thr, tx_cond>>
  ELSE tx_notify /\ UNCHANGED misuse

-----------------------------------------------------------------------------
(* What lwIP does: calls of tcp_input() and of the timers.                 *)

\* The end of tcp_process() in SYN_RCVD: only after the accept callback has
\* returned is the SYN taken off unacked, and its ACK makes no sent event.
AcceptReturns ==
  /\ accepting
  /\ accepting' = FALSE
  /\ queue' = Tail(queue)
  /\ UNCHANGED <<pcb, started, coming, tw, thr, rx_cond, tx_cond, misuse, lost>>

\* Until the listener has run nothing comes but the rest of the segment that
\* ended the handshake.
Receives == ~accepting /\ (started \/ Early)

RecvData ==
  /\ Receives
  /\ pcb \in {"ESTABLISHED", "FIN_WAIT"} /\ coming > 0
  /\ coming' = coming - 1
  /\ tcp_recv_cb
  /\ UNCHANGED <<pcb, queue, accepting, started, tx_cond, lost>>

RecvFin ==
  /\ Receives
  /\ pcb \in {"ESTABLISHED", "FIN_WAIT"} /\ coming = 0
  /\ pcb' = IF pcb = "ESTABLISHED" THEN "CLOSE_WAIT"
            ELSE IF queue # <<>> THEN "CLOSING" ELSE "FREE"
  /\ tcp_recv_cb_eof
  /\ UNCHANGED <<queue, accepting, started, coming, tx_cond, lost>>

\* An ACK of data makes a sent event.  The FIN is taken off pcb->acked first, so
\* its ACK makes none; in LAST_ACK and CLOSING it ends the connection.
RecvAck ==
  /\ ~accepting
  /\ queue # <<>>
  /\ queue' = Tail(queue)
  /\ IF Head(queue) = "fin"
     THEN /\ pcb' = IF pcb \in {"LAST_ACK", "CLOSING"} THEN "FREE" ELSE pcb
          /\ UNCHANGED <<thr, tx_cond, misuse>>
     ELSE UNCHANGED pcb /\ tcp_sent_cb
  /\ UNCHANGED <<accepting, started, coming, tw, rx_cond, lost>>

\* A reset, too many retransmissions, or a victim of tcp_kill_prio(): the pcb
\* is freed, whether the application still uses it or not; the binding registers
\* no error callback, and so tw->pcb stays.
Lose ==
  /\ ~accepting /\ started
  /\ pcb # "FREE" /\ pcb \in Losable
  /\ pcb' = "FREE" /\ queue' = <<>>
  /\ lost' = (lost \/ tw.pcb)
  /\ UNCHANGED <<accepting, started, coming, tw, thr, rx_cond, tx_cond, misuse>>

-----------------------------------------------------------------------------
(* The threads.                                                            *)

\* The listener that accept_cb signalled takes the connection from listen_q and
\* starts its threads.  tcp_accepted sets the state to TCP_ACCEPTED once more.
listen_forever ==
  /\ ~started /\ (Eager \/ ~accepting)
  /\ started' = TRUE
  /\ tw' = [tw EXCEPT !.state = "TCP_ACCEPTED"]
  /\ UNCHANGED <<pcb, queue, accepting, coming, thr, rx_cond, tx_cond, misuse, lost>>

MayRun == started /\ (Eager \/ ~accepting)

Raise(t) == thr' = [thr EXCEPT ![t].pc = "raised"]

\* A primitive that follows tw->pcb: a pcb that lwIP freed is still followed.
Follow == misuse' = IF pcb = "FREE" THEN misuse \cup {"pcb"} ELSE misuse

\* tcp_read: everything received goes to the thread, and the window opens.
caml_tcp_read(t) ==
  /\ tw' = [tw EXCEPT !.rx = 0]
  /\ thr' = [thr EXCEPT ![t].pc = "idle"]
  /\ Follow

\* TCP.read: tcp_read_len, and then tcp_read or a wait.
read(t) ==
  /\ MayRun
  /\ thr[t].pc \in {"idle", "read"}
  /\ \/ /\ ~tw.pcb
        /\ Raise(t) /\ UNCHANGED <<tw, rx_cond, misuse>>
     \/ /\ tw.pcb /\ tw.rx > 0
        /\ caml_tcp_read(t) /\ UNCHANGED rx_cond
     \/ /\ tw.pcb /\ tw.rx = 0 /\ tw.state = "TCP_CLOSING"
        /\ Raise(t) /\ UNCHANGED <<tw, rx_cond, misuse>>
     \/ /\ tw.pcb /\ tw.rx = 0 /\ tw.state # "TCP_CLOSING"
        /\ thr' = [thr EXCEPT ![t].pc = "rxwait"]
        /\ rx_cond' = Append(rx_cond, t)
        /\ UNCHANGED <<tw, misuse>>
  /\ UNCHANGED <<pcb, queue, accepting, started, coming, tx_cond, lost>>

OnQueue(x) == \E i \in DOMAIN queue : queue[i] = x

\* tcp_enqueue() refuses a segment when the queue is full or memory is not
\* available.
Enqueues == Len(queue) < QueueLen /\ TRUE \in Memory

Refuses == Len(queue) >= QueueLen \/ FALSE \in Memory

\* Mutant: the pcb is written to without a look at tw->pcb.
internal_write_unchecked(t, n) ==
  /\ ~OnQueue("data") /\ Enqueues
  /\ queue' = Append(queue, "data")
  /\ thr' = [thr EXCEPT ![t] = [pc |-> "idle", n |-> 0]]
  /\ UNCHANGED <<tx_cond, misuse>>

\* One round of internal_write, with n buffers left: it writes what the send
\* buffer takes and waits for an ACK, unless that was all.
internal_write(t, n) ==
  \/ /\ ~tw.pcb
     /\ Raise(t) /\ UNCHANGED <<queue, tx_cond, misuse>>
  \/ /\ tw.pcb /\ Follow
     /\ ~OnQueue("data") /\ Enqueues
     /\ queue' = IF pcb = "FREE" THEN queue ELSE Append(queue, "data")
     /\ thr' = [thr EXCEPT ![t] = [pc |-> IF n = 1 THEN "idle" ELSE "txwait",
                                   n |-> n - 1]]
     /\ tx_cond' = IF n = 1 THEN tx_cond ELSE Append(tx_cond, t)
  \/ /\ tw.pcb /\ Follow
     /\ OnQueue("data") \/ Refuses
     /\ thr' = [thr EXCEPT ![t] = [pc |-> "txwait", n |-> n]]
     /\ tx_cond' = Append(tx_cond, t)
     /\ UNCHANGED queue

write(t) ==
  /\ MayRun
  /\ \/ thr[t].pc = "idle" /\ \E n \in 1..MaxWrite : internal_write(t, n)
     \/ thr[t].pc = "write" /\ internal_write(t, thr[t].n)
  /\ UNCHANGED <<pcb, accepting, started, coming, tw, rx_cond, lost>>

\* tcp_close() of the connection: the FIN needs a place on the queue.
CloseEnqueues ==
  /\ Enqueues
  /\ pcb' = IF pcb = "ESTABLISHED" THEN "FIN_WAIT"
            ELSE IF pcb = "CLOSE_WAIT" THEN "LAST_ACK" ELSE pcb
  /\ queue' = IF pcb = "FREE" THEN queue ELSE Append(queue, "fin")

AbortFrees == pcb' = "FREE" /\ queue' = <<>>

\* Mutant: tw->pcb is not cleared by a close that succeeds.
caml_tcp_close_keeps_pcb(t) ==
  /\ CloseEnqueues
  /\ tw' = [tw EXCEPT !.state = "TCP_CLOSING"]
  /\ thr' = [thr EXCEPT ![t].pc = "idle"]

caml_tcp_close(t) ==
  /\ CloseEnqueues
  /\ tw' = [tw EXCEPT !.pcb = FALSE, !.state = "TCP_CLOSING"]
  /\ thr' = [thr EXCEPT ![t].pc = "idle"]

caml_tcp_abort(t) ==
  /\ AbortFrees
  /\ tw' = [tw EXCEPT !.pcb = FALSE, !.state = "TCP_CLOSING"]
  /\ thr' = [thr EXCEPT ![t].pc = "idle"]

\* TCP.close with n attempts left.  Between two attempts the thread only
\* pauses, which takes it out of the accept callback.
CloseStep(t, n) ==
  \/ /\ ~tw.pcb
     /\ Raise(t) /\ UNCHANGED <<pcb, queue, tw, misuse>>
  \/ tw.pcb /\ n > 0 /\ caml_tcp_close(t) /\ Follow
  \/ /\ tw.pcb /\ n > 0 /\ Refuses /\ Follow
     /\ thr' = [thr EXCEPT ![t] = [pc |-> "close", n |-> n - 1]]
     /\ UNCHANGED <<pcb, queue, tw>>
  \/ tw.pcb /\ n = 0 /\ caml_tcp_abort(t) /\ Follow

close(t) ==
  /\ MayRun
  /\ \/ thr[t].pc = "idle" /\ CloseStep(t, CloseRetries)
     \/ thr[t].pc = "close" /\ ~accepting /\ CloseStep(t, thr[t].n)
  /\ UNCHANGED <<accepting, started, coming, rx_cond, tx_cond, lost>>

\* The thread returns, or dies of Connection_closed.
exit(t) ==
  /\ MayRun
  /\ thr[t].pc \in {"idle", "raised"}
  /\ thr' = [thr EXCEPT ![t].pc = "done"]
  /\ UNCHANGED <<pcb, queue, accepting, started, coming, tw, rx_cond, tx_cond,
                 misuse, lost>>

\* No thread holds the wrapper any more (one that waits does: the condition it
\* waits on is reachable from the global root tw->v).  The collector finalizes
\* it: the pcb is closed or else aborted, and tw is freed.
tcp_wrap_finalize ==
  /\ ~accepting
  /\ tw.live /\ \A t \in Threads : thr[t].pc = "done"
  /\ \/ ~tw.pcb /\ UNCHANGED <<pcb, queue, misuse>>
     \/ tw.pcb /\ Follow /\ CloseEnqueues
     \/ tw.pcb /\ Follow /\ Refuses /\ AbortFrees
  /\ tw' = [tw EXCEPT !.live = FALSE, !.pcb = FALSE, !.rx = 0]
  /\ UNCHANGED <<accepting, started, coming, thr, rx_cond, tx_cond, lost>>

-----------------------------------------------------------------------------

\* tcp_accept_cb() has made the wrapper and set the callbacks, accept_cb has
\* put it on listen_q, set tw->v and signalled the listener.
Init ==
  /\ pcb = "ESTABLISHED" /\ queue = <<"syn">> /\ accepting = TRUE
  /\ started = FALSE
  /\ coming \in 0..MaxData
  /\ tw = [live |-> TRUE, pcb |-> TRUE, rx |-> 0, state |-> "TCP_ACCEPTED"]
  /\ thr = [t \in Threads |-> [pc |-> "idle", n |-> 0]]
  /\ rx_cond = <<>> /\ tx_cond = <<>>
  /\ misuse = {} /\ lost = FALSE

Lwip == AcceptReturns \/ RecvData \/ RecvFin \/ RecvAck \/ Lose

Next ==
  \/ Lwip
  \/ listen_forever
  \/ \E t \in Threads : read(t) \/ write(t) \/ close(t) \/ exit(t)
  \/ tcp_wrap_finalize

Spec == Init /\ [][Next]_vars

\* Lwt runs every thread that can go on, netif_sel polls for packets, and the
\* peer answers what it gets.
FairSpec ==
  /\ Spec
  /\ WF_vars(AcceptReturns) /\ WF_vars(RecvData) /\ WF_vars(RecvAck)
  /\ WF_vars(listen_forever)
  /\ \A t \in Threads : /\ WF_vars(thr[t].pc = "read" /\ read(t))
                        /\ WF_vars(thr[t].pc = "write" /\ write(t))
                        /\ WF_vars(thr[t].pc = "close" /\ close(t))

-----------------------------------------------------------------------------
(* Properties.                                                             *)

\* Every variable but the history variable lost has its type, and the send queue
\* is within its limit.
TypeOK ==
  /\ pcb \in {"ESTABLISHED", "CLOSE_WAIT", "FIN_WAIT", "CLOSING", "LAST_ACK",
              "FREE"}
  /\ queue \in Seq({"syn", "data", "fin"}) /\ Len(queue) <= QueueLen
  /\ accepting \in BOOLEAN /\ started \in BOOLEAN /\ coming \in 0..MaxData
  /\ tw \in Tw
  /\ thr \in [Threads -> Thread]
  /\ rx_cond \in Seq(Threads) /\ tx_cond \in Seq(Threads)
  /\ misuse \subseteq {"tw", "pcb"}

\* The comment of tcp_recv_cb(): "nothing can sleep if there are already
\* pending packets in rx queue".  While there are, and the application has not
\* closed the connection, no thread sleeps on rx_cond without another one on its
\* way to read them.
NoSleepOnData ==
  tw.pcb /\ tw.rx > 0 /\ rx_cond # <<>> => \E t \in Threads : thr[t].pc = "read"

\* Neither a callback uses a tcp_wrap that was freed, nor a thread a pcb that
\* was freed.
NoUseAfterFree == misuse = {}

\* However reads, writes, closes and the collector follow each other, a thread
\* follows tw->pcb to a pcb that was freed for one reason only: lwIP gave the
\* connection up before the application closed it, and nobody told the binding.
\* Whoever closes or aborts clears tw->pcb, the others look at it again after
\* every wait, and what happens to the pcb after the close concerns no thread.
FreedOnlyByLoss == "pcb" \in misuse => lost

\* lwip.mli: "Any subsequent attempt to use the PCB will raise a
\* Connection_closed exception": once it is closed nothing is written to it.
NothingAfterClose ==
  [][~tw.pcb => tw'.pcb = FALSE /\ Len(queue') <= Len(queue)]_vars

Reading(t) == thr[t].pc = "rxwait"
Writing(t) == thr[t].pc = "txwait"

\* "Wake up any listeners, which will get a read error": no reader sleeps for
\* ever on a connection the peer has closed.
ReadersHear ==
  \A t \in Threads :
    (pcb = "CLOSE_WAIT" /\ Reading(t)) ~> ~Reading(t)

\* A reader that waits on a connection lwIP has given up gets its error.
LossHeard ==
  \A t \in Threads :
    (pcb = "FREE" /\ Reading(t)) ~> ~Reading(t)

\* The writer that has waited longest.
FirstWriter(t) == tx_cond # <<>> /\ Head(tx_cond) = t

\* "Wait for a write ack, then continue writing": while there is data to be
\* acknowledged, the writer that has waited longest is woken, as long as lwIP
\* keeps the connection.
AckWakesWriter ==
  \A t \in Threads :
    (FirstWriter(t) /\ OnQueue("data")) ~> (~Writing(t) \/ pcb = "FREE")
=============================================================================
