-------------------------------- MODULE Api --------------------------------
(***************************************************************************)
(* The sequential API (api/api_lib.c, api/api_msg.c) over the tcpip thread *)
(* (api/tcpip.c): application threads, one per connection, post messages   *)
(* and wait for the connection's semaphore; the tcpip thread handles the   *)
(* messages and runs the callbacks of TCP, which post to the mailboxes of  *)
(* the connections.  An item of a mailbox is a piece of data, the end      *)
(* (NULL), or a new connection.                                            *)
(***************************************************************************)
EXTENDS Integers, Sequences, FiniteSets

CONSTANTS
  Conns,              \* netconns of the pool (MEMP_NETCONN)
  OpsOf,              \* the calls an application makes on each
  TCPIP_MBOX_SIZE, DEFAULT_TCP_RECVMBOX_SIZE, DEFAULT_ACCEPTMBOX_SIZE,
  WriteLen,           \* pieces an application writes in one call
  SndBuf,             \* pieces TCP takes before they are acknowledged
  MaxData,            \* pieces a peer sends to a connection
  MaxFails            \* calls of TCP that fail for want of memory

VARIABLES
  conn,               \* the connections
  user,               \* what the thread of each connection does
  mbox,               \* mailbox of the tcpip thread
  tcpip,              \* Run, or what the tcpip thread is in the middle of
  got,                \* pieces the peer of each connection sent
  fails

vars == <<conn, user, mbox, tcpip, got, fails>>

null == "null"

FreeConn == [used |-> FALSE, pcb |-> "none", state |-> "NONE", err |-> "OK",
             recv |-> <<>>, hasrecv |-> FALSE, acc |-> <<>>, hasacc |-> FALSE, sem |-> 0,
             left |-> 0, room |-> 0, refused |-> null]

Idle == [pc |-> "idle", op |-> "none"]

Run == [on |-> null, to |-> "none"]

Init ==
  /\ conn = [c \in Conns |-> FreeConn]
  /\ user = [c \in Conns |-> Idle]
  /\ mbox = <<>> /\ tcpip = Run
  /\ got = [c \in Conns |-> 0]
  /\ fails = 0

\* netconn_alloc(): with its semaphore and its receive mailbox.
netconn_alloc == [FreeConn EXCEPT !.used = TRUE, !.hasrecv = TRUE]

\* ERR_IS_FATAL(): every error but want of memory.
Fatal(c) == conn[c].err \notin {"OK", "MEM"}

Signal(r) == [r EXCEPT !.sem = @ + 1]

-----------------------------------------------------------------------------
(* The application.                                                        *)

Calls(c, op) == user' = [user EXCEPT ![c] = [pc |-> "post", op |-> op]]

netconn_new(c) ==
  /\ ~conn[c].used
  /\ conn' = [conn EXCEPT ![c] = netconn_alloc]
  /\ Calls(c, "newconn")
  /\ got' = [got EXCEPT ![c] = 0]
  /\ UNCHANGED <<mbox, tcpip, fails>>

\* The threads of a connection that waits in an accept mailbox do not know it yet.
Known(c) == conn[c].used /\ user[c].pc = "idle" /\ \A d \in Conns : \A i \in DOMAIN conn[d].acc : conn[d].acc[i] # c

netconn_call(c, op) ==
  /\ Known(c)
  /\ Calls(c, op)
  /\ UNCHANGED <<conn, mbox, tcpip, got, fails>>

\* tcpip_apimsg(): sys_mbox_post() blocks while the mailbox is full.
tcpip_apimsg(c) ==
  /\ user[c].pc = "post" /\ Len(mbox) < TCPIP_MBOX_SIZE
  /\ mbox' = Append(mbox, [op |-> user[c].op, c |-> c])
  /\ user' = [user EXCEPT ![c].pc = "wait"]
  /\ UNCHANGED <<conn, tcpip, got, fails>>

\* The call returns.  A connection without a pcb is freed, and so is one deleted,
\* with what is in its mailboxes.
Returned(c) ==
  /\ user[c].pc = "wait" /\ conn[c].sem > 0
  /\ CASE user[c].op = "delconn" ->
            /\ conn' = [conn EXCEPT ![c].sem = @ - 1, ![c].pcb = "none"]
            /\ user' = [user EXCEPT ![c] = [pc |-> "free", op |-> "none"]]
       [] user[c].op = "newconn" /\ conn[c].err # "OK" ->
            conn' = [conn EXCEPT ![c] = FreeConn] /\ user' = [user EXCEPT ![c] = Idle]
       [] OTHER ->
            conn' = [conn EXCEPT ![c].sem = @ - 1] /\ user' = [user EXCEPT ![c] = Idle]
  /\ UNCHANGED <<mbox, tcpip, got, fails>>

\* netconn_free(): connections nobody accepted are deleted one by one.
netconn_free(c) ==
  /\ user[c].pc = "free"
  /\ IF conn[c].acc # <<>>
     THEN LET n == Head(conn[c].acc)
          IN  /\ conn' = [conn EXCEPT ![c].acc = Tail(@)]
              /\ user' = IF n = null THEN user ELSE [user EXCEPT ![n] = [pc |-> "post", op |-> "delconn"]]
     ELSE conn' = [conn EXCEPT ![c] = FreeConn] /\ user' = [user EXCEPT ![c] = Idle]
  /\ UNCHANGED <<mbox, tcpip, got, fails>>

\* netconn_recv(): waits for the mailbox, unless there is none or the connection
\* is lost.
netconn_recv(c) ==
  /\ Known(c) /\ conn[c].hasrecv /\ ~Fatal(c) /\ conn[c].state # "LISTEN"
  /\ user' = [user EXCEPT ![c].pc = "recv"]
  /\ UNCHANGED <<conn, mbox, tcpip, got, fails>>

\* The piece is acknowledged to TCP (do_recv); the end is none.
Fetched(c) ==
  /\ user[c].pc = "recv" /\ conn[c].recv # <<>>
  /\ conn' = [conn EXCEPT ![c].recv = Tail(@),
                ![c].err = IF Head(conn[c].recv) = null /\ @ = "OK" THEN "CLSD" ELSE @]
  /\ IF Head(conn[c].recv) = null THEN user' = [user EXCEPT ![c] = Idle] ELSE Calls(c, "recv")
  /\ UNCHANGED <<mbox, tcpip, got, fails>>

\* netconn_accept().
netconn_accept(c) ==
  /\ Known(c) /\ conn[c].hasacc /\ conn[c].acc # <<>>
  /\ conn' = [conn EXCEPT ![c].acc = Tail(@)]
  /\ UNCHANGED <<user, mbox, tcpip, got, fails>>

-----------------------------------------------------------------------------
(* Messages, in the tcpip thread.                                          *)

Running == tcpip = Run

\* pcb_new(), do_newconn(): without a pcb the call fails.
do_newconn(c) ==
  \/ /\ conn' = [conn EXCEPT ![c] = Signal([@ EXCEPT !.pcb = "closed", !.err = "OK", !.room = SndBuf])]
     /\ UNCHANGED fails
  \/ /\ fails < MaxFails /\ fails' = fails + 1
     /\ conn' = [conn EXCEPT ![c] = Signal([@ EXCEPT !.err = "MEM"])]

\* tcp_listen() succeeded: the receive mailbox is replaced by one for connections.
\* The listening pcb takes the place of the old one, which is freed, but the
\* pointer to it is not replaced when the connection has an earlier error.
Listens(r) ==
  LET m == [r EXCEPT !.recv = <<>>, !.hasrecv = FALSE, !.hasacc = TRUE]
  IN  IF r.err = "OK" THEN [m EXCEPT !.state = "LISTEN", !.pcb = "listen"]
      ELSE [m EXCEPT !.pcb = "stale"]

\* do_listen(): there may be no memory for the pcb, or then none for the mailbox.
do_listen(c) ==
  LET r    == conn[c]
      can  == ~Fatal(c) /\ r.pcb = "closed"
  IN  \/ /\ conn' = [conn EXCEPT ![c] = Signal(IF can THEN Listens(r)
                                               ELSE IF Fatal(c) \/ r.pcb = "none" THEN r
                                               ELSE [r EXCEPT !.err = "CONN"])]
         /\ UNCHANGED fails
      \/ /\ can /\ fails < MaxFails /\ fails' = fails + 1
         /\ \/ conn' = [conn EXCEPT ![c] = Signal([r EXCEPT !.err = "MEM"])]
            \/ conn' = [conn EXCEPT ![c] = Signal([r EXCEPT !.err = "MEM", !.pcb = "stale",
                                                            !.recv = <<>>, !.hasrecv = FALSE])]

\* do_connect(): do_connected() or err_tcp() signal.  When tcp_connect() fails, as
\* the pcb is in use or as there is no memory for the SYN ("nosyn": the pcb is in
\* SYN_SENT with nothing to send), nobody does.
do_connect(c) ==
  LET r == [conn[c] EXCEPT !.state = "CONNECT"]
  IN  \/ /\ conn' = [conn EXCEPT ![c] =
              IF @.pcb = "none" THEN Signal(@)
              ELSE IF @.pcb = "closed" THEN [r EXCEPT !.pcb = "syn", !.err = "OK"]
              ELSE [r EXCEPT !.err = "ISCONN"]]
         /\ UNCHANGED fails
      \/ /\ conn[c].pcb = "closed" /\ fails < MaxFails /\ fails' = fails + 1
         /\ conn' = [conn EXCEPT ![c] = [r EXCEPT !.pcb = "nosyn", !.err = "MEM"]]

\* Mutant: the call ends when TCP took something.
WriteMoreOnce(r) ==
  LET n == IF r.left < r.room THEN r.left ELSE r.room
      w == [r EXCEPT !.left = @ - n, !.room = @ - n, !.err = "OK"]
  IN  IF n > 0 THEN Signal([w EXCEPT !.state = "NONE"]) ELSE w

\* do_writemore(): as much as TCP takes; the call ends when all is taken.
do_writemore(r) ==
  LET n == IF r.left < r.room THEN r.left ELSE r.room
      w == [r EXCEPT !.left = @ - n, !.room = @ - n, !.err = "OK"]
  IN  IF w.left = 0 THEN Signal([w EXCEPT !.state = "NONE"]) ELSE w

\* do_write(): when tcp_write() has no memory (ERR_MEM) the call goes on waiting.
do_write(c) ==
  LET r   == [conn[c] EXCEPT !.state = "WRITE", !.left = WriteLen]
      err == IF conn[c].pcb = "none" THEN "VAL" ELSE "CONN"
  IN  IF Fatal(c) THEN conn' = [conn EXCEPT ![c] = Signal(@)] /\ UNCHANGED fails
      ELSE IF conn[c].pcb # "est"
      THEN conn' = [conn EXCEPT ![c] = Signal([@ EXCEPT !.err = err])] /\ UNCHANGED fails
      ELSE \/ conn' = [conn EXCEPT ![c] = do_writemore(r)] /\ UNCHANGED fails
           \/ /\ fails < MaxFails /\ fails' = fails + 1
              /\ conn' = [conn EXCEPT ![c] = r]

Closed(r) == Signal([r EXCEPT !.state = "NONE", !.pcb = "none", !.err = "OK", !.refused = null])

\* do_close_internal(): tcp_close() may have no memory for the FIN; it is tried again by
\* sent_tcp() and poll_tcp().  Data is no longer received.
do_close_internal(c, r) ==
  \/ conn' = [conn EXCEPT ![c] = Closed(r)] /\ UNCHANGED fails
  \/ /\ fails < MaxFails /\ fails' = fails + 1 /\ r.pcb = "est"
     /\ conn' = [conn EXCEPT ![c] = [r EXCEPT !.refused = "closed"]]

\* do_close(), do_delconn().
do_close(c) ==
  IF conn[c].pcb # "none" THEN do_close_internal(c, [conn[c] EXCEPT !.state = "CLOSE"])
  ELSE conn' = [conn EXCEPT ![c] = Signal([@ EXCEPT !.err = "VAL"])] /\ UNCHANGED fails

do_delconn(c) ==
  IF conn[c].pcb # "none" THEN do_close_internal(c, [conn[c] EXCEPT !.state = "CLOSE"])
  ELSE conn' = [conn EXCEPT ![c] = Signal(@)] /\ UNCHANGED fails

\* do_bind(), do_recv(), do_disconnect(), do_getaddr() and do_send() answer at
\* once.
do_recv(c) == conn' = [conn EXCEPT ![c] = Signal(@)] /\ UNCHANGED fails

Handle(m) ==
  CASE m.op = "newconn" -> do_newconn(m.c)
    [] m.op = "listen"  -> do_listen(m.c)
    [] m.op = "connect" -> do_connect(m.c)
    [] m.op = "write"   -> do_write(m.c)
    [] m.op = "close"   -> do_close(m.c)
    [] m.op = "delconn" -> do_delconn(m.c)
    [] m.op = "recv"    -> do_recv(m.c)

\* A handler that uses a freed pcb may do anything: the thread is lost.
tcpip_thread ==
  /\ Running /\ mbox # <<>>
  /\ mbox' = Tail(mbox)
  /\ LET m == Head(mbox)
     IN  \/ conn[m.c].pcb # "stale" /\ Handle(m) /\ UNCHANGED tcpip
         \/ /\ conn[m.c].pcb = "stale" /\ tcpip' = [on |-> m.c, to |-> "lost"]
            /\ UNCHANGED <<conn, fails>>
  /\ UNCHANGED <<user, got>>

-----------------------------------------------------------------------------
(* Callbacks of TCP.                                                       *)

Live(c) == Running /\ conn[c].used /\ conn[c].pcb \in {"syn", "nosyn", "est"}

\* recv_tcp(): data the mailbox has no room for stays with TCP (ERR_MEM).
recv_tcp(c, p) ==
  /\ Live(c) /\ conn[c].pcb = "est" /\ conn[c].refused = null /\ got[c] < MaxData
  /\ got' = [got EXCEPT ![c] = IF p = null THEN MaxData ELSE @ + 1]
  /\ conn' = [conn EXCEPT ![c] =
       IF Len(@.recv) < DEFAULT_TCP_RECVMBOX_SIZE
       THEN [@ EXCEPT !.err = "OK", !.recv = Append(@, p)]
       ELSE [@ EXCEPT !.err = "OK", !.refused = p]]
  /\ UNCHANGED <<user, mbox, tcpip, fails>>

\* tcp_fasttmr(): the data is offered again.
Refused(c) ==
  /\ Live(c) /\ conn[c].refused \notin {null, "closed"} /\ Len(conn[c].recv) < DEFAULT_TCP_RECVMBOX_SIZE
  /\ conn' = [conn EXCEPT ![c].recv = Append(@, conn[c].refused), ![c].refused = null]
  /\ UNCHANGED <<user, mbox, tcpip, got, fails>>

\* sent_tcp() and poll_tcp(): what waits for room goes on.  Room comes with
\* acknowledgements.
sent_tcp(c) ==
  /\ Live(c) /\ conn[c].pcb = "est" /\ (conn[c].room < SndBuf \/ conn[c].state \in {"WRITE", "CLOSE"})
  /\ LET r == [conn[c] EXCEPT !.room = SndBuf]
     IN  CASE r.state = "WRITE" -> conn' = [conn EXCEPT ![c] = do_writemore(r)] /\ UNCHANGED fails
           [] r.state = "CLOSE" -> do_close_internal(c, r)
           [] OTHER             -> conn' = [conn EXCEPT ![c] = r] /\ UNCHANGED fails
  /\ UNCHANGED <<user, mbox, tcpip, got>>

do_connected(c) ==
  /\ Live(c) /\ conn[c].pcb = "syn" /\ conn[c].state = "CONNECT"
  /\ conn' = [conn EXCEPT ![c] = Signal([@ EXCEPT !.pcb = "est", !.state = "NONE", !.err = "OK"])]
  /\ UNCHANGED <<user, mbox, tcpip, got, fails>>

\* What err_tcp() does after the mailbox: the thread that waits is signalled.
ErrSignals(r) == IF r.state \in {"CONNECT", "WRITE", "CLOSE"} THEN Signal([r EXCEPT !.state = "NONE"]) ELSE r

\* The connection is lost; the end is posted to the receive mailbox, and the post
\* blocks while it is full.
Err(c) ==
  LET r == [conn[c] EXCEPT !.pcb = "none", !.err = "FATAL", !.refused = null]
  IN  IF Len(r.recv) < DEFAULT_TCP_RECVMBOX_SIZE
      THEN conn' = [conn EXCEPT ![c] = ErrSignals([r EXCEPT !.recv = Append(@, null)])] /\ tcpip' = Run
      ELSE conn' = [conn EXCEPT ![c] = r] /\ tcpip' = [on |-> c, to |-> "recv"]

err_tcp(c) ==
  /\ Live(c)
  /\ Err(c)
  /\ UNCHANGED <<user, mbox, got, fails>>

\* The blocked post ends when the application has fetched something.
Posted(c) ==
  /\ tcpip = [on |-> c, to |-> "recv"] /\ Len(conn[c].recv) < DEFAULT_TCP_RECVMBOX_SIZE
  /\ conn' = [conn EXCEPT ![c] = ErrSignals([@ EXCEPT !.recv = Append(@, null)])]
  /\ tcpip' = Run
  /\ UNCHANGED <<user, mbox, got, fails>>

\* accept_function(): a new connection for the listening c.  If the mailbox is
\* full it is freed and the pcb aborted by the caller, with the error callback and
\* the argument that were set before (setup_tcp()).
accept_function(c, n) ==
  /\ Running /\ conn[c].pcb = "listen" /\ ~conn[n].used /\ user[n] = Idle
  /\ IF Len(conn[c].acc) < DEFAULT_ACCEPTMBOX_SIZE
     THEN /\ conn' = [conn EXCEPT ![n] = [netconn_alloc EXCEPT !.pcb = "est", !.room = SndBuf],
                                  ![c].acc = Append(@, n)]
          /\ got' = [got EXCEPT ![n] = 0]
          /\ UNCHANGED tcpip
     ELSE tcpip' = [on |-> n, to |-> "abort"] /\ UNCHANGED <<conn, got>>
  /\ UNCHANGED <<user, mbox, fails>>

\* tcp_abort() in tcp_process(): err_tcp() for the freed connection, which another
\* thread may have allocated in the meantime.
Aborted ==
  /\ tcpip.to = "abort"
  /\ IF conn[tcpip.on].used THEN Err(tcpip.on) ELSE tcpip' = Run /\ UNCHANGED conn
  /\ UNCHANGED <<user, mbox, got, fails>>

Peer(c) == do_connected(c) \/ err_tcp(c)

Next ==
  \/ \E c \in Conns :
       \/ netconn_new(c) \/ (\E op \in OpsOf[c] : netconn_call(c, op))
       \/ tcpip_apimsg(c) \/ Returned(c) \/ netconn_free(c)
       \/ netconn_recv(c) \/ Fetched(c) \/ netconn_accept(c)
       \/ recv_tcp(c, "data") \/ recv_tcp(c, null)
       \/ Refused(c) \/ sent_tcp(c) \/ Peer(c) \/ Posted(c)
       \/ \E n \in Conns \ {c} : accept_function(c, n)
  \/ tcpip_thread \/ Aborted

\* TCP answers or times out a connection attempt; it acknowledges data, polls, or
\* gives up.
GoesOn(c) ==
  /\ conn[c].pcb = "syn" \/ conn[c].state \in {"WRITE", "CLOSE"}
  /\ sent_tcp(c) \/ Peer(c)

\* The threads run, and so does TCP.
Fairness ==
  /\ WF_vars(tcpip_thread) /\ WF_vars(Aborted)
  /\ \A c \in Conns :
       WF_vars(tcpip_apimsg(c)) /\ WF_vars(Returned(c)) /\ WF_vars(GoesOn(c)) /\ WF_vars(Posted(c))

Spec == Init /\ [][Next]_vars /\ Fairness

-----------------------------------------------------------------------------
(* Properties.                                                             *)

\* The semaphore of a connection counts at most one signal, and only while its
\* thread waits for it and no request of it is pending: a stray signal would end
\* the next call early.
SignalsExact ==
  \A c \in Conns :
    /\ conn[c].sem <= 1
    /\ conn[c].sem = 1 =>
         /\ user[c].pc = "wait" /\ conn[c].state \in {"NONE", "LISTEN"}
         /\ \A i \in DOMAIN mbox : mbox[i].c # c

\* A write that returns without error gave all of its data to TCP.
WriteWhole ==
  \A c \in Conns :
    user[c] = [pc |-> "wait", op |-> "write"] /\ conn[c].sem = 1 /\ conn[c].err = "OK" => conn[c].left = 0

InCall(c) == user[c].pc \in {"post", "wait"}

\* netconn_connect() on a connection that tcp_connect() refused.
ConnectRefused(c) ==
  /\ user[c] = [pc |-> "wait", op |-> "connect"]
  /\ conn[c].state = "CONNECT" /\ conn[c].pcb \in {"nosyn", "est"}

\* Every call returns: whoever posted a request is answered, by the handler, a
\* callback or the error of the connection.  Two cases are known in which this is
\* not so: tcp_connect() fails, and the tcpip thread itself does not return, from a
\* post to a receive mailbox nobody reads (err_tcp()) or from a freed pcb
\* (do_listen()).
CallsReturn ==
  \A c \in Conns : InCall(c) ~> (~InCall(c) \/ ConnectRefused(c) \/ ~Running)
=============================================================================
