------------------------------ MODULE Sockets ------------------------------
(***************************************************************************)
(* Sockets (api/sockets.c): the events counted per socket, the threads     *)
(* that wait in lwip_select(), and the event callback that runs in the     *)
(* tcpip thread and in the threads that fetch from a mailbox.  Sections    *)
(* under selectsem or socksem are one step; what happens between them      *)
(* interleaves.  "l" is a listening connection, in socket 0.               *)
(***************************************************************************)
EXTENDS Integers, FiniteSets

CONSTANTS
  NUM_SOCKETS,
  Conns,            \* connections a peer may open
  Threads,          \* application threads
  MaxItems          \* bound on what a mailbox holds

VARIABLES
  sock,             \* sockets: conn, rcvevent, lastdata
  cn,               \* connections: socket number, or below 0 the events so far
  box,              \* items in the mailbox of each connection
  new,              \* connections in the accept mailbox
  cb,               \* event_callback() per context: the tcpip thread and each thread
  th                \* what each thread does

vars == <<sock, cn, box, new, cb, th>>

Socks == 0 .. NUM_SOCKETS - 1

AllConns == Conns \cup {"l"}

None == "none"

NoCb == [c |-> None, plus |-> FALSE, s |-> -1, at |-> "done"]

Ready == [pc |-> "idle", set |-> {}, signalled |-> FALSE, c |-> None, s |-> -1]

Contexts == Threads \cup {"tcpip"}

Init ==
  /\ sock = [s \in Socks |-> [conn |-> IF s = 0 THEN "l" ELSE None, rcvevent |-> 0, lastdata |-> FALSE]]
  /\ cn = [c \in AllConns |-> IF c = "l" THEN 0 ELSE -1]
  /\ box = [c \in AllConns |-> 0]
  /\ new = {}
  /\ cb = [x \in Contexts |-> NoCb]
  /\ th = [t \in Threads |-> Ready]

Event(x, c, plus) == cb' = [cb EXCEPT ![x] = [c |-> c, plus |-> plus, s |-> -1, at |-> "get"]]

-----------------------------------------------------------------------------
(* event_callback().                                                       *)

\* The socket of the connection; without one the event is counted in its place.
GetSocket(x) ==
  LET c == cb[x].c
  IN  /\ cb[x].at = "get"
      /\ IF cn[c] < 0
         THEN /\ cn' = IF cb[x].plus THEN [cn EXCEPT ![c] = @ - 1] ELSE cn
              /\ cb' = [cb EXCEPT ![x] = NoCb]
         ELSE /\ cb' = [cb EXCEPT ![x].s = cn[c], ![x].at = "set"]
              /\ UNCHANGED cn
      /\ UNCHANGED <<sock, box, new, th>>

SetEvent(x) ==
  /\ cb[x].at = "set"
  /\ sock' = [sock EXCEPT ![cb[x].s].rcvevent = IF cb[x].plus THEN @ + 1 ELSE @ - 1]
  /\ cb' = [cb EXCEPT ![x].at = "wake"]
  /\ UNCHANGED <<cn, box, new, th>>

Waiting(s) ==
  {t \in Threads : th[t].pc = "listed" /\ ~th[t].signalled /\ s \in th[t].set /\ sock[s].rcvevent > 0}

\* Mutant: one of the threads that wait is woken.
WakeOne(x) ==
  /\ cb[x].at = "wake"
  /\ IF Waiting(cb[x].s) # {}
     THEN \E t \in Waiting(cb[x].s) : th' = [th EXCEPT ![t].signalled = TRUE]
     ELSE UNCHANGED th
  /\ cb' = [cb EXCEPT ![x] = NoCb]
  /\ UNCHANGED <<sock, cn, box, new>>

\* The threads that wait for the socket are signalled one by one.
Wake(x) ==
  /\ cb[x].at = "wake"
  /\ IF Waiting(cb[x].s) # {}
     THEN (\E t \in Waiting(cb[x].s) : th' = [th EXCEPT ![t].signalled = TRUE]) /\ UNCHANGED cb
     ELSE cb' = [cb EXCEPT ![x] = NoCb] /\ UNCHANGED th
  /\ UNCHANGED <<sock, cn, box, new>>

-----------------------------------------------------------------------------
(* The tcpip thread: connections and data arrive.                          *)

Free(x) == cb[x] = NoCb

\* Connections that are in use: waiting to be accepted, or being or been accepted.
InUse(c) ==
  c \in new \/ (\E s \in Socks : sock[s].conn = c) \/ (\E t \in Threads : th[t].c = c)

Arrive(c) ==
  /\ Free("tcpip") /\ c \in Conns /\ ~InUse(c) /\ box["l"] < MaxItems
  /\ new' = new \cup {c}
  /\ cn' = [cn EXCEPT ![c] = -1]
  /\ box' = [box EXCEPT !["l"] = @ + 1, ![c] = 0]
  /\ Event("tcpip", "l", TRUE)
  /\ UNCHANGED <<sock, th>>

Deliver(c) ==
  /\ Free("tcpip") /\ c \in Conns /\ InUse(c) /\ box[c] < MaxItems
  /\ \A t \in Threads : ~(th[t].pc = "closing" /\ th[t].c = c)
  /\ box' = [box EXCEPT ![c] = @ + 1]
  /\ Event("tcpip", c, TRUE)
  /\ UNCHANGED <<sock, cn, new, th>>

-----------------------------------------------------------------------------
(* Threads.                                                                *)

Idle(t) == th[t].pc = "idle" /\ Free(t)

Closing(s) == \E u \in Threads : th[u].pc = "closing" /\ th[u].s = s

\* lwip_accept(): netconn_accept() fetches the connection...
lwip_accept(t, c) ==
  /\ Idle(t) /\ c \in new
  /\ new' = new \ {c}
  /\ box' = [box EXCEPT !["l"] = @ - 1]
  /\ Event(t, "l", FALSE)
  /\ th' = [th EXCEPT ![t].pc = "accepted", ![t].c = c]
  /\ UNCHANGED <<sock, cn>>

\* ... alloc_socket() gives it a socket, or it is deleted ...
alloc_socket(t) ==
  LET free == {s \in Socks : sock[s].conn = None}
      s    == CHOOSE i \in free : \A j \in free : i <= j
  IN  /\ th[t].pc = "accepted" /\ Free(t)
      /\ IF free = {}
         THEN th' = [th EXCEPT ![t] = Ready] /\ UNCHANGED sock
         ELSE /\ sock' = [sock EXCEPT ![s] = [conn |-> th[t].c, rcvevent |-> 0, lastdata |-> FALSE]]
              /\ th' = [th EXCEPT ![t].pc = "named", ![t].s = s]
      /\ UNCHANGED <<cn, box, new, cb>>

\* ... and the events counted before become those of the socket.
NameSocket(t) ==
  /\ th[t].pc = "named"
  /\ sock' = [sock EXCEPT ![th[t].s].rcvevent = @ - 1 - cn[th[t].c]]
  /\ cn' = [cn EXCEPT ![th[t].c] = th[t].s]
  /\ th' = [th EXCEPT ![t] = Ready]
  /\ UNCHANGED <<box, new, cb>>

\* lwip_recvfrom(): what an earlier call left, or an item of the mailbox, whole or
\* in part.
Usable(s) == sock[s].conn \in Conns /\ cn[sock[s].conn] = s /\ ~Closing(s)

lwip_recvfrom(t, s, part) ==
  /\ Idle(t) /\ Usable(s)
  /\ IF sock[s].lastdata THEN UNCHANGED <<box, cb>>
     ELSE /\ box[sock[s].conn] > 0
          /\ box' = [box EXCEPT ![sock[s].conn] = @ - 1]
          /\ Event(t, sock[s].conn, FALSE)
  /\ sock' = [sock EXCEPT ![s].lastdata = part]
  /\ UNCHANGED <<cn, new, th>>

Scan(set) == {s \in set : sock[s].conn # None /\ (sock[s].lastdata \/ sock[s].rcvevent > 0)}

\* A program knows the sockets it was given.
Given == {s \in Socks : sock[s].conn # None /\ cn[sock[s].conn] = s}

\* lwip_select(): returns what is ready, or puts the thread on the list; scanning
\* and listing are one section.
lwip_select(t, set) ==
  /\ Idle(t) /\ Scan(set) = {}
  /\ th' = [th EXCEPT ![t] = [Ready EXCEPT !.pc = "listed", !.set = set]]
  /\ UNCHANGED <<sock, cn, box, new, cb>>

\* The thread was signalled or its timeout ended: it leaves the list and scans
\* again.
Selected(t) ==
  /\ th[t].pc = "listed"
  /\ th' = [th EXCEPT ![t] = Ready]
  /\ UNCHANGED <<sock, cn, box, new, cb>>

\* lwip_close(): netconn_delete() makes the tcpip thread close the connection,
\* with an event, ...
lwip_close(t, s) ==
  /\ Idle(t) /\ Usable(s) /\ Free("tcpip")
  /\ \A u \in Threads : cb[u].c # sock[s].conn
  /\ th' = [th EXCEPT ![t].pc = "closing", ![t].s = s, ![t].c = sock[s].conn]
  /\ Event("tcpip", sock[s].conn, TRUE)
  /\ UNCHANGED <<sock, cn, box, new>>

\* ... and the socket is freed when it is done.
Freed(t) ==
  /\ th[t].pc = "closing" /\ cb["tcpip"].c # th[t].c
  /\ sock' = [sock EXCEPT ![th[t].s].conn = None, ![th[t].s].lastdata = FALSE]
  /\ th' = [th EXCEPT ![t] = Ready]
  /\ UNCHANGED <<cn, box, new, cb>>

Next ==
  \/ \E x \in Contexts : GetSocket(x) \/ SetEvent(x) \/ Wake(x)
  \/ \E c \in Conns : Arrive(c) \/ Deliver(c)
  \/ \E t \in Threads :
       \/ \E c \in Conns : lwip_accept(t, c)
       \/ alloc_socket(t) \/ NameSocket(t) \/ Selected(t) \/ Freed(t)
       \/ \E s \in Socks : lwip_close(t, s) \/ \E part \in BOOLEAN : lwip_recvfrom(t, s, part)
       \/ \E set \in SUBSET Given : set # {} /\ lwip_select(t, set)

Spec == Init /\ [][Next]_vars

-----------------------------------------------------------------------------
(* Properties.                                                             *)

Quiet(c) ==
  /\ \A x \in Contexts : cb[x].c # c
  /\ \A t \in Threads : th[t].pc \in {"closing", "named"} => th[t].c # c

\* When no callback for it is under way, a socket counts exactly the items in the
\* mailbox of its connection, also of those that came before it was accepted.
EventsExact ==
  \A s \in Socks :
    sock[s].conn # None /\ Quiet(sock[s].conn) => sock[s].rcvevent = box[sock[s].conn]

\* No wakeup is lost: a thread that waits in select for a socket with events was
\* signalled, or a callback that will signal it is under way.
NoLostWakeup ==
  \A t \in Threads :
    th[t].pc = "listed" /\ ~th[t].signalled =>
      \A s \in th[t].set :
        sock[s].conn # None /\ sock[s].rcvevent > 0 => \E x \in Contexts : cb[x].at = "wake" /\ cb[x].s = s
=============================================================================
