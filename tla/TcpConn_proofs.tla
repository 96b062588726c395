--------------------------- MODULE TcpConn_proofs ---------------------------
(***************************************************************************)
(* Proofs about TcpConn, for any number of threads, packets and send       *)
(* buffers: types, the wait queues, wake-ups and the use of freed memory.  *)
(***************************************************************************)
EXTENDS TcpConn, TLAPS

-----------------------------------------------------------------------------
(* Wait queues.                                                            *)

\* Thread t waits on the condition whose queue is s.
On(s, t) == \E i \in DOMAIN s : s[i] = t

\* No thread waits twice.
Once(s) == \A i, j \in DOMAIN s : s[i] = s[j] => i = j

\* Lwt_condition.wait: the thread is on the queue, behind all that were there.
LEMMA WaitOn ==
  ASSUME NEW S, NEW s \in Seq(S), NEW t \in S, Once(s), ~On(s, t)
  PROVE  /\ Append(s, t) \in Seq(S) /\ Once(Append(s, t))
         /\ \A u : On(Append(s, t), u) <=> (u = t \/ On(s, u))
<1> DEFINE r == Append(s, t)
<1>1. /\ r \in Seq(S) /\ Len(s) \in Nat /\ DOMAIN s = 1..Len(s)
      /\ DOMAIN r = 1..(Len(s) + 1) /\ r[Len(s) + 1] = t
      /\ \A i \in 1..Len(s) : r[i] = s[i]
  OBVIOUS
<1> HIDE DEF r
<1>2. Once(r)
  <2> SUFFICES ASSUME NEW i \in DOMAIN r, NEW j \in DOMAIN r, r[i] = r[j]
               PROVE  i = j
    BY DEF Once
  <2>1. CASE i = Len(s) + 1 /\ j # Len(s) + 1
    BY <1>1, <2>1 DEF On
  <2>2. CASE i # Len(s) + 1 /\ j = Len(s) + 1
    BY <1>1, <2>2 DEF On
  <2>3. CASE i # Len(s) + 1 /\ j # Len(s) + 1
    BY <1>1, <2>3 DEF Once
  <2> QED BY <2>1, <2>2, <2>3
<1>3. ASSUME NEW u PROVE On(r, u) <=> (u = t \/ On(s, u))
  <2>1. ASSUME On(r, u), u # t PROVE On(s, u)
    BY <1>1, <2>1 DEF On
  <2>2. ASSUME u = t \/ On(s, u) PROVE On(r, u)
    BY <1>1, <2>2 DEF On
  <2> QED BY <2>1, <2>2
<1> QED BY <1>1, <1>2, <1>3 DEF r

\* Lwt_condition.signal: the first thread, and no other, leaves the queue.
LEMMA SignalOn ==
  ASSUME NEW S, NEW s \in Seq(S), s # <<>>, Once(s)
  PROVE  /\ Head(s) \in S /\ On(s, Head(s))
         /\ Tail(s) \in Seq(S) /\ Once(Tail(s))
         /\ \A u : On(Tail(s), u) <=> (u # Head(s) /\ On(s, u))
<1> DEFINE r == Tail(s)
<1>1. /\ Len(s) \in Nat /\ Len(s) > 0 /\ DOMAIN s = 1..Len(s)
      /\ Head(s) = s[1] /\ Head(s) \in S /\ r \in Seq(S)
      /\ Len(r) = Len(s) - 1 /\ DOMAIN r = 1..(Len(s) - 1)
      /\ \A i \in 1..(Len(s) - 1) : r[i] = s[i + 1]
  OBVIOUS
<1> HIDE DEF r
<1>2. Once(r)
  <2> SUFFICES ASSUME NEW i \in DOMAIN r, NEW j \in DOMAIN r, r[i] = r[j]
               PROVE  i = j
    BY DEF Once
  <2>1. i + 1 \in DOMAIN s /\ j + 1 \in DOMAIN s /\ s[i + 1] = s[j + 1]
    BY <1>1
  <2> QED BY <1>1, <2>1 DEF Once
<1>3. ASSUME NEW u PROVE On(r, u) <=> (u # Head(s) /\ On(s, u))
  <2>1. ASSUME On(r, u) PROVE u # Head(s) /\ On(s, u)
    <3>1. PICK i \in 1..(Len(s) - 1) : r[i] = u
      BY <1>1, <2>1 DEF On
    <3>2. s[i + 1] = u /\ i + 1 \in DOMAIN s /\ 1 \in DOMAIN s /\ i + 1 # 1
      BY <1>1, <3>1
    <3> QED BY <1>1, <3>2 DEF On, Once
  <2>2. ASSUME u # Head(s), On(s, u) PROVE On(r, u)
    <3>1. PICK i \in DOMAIN s : s[i] = u
      BY <2>2 DEF On
    <3>2. i - 1 \in 1..(Len(s) - 1) /\ r[i - 1] = s[(i - 1) + 1] /\ (i - 1) + 1 = i
      BY <1>1, <2>2, <3>1
    <3> QED BY <1>1, <3>1, <3>2 DEF On
  <2> QED BY <2>1, <2>2
<1> QED BY <1>1, <1>2, <1>3 DEF r, On

\* Only a queue that nobody is on is empty.
LEMMA NobodyOn ==
  ASSUME NEW S, NEW s \in Seq(S)
  PROVE  s = <<>> <=> \A t : ~On(s, t)
<1>1. ASSUME s # <<>> PROVE On(s, s[1])
  BY <1>1 DEF On
<1> QED BY <1>1 DEF On

-----------------------------------------------------------------------------
(* Types.                                                                  *)

Pcs == {"idle", "read", "rxwait", "write", "txwait", "close", "raised", "done"}

\* Where a thread goes keeps the type of them all.
LEMMA MovedType ==
  ASSUME NEW T \in [Threads -> Thread], NEW t \in Threads, NEW c \in Pcs
  PROVE  /\ [T EXCEPT ![t].pc = c] \in [Threads -> Thread]
         /\ \A u \in Threads : [T EXCEPT ![t].pc = c][u]
                                 = IF u = t THEN [pc |-> c, n |-> T[t].n] ELSE T[u]
<1>1. T[t] \in Thread
  OBVIOUS
<1>2. [T[t] EXCEPT !.pc = c] = [pc |-> c, n |-> T[t].n]
  BY <1>1 DEF Thread
<1>3. [pc |-> c, n |-> T[t].n] \in Thread
  BY <1>1 DEF Thread, Pcs
<1> QED BY <1>2, <1>3

LEMMA SetType ==
  ASSUME NEW T \in [Threads -> Thread], NEW t \in Threads, NEW c \in Pcs,
         NEW n \in Nat
  PROVE  /\ [T EXCEPT ![t] = [pc |-> c, n |-> n]] \in [Threads -> Thread]
         /\ \A u \in Threads : [T EXCEPT ![t] = [pc |-> c, n |-> n]][u]
                                 = IF u = t THEN [pc |-> c, n |-> n] ELSE T[u]
BY DEF Thread, Pcs

\* A thread moves to c with n send buffers or attempts left.
Moves(t, c, n) ==
  /\ thr' \in [Threads -> Thread]
  /\ \A u \in Threads : thr'[u] = IF u = t THEN [pc |-> c, n |-> n] ELSE thr[u]

\* What the types rest on: a thread that writes has something left to write;
\* the packets still to come fit on the receive list with those that are there;
\* the SYN is on the queue until the accept callback returns.
Counts ==
  /\ \A t \in Threads : thr[t].pc \in {"write", "txwait"} => thr[t].n > 0
  /\ tw.rx + coming <= MaxData
  /\ accepting => queue # <<>>

\* A thread is on a condition, once, exactly when it waits for it.
Waiting ==
  /\ Once(rx_cond) /\ Once(tx_cond)
  /\ \A t \in Threads : /\ (thr[t].pc = "rxwait") <=> On(rx_cond, t)
                        /\ (thr[t].pc = "txwait") <=> On(tx_cond, t)

\* The inductive invariant.
ConnInv == TypeOK /\ Counts /\ Waiting

LEMMA RxNotify ==
  ASSUME ConnInv, rx_notify
  PROVE  \/ rx_cond = <<>> /\ UNCHANGED <<thr, rx_cond>>
         \/ \E t \in Threads :
              /\ thr[t].pc = "rxwait" /\ Moves(t, "read", thr[t].n)
              /\ rx_cond' \in Seq(Threads) /\ Once(rx_cond')
              /\ \A u : On(rx_cond', u) <=> (u # t /\ On(rx_cond, u))
<1>1. CASE rx_cond = <<>>
  BY <1>1 DEF rx_notify
<1>2. CASE rx_cond # <<>>
  <2> DEFINE t == Head(rx_cond)
  <2>1. /\ rx_cond \in Seq(Threads) /\ Once(rx_cond)
        /\ thr \in [Threads -> Thread]
    BY DEF ConnInv, TypeOK, Waiting
  <2>2. /\ t \in Threads /\ On(rx_cond, t)
        /\ Tail(rx_cond) \in Seq(Threads) /\ Once(Tail(rx_cond))
        /\ \A u : On(Tail(rx_cond), u) <=> (u # t /\ On(rx_cond, u))
    BY <1>2, <2>1, SignalOn
  <2>3. thr' = [thr EXCEPT ![t].pc = "read"] /\ rx_cond' = Tail(rx_cond)
    BY <1>2 DEF rx_notify
  <2> HIDE DEF t
  <2>4. Moves(t, "read", thr[t].n)
    BY <2>1, <2>2, <2>3, MovedType, ZenonT(40) DEF Moves, Pcs
  <2>5. thr[t].pc = "rxwait"
    BY <2>2 DEF ConnInv, Waiting
  <2> QED BY <2>2, <2>3, <2>4, <2>5
<1> QED BY <1>1, <1>2

\* So a signal leaves the queues exact.
LEMMA RxNotifyInv ==
  ASSUME ConnInv, rx_notify, UNCHANGED tx_cond
  PROVE  /\ thr' \in [Threads -> Thread] /\ rx_cond' \in Seq(Threads) /\ Waiting'
         /\ \A u \in Threads : thr'[u].pc \in {"write", "txwait"} => thr'[u].n > 0
<1>1. CASE UNCHANGED <<thr, rx_cond>>
  BY <1>1 DEF ConnInv, TypeOK, Counts, Waiting
<1>2. CASE ~UNCHANGED <<thr, rx_cond>>
  <2>1. PICK t \in Threads :
          /\ thr[t].pc = "rxwait" /\ Moves(t, "read", thr[t].n)
          /\ rx_cond' \in Seq(Threads) /\ Once(rx_cond')
          /\ \A u : On(rx_cond', u) <=> (u # t /\ On(rx_cond, u))
    BY <1>2, RxNotify
  <2>2. Waiting'
    BY <2>1 DEF ConnInv, Waiting, Moves
  <2>3. \A u \in Threads : thr'[u].pc \in {"write", "txwait"} => thr'[u].n > 0
    BY <2>1 DEF ConnInv, Counts, Moves
  <2> QED BY <2>1, <2>2, <2>3 DEF Moves
<1> QED BY <1>1, <1>2

LEMMA TxNotify ==
  ASSUME ConnInv, tx_notify
  PROVE  \/ tx_cond = <<>> /\ UNCHANGED <<thr, tx_cond>>
         \/ \E t \in Threads :
              /\ thr[t].pc = "txwait" /\ Moves(t, "write", thr[t].n)
              /\ tx_cond' \in Seq(Threads) /\ Once(tx_cond')
              /\ \A u : On(tx_cond', u) <=> (u # t /\ On(tx_cond, u))
<1>1. CASE tx_cond = <<>>
  BY <1>1 DEF tx_notify
<1>2. CASE tx_cond # <<>>
  <2> DEFINE t == Head(tx_cond)
  <2>1. /\ tx_cond \in Seq(Threads) /\ Once(tx_cond)
        /\ thr \in [Threads -> Thread]
    BY DEF ConnInv, TypeOK, Waiting
  <2>2. /\ t \in Threads /\ On(tx_cond, t)
        /\ Tail(tx_cond) \in Seq(Threads) /\ Once(Tail(tx_cond))
        /\ \A u : On(Tail(tx_cond), u) <=> (u # t /\ On(tx_cond, u))
    BY <1>2, <2>1, SignalOn
  <2>3. thr' = [thr EXCEPT ![t].pc = "write"] /\ tx_cond' = Tail(tx_cond)
    BY <1>2 DEF tx_notify
  <2> HIDE DEF t
  <2>4. Moves(t, "write", thr[t].n)
    BY <2>1, <2>2, <2>3, MovedType DEF Moves, Pcs
  <2>5. thr[t].pc = "txwait"
    BY <2>2 DEF ConnInv, Waiting
  <2> QED BY <2>2, <2>3, <2>4, <2>5
<1> QED BY <1>1, <1>2

\* So a signal leaves the queues exact.
LEMMA TxNotifyInv ==
  ASSUME ConnInv, tx_notify, UNCHANGED rx_cond
  PROVE  /\ thr' \in [Threads -> Thread] /\ tx_cond' \in Seq(Threads) /\ Waiting'
         /\ \A u \in Threads : thr'[u].pc \in {"write", "txwait"} => thr'[u].n > 0
<1>1. CASE UNCHANGED <<thr, tx_cond>>
  BY <1>1 DEF ConnInv, TypeOK, Counts, Waiting
<1>2. CASE ~UNCHANGED <<thr, tx_cond>>
  <2>1. PICK t \in Threads :
          /\ thr[t].pc = "txwait" /\ Moves(t, "write", thr[t].n)
          /\ tx_cond' \in Seq(Threads) /\ Once(tx_cond')
          /\ \A u : On(tx_cond', u) <=> (u # t /\ On(tx_cond, u))
    BY <1>2, TxNotify
  <2>2. Waiting'
    BY <2>1 DEF ConnInv, Waiting, Moves
  <2>3. \A u \in Threads : thr'[u].pc \in {"write", "txwait"} => thr'[u].n > 0
    BY <2>1 DEF ConnInv, Counts, Moves
  <2> QED BY <2>1, <2>2, <2>3 DEF Moves
<1> QED BY <1>1, <1>2

\* A thread that moves between places where it does not wait leaves the queues
\* as they are.
LEMMA MovesWaiting ==
  ASSUME ConnInv, NEW t \in Threads, NEW c \in Pcs, NEW n \in Nat,
         thr[t].pc \notin {"rxwait", "txwait"}, c \notin {"rxwait", "txwait", "write"},
         Moves(t, c, n), UNCHANGED <<rx_cond, tx_cond>>
  PROVE  /\ Waiting'
         /\ \A u \in Threads : thr'[u].pc \in {"write", "txwait"} => thr'[u].n > 0
BY DEF ConnInv, Waiting, Moves, Counts

-----------------------------------------------------------------------------
(* One lemma for each kind of step.                                        *)

LEMMA LwipInv == ConnInv /\ Lwip => ConnInv'
<1> SUFFICES ASSUME ConnInv, Lwip PROVE ConnInv'
  OBVIOUS
<1>0. MaxData \in Nat /\ QueueLen \in Nat
  BY BoundsAreNat
<1>1. CASE AcceptReturns
  <2>1. queue # <<>> /\ queue \in Seq({"syn", "data", "fin"}) /\ Len(queue) <= QueueLen
    BY <1>1 DEF ConnInv, TypeOK, Counts, AcceptReturns
  <2>2. Tail(queue) \in Seq({"syn", "data", "fin"}) /\ Len(Tail(queue)) <= QueueLen
    BY <1>0, <2>1
  <2> QED BY <1>1, <2>2 DEF ConnInv, TypeOK, Counts, Waiting, AcceptReturns
<1>2. CASE RecvData
  <2>1. CASE ~tw.live
    BY <1>0, <1>2, <2>1 DEF ConnInv, TypeOK, Counts, Waiting, RecvData, tcp_recv_cb, Tw
  <2>2. CASE tw.live
    <3>1. /\ tw' \in Tw /\ coming' \in 0..MaxData /\ tw'.rx + coming' <= MaxData
      <4> DEFINE n == IF tw.rx > 0 /\ tw.state = "TCP_CLOSING" THEN tw.rx ELSE tw.rx + 1
      <4>1. /\ tw \in Tw /\ coming \in 0..MaxData /\ tw.rx + coming <= MaxData
            /\ coming > 0 /\ coming' = coming - 1
            /\ tw' = [tw EXCEPT !.rx = n]
        BY <1>2, <2>2 DEF ConnInv, TypeOK, Counts, RecvData, tcp_recv_cb
      <4>2. n \in 0..MaxData /\ n + coming' <= MaxData /\ coming' \in 0..MaxData
        BY <1>0, <4>1 DEF Tw
      <4> HIDE DEF n
      <4> QED BY <4>1, <4>2 DEF Tw
    <3>2. /\ rx_notify \/ UNCHANGED <<thr, rx_cond>>
          /\ UNCHANGED <<pcb, queue, accepting, started, tx_cond, misuse>>
      BY <1>2, <2>2 DEF RecvData, tcp_recv_cb
    <3>3. /\ thr' \in [Threads -> Thread] /\ rx_cond' \in Seq(Threads) /\ Waiting'
          /\ \A u \in Threads : thr'[u].pc \in {"write", "txwait"} => thr'[u].n > 0
      BY <3>2, RxNotifyInv DEF ConnInv, TypeOK, Counts, Waiting
    <3> QED BY <3>1, <3>2, <3>3 DEF ConnInv, TypeOK, Counts
  <2> QED BY <2>1, <2>2
<1>3. CASE RecvFin
  <2>1. pcb' \in {"ESTABLISHED", "CLOSE_WAIT", "FIN_WAIT", "CLOSING", "LAST_ACK", "FREE"}
    BY <1>3 DEF RecvFin
  <2>2. CASE ~tw.live
    BY <1>0, <1>3, <2>1, <2>2
       DEF ConnInv, TypeOK, Counts, Waiting, RecvFin, tcp_recv_cb_eof, Tw
  <2>3. CASE tw.live
    <3>1. tw' \in Tw /\ tw'.rx = tw.rx
      BY <1>0, <1>3, <2>3 DEF ConnInv, TypeOK, RecvFin, tcp_recv_cb_eof, Tw
    <3>2. /\ rx_notify
          /\ UNCHANGED <<queue, accepting, started, coming, tx_cond, misuse>>
      BY <1>3, <2>3 DEF RecvFin, tcp_recv_cb_eof
    <3>3. /\ thr' \in [Threads -> Thread] /\ rx_cond' \in Seq(Threads) /\ Waiting'
          /\ \A u \in Threads : thr'[u].pc \in {"write", "txwait"} => thr'[u].n > 0
      BY <3>2, RxNotifyInv DEF ConnInv, TypeOK, Counts, Waiting
    <3> QED BY <2>1, <3>1, <3>2, <3>3 DEF ConnInv, TypeOK, Counts
  <2> QED BY <2>2, <2>3
<1>4. CASE RecvAck
  <2>1. /\ ~accepting /\ queue # <<>> /\ queue' = Tail(queue)
        /\ UNCHANGED <<accepting, started, coming, tw, rx_cond>>
    BY <1>4 DEF RecvAck
  <2>2. Tail(queue) \in Seq({"syn", "data", "fin"}) /\ Len(Tail(queue)) <= QueueLen
    BY <1>0, <2>1 DEF ConnInv, TypeOK
  <2>3. pcb' \in {"ESTABLISHED", "CLOSE_WAIT", "FIN_WAIT", "CLOSING", "LAST_ACK", "FREE"}
    BY <1>4 DEF RecvAck, ConnInv, TypeOK
  <2>4. \/ UNCHANGED <<thr, tx_cond, misuse>>
        \/ misuse' = misuse \cup {"tw"} /\ UNCHANGED <<thr, tx_cond>>
        \/ tx_notify /\ UNCHANGED misuse
    BY <1>4 DEF RecvAck, tcp_sent_cb
  <2>5. misuse' \subseteq {"tw", "pcb"}
    BY <2>4 DEF ConnInv, TypeOK
  <2>6. /\ thr' \in [Threads -> Thread] /\ tx_cond' \in Seq(Threads) /\ Waiting'
        /\ \A u \in Threads : thr'[u].pc \in {"write", "txwait"} => thr'[u].n > 0
    BY <2>1, <2>4, TxNotifyInv DEF ConnInv, TypeOK, Counts, Waiting
  <2> QED BY <2>1, <2>2, <2>3, <2>5, <2>6 DEF ConnInv, TypeOK, Counts
<1>5. CASE Lose
  BY <1>0, <1>5 DEF ConnInv, TypeOK, Counts, Waiting, Lose
<1> QED BY <1>1, <1>2, <1>3, <1>4, <1>5 DEF Lwip

\* Raise(t), and every other move of a thread that keeps its count.
LEMMA PcMoves ==
  ASSUME ConnInv, NEW t \in Threads, NEW c \in Pcs, thr' = [thr EXCEPT ![t].pc = c]
  PROVE  Moves(t, c, thr[t].n) /\ thr[t].n \in Nat
BY MovedType DEF ConnInv, TypeOK, Moves, Thread

LEMMA SetMoves ==
  ASSUME ConnInv, NEW t \in Threads, NEW c \in Pcs, NEW n \in Nat,
         thr' = [thr EXCEPT ![t] = [pc |-> c, n |-> n]]
  PROVE  Moves(t, c, n)
BY SetType DEF ConnInv, TypeOK, Moves

LEMMA FollowType ==
  ASSUME ConnInv, Follow
  PROVE  misuse' \subseteq {"tw", "pcb"}
BY DEF ConnInv, TypeOK, Follow

LEMMA ReadInv ==
  ASSUME ConnInv, NEW t \in Threads, read(t)
  PROVE  ConnInv'
<1>0. MaxData \in Nat
  BY BoundsAreNat
<1>1. /\ thr[t].pc \in {"idle", "read"}
      /\ UNCHANGED <<pcb, queue, accepting, started, coming, tx_cond>>
  BY DEF read
<1>2. CASE Raise(t) /\ UNCHANGED <<tw, rx_cond, misuse>>
  <2>1. Moves(t, "raised", thr[t].n) /\ thr[t].n \in Nat
    BY <1>2, PcMoves DEF Raise, Pcs
  <2>2. Waiting' /\ \A u \in Threads : thr'[u].pc \in {"write", "txwait"} => thr'[u].n > 0
    BY <1>1, <1>2, <2>1, MovesWaiting DEF Pcs
  <2> QED BY <1>1, <1>2, <2>1, <2>2 DEF ConnInv, TypeOK, Counts, Moves
<1>3. CASE caml_tcp_read(t) /\ UNCHANGED rx_cond
  <2>1. Moves(t, "idle", thr[t].n) /\ thr[t].n \in Nat
    BY <1>3, PcMoves DEF caml_tcp_read, Pcs
  <2>2. Waiting' /\ \A u \in Threads : thr'[u].pc \in {"write", "txwait"} => thr'[u].n > 0
    BY <1>1, <1>3, <2>1, MovesWaiting DEF Pcs
  <2>3. tw' \in Tw /\ tw'.rx + coming <= MaxData
    BY <1>0, <1>3 DEF caml_tcp_read, ConnInv, TypeOK, Tw
  <2>4. misuse' \subseteq {"tw", "pcb"}
    BY <1>3, FollowType DEF caml_tcp_read
  <2> QED BY <1>1, <1>3, <2>1, <2>2, <2>3, <2>4 DEF ConnInv, TypeOK, Counts, Moves
<1>4. CASE /\ thr' = [thr EXCEPT ![t].pc = "rxwait"]
           /\ rx_cond' = Append(rx_cond, t)
           /\ UNCHANGED <<tw, misuse>>
  <2>1. Moves(t, "rxwait", thr[t].n)
    BY <1>4, PcMoves DEF Pcs
  <2>2. ~On(rx_cond, t) /\ Once(rx_cond) /\ rx_cond \in Seq(Threads)
    BY <1>1 DEF ConnInv, TypeOK, Waiting
  <2>3. /\ rx_cond' \in Seq(Threads) /\ Once(rx_cond')
        /\ \A u : On(rx_cond', u) <=> (u = t \/ On(rx_cond, u))
    BY <1>4, <2>2, WaitOn
  <2>4. Waiting'
    BY <1>1, <2>1, <2>3 DEF ConnInv, Waiting, Moves
  <2>5. \A u \in Threads : thr'[u].pc \in {"write", "txwait"} => thr'[u].n > 0
    BY <2>1 DEF ConnInv, Counts, Moves
  <2> QED BY <1>1, <1>4, <2>1, <2>3, <2>4, <2>5 DEF ConnInv, TypeOK, Counts, Moves
<1> QED BY <1>2, <1>3, <1>4 DEF read

\* A thread that must wait for an acknowledgement, with n buffers left.
LEMMA TxWaitInv ==
  ASSUME ConnInv, NEW t \in Threads, NEW n \in Nat \ {0},
         thr[t].pc \in {"idle", "write"},
         thr' = [thr EXCEPT ![t] = [pc |-> "txwait", n |-> n]],
         tx_cond' = Append(tx_cond, t), UNCHANGED rx_cond
  PROVE  /\ thr' \in [Threads -> Thread] /\ tx_cond' \in Seq(Threads) /\ Waiting'
         /\ \A u \in Threads : thr'[u].pc \in {"write", "txwait"} => thr'[u].n > 0
<1>1. Moves(t, "txwait", n)
  BY SetMoves DEF Pcs
<1>2. ~On(tx_cond, t) /\ Once(tx_cond) /\ tx_cond \in Seq(Threads)
  BY DEF ConnInv, TypeOK, Waiting
<1>3. /\ tx_cond' \in Seq(Threads) /\ Once(tx_cond')
      /\ \A u : On(tx_cond', u) <=> (u = t \/ On(tx_cond, u))
  BY <1>2, WaitOn
<1>4. Waiting'
  BY <1>1, <1>3 DEF ConnInv, Waiting, Moves
<1>5. \A u \in Threads : thr'[u].pc \in {"write", "txwait"} => thr'[u].n > 0
  BY <1>1 DEF ConnInv, Counts, Moves
<1> QED BY <1>1, <1>3, <1>4, <1>5 DEF Moves

\* What is enqueued finds its place.
LEMMA EnqueuesType ==
  ASSUME ConnInv, Enqueues, NEW x \in {"data", "fin"},
         queue' = IF pcb = "FREE" THEN queue ELSE Append(queue, x)
  PROVE  /\ queue' \in Seq({"syn", "data", "fin"}) /\ Len(queue') <= QueueLen
         /\ accepting => queue' # <<>>
<1>1. queue \in Seq({"syn", "data", "fin"}) /\ Len(queue) < QueueLen /\ QueueLen \in Nat
  BY BoundsAreNat DEF ConnInv, TypeOK, Enqueues
<1>2. CASE pcb = "FREE"
  BY <1>1, <1>2 DEF ConnInv, Counts
<1>3. CASE pcb # "FREE"
  BY <1>1, <1>3
<1> QED BY <1>2, <1>3

LEMMA InternalWriteInv ==
  ASSUME ConnInv, NEW t \in Threads, NEW n \in Nat \ {0},
         thr[t].pc \in {"idle", "write"}, internal_write(t, n),
         UNCHANGED <<pcb, accepting, started, coming, tw, rx_cond>>
  PROVE  ConnInv'
<1>1. CASE Raise(t) /\ UNCHANGED <<queue, tx_cond, misuse>>
  <2>1. Moves(t, "raised", thr[t].n) /\ thr[t].n \in Nat
    BY <1>1, PcMoves DEF Raise, Pcs
  <2>2. Waiting' /\ \A u \in Threads : thr'[u].pc \in {"write", "txwait"} => thr'[u].n > 0
    BY <1>1, <2>1, MovesWaiting DEF Pcs
  <2> QED BY <1>1, <2>1, <2>2 DEF ConnInv, TypeOK, Counts, Moves
<1>2. CASE /\ Follow /\ Enqueues
           /\ queue' = IF pcb = "FREE" THEN queue ELSE Append(queue, "data")
           /\ thr' = [thr EXCEPT ![t] = [pc |-> IF n = 1 THEN "idle" ELSE "txwait",
                                         n |-> n - 1]]
           /\ tx_cond' = IF n = 1 THEN tx_cond ELSE Append(tx_cond, t)
  <2>1. /\ queue' \in Seq({"syn", "data", "fin"}) /\ Len(queue') <= QueueLen
        /\ accepting => queue' # <<>>
    BY <1>2, EnqueuesType
  <2>2. misuse' \subseteq {"tw", "pcb"}
    BY <1>2, FollowType
  <2>3. /\ thr' \in [Threads -> Thread] /\ tx_cond' \in Seq(Threads) /\ Waiting'
        /\ \A u \in Threads : thr'[u].pc \in {"write", "txwait"} => thr'[u].n > 0
    <3>1. CASE n = 1
      <4>1. thr' = [thr EXCEPT ![t] = [pc |-> "idle", n |-> 0]] /\ UNCHANGED tx_cond
        BY <1>2, <3>1
      <4>2. Moves(t, "idle", 0)
        BY <4>1, SetMoves DEF Pcs
      <4> QED BY <4>1, <4>2, MovesWaiting DEF Pcs, Moves, ConnInv, TypeOK
    <3>2. CASE n # 1
      <4>1. n - 1 \in Nat \ {0}
        BY <3>2
      <4>2. /\ thr' = [thr EXCEPT ![t] = [pc |-> "txwait", n |-> n - 1]]
            /\ tx_cond' = Append(tx_cond, t)
        BY <1>2, <3>2
      <4> QED BY <4>1, <4>2, TxWaitInv
    <3> QED BY <3>1, <3>2
  <2> QED BY <2>1, <2>2, <2>3 DEF ConnInv, TypeOK, Counts
<1>3. CASE /\ Follow
           /\ thr' = [thr EXCEPT ![t] = [pc |-> "txwait", n |-> n]]
           /\ tx_cond' = Append(tx_cond, t)
           /\ UNCHANGED queue
  <2>1. misuse' \subseteq {"tw", "pcb"}
    BY <1>3, FollowType
  <2>2. /\ thr' \in [Threads -> Thread] /\ tx_cond' \in Seq(Threads) /\ Waiting'
        /\ \A u \in Threads : thr'[u].pc \in {"write", "txwait"} => thr'[u].n > 0
    BY <1>3, TxWaitInv
  <2> QED BY <1>3, <2>1, <2>2 DEF ConnInv, TypeOK, Counts
<1> QED BY <1>1, <1>2, <1>3 DEF internal_write

LEMMA WriteInv ==
  ASSUME ConnInv, NEW t \in Threads, write(t)
  PROVE  ConnInv'
<1>1. UNCHANGED <<pcb, accepting, started, coming, tw, rx_cond>>
  BY DEF write
<1>2. CASE thr[t].pc = "idle" /\ \E n \in 1..MaxWrite : internal_write(t, n)
  <2>1. PICK n \in 1..MaxWrite : internal_write(t, n)
    BY <1>2
  <2>2. n \in Nat \ {0}
    BY BoundsAreNat
  <2> QED BY <1>1, <1>2, <2>1, <2>2, InternalWriteInv
<1>3. CASE thr[t].pc = "write" /\ internal_write(t, thr[t].n)
  <2>1. thr[t].n \in Nat \ {0}
    BY <1>3 DEF ConnInv, TypeOK, Counts, Thread
  <2> QED BY <1>1, <1>3, <2>1, InternalWriteInv
<1> QED BY <1>2, <1>3 DEF write

LEMMA CloseStepInv ==
  ASSUME ConnInv, NEW t \in Threads, NEW n \in Nat,
         thr[t].pc \in {"idle", "close"}, n = 0 => ~accepting, CloseStep(t, n),
         UNCHANGED <<accepting, started, coming, rx_cond, tx_cond>>
  PROVE  ConnInv'
<1> DEFINE Pcb == {"ESTABLISHED", "CLOSE_WAIT", "FIN_WAIT", "CLOSING", "LAST_ACK", "FREE"}
<1>0. MaxData \in Nat /\ QueueLen \in Nat \ {0}
  BY BoundsAreNat
<1>1. CASE Raise(t) /\ UNCHANGED <<pcb, queue, tw, misuse>>
  <2>1. Moves(t, "raised", thr[t].n) /\ thr[t].n \in Nat
    BY <1>1, PcMoves DEF Raise, Pcs
  <2>2. Waiting' /\ \A u \in Threads : thr'[u].pc \in {"write", "txwait"} => thr'[u].n > 0
    BY <1>1, <2>1, MovesWaiting DEF Pcs
  <2> QED BY <1>1, <2>1, <2>2 DEF ConnInv, TypeOK, Counts, Moves
<1>2. CASE n > 0 /\ caml_tcp_close(t) /\ Follow
  <2>1. Moves(t, "idle", thr[t].n) /\ thr[t].n \in Nat
    BY <1>2, PcMoves DEF caml_tcp_close, Pcs
  <2>2. Waiting' /\ \A u \in Threads : thr'[u].pc \in {"write", "txwait"} => thr'[u].n > 0
    BY <2>1, MovesWaiting DEF Pcs
  <2>3. tw' \in Tw /\ tw'.rx + coming <= MaxData
    BY <1>0, <1>2 DEF caml_tcp_close, ConnInv, TypeOK, Counts, Tw
  <2>4. pcb' \in Pcb
    BY <1>2 DEF caml_tcp_close, CloseEnqueues, ConnInv, TypeOK
  <2>5. /\ queue' \in Seq({"syn", "data", "fin"}) /\ Len(queue') <= QueueLen
        /\ accepting => queue' # <<>>
    BY <1>2, EnqueuesType DEF caml_tcp_close, CloseEnqueues
  <2>6. misuse' \subseteq {"tw", "pcb"}
    BY <1>2, FollowType
  <2> QED BY <2>1, <2>2, <2>3, <2>4, <2>5, <2>6 DEF ConnInv, TypeOK, Counts, Moves
<1>3. CASE /\ n > 0 /\ Follow
           /\ thr' = [thr EXCEPT ![t] = [pc |-> "close", n |-> n - 1]]
           /\ UNCHANGED <<pcb, queue, tw>>
  <2>1. n - 1 \in Nat
    BY <1>3
  <2>2. Moves(t, "close", n - 1)
    BY <1>3, <2>1, SetMoves DEF Pcs
  <2>3. Waiting' /\ \A u \in Threads : thr'[u].pc \in {"write", "txwait"} => thr'[u].n > 0
    BY <2>1, <2>2, MovesWaiting DEF Pcs
  <2>4. misuse' \subseteq {"tw", "pcb"}
    BY <1>3, FollowType
  <2> QED BY <1>3, <2>2, <2>3, <2>4 DEF ConnInv, TypeOK, Counts, Moves
<1>4. CASE n = 0 /\ caml_tcp_abort(t) /\ Follow
  <2>1. Moves(t, "idle", thr[t].n) /\ thr[t].n \in Nat
    BY <1>4, PcMoves DEF caml_tcp_abort, Pcs
  <2>2. Waiting' /\ \A u \in Threads : thr'[u].pc \in {"write", "txwait"} => thr'[u].n > 0
    BY <2>1, MovesWaiting DEF Pcs
  <2>3. tw' \in Tw /\ tw'.rx + coming <= MaxData
    BY <1>0, <1>4 DEF caml_tcp_abort, ConnInv, TypeOK, Counts, Tw
  <2>4. /\ pcb' \in Pcb /\ queue' \in Seq({"syn", "data", "fin"}) /\ Len(queue') <= QueueLen
        /\ ~accepting
    BY <1>0, <1>4 DEF caml_tcp_abort, AbortFrees
  <2>5. misuse' \subseteq {"tw", "pcb"}
    BY <1>4, FollowType
  <2> QED BY <2>1, <2>2, <2>3, <2>4, <2>5 DEF ConnInv, TypeOK, Counts, Moves
<1> QED BY <1>1, <1>2, <1>3, <1>4 DEF CloseStep

LEMMA CloseInv ==
  ASSUME ConnInv, NEW t \in Threads, close(t)
  PROVE  ConnInv'
<1>1. UNCHANGED <<accepting, started, coming, rx_cond, tx_cond>>
  BY DEF close
<1>2. CASE thr[t].pc = "idle" /\ CloseStep(t, CloseRetries)
  BY <1>1, <1>2, CloseStepInv DEF CloseRetries
<1>3. CASE thr[t].pc = "close" /\ ~accepting /\ CloseStep(t, thr[t].n)
  <2>1. thr[t].n \in Nat
    BY DEF ConnInv, TypeOK, Thread
  <2> QED BY <1>1, <1>3, <2>1, CloseStepInv
<1> QED BY <1>2, <1>3 DEF close

LEMMA ExitInv ==
  ASSUME ConnInv, NEW t \in Threads, exit(t)
  PROVE  ConnInv'
<1>1. /\ thr[t].pc \in {"idle", "raised"} /\ thr' = [thr EXCEPT ![t].pc = "done"]
      /\ UNCHANGED <<pcb, queue, accepting, started, coming, tw, rx_cond, tx_cond, misuse>>
  BY DEF exit
<1>2. Moves(t, "done", thr[t].n) /\ thr[t].n \in Nat
  BY <1>1, PcMoves DEF Pcs
<1>3. Waiting' /\ \A u \in Threads : thr'[u].pc \in {"write", "txwait"} => thr'[u].n > 0
  BY <1>1, <1>2, MovesWaiting DEF Pcs
<1> QED BY <1>1, <1>2, <1>3 DEF ConnInv, TypeOK, Counts, Moves

LEMMA ListenInv == ConnInv /\ listen_forever => ConnInv'
<1> SUFFICES ASSUME ConnInv, listen_forever PROVE ConnInv'
  OBVIOUS
<1>1. tw' \in Tw /\ tw'.rx = tw.rx
  BY DEF ConnInv, TypeOK, Tw, listen_forever
<1> QED BY <1>1 DEF ConnInv, TypeOK, Counts, Waiting, listen_forever

LEMMA FinalizeInv == ConnInv /\ tcp_wrap_finalize => ConnInv'
<1> SUFFICES ASSUME ConnInv, tcp_wrap_finalize PROVE ConnInv'
  OBVIOUS
<1>0. MaxData \in Nat /\ QueueLen \in Nat \ {0}
  BY BoundsAreNat
<1>1. ~accepting /\ UNCHANGED <<accepting, started, coming, thr, rx_cond, tx_cond>>
  BY DEF tcp_wrap_finalize
<1>2. tw' \in Tw /\ tw'.rx + coming <= MaxData
  <2>1. /\ tw \in Tw /\ coming \in 0..MaxData
        /\ tw' = [tw EXCEPT !.live = FALSE, !.pcb = FALSE, !.rx = 0]
    BY DEF tcp_wrap_finalize, ConnInv, TypeOK
  <2>2. tw' = [live |-> FALSE, pcb |-> FALSE, rx |-> 0, state |-> tw.state]
    BY <2>1 DEF Tw
  <2>3. tw.state \in {"TCP_ACCEPTED", "TCP_CLOSING"} /\ 0 \in 0..MaxData
    BY <1>0, <2>1 DEF Tw
  <2>4. tw' \in Tw
    BY <2>2, <2>3 DEF Tw
  <2> QED BY <1>0, <2>1, <2>2, <2>4
<1>3. /\ pcb' \in {"ESTABLISHED", "CLOSE_WAIT", "FIN_WAIT", "CLOSING", "LAST_ACK", "FREE"}
      /\ queue' \in Seq({"syn", "data", "fin"}) /\ Len(queue') <= QueueLen
      /\ misuse' \subseteq {"tw", "pcb"}
  <2>1. CASE UNCHANGED <<pcb, queue, misuse>>
    BY <2>1 DEF ConnInv, TypeOK
  <2>2. CASE Follow /\ CloseEnqueues
    BY <2>2, EnqueuesType, FollowType DEF CloseEnqueues, ConnInv, TypeOK
  <2>3. CASE Follow /\ AbortFrees
    BY <1>0, <2>3, FollowType DEF AbortFrees
  <2> QED BY <2>1, <2>2, <2>3 DEF tcp_wrap_finalize
<1> QED BY <1>1, <1>2, <1>3 DEF ConnInv, TypeOK, Counts, Waiting

LEMMA InitInv == Init => ConnInv
<1> SUFFICES ASSUME Init PROVE ConnInv
  OBVIOUS
<1>0. MaxData \in Nat /\ QueueLen \in Nat \ {0}
  BY BoundsAreNat
<1>1. TypeOK
  <2>1. tw \in Tw
    BY <1>0 DEF Init, Tw
  <2>2. thr \in [Threads -> Thread]
    BY DEF Init, Thread
  <2>3. queue \in Seq({"syn", "data", "fin"}) /\ Len(queue) <= QueueLen
    BY <1>0 DEF Init
  <2>4. accepting \in BOOLEAN /\ started \in BOOLEAN /\ coming \in 0..MaxData
    BY DEF Init
  <2>5. /\ pcb \in {"ESTABLISHED", "CLOSE_WAIT", "FIN_WAIT", "CLOSING", "LAST_ACK", "FREE"}
        /\ rx_cond \in Seq(Threads) /\ tx_cond \in Seq(Threads) /\ misuse \subseteq {"tw", "pcb"}
    BY DEF Init
  <2> QED BY <2>1, <2>2, <2>3, <2>4, <2>5 DEF TypeOK
<1>2. Counts
  BY <1>0 DEF Init, Counts
<1>3. Waiting
  BY DEF Init, Waiting, Once, On
<1> QED BY <1>1, <1>2, <1>3 DEF ConnInv

LEMMA NextInv == ConnInv /\ [Next]_vars => ConnInv'
<1>1. ASSUME ConnInv, UNCHANGED vars PROVE ConnInv'
  BY <1>1 DEF vars, ConnInv, TypeOK, Counts, Waiting
<1>2. ASSUME ConnInv, NEW t \in Threads, read(t) \/ write(t) \/ close(t) \/ exit(t)
      PROVE  ConnInv'
  BY <1>2, ReadInv, WriteInv, CloseInv, ExitInv
<1> QED
  BY <1>1, <1>2, LwipInv, ListenInv, FinalizeInv DEF Next

\* The invariant holds throughout.
LEMMA InvHolds == Spec => []ConnInv
BY InitInv, NextInv, PTL DEF Spec

-----------------------------------------------------------------------------
(* The theorems.                                                           *)

\* No step takes the thread that is on its way to the packets away, and none
\* puts a thread to sleep while there are any.
LEMMA AwakeStep ==
  ASSUME ConnInv, NoSleepOnData, [Next]_vars
  PROVE  NoSleepOnData'
<1> SUFFICES ASSUME tw'.pcb, tw'.rx > 0, rx_cond' # <<>>
             PROVE  \E t \in Threads : thr'[t].pc = "read"
  BY DEF NoSleepOnData
<1>a. tw \in Tw /\ rx_cond \in Seq(Threads)
  BY DEF ConnInv, TypeOK
<1>b. ASSUME NEW t \in Threads, NEW c, NEW n, Moves(t, c, n), thr[t].pc # "read",
             tw.pcb, tw.rx > 0, rx_cond # <<>>
      PROVE  \E u \in Threads : thr'[u].pc = "read"
  <2>1. PICK u \in Threads : thr[u].pc = "read"
    BY <1>b DEF NoSleepOnData
  <2> QED BY <1>b, <2>1 DEF Moves
<1>c. ASSUME rx_notify, rx_cond' # <<>>
      PROVE  \E t \in Threads : thr'[t].pc = "read"
  <2>1. PICK t \in Threads : Moves(t, "read", thr[t].n)
    BY <1>c, RxNotify
  <2> QED BY <2>1 DEF Moves
<1>1. CASE UNCHANGED <<tw, rx_cond, thr>>
  BY <1>1 DEF NoSleepOnData
<1>2. CASE RecvData
  <2>1. CASE tw.live /\ tw.rx = 0
    BY <1>2, <1>c, <2>1 DEF RecvData, tcp_recv_cb
  <2>2. CASE ~tw.live
    BY <1>1, <1>2, <2>2 DEF RecvData, tcp_recv_cb
  <2>3. CASE tw.live /\ tw.rx # 0
    <3>1. UNCHANGED <<thr, rx_cond>> /\ tw'.pcb = tw.pcb
      BY <1>2, <1>a, <2>3 DEF RecvData, tcp_recv_cb, Tw
    <3>2. tw.rx > 0
      BY <1>a, <2>3, BoundsAreNat DEF Tw
    <3> QED BY <3>1, <3>2 DEF NoSleepOnData
  <2> QED BY <2>1, <2>2, <2>3
<1>3. CASE RecvFin
  BY <1>1, <1>3, <1>c DEF RecvFin, tcp_recv_cb_eof
<1>4. CASE RecvAck
  <2>1. UNCHANGED <<tw, rx_cond>>
    BY <1>4 DEF RecvAck
  <2>2. CASE UNCHANGED thr
    BY <1>1, <2>1, <2>2
  <2>3. CASE tx_notify
    <3>1. \/ UNCHANGED thr
          \/ \E t \in Threads : thr[t].pc = "txwait" /\ Moves(t, "write", thr[t].n)
      BY <2>3, TxNotify
    <3> QED BY <1>b, <2>1, <2>2, <3>1
  <2> QED BY <1>4, <2>2, <2>3 DEF RecvAck, tcp_sent_cb
<1>5. ASSUME NEW t \in Threads, read(t)
      PROVE  \E u \in Threads : thr'[u].pc = "read"
  <2>1. CASE tw' = [tw EXCEPT !.rx = 0]
    BY <1>a, <2>1 DEF Tw
  <2>2. CASE UNCHANGED tw
    BY <1>5, <1>a, <2>2, BoundsAreNat DEF read, caml_tcp_read, Tw
  <2> QED BY <1>5, <2>1, <2>2 DEF read, caml_tcp_read
<1>6. ASSUME NEW t \in Threads, write(t)
      PROVE  \E u \in Threads : thr'[u].pc = "read"
  <2>1. UNCHANGED <<tw, rx_cond>> /\ thr[t].pc \in {"idle", "write"}
    BY <1>6 DEF write
  <2>2. PICK n \in Nat \ {0} : internal_write(t, n)
    BY <1>6, BoundsAreNat DEF write, ConnInv, TypeOK, Counts, Thread
  <2>3. \E c \in Pcs, k \in Nat : Moves(t, c, k)
    <3>1. CASE Raise(t)
      BY <3>1, PcMoves DEF Raise, Pcs
    <3>2. CASE thr' = [thr EXCEPT ![t] = [pc |-> IF n = 1 THEN "idle" ELSE "txwait",
                                          n |-> n - 1]]
      <4>1. n - 1 \in Nat /\ (IF n = 1 THEN "idle" ELSE "txwait") \in Pcs
        BY DEF Pcs
      <4> QED BY <3>2, <4>1, SetMoves
    <3>3. CASE thr' = [thr EXCEPT ![t] = [pc |-> "txwait", n |-> n]]
      BY <3>3, SetMoves DEF Pcs
    <3> QED BY <2>2, <3>1, <3>2, <3>3 DEF internal_write
  <2> QED BY <1>b, <2>1, <2>3
<1>7. ASSUME NEW t \in Threads, close(t)
      PROVE  \E u \in Threads : thr'[u].pc = "read"
  <2>1. UNCHANGED rx_cond /\ thr[t].pc \in {"idle", "close"}
    BY <1>7 DEF close
  <2>2. PICK n \in Nat : CloseStep(t, n)
    BY <1>7 DEF close, CloseRetries, ConnInv, TypeOK, Thread
  <2>3. UNCHANGED tw
    BY <1>a, <2>2 DEF CloseStep, caml_tcp_close, caml_tcp_abort, Tw
  <2>4. \E c \in Pcs, k \in Nat : Moves(t, c, k)
    <3>1. CASE Raise(t)
      BY <3>1, PcMoves DEF Raise, Pcs
    <3>2. CASE thr' = [thr EXCEPT ![t].pc = "idle"]
      BY <3>2, PcMoves DEF Pcs
    <3>3. CASE n > 0 /\ thr' = [thr EXCEPT ![t] = [pc |-> "close", n |-> n - 1]]
      <4>1. n - 1 \in Nat
        BY <3>3
      <4> QED BY <3>3, <4>1, SetMoves DEF Pcs
    <3> QED BY <2>2, <3>1, <3>2, <3>3 DEF CloseStep, caml_tcp_close, caml_tcp_abort
  <2> QED BY <1>b, <2>1, <2>3, <2>4
<1>8. ASSUME NEW t \in Threads, exit(t)
      PROVE  \E u \in Threads : thr'[u].pc = "read"
  <2>1. UNCHANGED <<tw, rx_cond>> /\ thr[t].pc \in {"idle", "raised"}
    BY <1>8 DEF exit
  <2>2. Moves(t, "done", thr[t].n)
    BY <1>8, PcMoves DEF exit, Pcs
  <2> QED BY <1>b, <2>1, <2>2
<1>9. CASE listen_forever
  <2>1. UNCHANGED <<thr, rx_cond>> /\ tw'.pcb = tw.pcb /\ tw'.rx = tw.rx
    BY <1>9, <1>a DEF listen_forever, Tw
  <2> QED BY <2>1 DEF NoSleepOnData
<1>10. CASE tcp_wrap_finalize
  BY <1>10, <1>a DEF tcp_wrap_finalize, Tw
<1> QED
  BY <1>1, <1>2, <1>3, <1>4, <1>5, <1>6, <1>7, <1>8, <1>9, <1>10
     DEF Next, Lwip, AcceptReturns, Lose, vars

\* The comment of tcp_recv_cb() holds for any number of threads that read, write
\* and close in any order, as long as the connection is not closed: no thread
\* sleeps over packets that nobody is about to read.
THEOREM NeverSleepOnData == Spec => []NoSleepOnData
<1>1. Init => NoSleepOnData
  BY DEF Init, NoSleepOnData
<1>2. ConnInv /\ NoSleepOnData /\ [Next]_vars => NoSleepOnData'
  BY AwakeStep
<1> QED BY <1>1, <1>2, InvHolds, PTL DEF Spec

-----------------------------------------------------------------------------
(* Freed memory.                                                           *)

\* A pcb the wrapper still points to has not been closed by the application: it
\* is open, unless lwIP has given it up.
PcbKept ==
  /\ lost \in BOOLEAN
  /\ "pcb" \in misuse => lost
  /\ tw.pcb => pcb \in {"ESTABLISHED", "CLOSE_WAIT"} \/ lost

LEMMA KeptStep ==
  ASSUME ConnInv, PcbKept, [Next]_vars
  PROVE  PcbKept'
<1>a. tw \in Tw /\ lost \in BOOLEAN
  BY DEF ConnInv, TypeOK, PcbKept
<1>b. ASSUME tw.pcb, Follow PROVE "pcb" \in misuse' => lost
  BY <1>b DEF Follow, PcbKept
<1>1. CASE UNCHANGED vars
  BY <1>1 DEF vars, PcbKept
<1>2. CASE AcceptReturns
  BY <1>2 DEF AcceptReturns, PcbKept
<1>3. CASE RecvData
  BY <1>3, <1>a DEF RecvData, tcp_recv_cb, PcbKept, Tw
<1>4. CASE RecvFin
  BY <1>4, <1>a DEF RecvFin, tcp_recv_cb_eof, PcbKept, Tw
<1>5. CASE RecvAck
  BY <1>5 DEF RecvAck, tcp_sent_cb, PcbKept
<1>6. CASE Lose
  BY <1>6, <1>a DEF Lose, PcbKept
<1>7. CASE listen_forever
  BY <1>7, <1>a DEF listen_forever, PcbKept, Tw
<1>8. ASSUME NEW t \in Threads, read(t) PROVE PcbKept'
  BY <1>8, <1>a, <1>b DEF read, caml_tcp_read, PcbKept, Tw
<1>9. ASSUME NEW t \in Threads, write(t) PROVE PcbKept'
  <2>1. UNCHANGED <<tw, pcb, lost>> /\ \E n : internal_write(t, n)
    BY <1>9 DEF write
  <2>2. "pcb" \in misuse' => lost
    BY <1>b, <2>1 DEF internal_write, PcbKept
  <2> QED BY <2>1, <2>2 DEF PcbKept
<1>10. ASSUME NEW t \in Threads, close(t) PROVE PcbKept'
  <2>0. UNCHANGED lost
    BY <1>10 DEF close
  <2>1. PICK n : CloseStep(t, n)
    BY <1>10 DEF close
  <2>2. CASE ~tw.pcb /\ UNCHANGED <<pcb, tw, misuse>>
    BY <2>0, <2>2 DEF PcbKept
  <2>3. CASE tw.pcb /\ Follow /\ (caml_tcp_close(t) \/ caml_tcp_abort(t))
    BY <1>a, <1>b, <2>0, <2>3 DEF caml_tcp_close, caml_tcp_abort, PcbKept, Tw
  <2>4. CASE tw.pcb /\ Follow /\ UNCHANGED <<pcb, tw>>
    BY <1>b, <2>0, <2>4 DEF PcbKept
  <2> QED BY <2>1, <2>2, <2>3, <2>4 DEF CloseStep
<1>11. ASSUME NEW t \in Threads, exit(t) PROVE PcbKept'
  BY <1>11 DEF exit, PcbKept
<1>12. CASE tcp_wrap_finalize
  <2>1. tw'.pcb = FALSE /\ UNCHANGED lost
    BY <1>12, <1>a DEF tcp_wrap_finalize, Tw
  <2>2. "pcb" \in misuse' => lost
    BY <1>12, <1>b DEF tcp_wrap_finalize, PcbKept
  <2> QED BY <2>1, <2>2 DEF PcbKept
<1> QED
  BY <1>1, <1>2, <1>3, <1>4, <1>5, <1>6, <1>7, <1>8, <1>9, <1>10, <1>11, <1>12
     DEF Next, Lwip

\* Whatever is lost and whenever: a thread follows tw->pcb to freed memory only
\* after lwIP has given up a connection that the application had not closed.  Of
\* the ways a pcb can go, that one alone leaves the pointer: caml_tcp_close(),
\* caml_tcp_abort() and the finalizer clear it first.
THEOREM FollowsFreedOnlyByLoss == Spec => []FreedOnlyByLoss
<1>1. Init => PcbKept
  BY DEF Init, PcbKept
<1>2. ConnInv /\ PcbKept /\ [Next]_vars => PcbKept'
  BY KeptStep
<1>3. PcbKept => FreedOnlyByLoss
  BY DEF PcbKept, FreedOnlyByLoss
<1> QED BY <1>1, <1>2, <1>3, InvHolds, PTL DEF Spec

\* lwip.mli: "Any subsequent attempt to use the PCB will raise a
\* Connection_closed exception": whatever several threads do, nothing is put on
\* the queue of a connection once one of them has closed it.
THEOREM NothingEverAfterClose == Spec => NothingAfterClose
<1>1. ConnInv /\ [Next]_vars
        => [~tw.pcb => tw'.pcb = FALSE /\ Len(queue') <= Len(queue)]_vars
  <2> SUFFICES ASSUME ConnInv, Next, ~tw.pcb
               PROVE  tw'.pcb = FALSE /\ Len(queue') <= Len(queue)
    OBVIOUS
  <2>a. tw \in Tw /\ queue \in Seq({"syn", "data", "fin"}) /\ (accepting => queue # <<>>)
    BY DEF ConnInv, TypeOK, Counts
  <2>b. tw.pcb = FALSE /\ Len(queue) \in Nat
    BY <2>a DEF Tw
  <2>c. ASSUME queue' = Tail(queue), queue # <<>> PROVE Len(queue') <= Len(queue)
    BY <2>a, <2>c
  <2>d. ASSUME queue' = <<>> PROVE Len(queue') <= Len(queue)
    BY <2>b, <2>d
  <2>1. CASE AcceptReturns
    BY <2>1, <2>a, <2>b, <2>c DEF AcceptReturns
  <2>2. CASE RecvData
    BY <2>2, <2>a, <2>b DEF RecvData, tcp_recv_cb, Tw
  <2>3. CASE RecvFin
    BY <2>3, <2>a, <2>b DEF RecvFin, tcp_recv_cb_eof, Tw
  <2>4. CASE RecvAck
    BY <2>4, <2>b, <2>c DEF RecvAck
  <2>5. CASE Lose
    BY <2>5, <2>b, <2>d DEF Lose
  <2>6. CASE listen_forever
    BY <2>6, <2>a, <2>b DEF listen_forever, Tw
  <2>7. ASSUME NEW t \in Threads, read(t)
        PROVE  tw'.pcb = FALSE /\ Len(queue') <= Len(queue)
    BY <2>7, <2>b DEF read
  <2>8. ASSUME NEW t \in Threads, write(t)
        PROVE  tw'.pcb = FALSE /\ Len(queue') <= Len(queue)
    BY <2>8, <2>b DEF write, internal_write
  <2>9. ASSUME NEW t \in Threads, close(t)
        PROVE  tw'.pcb = FALSE /\ Len(queue') <= Len(queue)
    BY <2>9, <2>b DEF close, CloseStep
  <2>10. ASSUME NEW t \in Threads, exit(t)
         PROVE  tw'.pcb = FALSE /\ Len(queue') <= Len(queue)
    BY <2>10, <2>b DEF exit
  <2>11. CASE tcp_wrap_finalize
    BY <2>11, <2>a, <2>b DEF tcp_wrap_finalize, Tw
  <2> QED
    BY <2>1, <2>2, <2>3, <2>4, <2>5, <2>6, <2>7, <2>8, <2>9, <2>10, <2>11
       DEF Next, Lwip
<1> QED BY <1>1, InvHolds, PTL DEF Spec, NothingAfterClose
=============================================================================
