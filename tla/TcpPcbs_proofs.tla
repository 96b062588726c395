--------------------------- MODULE TcpPcbs_proofs ---------------------------
(***************************************************************************)
(* Proofs about TcpPcbs: type correctness, the exactness of the pcb lists, *)
(* no pcb the application holds freed behind its back, and the uniqueness  *)
(* of bound addresses and of connections.                                  *)
(***************************************************************************)
EXTENDS TcpPcbs, TLAPS

-----------------------------------------------------------------------------
(* What the list macros do.                                                *)

\* TCP_REG keeps a list a list of pcbs of the same pool.
LEMMA RegType ==
  ASSUME NEW S, NEW s \in Seq(S), NEW p \in S
  PROVE  TCP_REG(s, p) \in Seq(S)
BY DEF TCP_REG

\* So does TCP_RMV, whether or not the pcb is on the list.
LEMMA RmvType ==
  ASSUME NEW S, NEW s \in Seq(S), NEW p
  PROVE  TCP_RMV(s, p) \in Seq(S)
<1>1. CASE ~On(s, p)
  BY <1>1 DEF TCP_RMV
<1>2. CASE On(s, p)
  <2> DEFINE k == CHOOSE i \in DOMAIN s :
                    s[i] = p /\ \A j \in DOMAIN s : j < i => s[j] # p
             r == [i \in 1..(Len(s) - 1) |-> IF i < k THEN s[i] ELSE s[i + 1]]
  <2>1. Len(s) \in Nat /\ DOMAIN s = 1..Len(s)
    OBVIOUS
  <2>2. Len(s) - 1 \in Nat
    BY <1>2, <2>1 DEF On
  <2>3. \A i \in 1..(Len(s) - 1) : s[i] \in S /\ s[i + 1] \in S
    BY <2>1, <2>2
  <2>4. r \in [1..(Len(s) - 1) -> S]
    <3> HIDE DEF k
    <3> QED BY <2>3
  <2>5. r \in Seq(S)
    <3> HIDE DEF r
    <3> QED BY <2>2, <2>4
  <2> QED
    BY <1>2, <2>5 DEF TCP_RMV
<1> QED
  BY <1>1, <1>2

LEMMA FrontType ==
  ASSUME NEW S, NEW s \in Seq(S), NEW p \in S
  PROVE  ToFront(s, p) \in Seq(S)
BY RegType, RmvType DEF ToFront

\* A registered pcb is on the list, with all that were there.
LEMMA RegOn ==
  ASSUME NEW S, NEW s \in Seq(S), NEW p \in S, NEW q
  PROVE  On(TCP_REG(s, p), q) <=> (q = p \/ On(s, q))
<1> DEFINE r == TCP_REG(s, p)
<1>1. /\ Len(r) = Len(s) + 1 /\ Len(s) \in Nat
      /\ DOMAIN r = 1..(Len(s) + 1) /\ DOMAIN s = 1..Len(s)
      /\ r[1] = p
      /\ \A i \in 1..Len(s) : r[i + 1] = s[i]
  BY DEF TCP_REG
<1> HIDE DEF r
<1>2. ASSUME q = p \/ On(s, q) PROVE On(r, q)
  BY <1>1, <1>2 DEF On
<1>3. ASSUME On(r, q) PROVE q = p \/ On(s, q)
  <2>1. PICK i \in DOMAIN r : r[i] = q
    BY <1>3 DEF On
  <2>2. CASE i = 1
    BY <1>1, <2>1, <2>2
  <2>3. CASE i # 1
    <3>1. i - 1 \in 1..Len(s) /\ r[(i - 1) + 1] = s[i - 1] /\ (i - 1) + 1 = i
      BY <1>1, <2>3
    <3> QED BY <1>1, <2>1, <3>1 DEF On
  <2> QED BY <2>2, <2>3
<1> QED BY <1>2, <1>3 DEF r

\* Registering a pcb that is not on the list keeps the list free of cycles.
LEMMA RegNoDup ==
  ASSUME NEW S, NEW s \in Seq(S), NEW p \in S, NoDup(s), ~On(s, p)
  PROVE  NoDup(TCP_REG(s, p))
<1> DEFINE r == TCP_REG(s, p)
<1>1. /\ Len(r) = Len(s) + 1 /\ Len(s) \in Nat
      /\ DOMAIN r = 1..(Len(s) + 1) /\ DOMAIN s = 1..Len(s)
      /\ r[1] = p
      /\ \A i \in 2..(Len(s) + 1) : r[i] = s[i - 1] /\ i - 1 \in DOMAIN s
  BY DEF TCP_REG
<1> HIDE DEF r
<1>2. ASSUME NEW i \in DOMAIN r, NEW j \in DOMAIN r, r[i] = r[j]
      PROVE  i = j
  <2>1. CASE i = 1 /\ j = 1
    BY <2>1
  <2>2. CASE i # 1 /\ j # 1
    BY <1>1, <1>2, <2>2, SMTT(30) DEF NoDup
  <2>3. CASE i = 1 /\ j # 1
    BY <1>1, <1>2, <2>3 DEF On
  <2>4. CASE i # 1 /\ j = 1
    BY <1>1, <1>2, <2>4 DEF On
  <2> QED BY <2>1, <2>2, <2>3, <2>4
<1> QED BY <1>2 DEF NoDup, r

\* TCP_RMV takes one pcb off the list and no other, and makes no duplicate.
LEMMA RmvOn ==
  ASSUME NEW S, NEW s \in Seq(S), NEW p, NoDup(s)
  PROVE  /\ NoDup(TCP_RMV(s, p))
         /\ \A q : On(TCP_RMV(s, p), q) <=> (q # p /\ On(s, q))
<1>1. CASE ~On(s, p)
  BY <1>1 DEF TCP_RMV, On
<1>2. CASE On(s, p)
  <2> DEFINE k == CHOOSE i \in DOMAIN s :
                    s[i] = p /\ \A j \in DOMAIN s : j < i => s[j] # p
             r == [i \in 1..(Len(s) - 1) |-> IF i < k THEN s[i] ELSE s[i + 1]]
  <2>1. Len(s) \in Nat /\ DOMAIN s = 1..Len(s)
    OBVIOUS
  <2>2. \E i \in DOMAIN s : s[i] = p /\ \A j \in DOMAIN s : j < i => s[j] # p
    BY <1>2, <2>1 DEF On, NoDup
  <2>3. k \in 1..Len(s) /\ s[k] = p
    BY <2>1, <2>2
  <2> HIDE DEF k
  <2>4. /\ DOMAIN r = 1..(Len(s) - 1)
        /\ \A i \in 1..(Len(s) - 1) : r[i] = IF i < k THEN s[i] ELSE s[i + 1]
    OBVIOUS
  <2> HIDE DEF r
  <2>5. NoDup(r)
    <3>1. ASSUME NEW i \in 1..(Len(s) - 1), NEW j \in 1..(Len(s) - 1), r[i] = r[j]
          PROVE  i = j
      <4> DEFINE at(n) == IF n < k THEN n ELSE n + 1
      <4>1. at(i) \in DOMAIN s /\ at(j) \in DOMAIN s
        BY <2>1, <2>3
      <4>2. r[i] = s[at(i)] /\ r[j] = s[at(j)]
        BY <2>4
      <4>3. at(i) = at(j)
        BY <3>1, <4>1, <4>2, Zenon DEF NoDup
      <4> QED BY <2>1, <2>3, <4>3
    <3> QED BY <2>4, <3>1 DEF NoDup
  <2>6. ASSUME NEW q, On(r, q) PROVE q # p /\ On(s, q)
    <3>1. PICK i \in 1..(Len(s) - 1) : r[i] = q
      BY <2>4, <2>6 DEF On
    <3>2. CASE i < k
      BY <2>1, <2>3, <2>4, <3>1, <3>2 DEF On, NoDup
    <3>3. CASE ~(i < k)
      BY <2>1, <2>3, <2>4, <3>1, <3>3 DEF On, NoDup
    <3> QED BY <3>2, <3>3
  <2>7. ASSUME NEW q, q # p, On(s, q) PROVE On(r, q)
    <3>1. PICK i \in 1..Len(s) : s[i] = q
      BY <2>1, <2>7 DEF On
    <3>2. CASE i < k
      <4>1. i \in 1..(Len(s) - 1) /\ r[i] = q
        BY <2>1, <2>3, <2>4, <3>1, <3>2
      <4> QED BY <2>4, <4>1 DEF On
    <3>3. CASE i > k
      <4>1. i - 1 \in 1..(Len(s) - 1) /\ ~(i - 1 < k) /\ (i - 1) + 1 = i
        BY <2>1, <2>3, <3>1, <3>3
      <4>2. r[i - 1] = q
        BY <2>4, <3>1, <4>1
      <4> QED BY <2>4, <4>1, <4>2 DEF On
    <3>4. i # k
      BY <2>3, <2>7, <3>1
    <3> QED BY <2>3, <3>1, <3>2, <3>3, <3>4
  <2>8. TCP_RMV(s, p) = r
    BY <1>2 DEF TCP_RMV, k, r
  <2> QED BY <2>5, <2>6, <2>7, <2>8
<1> QED BY <1>1, <1>2

\* Moving a pcb to the front changes the order of the list and nothing else.
LEMMA FrontOn ==
  ASSUME NEW S, NEW s \in Seq(S), NEW p \in S, NoDup(s)
  PROVE  /\ NoDup(ToFront(s, p))
         /\ \A q : On(ToFront(s, p), q) <=> (q = p \/ On(s, q))
<1>1. /\ TCP_RMV(s, p) \in Seq(S) /\ NoDup(TCP_RMV(s, p))
      /\ \A q : On(TCP_RMV(s, p), q) <=> (q # p /\ On(s, q))
  BY RmvType, RmvOn
<1>2. NoDup(TCP_REG(TCP_RMV(s, p), p))
  BY <1>1, RegNoDup
<1>3. \A q : On(TCP_REG(TCP_RMV(s, p), p), q)
               <=> (q = p \/ On(TCP_RMV(s, p), q))
  BY <1>1, RegOn
<1> QED BY <1>1, <1>2, <1>3 DEF ToFront

-----------------------------------------------------------------------------
(* Type correctness.                                                       *)

USE DEF Running

LEMMA Zeros == 0 \in 0..MaxAge /\ 0 \in 0..NrtxCap /\ 0 \in Nat
BY TickBounds, RtxBounds DEF NrtxCap

\* The records tcp_alloc() and memp_free() leave behind are pcbs.
LEMMA ConstantPcbs == Unused \in Pcb /\ Fresh \in Pcb /\ LUnused \in LPcb
<1>1. Unused \in Pcb
  <2>1. /\ "FREE" \in States /\ "ANY" \in Addrs
        /\ NoPeer \in Peers \cup {NoPeer} /\ TCP_PRIO_NORMAL \in Nat
    BY PriosAreNat DEF States, Addrs
  <2> QED BY <2>1, Zeros DEF Unused, Pcb
<1>2. "CLOSED" \in States
  BY DEF States
<1>3. Fresh \in Pcb
  BY <1>1, <1>2 DEF Fresh, Pcb
<1>4. LUnused \in LPcb
  BY Zeros DEF LUnused, LPcb, Addrs
<1> QED BY <1>1, <1>3, <1>4

\* Counting a retransmission stays within the model's cap.
LEMMA CountRtxType ==
  ASSUME NEW n \in 0..NrtxCap
  PROVE  CountRtx(n) \in 0..NrtxCap
BY RtxBounds DEF CountRtx, NrtxCap

\* The ticks of a pcb never pass MaxAge.
LEMMA AgedType ==
  ASSUME NEW c \in Pcb
  PROVE  Aged(c) \in Pcb /\ Aged(c).app = c.app /\ Aged(c).state = c.state
<1> DEFINE n == IF c.age < MaxAge THEN c.age + 1 ELSE c.age
<1>1. n \in 0..MaxAge
  BY TickBounds DEF Pcb
<1> HIDE DEF n
<1>2. Aged(c) = [c EXCEPT !.age = n]
  BY DEF Aged, n
<1> QED BY <1>1, <1>2 DEF Pcb

LEMMA AckRtxType ==
  ASSUME NEW c \in Pcb, NEW seg
  PROVE  AckRtx(c, seg) \in Pcb /\ AckRtx(c, seg).app = c.app
<1>1. CountRtx(c.nrtx) \in 0..NrtxCap
  BY CountRtxType DEF Pcb
<1>2. /\ [c EXCEPT !.nrtx = 0, !.infr = FALSE] \in Pcb
      /\ [c EXCEPT !.nrtx = 0, !.infr = FALSE].app = c.app
  BY Zeros DEF Pcb
<1>3. /\ [c EXCEPT !.nrtx = CountRtx(c.nrtx), !.infr = TRUE] \in Pcb
      /\ [c EXCEPT !.nrtx = CountRtx(c.nrtx), !.infr = TRUE].app = c.app
  BY <1>1 DEF Pcb
<1> QED BY <1>2, <1>3 DEF AckRtx

\* A slot given back to the pool leaves stale a set of slots.
LEMMA ForgetType ==
  ASSUME TypeOK, NEW p \in Pcbs, NEW errf, Forget(p, errf)
  PROVE  stale' \subseteq Pcbs
BY DEF TypeOK, Forget

LEMMA StaysType ==
  ASSUME TypeOK, NEW p \in Pcbs, NEW seg, NEW st \in States,
         Stays(p, seg, st)
  PROVE  /\ pcb' \in [Pcbs -> Pcb] /\ active' \in Seq(Pcbs)
         /\ tw' \in Seq(Pcbs) /\ stale' \subseteq Pcbs
<1>1. AckRtx(pcb[p], seg) \in Pcb
  BY AckRtxType DEF TypeOK
<1>2. [AckRtx(pcb[p], seg) EXCEPT !.state = st, !.age = 0] \in Pcb
  BY <1>1, Zeros DEF Pcb
<1> QED BY <1>2, FrontType DEF Stays, TypeOK

LEMMA ToTimeWaitType ==
  ASSUME TypeOK, NEW p \in Pcbs, ToTimeWait(p)
  PROVE  /\ pcb' \in [Pcbs -> Pcb] /\ active' \in Seq(Pcbs)
         /\ tw' \in Seq(Pcbs) /\ stale' \subseteq Pcbs
<1>1. "TIME_WAIT" \in States
  BY DEF States
<1>2. [pcb[p] EXCEPT !.state = "TIME_WAIT", !.age = 0] \in Pcb
  BY <1>1, Zeros, ZenonT(40) DEF TypeOK, Pcb
<1>3. pcb' \in [Pcbs -> Pcb]
  BY <1>2 DEF TypeOK, ToTimeWait
<1> QED BY <1>3, RegType, RmvType DEF ToTimeWait, TypeOK

LEMMA RemovedType ==
  ASSUME TypeOK, NEW p \in Pcbs, NEW errf, Removed(p, errf)
  PROVE  /\ pcb' \in [Pcbs -> Pcb] /\ active' \in Seq(Pcbs)
         /\ tw' \in Seq(Pcbs) /\ stale' \subseteq Pcbs
BY ForgetType, RmvType, ConstantPcbs DEF Removed, TypeOK

\* tcp_process() keeps the types, whatever the segment.
LEMMA ProcessType ==
  ASSUME TypeOK, NEW p \in Pcbs, NEW seg \in Segment, tcp_process(p, seg)
  PROVE  /\ pcb' \in [Pcbs -> Pcb] /\ active' \in Seq(Pcbs)
         /\ tw' \in Seq(Pcbs) /\ stale' \subseteq Pcbs
<1> USE DEF Processes
<1>0. /\ pcb[p] \in Pcb /\ pcb[p].state \in States
      /\ pcb[p].nrtx \in 0..NrtxCap
      /\ ToFront(active, p) \in Seq(Pcbs)
  BY FrontType DEF TypeOK, Pcb
<1>1. CASE ProcessRst(p, seg)
  <2>1. CASE Removed(p, TRUE)
    BY <2>1, RemovedType
  <2>2. CASE active' = ToFront(active, p) /\ UNCHANGED <<pcb, tw, stale>>
    BY <1>0, <2>2 DEF TypeOK
  <2> QED BY <1>1, <2>1, <2>2 DEF ProcessRst
<1>2. CASE ProcessStraySyn(p, seg)
  BY <1>0, <1>2 DEF ProcessStraySyn, TypeOK
<1>3. CASE ProcessSynSent(p, seg)
  <2> DEFINE done == seg.syn /\ AcksAllSent(seg)
             st == IF done THEN "ESTABLISHED" ELSE pcb[p].state
             sy == IF done THEN "none" ELSE pcb[p].syn
  <2>1. st \in States /\ sy \in {"none", "idle", "running"}
    BY <1>0 DEF States, ActiveStates, Pcb
  <2>2. pcb' = [pcb EXCEPT ![p] = [pcb[p] EXCEPT !.age = 0, !.state = st,
                                                 !.syn = sy]]
    BY <1>3 DEF ProcessSynSent, TypeOK
  <2> HIDE DEF st, sy
  <2>3. [pcb[p] EXCEPT !.age = 0, !.state = st, !.syn = sy] \in Pcb
    BY <1>0, <2>1, Zeros DEF Pcb
  <2>4. pcb' \in [Pcbs -> Pcb]
    BY <2>2, <2>3 DEF TypeOK
  <2>5. active' = ToFront(active, p) /\ UNCHANGED <<tw, stale>>
    BY <1>3 DEF ProcessSynSent
  <2> QED BY <1>0, <2>4, <2>5 DEF TypeOK
<1>4. CASE ProcessSynRcvd(p, seg)
  <2>1. CASE Accepted(p, seg)
    <3> DEFINE st == IF seg.fin THEN "CLOSE_WAIT" ELSE "ESTABLISHED"
    <3>1. AckRtx(pcb[p], seg) \in Pcb /\ st \in States
      BY <1>0, AckRtxType DEF States, ActiveStates
    <3>2. pcb' = [pcb EXCEPT ![p] =
                    [AckRtx(pcb[p], seg) EXCEPT !.state = st, !.age = 0,
                                                !.app = TRUE]]
      BY <2>1 DEF Accepted
    <3> HIDE DEF st
    <3>3. [AckRtx(pcb[p], seg) EXCEPT !.state = st, !.age = 0, !.app = TRUE]
            \in Pcb
      BY <3>1, Zeros DEF Pcb
    <3> QED BY <1>0, <2>1, <3>2, <3>3 DEF Accepted, TypeOK
  <2>2. CASE Refused(p, seg)
    BY <2>2, RemovedType DEF Refused
  <2>3. CASE SynRcvdOther(p, seg)
    <3> DEFINE n == IF seg.ack = "none" /\ seg.syn THEN CountRtx(pcb[p].nrtx)
                                                   ELSE pcb[p].nrtx
    <3>1. n \in 0..NrtxCap
      BY <1>0, CountRtxType
    <3>2. pcb' = [pcb EXCEPT ![p] = [pcb[p] EXCEPT !.age = 0, !.nrtx = n]]
      BY <2>3 DEF SynRcvdOther, TypeOK
    <3> HIDE DEF n
    <3>3. [pcb[p] EXCEPT !.age = 0, !.nrtx = n] \in Pcb
      BY <1>0, <3>1, Zeros DEF Pcb
    <3> QED BY <1>0, <2>3, <3>2, <3>3 DEF SynRcvdOther, TypeOK
  <2> QED BY <1>4, <2>1, <2>2, <2>3 DEF ProcessSynRcvd
<1>5. CASE ProcessEstablished(p, seg)
  BY <1>0, <1>5, StaysType DEF ProcessEstablished, States, ActiveStates
<1>6. CASE ProcessFinWait1(p, seg)
  BY <1>6, StaysType, ToTimeWaitType
     DEF ProcessFinWait1, States, ActiveStates
<1>7. CASE ProcessFinWait2(p, seg)
  BY <1>7, StaysType, ToTimeWaitType
     DEF ProcessFinWait2, States, ActiveStates
<1>8. CASE ProcessClosing(p, seg)
  BY <1>8, StaysType, ToTimeWaitType DEF ProcessClosing, States, ActiveStates
<1>9. CASE ProcessLastAck(p, seg)
  BY <1>9, StaysType, RemovedType DEF ProcessLastAck, States, ActiveStates
<1> QED
  BY <1>1, <1>2, <1>3, <1>4, <1>5, <1>6, <1>7, <1>8, <1>9 DEF tcp_process

\* tcp_connect() makes these changes to the pcb.
ConnectsTo(p, peer, port, ip, sy) ==
  pcb' = [pcb EXCEPT ![p] = [pcb[p] EXCEPT !.state = "SYN_SENT",
                                           !.remote = peer,
                                           !.local_port = port,
                                           !.local_ip = ip,
                                           !.syn = sy]]

\* What tcp_connect() makes of the pcb, with or without memory and a route.
LEMMA ConnectRecord ==
  ASSUME TypeOK, NEW p \in Pcbs, tcp_connect(p)
  PROVE  \E peer \in Peers, port \in Nat, ip \in Addrs,
            sy \in {"none", "idle", "running"} :
           /\ port \in IF pcb[p].local_port = 0 THEN tcp_new_port
                                               ELSE {pcb[p].local_port}
           /\ ConnectsTo(p, peer, port, ip, sy)
<1>1. PICK peer \in Peers, route \in Routes, mem \in BOOLEAN :
      \E port \in IF pcb[p].local_port = 0 THEN tcp_new_port
                                           ELSE {pcb[p].local_port} :
        LET routed == pcb[p].local_ip # "ANY" \/ route
        IN  pcb' = [pcb EXCEPT ![p].state = "SYN_SENT",
                          ![p].remote = peer,
                          ![p].local_port = port,
                          ![p].local_ip = IF mem /\ routed THEN "HOST"
                                                           ELSE @,
                          ![p].syn = IF ~mem THEN "none"
                                     ELSE IF routed THEN "running"
                                     ELSE "idle"]
  BY DEF tcp_connect
<1> DEFINE routed == pcb[p].local_ip # "ANY" \/ route
           ip == IF mem /\ routed THEN "HOST" ELSE pcb[p].local_ip
           sy == IF ~mem THEN "none" ELSE IF routed THEN "running"
                                          ELSE "idle"
<1>2. ip \in Addrs /\ sy \in {"none", "idle", "running"}
  BY DEF Addrs, TypeOK, Pcb
<1>3. PICK port \in Nat :
        /\ port \in IF pcb[p].local_port = 0 THEN tcp_new_port
                                            ELSE {pcb[p].local_port}
        /\ pcb' = [pcb EXCEPT ![p].state = "SYN_SENT", ![p].remote = peer,
                              ![p].local_port = port, ![p].local_ip = ip,
                              ![p].syn = sy]
  <2>1. tcp_new_port \subseteq Nat /\ pcb[p].local_port \in Nat
    BY PortsAreNat DEF tcp_new_port, TypeOK, Pcb
  <2> QED BY <1>1, <2>1
<1> HIDE DEF ip, sy
<1>4. ConnectsTo(p, peer, port, ip, sy)
  BY <1>3 DEF TypeOK, ConnectsTo
<1> QED BY <1>2, <1>3, <1>4

\* Every call of the raw API keeps the types.
LEMMA CallType ==
  ASSUME TypeOK,
         \/ tcp_new
         \/ \E p \in Pcbs : \/ tcp_bind(p) \/ tcp_listen(p) \/ tcp_connect(p)
                            \/ tcp_close(p) \/ tcp_abort(p) \/ tcp_setprio(p)
         \/ \E l \in LPcbs : tcp_close_listen(l)
  PROVE  TypeOK'
<1>1. CASE tcp_new
  <2>1. PICK p \in Pcbs :
          /\ KillEffects(p)
          /\ active' = TCP_RMV(active, p)
          /\ pcb' = [pcb EXCEPT ![p] = [Fresh EXCEPT !.app = TRUE]]
    BY <1>1 DEF tcp_new
  <2>2. [Fresh EXCEPT !.app = TRUE] \in Pcb
    BY ConstantPcbs DEF Pcb
  <2> QED
    BY <1>1, <2>1, <2>2, RmvType, ForgetType DEF tcp_new, KillEffects, TypeOK
<1>2. ASSUME NEW p \in Pcbs, tcp_bind(p) PROVE TypeOK'
  <2>1. PICK ip \in Addrs, port \in Nat :
          pcb' = [pcb EXCEPT ![p] = [pcb[p] EXCEPT !.local_ip = ip,
                                                   !.local_port = port]]
    <3>1. Ports \subseteq Nat /\ tcp_new_port \subseteq Nat
      BY PortsAreNat DEF tcp_new_port
    <3>2. PICK ip \in Addrs, port \in Nat :
            pcb' = [pcb EXCEPT ![p].local_ip = ip, ![p].local_port = port]
      BY <1>2, <3>1 DEF tcp_bind
    <3> QED BY <3>2 DEF TypeOK
  <2>2. [pcb[p] EXCEPT !.local_ip = ip, !.local_port = port] \in Pcb
    BY ZenonT(40) DEF TypeOK, Pcb
  <2> QED BY <1>2, <2>1, <2>2, RegType DEF tcp_bind, TypeOK
<1>3. ASSUME NEW p \in Pcbs, tcp_listen(p) PROVE TypeOK'
  <2>1. PICK l \in LPcbs :
          /\ lpcb' = [lpcb EXCEPT ![l] =
                        [used |-> TRUE, local_ip |-> pcb[p].local_ip,
                         local_port |-> pcb[p].local_port]]
          /\ listen' = TCP_REG(listen, l)
    BY <1>3 DEF tcp_listen
  <2>2. [used |-> TRUE, local_ip |-> pcb[p].local_ip,
         local_port |-> pcb[p].local_port] \in LPcb
    BY DEF TypeOK, Pcb, LPcb
  <2> QED
    BY <1>3, <2>1, <2>2, RegType, RmvType, ConstantPcbs DEF tcp_listen, TypeOK
<1>4. ASSUME NEW p \in Pcbs, tcp_connect(p) PROVE TypeOK'
  <2>1. PICK peer \in Peers, port \in Nat, ip \in Addrs,
             sy \in {"none", "idle", "running"} :
          ConnectsTo(p, peer, port, ip, sy)
    BY <1>4, ConnectRecord
  <2>2. "SYN_SENT" \in States
    BY DEF States, ActiveStates
  <2>3. [pcb[p] EXCEPT !.state = "SYN_SENT", !.remote = peer,
                       !.local_port = port, !.local_ip = ip, !.syn = sy]
          \in Pcb
    <3>1. pcb[p] \in Pcb
      BY DEF TypeOK
    <3> QED BY <2>2, <3>1 DEF Pcb
  <2>4. pcb' \in [Pcbs -> Pcb]
    BY <2>1, <2>3 DEF TypeOK, ConnectsTo
  <2> QED BY <1>4, <2>4, RegType, RmvType DEF tcp_connect, TypeOK
<1>5. ASSUME NEW p \in Pcbs, tcp_close(p) PROVE TypeOK'
  <2>1. CASE CloseFrees(p)
    BY <1>5, <2>1, RmvType, ConstantPcbs DEF tcp_close, CloseFrees, TypeOK
  <2>2. CASE CloseSendsFin(p)
    <3>1. PICK st \in {"LAST_ACK", "FIN_WAIT_1"} :
            pcb' = [pcb EXCEPT ![p] = [pcb[p] EXCEPT !.app = FALSE,
                                                     !.state = st]]
      BY <2>2 DEF CloseSendsFin, TypeOK
    <3>2. st \in States
      BY DEF States, ActiveStates
    <3>3. [pcb[p] EXCEPT !.app = FALSE, !.state = st] \in Pcb
      <4>1. pcb[p] \in Pcb
        BY DEF TypeOK
      <4> QED BY <3>2, <4>1 DEF Pcb
    <3>4. pcb' \in [Pcbs -> Pcb]
      BY <3>1, <3>3 DEF TypeOK
    <3>5. UNCHANGED <<lpcb, bound, active, tw, listen, stale, walk>>
      BY <1>5, <2>2 DEF tcp_close, CloseSendsFin
    <3> QED BY <3>4, <3>5 DEF TypeOK
  <2> QED BY <1>5, <2>1, <2>2 DEF tcp_close
<1>6. ASSUME NEW p \in Pcbs, tcp_abort(p) PROVE TypeOK'
  BY <1>6, RmvType, ConstantPcbs DEF tcp_abort, TypeOK
<1>7. ASSUME NEW p \in Pcbs, tcp_setprio(p) PROVE TypeOK'
  <2>1. PICK prio \in Nat :
          pcb' = [pcb EXCEPT ![p] = [pcb[p] EXCEPT !.prio = prio]]
    BY <1>7, PriosAreNat DEF tcp_setprio, TypeOK
  <2>2. [pcb[p] EXCEPT !.prio = prio] \in Pcb
    BY ZenonT(40) DEF TypeOK, Pcb
  <2> QED BY <1>7, <2>1, <2>2 DEF tcp_setprio, TypeOK
<1>8. ASSUME NEW l \in LPcbs, tcp_close_listen(l) PROVE TypeOK'
  BY <1>8, RmvType, ConstantPcbs DEF tcp_close_listen, TypeOK
<1> QED BY <1>1, <1>2, <1>3, <1>4, <1>5, <1>6, <1>7, <1>8

\* Every segment keeps the types.
LEMMA InputType == TypeOK /\ tcp_input => TypeOK'
<1> SUFFICES ASSUME TypeOK, tcp_input PROVE TypeOK'
  OBVIOUS
<1>1. CASE tcp_input_active
  <2>1. PICK p \in Pcbs, seg \in Segment : tcp_process(p, seg)
    BY <1>1 DEF tcp_input_active
  <2> QED BY <1>1, <2>1, ProcessType DEF tcp_input_active, TypeOK
<1>2. CASE tcp_timewait_input
  <2>1. PICK p \in Pcbs : pcb' = [pcb EXCEPT ![p] = [pcb[p] EXCEPT !.age = 0]]
    BY <1>2 DEF tcp_timewait_input, TypeOK
  <2>2. [pcb[p] EXCEPT !.age = 0] \in Pcb
    BY Zeros, ZenonT(40) DEF TypeOK, Pcb
  <2> QED BY <1>2, <2>1, <2>2 DEF tcp_timewait_input, TypeOK
<1>3. CASE tcp_listen_input
  <2>1. PICK peer \in Peers, l \in LPcbs, p \in Pcbs, mem \in BOOLEAN :
          /\ KillEffects(p)
          /\ active' = IF mem THEN ToFront(active, p) ELSE TCP_RMV(active, p)
          /\ pcb' = [pcb EXCEPT ![p] =
                        IF mem THEN [Fresh EXCEPT !.state = "SYN_RCVD",
                                          !.local_ip = "HOST",
                                          !.local_port = lpcb[l].local_port,
                                          !.remote = peer]
                               ELSE Unused]
          /\ listen' = ToFront(listen, l)
    BY <1>3 DEF tcp_listen_input
  <2>2. [Fresh EXCEPT !.state = "SYN_RCVD", !.local_ip = "HOST",
                      !.local_port = lpcb[l].local_port, !.remote = peer]
          \in Pcb
    <3>1. /\ "SYN_RCVD" \in States /\ "HOST" \in Addrs
          /\ lpcb[l].local_port \in Nat
      BY DEF States, ActiveStates, Addrs, TypeOK, LPcb
    <3> QED BY <3>1, ConstantPcbs DEF Pcb
  <2>3. pcb' \in [Pcbs -> Pcb]
    BY <2>1, <2>2, ConstantPcbs DEF TypeOK
  <2> QED
    BY <1>3, <2>1, <2>3, RmvType, FrontType, ForgetType
       DEF tcp_listen_input, KillEffects, TypeOK
<1>4. CASE tcp_listen_ignores
  BY <1>4, FrontType DEF tcp_listen_ignores, TypeOK
<1> QED BY <1>1, <1>2, <1>3, <1>4 DEF tcp_input

\* Every step of the slow timer keeps the types.
LEMMA SlowTmrType == TypeOK /\ tcp_slowtmr => TypeOK'
<1> SUFFICES ASSUME TypeOK, tcp_slowtmr PROVE TypeOK'
  OBVIOUS
<1>1. CASE SlowTmrStart
  BY <1>1, AgedType DEF SlowTmrStart, TypeOK
<1>2. CASE SlowTmrRemove
  <2>1. active[walk.pos] \in Pcbs
    BY <1>2 DEF SlowTmrRemove, AtActive, TypeOK
  <2> QED BY <1>2, <2>1, RemovedType DEF SlowTmrRemove, TypeOK
<1>3. CASE SlowTmrKeep
  <2> DEFINE p == active[walk.pos]
  <2>1. p \in Pcbs /\ pcb[p] \in Pcb /\ pcb[p].nrtx \in 0..NrtxCap
    BY <1>3 DEF SlowTmrKeep, AtActive, TypeOK, Pcb
  <2>2. PICK n \in 0..NrtxCap :
          pcb' = [pcb EXCEPT ![p] = [pcb[p] EXCEPT !.nrtx = n]]
    BY <1>3, <2>1, CountRtxType DEF SlowTmrKeep, TypeOK
  <2>3. [pcb[p] EXCEPT !.nrtx = n] \in Pcb
    BY <2>1 DEF Pcb
  <2>4. pcb' \in [Pcbs -> Pcb]
    BY <2>2, <2>3 DEF TypeOK
  <2>5. walk' \in [list : {"none", "active", "tw"}, pos : Nat \ {0}]
    <3>1. walk' = [walk EXCEPT !.pos = @ + 1]
      BY <1>3 DEF SlowTmrKeep
    <3>2. walk \in [list : {"none", "active", "tw"}, pos : Nat \ {0}]
      BY DEF TypeOK
    <3> QED BY <3>1, <3>2
  <2> QED BY <1>3, <2>4, <2>5 DEF SlowTmrKeep, TypeOK
<1>4. CASE SlowTmrNextList
  BY <1>4 DEF SlowTmrNextList, TypeOK
<1>5. CASE SlowTmrTw
  <2> DEFINE p == tw[walk.pos]
  <2>1. p \in Pcbs
    BY <1>5 DEF SlowTmrTw, AtTw, TypeOK
  <2>2. CASE /\ tw' = TCP_RMV(tw, p) /\ pcb' = [pcb EXCEPT ![p] = Unused]
             /\ Forget(p, FALSE) /\ UNCHANGED walk
    <3>1. stale' \subseteq Pcbs /\ tw' \in Seq(Pcbs) /\ pcb' \in [Pcbs -> Pcb]
      BY <2>1, <2>2, ForgetType, RmvType, ConstantPcbs DEF TypeOK
    <3> QED BY <1>5, <2>2, <3>1 DEF SlowTmrTw, TypeOK
  <2>3. CASE /\ walk' = [walk EXCEPT !.pos = @ + 1]
             /\ UNCHANGED <<tw, pcb, stale>>
    <3>1. walk' \in [list : {"none", "active", "tw"}, pos : Nat \ {0}]
      BY <2>3 DEF TypeOK
    <3> QED BY <1>5, <2>3, <3>1 DEF SlowTmrTw, TypeOK
  <2> QED BY <1>5, <2>2, <2>3 DEF SlowTmrTw
<1>6. CASE SlowTmrEnd
  BY <1>6 DEF SlowTmrEnd, Idle, TypeOK
<1> QED BY <1>1, <1>2, <1>3, <1>4, <1>5, <1>6 DEF tcp_slowtmr

\* TypeOK holds for every pool, list and timer setting: no call, segment or
\* timer step links a slot of one pool into a list of the other.
THEOREM TypeCorrect == Spec => []TypeOK
<1>1. Init => TypeOK
  BY ConstantPcbs DEF Init, TypeOK, Idle
<1>2. TypeOK /\ [Next]_vars => TypeOK'
  <2> SUFFICES ASSUME TypeOK, [Next]_vars PROVE TypeOK'
    OBVIOUS
  <2>1. CASE UNCHANGED vars
    BY <2>1 DEF vars, TypeOK
  <2>2. CASE Next
    BY <2>2, CallType, InputType, SlowTmrType DEF Next
  <2> QED BY <2>1, <2>2
<1> QED BY <1>1, <1>2, PTL DEF Spec

-----------------------------------------------------------------------------
(* The lists are exact.  ListsExact is inductive together with TypeOK once  *)
(* the application does not abort unconnected pcbs.                         *)

\* What the part of ListsExact about the pcbs says of one pcb.
Listed(p) ==
  /\ On(active, p) <=> (pcb[p].state \in ActiveStates)
  /\ On(tw, p) <=> (pcb[p].state = "TIME_WAIT")
  /\ On(bound, p) => pcb[p].state = "CLOSED"

\* The step changes the state of no pcb but p.
OnlyChanges(p) == \A q \in Pcbs \ {p} : pcb'[q] = pcb[q]

\* The pcb lists after the step are lists without cycles that differ from
\* those before it at most in p.
OnlyMoves(p) ==
  /\ NoDup(bound') /\ NoDup(active') /\ NoDup(tw')
  /\ \A q \in Pcbs \ {p} : /\ (On(active', q) <=> On(active, q))
                            /\ (On(tw', q) <=> On(tw, q))
                            /\ (On(bound', q) <=> On(bound, q))

LEMMA ListsStep ==
  ASSUME ListsExact, NEW p \in Pcbs, OnlyChanges(p), OnlyMoves(p),
         Listed(p)', UNCHANGED <<lpcb, listen>>
  PROVE  ListsExact'
<1>1. ASSUME NEW q \in Pcbs PROVE Listed(q)'
  <2>1. CASE q = p
    BY <2>1
  <2>2. CASE q # p
    BY <2>2 DEF ListsExact, OnlyChanges, OnlyMoves, Listed
  <2> QED BY <2>1, <2>2
<1>2. (NoDup(bound) /\ NoDup(active) /\ NoDup(tw) /\ NoDup(listen))'
  BY DEF ListsExact, OnlyMoves
<1>3. (\A l \in LPcbs : On(listen, l) <=> lpcb[l].used)'
  BY DEF ListsExact
<1> QED BY <1>1, <1>2, <1>3 DEF ListsExact, Listed

\* In which state tcp_alloc() may find the slot it returns.
LEMMA AllocState ==
  ASSUME TypeOK, ListsExact, NEW p \in Pcbs, NEW prio, tcp_alloc(prio, p)
  PROVE  pcb[p].state \in ActiveStates \cup {"FREE", "TIME_WAIT"}
<1>1. CASE pcb[p].state = "FREE"
  BY <1>1
<1>2. CASE tcp_kill_timewait(p)
  BY <1>2 DEF tcp_kill_timewait, ListsExact, On
<1>3. CASE tcp_kill_prio(prio, p)
  BY <1>3 DEF tcp_kill_prio, ListsExact
<1> QED BY <1>1, <1>2, <1>3 DEF tcp_alloc

\* The facts about the list macros, for the three lists of pcbs.
LEMMA PcbListFacts ==
  ASSUME TypeOK, ListsExact, NEW p \in Pcbs
  PROVE  /\ \A s \in {bound, active, tw} :
              /\ NoDup(s) /\ s \in Seq(Pcbs)
              /\ NoDup(TCP_RMV(s, p)) /\ NoDup(ToFront(s, p))
              /\ ~On(s, p) => NoDup(TCP_REG(s, p))
              /\ \A q : /\ On(TCP_RMV(s, p), q) <=> (q # p /\ On(s, q))
                        /\ On(ToFront(s, p), q) <=> (q = p \/ On(s, q))
                        /\ On(TCP_REG(s, p), q) <=> (q = p \/ On(s, q))
         /\ Listed(p)
<1>1. \A s \in {bound, active, tw} : NoDup(s) /\ s \in Seq(Pcbs)
  BY DEF TypeOK, ListsExact
<1>2. ASSUME NEW s \in {bound, active, tw}
      PROVE  /\ NoDup(TCP_RMV(s, p)) /\ NoDup(ToFront(s, p))
             /\ ~On(s, p) => NoDup(TCP_REG(s, p))
             /\ \A q : /\ On(TCP_RMV(s, p), q) <=> (q # p /\ On(s, q))
                       /\ On(ToFront(s, p), q) <=> (q = p \/ On(s, q))
                       /\ On(TCP_REG(s, p), q) <=> (q = p \/ On(s, q))
  <2>1. NoDup(s) /\ s \in Seq(Pcbs)
    BY <1>1, <1>2
  <2>2. /\ NoDup(TCP_RMV(s, p))
        /\ \A q : On(TCP_RMV(s, p), q) <=> (q # p /\ On(s, q))
    BY <2>1, RmvOn
  <2>3. /\ NoDup(ToFront(s, p))
        /\ \A q : On(ToFront(s, p), q) <=> (q = p \/ On(s, q))
    BY <2>1, FrontOn
  <2>4. ~On(s, p) => NoDup(TCP_REG(s, p))
    BY <2>1, RegNoDup
  <2>5. \A q : On(TCP_REG(s, p), q) <=> (q = p \/ On(s, q))
    BY <2>1, RegOn
  <2> QED BY <2>2, <2>3, <2>4, <2>5
<1>3. Listed(p)
  BY DEF ListsExact, Listed
<1> QED BY <1>1, <1>2, <1>3

\* Replacing the record of one pcb leaves the others alone.
LEMMA OnePcb ==
  ASSUME TypeOK, NEW p \in Pcbs, NEW c, pcb' = [pcb EXCEPT ![p] = c]
  PROVE  OnlyChanges(p) /\ pcb'[p] = c
BY DEF TypeOK, OnlyChanges

\* The four ways a segment or the timer moves a pcb.
LEMMA StaysLists ==
  ASSUME TypeOK, ListsExact, NEW p \in Pcbs, On(active, p),
         active' \in {active, ToFront(active, p)}, UNCHANGED <<tw, bound>>,
         UNCHANGED <<lpcb, listen>>,
         OnlyChanges(p), pcb'[p].state \in ActiveStates
  PROVE  ListsExact'
<1>0. /\ NoDup(active') /\ NoDup(tw') /\ NoDup(bound')
      /\ \A q : On(active', q) <=> On(active, q)
  <2>1. CASE active' = active
    BY <2>1, PcbListFacts
  <2>2. CASE active' = ToFront(active, p)
    BY <2>2, PcbListFacts
  <2> QED BY <2>1, <2>2
<1>1. OnlyMoves(p)
  BY <1>0 DEF OnlyMoves
<1>2. Listed(p)'
  BY PcbListFacts, <1>0 DEF Listed, ActiveStates
<1> QED BY <1>1, <1>2, ListsStep

LEMMA ToTimeWaitLists ==
  ASSUME TypeOK, ListsExact, NEW p \in Pcbs, On(active, p), ToTimeWait(p),
         UNCHANGED <<bound, lpcb, listen>>
  PROVE  ListsExact'
<1>1. ~On(tw, p) /\ ~On(bound, p)
  BY PcbListFacts DEF Listed, ActiveStates
<1>a. /\ NoDup(active') /\ \A q : On(active', q) <=> (q # p /\ On(active, q))
  BY PcbListFacts DEF ToTimeWait
<1>b. /\ NoDup(tw') /\ \A q : On(tw', q) <=> (q = p \/ On(tw, q))
  BY <1>1, PcbListFacts DEF ToTimeWait
<1>c. NoDup(bound')
  BY PcbListFacts
<1>2. OnlyMoves(p)
  BY <1>a, <1>b, <1>c DEF OnlyMoves
<1>3. OnlyChanges(p) /\ pcb'[p].state = "TIME_WAIT"
  BY DEF OnlyChanges, ToTimeWait, TypeOK, Pcb
<1>4. Listed(p)'
  BY <1>1, <1>3, PcbListFacts DEF Listed, ActiveStates, ToTimeWait
<1> QED BY <1>2, <1>3, <1>4, ListsStep

\* A pcb taken off all lists may be freed.
LEMMA FreedLists ==
  ASSUME TypeOK, ListsExact, NEW p \in Pcbs,
         pcb' = [pcb EXCEPT ![p] = Unused], UNCHANGED <<lpcb, listen>>,
         active' \in {active, TCP_RMV(active, p)},
         tw' \in {tw, TCP_RMV(tw, p)},
         bound' \in {bound, TCP_RMV(bound, p)},
         ~On(active', p), ~On(tw', p), ~On(bound', p)
  PROVE  ListsExact'
<1>0. \A s \in {bound, active, tw} :
        \A t \in {s, TCP_RMV(s, p)} :
          NoDup(t) /\ \A q \in Pcbs \ {p} : On(t, q) <=> On(s, q)
  BY PcbListFacts
<1>1. OnlyMoves(p)
  BY <1>0 DEF OnlyMoves
<1>2. OnlyChanges(p) /\ pcb'[p] = Unused
  BY OnePcb
<1>3. Listed(p)'
  BY <1>2 DEF Listed, ActiveStates, Unused
<1> QED BY <1>1, <1>2, <1>3, ListsStep

LEMMA RemovedLists ==
  ASSUME TypeOK, ListsExact, NEW p \in Pcbs, On(active, p),
         NEW errf, Removed(p, errf), UNCHANGED <<bound, lpcb, listen>>
  PROVE  ListsExact'
<1>1. ~On(tw, p) /\ ~On(bound, p) /\ ~On(TCP_RMV(active, p), p)
  BY PcbListFacts DEF Listed, ActiveStates
<1> QED BY <1>1, FreedLists DEF Removed

LEMMA ProcessLists ==
  ASSUME TypeOK, ListsExact, NEW p \in Pcbs, NEW seg \in Segment,
         On(active, p), tcp_process(p, seg), UNCHANGED <<bound, lpcb, listen>>
  PROVE  ListsExact'
<1> USE DEF Processes
<1>0. pcb[p].state \in ActiveStates /\ pcb[p] \in Pcb
  BY PcbListFacts DEF Listed, TypeOK
<1>a. ASSUME NEW st \in ActiveStates, Stays(p, seg, st) PROVE ListsExact'
  <2>1. OnlyChanges(p) /\ pcb'[p] = [AckRtx(pcb[p], seg) EXCEPT !.state = st,
                                                                !.age = 0]
    BY <1>a, OnePcb DEF Stays
  <2>2. AckRtx(pcb[p], seg) \in Pcb
    BY <1>0, AckRtxType
  <2>3. pcb'[p].state = st
    BY <2>1, <2>2 DEF Pcb
  <2> QED BY <1>a, <2>1, <2>3, StaysLists DEF Stays
<1>b. ASSUME active' = ToFront(active, p), UNCHANGED <<pcb, tw>>
      PROVE  ListsExact'
  BY <1>0, <1>b, StaysLists DEF OnlyChanges
<1>1. CASE ProcessRst(p, seg)
  <2>1. CASE Removed(p, TRUE)
    BY <2>1, RemovedLists
  <2>2. CASE active' = ToFront(active, p) /\ UNCHANGED <<pcb, tw, stale>>
    BY <1>b, <2>2
  <2> QED BY <1>1, <2>1, <2>2 DEF ProcessRst
<1>2. CASE ProcessStraySyn(p, seg)
  BY <1>2, <1>b DEF ProcessStraySyn
<1>3. CASE ProcessSynSent(p, seg)
  <2>1. OnlyChanges(p)
    BY <1>3 DEF ProcessSynSent, OnlyChanges, TypeOK
  <2>2. pcb'[p].state \in {"ESTABLISHED", pcb[p].state}
    BY <1>3, <1>0 DEF ProcessSynSent, TypeOK, Pcb
  <2>3. pcb'[p].state \in ActiveStates
    BY <1>0, <2>2 DEF ActiveStates
  <2> QED BY <1>3, <2>1, <2>3, StaysLists DEF ProcessSynSent
<1>4. CASE ProcessSynRcvd(p, seg)
  <2>1. CASE Accepted(p, seg)
    <3>1. PICK st \in {"CLOSE_WAIT", "ESTABLISHED"} :
            pcb' = [pcb EXCEPT ![p] = [AckRtx(pcb[p], seg) EXCEPT
                      !.state = st, !.age = 0, !.app = TRUE]]
      BY <2>1 DEF Accepted
    <3>2. AckRtx(pcb[p], seg) \in Pcb
      BY <1>0, AckRtxType
    <3>a. OnlyChanges(p) /\ pcb'[p] = [AckRtx(pcb[p], seg) EXCEPT
                                        !.state = st, !.age = 0, !.app = TRUE]
      BY <3>1, OnePcb
    <3>3. OnlyChanges(p) /\ pcb'[p].state = st
      BY <3>a, <3>2 DEF Pcb
    <3>4. pcb'[p].state \in ActiveStates
      BY <3>3 DEF ActiveStates
    <3> QED BY <2>1, <3>3, <3>4, StaysLists DEF Accepted
  <2>2. CASE Refused(p, seg)
    BY <2>2, RemovedLists DEF Refused
  <2>3. CASE SynRcvdOther(p, seg)
    <3>1. OnlyChanges(p) /\ pcb'[p].state = pcb[p].state
      BY <1>0, <2>3 DEF SynRcvdOther, OnlyChanges, TypeOK, Pcb
    <3> QED BY <1>0, <2>3, <3>1, StaysLists DEF SynRcvdOther
  <2> QED BY <1>4, <2>1, <2>2, <2>3 DEF ProcessSynRcvd
<1>5. CASE ProcessEstablished(p, seg)
  BY <1>0, <1>5, <1>a DEF ProcessEstablished, ActiveStates
<1>6. CASE ProcessFinWait1(p, seg)
  BY <1>6, <1>a, ToTimeWaitLists DEF ProcessFinWait1, ActiveStates
<1>7. CASE ProcessFinWait2(p, seg)
  BY <1>7, <1>a, ToTimeWaitLists DEF ProcessFinWait2, ActiveStates
<1>8. CASE ProcessClosing(p, seg)
  BY <1>8, <1>a, ToTimeWaitLists DEF ProcessClosing, ActiveStates
<1>9. CASE ProcessLastAck(p, seg)
  BY <1>9, <1>a, RemovedLists DEF ProcessLastAck, ActiveStates
<1> QED
  BY <1>1, <1>2, <1>3, <1>4, <1>5, <1>6, <1>7, <1>8, <1>9 DEF tcp_process

\* The calls of the raw API.
LEMMA CallLists ==
  ASSUME AbortUnconnected = FALSE, TypeOK, ListsExact,
         \/ tcp_new
         \/ \E p \in Pcbs : \/ tcp_bind(p) \/ tcp_listen(p) \/ tcp_connect(p)
                            \/ tcp_close(p) \/ tcp_abort(p) \/ tcp_setprio(p)
         \/ \E l \in LPcbs : tcp_close_listen(l)
  PROVE  ListsExact'
<1>1. CASE tcp_new
  <2>1. PICK p \in Pcbs :
          /\ tcp_alloc(TCP_PRIO_NORMAL, p)
          /\ tw' = TCP_RMV(tw, p)
          /\ active' = TCP_RMV(active, p)
          /\ pcb' = [pcb EXCEPT ![p] = [Fresh EXCEPT !.app = TRUE]]
    BY <1>1 DEF tcp_new, KillEffects
  <2>2. pcb[p].state # "CLOSED" /\ ~On(bound, p)
    BY <2>1, AllocState, PcbListFacts DEF ActiveStates, Listed
  <2>3. OnlyChanges(p) /\ pcb'[p] = [Fresh EXCEPT !.app = TRUE]
    BY <2>1, OnePcb
  <2>4. pcb'[p].state = "CLOSED"
    BY <2>3 DEF Fresh, Unused
  <2>5. /\ NoDup(active') /\ \A q : On(active', q) <=> (q # p /\ On(active, q))
        /\ NoDup(tw') /\ \A q : On(tw', q) <=> (q # p /\ On(tw, q))
        /\ NoDup(bound')
    BY <1>1, <2>1, PcbListFacts DEF tcp_new
  <2>6. OnlyMoves(p) /\ Listed(p)'
    BY <1>1, <2>2, <2>4, <2>5 DEF tcp_new, OnlyMoves, Listed, ActiveStates
  <2> QED BY <1>1, <2>3, <2>6, ListsStep DEF tcp_new
<1>2. ASSUME NEW p \in Pcbs, tcp_bind(p) PROVE ListsExact'
  <2>1. OnlyChanges(p) /\ pcb'[p].state = pcb[p].state
    BY <1>2 DEF tcp_bind, OnlyChanges, TypeOK, Pcb
  <2>2. /\ NoDup(active') /\ NoDup(tw') /\ NoDup(bound')
        /\ \A q : On(bound', q) <=> (q = p \/ On(bound, q))
    BY <1>2, PcbListFacts DEF tcp_bind
  <2>3. UNCHANGED <<lpcb, active, tw, listen>> /\ pcb[p].state = "CLOSED"
    BY <1>2 DEF tcp_bind
  <2>4. OnlyMoves(p) /\ Listed(p)'
    BY <2>1, <2>2, <2>3, PcbListFacts DEF OnlyMoves, Listed
  <2> QED BY <2>1, <2>3, <2>4, ListsStep
<1>3. ASSUME NEW p \in Pcbs, tcp_listen(p) PROVE ListsExact'
  <2>1. PICK l \in LPcbs :
          /\ ~lpcb[l].used
          /\ lpcb' = [lpcb EXCEPT ![l] =
                        [used |-> TRUE, local_ip |-> pcb[p].local_ip,
                         local_port |-> pcb[p].local_port]]
          /\ listen' = TCP_REG(listen, l)
    BY <1>3 DEF tcp_listen
  <2>2. /\ OnlyChanges(p) /\ pcb'[p].state = "FREE"
        /\ bound' = TCP_RMV(bound, p) /\ UNCHANGED <<active, tw>>
        /\ pcb[p].state = "CLOSED"
    <3>1. OnlyChanges(p) /\ pcb'[p] = Unused
      BY <1>3, OnePcb DEF tcp_listen
    <3> QED BY <1>3, <3>1 DEF tcp_listen, Unused
  <2>3. /\ NoDup(active') /\ NoDup(tw') /\ NoDup(bound')
        /\ \A q : On(bound', q) <=> (q # p /\ On(bound, q))
    BY <2>2, PcbListFacts
  <2>4. ASSUME NEW q \in Pcbs PROVE Listed(q)'
    <3>1. CASE q = p
      BY <3>1, <2>2, <2>3, PcbListFacts DEF Listed, ActiveStates
    <3>2. CASE q # p
      BY <3>2, <2>2, <2>3 DEF ListsExact, OnlyChanges, Listed
    <3> QED BY <3>1, <3>2
  <2>5. ~On(listen, l) /\ NoDup(listen) /\ listen \in Seq(LPcbs)
    BY <2>1 DEF ListsExact, TypeOK
  <2>6. NoDup(listen') /\ \A q : On(listen', q) <=> (q = l \/ On(listen, q))
    BY <2>1, <2>5, RegNoDup, RegOn
  <2>7. (\A m \in LPcbs : On(listen, m) <=> lpcb[m].used)'
    BY <2>1, <2>6 DEF ListsExact, TypeOK
  <2> QED BY <2>3, <2>4, <2>6, <2>7 DEF ListsExact, Listed
<1>4. ASSUME NEW p \in Pcbs, tcp_connect(p) PROVE ListsExact'
  <2>1. OnlyChanges(p) /\ pcb'[p].state = "SYN_SENT"
    <3>1. PICK peer \in Peers, port \in Nat, ip \in Addrs,
               sy \in {"none", "idle", "running"} :
            ConnectsTo(p, peer, port, ip, sy)
      BY <1>4, ConnectRecord
    <3>2. pcb[p] \in Pcb
      BY DEF TypeOK
    <3>3. OnlyChanges(p) /\ pcb'[p] = [pcb[p] EXCEPT !.state = "SYN_SENT",
                                !.remote = peer, !.local_port = port,
                                !.local_ip = ip, !.syn = sy]
      BY <3>1, OnePcb DEF ConnectsTo
    <3> QED BY <3>2, <3>3 DEF Pcb
  <2>2. /\ bound' = TCP_RMV(bound, p) /\ active' = TCP_REG(active, p)
        /\ UNCHANGED <<lpcb, tw, listen>> /\ pcb[p].state = "CLOSED"
    BY <1>4 DEF tcp_connect
  <2>3. ~On(active, p) /\ ~On(tw, p)
    BY <2>2, PcbListFacts DEF Listed, ActiveStates
  <2>4. /\ NoDup(active') /\ NoDup(tw') /\ NoDup(bound')
        /\ \A q : On(bound', q) <=> (q # p /\ On(bound, q))
        /\ \A q : On(active', q) <=> (q = p \/ On(active, q))
    BY <2>2, <2>3, PcbListFacts
  <2>5. OnlyMoves(p) /\ Listed(p)'
    BY <2>1, <2>2, <2>3, <2>4 DEF OnlyMoves, Listed, ActiveStates
  <2> QED BY <2>1, <2>2, <2>5, ListsStep
<1>5. ASSUME NEW p \in Pcbs, tcp_close(p) PROVE ListsExact'
  <2>1. CASE CloseFrees(p)
    <3>1. /\ ~On(TCP_RMV(active, p), p) /\ ~On(TCP_RMV(bound, p), p)
          /\ Listed(p)
      BY PcbListFacts
    <3>2. CASE pcb[p].state = "CLOSED"
      BY <1>5, <2>1, <3>1, <3>2, FreedLists
         DEF CloseFrees, tcp_close, Listed, ActiveStates
    <3>3. CASE pcb[p].state = "SYN_SENT"
      BY <1>5, <2>1, <3>1, <3>3, FreedLists
         DEF CloseFrees, tcp_close, Listed, ActiveStates
    <3> QED BY <2>1, <3>2, <3>3 DEF CloseFrees
  <2>2. CASE CloseSendsFin(p)
    <3>1. OnlyChanges(p) /\ pcb'[p].state \in {"LAST_ACK", "FIN_WAIT_1"}
      BY <2>2 DEF CloseSendsFin, OnlyChanges, TypeOK, Pcb
    <3>2. On(active, p) /\ pcb'[p].state \in ActiveStates
      BY <2>2, <3>1, PcbListFacts DEF CloseSendsFin, Listed, ActiveStates
    <3> QED
      BY <1>5, <2>2, <3>1, <3>2, StaysLists DEF tcp_close, CloseSendsFin
  <2> QED BY <1>5, <2>1, <2>2 DEF tcp_close
<1>6. ASSUME NEW p \in Pcbs, tcp_abort(p) PROVE ListsExact'
  <2>1. /\ ~On(TCP_RMV(active, p), p) /\ ~On(TCP_RMV(tw, p), p)
        /\ ~On(bound, p)
    BY <1>6, PcbListFacts DEF tcp_abort, Listed
  <2> QED BY <1>6, <2>1, FreedLists DEF tcp_abort
<1>7. ASSUME NEW p \in Pcbs, tcp_setprio(p) PROVE ListsExact'
  <2>1. \A q \in Pcbs : pcb'[q].state = pcb[q].state
    BY <1>7 DEF tcp_setprio, TypeOK, Pcb
  <2> QED BY <1>7, <2>1 DEF tcp_setprio, ListsExact
<1>8. ASSUME NEW l \in LPcbs, tcp_close_listen(l) PROVE ListsExact'
  <2>1. NoDup(listen) /\ listen \in Seq(LPcbs)
    BY DEF ListsExact, TypeOK
  <2>2. NoDup(listen') /\ \A q : On(listen', q) <=> (q # l /\ On(listen, q))
    BY <1>8, <2>1, RmvOn DEF tcp_close_listen
  <2>3. (\A m \in LPcbs : On(listen, m) <=> lpcb[m].used)'
    BY <1>8, <2>2 DEF tcp_close_listen, ListsExact, TypeOK, LUnused
  <2> QED BY <1>8, <2>2, <2>3 DEF tcp_close_listen, ListsExact
<1> QED BY <1>1, <1>2, <1>3, <1>4, <1>5, <1>6, <1>7, <1>8

\* The segments.
LEMMA InputLists ==
  ASSUME TypeOK, ListsExact, tcp_input
  PROVE  ListsExact'
<1>0. ASSUME NEW l \in LPcbs, listen' = ToFront(listen, l),
             UNCHANGED lpcb, On(listen, l)
      PROVE  /\ NoDup(listen')
             /\ (\A m \in LPcbs : On(listen, m) <=> lpcb[m].used)'
  <2>1. NoDup(listen) /\ listen \in Seq(LPcbs)
    BY DEF ListsExact, TypeOK
  <2>2. NoDup(listen') /\ \A m : On(listen', m) <=> (m = l \/ On(listen, m))
    BY <1>0, <2>1, FrontOn
  <2> QED BY <1>0, <2>2 DEF ListsExact
<1>1. CASE tcp_input_active
  <2>1. PICK p \in Pcbs, seg \in Segment : On(active, p) /\ tcp_process(p, seg)
    BY <1>1 DEF tcp_input_active, FirstMatch, On
  <2> QED BY <1>1, <2>1, ProcessLists DEF tcp_input_active
<1>2. CASE tcp_timewait_input
  <2>1. \A q \in Pcbs : pcb'[q].state = pcb[q].state
    BY <1>2 DEF tcp_timewait_input, TypeOK, Pcb
  <2> QED BY <1>2, <2>1 DEF tcp_timewait_input, ListsExact
<1>3. CASE tcp_listen_input
  <2>1. PICK peer \in Peers, l \in LPcbs, p \in Pcbs, mem \in BOOLEAN :
          /\ ListenMatch(l, lpcb[l].local_port)
          /\ tcp_alloc(LISTEN_PRIO, p)
          /\ tw' = TCP_RMV(tw, p)
          /\ active' = IF mem THEN ToFront(active, p) ELSE TCP_RMV(active, p)
          /\ pcb' = [pcb EXCEPT ![p] =
                        IF mem THEN [Fresh EXCEPT !.state = "SYN_RCVD",
                                          !.local_ip = "HOST",
                                          !.local_port = lpcb[l].local_port,
                                          !.remote = peer]
                               ELSE Unused]
          /\ listen' = ToFront(listen, l)
    BY <1>3 DEF tcp_listen_input, KillEffects
  <2>2. /\ NoDup(listen')
        /\ (\A m \in LPcbs : On(listen, m) <=> lpcb[m].used)'
    <3>1. On(listen, l)
      BY <2>1 DEF ListenMatch, On
    <3>2. UNCHANGED lpcb
      BY <1>3 DEF tcp_listen_input
    <3> QED BY <1>0, <2>1, <3>1, <3>2
  <2>3. UNCHANGED bound /\ ~On(bound, p)
    BY <1>3, <2>1, AllocState, PcbListFacts
       DEF tcp_listen_input, ActiveStates, Listed
  <2>4. OnlyChanges(p) /\ pcb'[p].state = IF mem THEN "SYN_RCVD" ELSE "FREE"
    <3>1. OnlyChanges(p) /\ pcb'[p] =
                        IF mem THEN [Fresh EXCEPT !.state = "SYN_RCVD",
                                          !.local_ip = "HOST",
                                          !.local_port = lpcb[l].local_port,
                                          !.remote = peer]
                               ELSE Unused
      BY <2>1, OnePcb
    <3> QED BY <3>1 DEF Fresh, Unused
  <2>5. /\ NoDup(tw') /\ \A q : On(tw', q) <=> (q # p /\ On(tw, q))
        /\ NoDup(bound')
    BY <2>1, <2>3, PcbListFacts
  <2>6. /\ NoDup(active')
        /\ \A q : On(active', q) <=> IF q = p THEN mem ELSE On(active, q)
    <3>1. CASE mem
      BY <2>1, <3>1, PcbListFacts
    <3>2. CASE ~mem
      BY <2>1, <3>2, PcbListFacts
    <3> QED BY <3>1, <3>2
  <2>7. ASSUME NEW q \in Pcbs PROVE Listed(q)'
    <3>1. CASE q = p
      BY <3>1, <2>3, <2>4, <2>5, <2>6 DEF Listed, ActiveStates
    <3>2. CASE q # p
      BY <3>2, <2>3, <2>4, <2>5, <2>6 DEF ListsExact, OnlyChanges, Listed
    <3> QED BY <3>1, <3>2
  <2> QED BY <2>2, <2>5, <2>6, <2>7 DEF ListsExact, Listed
<1>4. CASE tcp_listen_ignores
  <2>1. PICK l \in LPcbs : listen' = ToFront(listen, l) /\ On(listen, l)
    BY <1>4 DEF tcp_listen_ignores, ListenMatch, On
  <2>2. UNCHANGED <<pcb, lpcb, bound, active, tw>>
    BY <1>4 DEF tcp_listen_ignores
  <2> QED BY <1>0, <2>1, <2>2 DEF ListsExact
<1> QED BY <1>1, <1>2, <1>3, <1>4 DEF tcp_input

\* The slow timer, which unlinks the pcb it is looking at.
LEMMA SlowTmrLists ==
  ASSUME TypeOK, ListsExact, tcp_slowtmr
  PROVE  ListsExact'
<1>1. CASE SlowTmrStart
  <2>1. \A q \in Pcbs : pcb'[q].state = pcb[q].state
    BY <1>1, AgedType DEF SlowTmrStart, TypeOK
  <2> QED BY <1>1, <2>1 DEF SlowTmrStart, ListsExact
<1>2. CASE SlowTmrRemove
  <2>1. active[walk.pos] \in Pcbs /\ On(active, active[walk.pos])
    BY <1>2 DEF SlowTmrRemove, AtActive, TypeOK, On
  <2> QED BY <1>2, <2>1, RemovedLists DEF SlowTmrRemove
<1>3. CASE SlowTmrKeep
  <2>1. \A q \in Pcbs : pcb'[q].state = pcb[q].state
    <3>1. PICK n : pcb' = [pcb EXCEPT ![active[walk.pos]].nrtx = n]
      BY <1>3 DEF SlowTmrKeep
    <3> QED BY <3>1 DEF TypeOK, Pcb
  <2> QED BY <1>3, <2>1 DEF SlowTmrKeep, ListsExact
<1>4. CASE SlowTmrNextList
  BY <1>4 DEF SlowTmrNextList, ListsExact
<1>5. CASE SlowTmrTw
  <2> DEFINE p == tw[walk.pos]
  <2>1. p \in Pcbs /\ On(tw, p)
    BY <1>5 DEF SlowTmrTw, AtTw, TypeOK, On
  <2>2. CASE tw' = TCP_RMV(tw, p) /\ pcb' = [pcb EXCEPT ![p] = Unused]
    <3>1. ~On(active, p) /\ ~On(bound, p) /\ ~On(TCP_RMV(tw, p), p)
      BY <2>1, PcbListFacts DEF Listed, ActiveStates
    <3> QED BY <1>5, <2>1, <2>2, <3>1, FreedLists DEF SlowTmrTw
  <2>3. CASE UNCHANGED <<tw, pcb>>
    BY <1>5, <2>3 DEF SlowTmrTw, ListsExact
  <2> QED BY <1>5, <2>2, <2>3 DEF SlowTmrTw
<1>6. CASE SlowTmrEnd
  BY <1>6 DEF SlowTmrEnd, ListsExact
<1> QED BY <1>1, <1>2, <1>3, <1>4, <1>5, <1>6 DEF tcp_slowtmr

\* Whatever the calls, the segments and the timer do, a pcb is on the list its
\* state names, once, and no list reaches a freed slot.
THEOREM ListsAlwaysExact ==
  ASSUME AbortUnconnected = FALSE
  PROVE  Spec => []ListsExact
<1>1. Init => ListsExact
  BY DEF Init, ListsExact, NoDup, On, Unused, LUnused, ActiveStates
<1>2. TypeOK /\ ListsExact /\ [Next]_vars => ListsExact'
  <2> SUFFICES ASSUME TypeOK, ListsExact, [Next]_vars PROVE ListsExact'
    OBVIOUS
  <2>1. CASE UNCHANGED vars
    BY <2>1 DEF vars, ListsExact
  <2>2. CASE Next
    BY <2>2, CallLists, InputLists, SlowTmrLists DEF Next
  <2> QED BY <2>1, <2>2
<1> QED BY <1>1, <1>2, TypeCorrect, PTL DEF Spec

-----------------------------------------------------------------------------
(* No stale handle.  A pcb that is freed without its error callback is a   *)
(* LAST_ACK or a TIME_WAIT one; AppHolds says the application holds none   *)
(* of those, and is the strengthening that makes the property inductive.   *)

\* The two parts together.
Held == AppHolds /\ NoStaleHandle

\* A step that changes one pcb keeps Held when what the pcb becomes is fine.
LEMMA HeldStep ==
  ASSUME Held, NEW p \in Pcbs, OnlyChanges(p),
         pcb'[p].app => pcb'[p].state \in HeldStates, stale' = {}
  PROVE  Held'
BY DEF Held, AppHolds, NoStaleHandle, OnlyChanges

\* A slot may be given back silently when the application does not hold it,
\* and with the error callback in any case.
LEMMA ForgetHeld ==
  ASSUME ErrfSet = TRUE, Held, NEW p \in Pcbs, NEW errf \in BOOLEAN,
         Forget(p, errf), errf \/ pcb[p].state \notin HeldStates
  PROVE  stale' = {}
BY DEF Forget, Held, AppHolds, NoStaleHandle

LEMMA RemovedHeld ==
  ASSUME ErrfSet = TRUE, TypeOK, Held, NEW p \in Pcbs,
         NEW errf \in BOOLEAN, Removed(p, errf),
         errf \/ pcb[p].state \notin HeldStates
  PROVE  Held'
<1>1. OnlyChanges(p) /\ pcb'[p] = Unused
  BY OnePcb DEF Removed
<1>2. pcb'[p].app = FALSE
  BY <1>1 DEF Unused
<1>3. stale' = {}
  BY ForgetHeld DEF Removed
<1> QED BY <1>1, <1>2, <1>3, HeldStep

LEMMA StaysHeld ==
  ASSUME TypeOK, Held, NEW p \in Pcbs, NEW seg, NEW st, Stays(p, seg, st),
         pcb[p].state \in HeldStates => st \in HeldStates
  PROVE  Held'
<1>1. /\ OnlyChanges(p)
      /\ pcb'[p] = [AckRtx(pcb[p], seg) EXCEPT !.state = st, !.age = 0]
  BY OnePcb DEF Stays
<1>2. AckRtx(pcb[p], seg) \in Pcb /\ AckRtx(pcb[p], seg).app = pcb[p].app
  BY AckRtxType DEF TypeOK
<1>3. pcb'[p].app = pcb[p].app /\ pcb'[p].state = st
  BY <1>1, <1>2 DEF Pcb
<1>4. stale' = {}
  BY DEF Stays, Held, NoStaleHandle
<1> QED BY <1>1, <1>3, <1>4, HeldStep DEF Held, AppHolds

LEMMA ToTimeWaitHeld ==
  ASSUME TypeOK, Held, NEW p \in Pcbs, ToTimeWait(p),
         pcb[p].state \notin HeldStates
  PROVE  Held'
<1>1. pcb' = [pcb EXCEPT ![p] = [pcb[p] EXCEPT !.state = "TIME_WAIT",
                                               !.age = 0]]
  BY DEF ToTimeWait, TypeOK
<1>2. /\ OnlyChanges(p)
      /\ pcb'[p] = [pcb[p] EXCEPT !.state = "TIME_WAIT", !.age = 0]
  BY <1>1, OnePcb
<1>3. pcb'[p].app = pcb[p].app
  BY <1>2 DEF TypeOK, Pcb
<1>4. stale' = {}
  BY DEF ToTimeWait, Held, NoStaleHandle
<1> QED BY <1>2, <1>3, <1>4, HeldStep DEF Held, AppHolds

LEMMA ProcessHeld ==
  ASSUME ErrfSet = TRUE, TypeOK, Held, NEW p \in Pcbs, NEW seg \in Segment,
         tcp_process(p, seg)
  PROVE  Held'
<1> USE DEF Processes
<1>a. pcb[p] \in Pcb /\ AckRtx(pcb[p], seg) \in Pcb
  BY AckRtxType DEF TypeOK
<1>1. CASE ProcessRst(p, seg)
  <2>1. CASE Removed(p, TRUE)
    BY <2>1, RemovedHeld
  <2>2. CASE UNCHANGED <<pcb, tw, stale>>
    BY <2>2 DEF Held, AppHolds, NoStaleHandle
  <2> QED BY <1>1, <2>1, <2>2 DEF ProcessRst
<1>2. CASE ProcessStraySyn(p, seg)
  BY <1>2 DEF ProcessStraySyn, Held, AppHolds, NoStaleHandle
<1>3. CASE ProcessSynSent(p, seg)
  <2>1. PICK st \in {"ESTABLISHED", "SYN_SENT"}, sy \in {"none", pcb[p].syn} :
          pcb' = [pcb EXCEPT ![p] = [pcb[p] EXCEPT !.age = 0, !.state = st,
                                                   !.syn = sy]]
    BY <1>3 DEF ProcessSynSent, TypeOK
  <2>2. OnlyChanges(p) /\ pcb'[p] = [pcb[p] EXCEPT !.age = 0, !.state = st,
                                                   !.syn = sy]
    BY <2>1, OnePcb
  <2>3. pcb'[p].state = st /\ st \in HeldStates
    BY <1>a, <2>2 DEF Pcb, HeldStates
  <2>4. stale' = {}
    BY <1>3 DEF ProcessSynSent, Held, NoStaleHandle
  <2> QED BY <2>2, <2>3, <2>4, HeldStep
<1>4. CASE ProcessSynRcvd(p, seg)
  <2>1. CASE Accepted(p, seg)
    <3>1. PICK st \in {"CLOSE_WAIT", "ESTABLISHED"} :
            pcb' = [pcb EXCEPT ![p] = [AckRtx(pcb[p], seg) EXCEPT
                      !.state = st, !.age = 0, !.app = TRUE]]
      BY <2>1 DEF Accepted
    <3>2. OnlyChanges(p) /\ pcb'[p] = [AckRtx(pcb[p], seg) EXCEPT
                      !.state = st, !.age = 0, !.app = TRUE]
      BY <3>1, OnePcb
    <3>3. pcb'[p].state = st /\ st \in HeldStates
      BY <1>a, <3>2 DEF Pcb, HeldStates
    <3>4. stale' = {}
      BY <2>1 DEF Accepted, Held, NoStaleHandle
    <3> QED BY <3>2, <3>3, <3>4, HeldStep
  <2>2. CASE Refused(p, seg)
    BY <2>2, RemovedHeld DEF Refused
  <2>3. CASE SynRcvdOther(p, seg)
    <3>1. PICK n : pcb' = [pcb EXCEPT ![p] = [pcb[p] EXCEPT !.age = 0,
                                                            !.nrtx = n]]
      BY <2>3 DEF SynRcvdOther, TypeOK
    <3>2. OnlyChanges(p) /\ pcb'[p] = [pcb[p] EXCEPT !.age = 0, !.nrtx = n]
      BY <3>1, OnePcb
    <3>3. pcb'[p].state = pcb[p].state /\ pcb'[p].app = pcb[p].app
      BY <1>a, <3>2 DEF Pcb
    <3>4. stale' = {}
      BY <2>3 DEF SynRcvdOther, Held, NoStaleHandle
    <3> QED BY <3>2, <3>3, <3>4, HeldStep DEF Held, AppHolds
  <2> QED BY <1>4, <2>1, <2>2, <2>3 DEF ProcessSynRcvd
<1>5. CASE ProcessEstablished(p, seg)
  BY <1>5, StaysHeld DEF ProcessEstablished, HeldStates
<1>6. CASE ProcessFinWait1(p, seg)
  BY <1>6, StaysHeld, ToTimeWaitHeld DEF ProcessFinWait1, HeldStates
<1>7. CASE ProcessFinWait2(p, seg)
  BY <1>7, StaysHeld, ToTimeWaitHeld DEF ProcessFinWait2, HeldStates
<1>8. CASE ProcessClosing(p, seg)
  BY <1>8, StaysHeld, ToTimeWaitHeld DEF ProcessClosing, HeldStates
<1>9. CASE ProcessLastAck(p, seg)
  BY <1>9, StaysHeld, RemovedHeld DEF ProcessLastAck, HeldStates
<1> QED
  BY <1>1, <1>2, <1>3, <1>4, <1>5, <1>6, <1>7, <1>8, <1>9 DEF tcp_process

\* The calls of the raw API.
LEMMA CallHeld ==
  ASSUME ErrfSet = TRUE, TypeOK, Held,
         \/ tcp_new
         \/ \E p \in Pcbs : \/ tcp_bind(p) \/ tcp_listen(p) \/ tcp_connect(p)
                            \/ tcp_close(p) \/ tcp_abort(p) \/ tcp_setprio(p)
         \/ \E l \in LPcbs : tcp_close_listen(l)
  PROVE  Held'
<1>a. stale = {} /\ AppHolds
  BY DEF Held, NoStaleHandle
<1>b. ASSUME NEW p \in Pcbs, NEW c, pcb' = [pcb EXCEPT ![p] = c],
             c.app => c.state \in HeldStates, stale' = {}
      PROVE  Held'
  <2>1. OnlyChanges(p) /\ pcb'[p] = c
    BY <1>b, OnePcb
  <2>2. pcb'[p].app => pcb'[p].state \in HeldStates
    BY <1>b, <2>1
  <2> QED BY <1>b, <2>1, <2>2, HeldStep
<1>1. CASE tcp_new
  <2>1. PICK p \in Pcbs :
          /\ KillEffects(p)
          /\ pcb' = [pcb EXCEPT ![p] = [Fresh EXCEPT !.app = TRUE]]
    BY <1>1 DEF tcp_new
  <2>2. stale' = {}
    BY <2>1, ForgetHeld DEF KillEffects, HeldStates
  <2>3. [Fresh EXCEPT !.app = TRUE].state \in HeldStates
    BY DEF Fresh, Unused, HeldStates
  <2> QED BY <1>b, <2>1, <2>2, <2>3
<1>2. ASSUME NEW p \in Pcbs, tcp_bind(p) PROVE Held'
  <2>1. PICK ip \in Addrs, port \in Ports \cup EphPorts :
          pcb' = [pcb EXCEPT ![p] = [pcb[p] EXCEPT !.local_ip = ip,
                                                   !.local_port = port]]
    <3>1. PICK ip \in Addrs, port \in Ports \cup EphPorts :
            pcb' = [pcb EXCEPT ![p].local_ip = ip, ![p].local_port = port]
      BY <1>2 DEF tcp_bind, tcp_new_port
    <3> QED BY <3>1 DEF TypeOK
  <2>2. [pcb[p] EXCEPT !.local_ip = ip, !.local_port = port].state
          \in HeldStates
    BY <1>2 DEF tcp_bind, TypeOK, Pcb, HeldStates
  <2>3. stale' = {}
    BY <1>2, <1>a DEF tcp_bind
  <2> QED BY <1>b, <2>1, <2>2, <2>3
<1>3. ASSUME NEW p \in Pcbs, tcp_listen(p) PROVE Held'
  BY <1>3, <1>a, <1>b DEF tcp_listen, Unused
<1>4. ASSUME NEW p \in Pcbs, tcp_connect(p) PROVE Held'
  <2>1. PICK peer \in Peers, port \in Nat, ip \in Addrs,
             sy \in {"none", "idle", "running"} :
          ConnectsTo(p, peer, port, ip, sy)
    BY <1>4, ConnectRecord
  <2>2. [pcb[p] EXCEPT !.state = "SYN_SENT", !.remote = peer,
           !.local_port = port, !.local_ip = ip, !.syn = sy].state
          \in HeldStates
    <3>1. pcb[p] \in Pcb
      BY DEF TypeOK
    <3> QED BY <3>1 DEF Pcb, HeldStates
  <2>3. stale' = {}
    BY <1>4, <1>a DEF tcp_connect
  <2> QED BY <1>b, <2>1, <2>2, <2>3 DEF ConnectsTo
<1>5. ASSUME NEW p \in Pcbs, tcp_close(p) PROVE Held'
  <2>0. stale' = {}
    BY <1>5, <1>a DEF tcp_close
  <2>1. CASE CloseFrees(p)
    BY <1>b, <2>0, <2>1 DEF CloseFrees, Unused
  <2>2. CASE CloseSendsFin(p)
    <3>1. PICK st \in {"LAST_ACK", "FIN_WAIT_1"} :
            pcb' = [pcb EXCEPT ![p] = [pcb[p] EXCEPT !.app = FALSE,
                                                     !.state = st]]
      BY <2>2 DEF CloseSendsFin, TypeOK
    <3>2. [pcb[p] EXCEPT !.app = FALSE, !.state = st].app = FALSE
      BY DEF TypeOK, Pcb
    <3> QED BY <1>b, <2>0, <3>1, <3>2
  <2> QED BY <1>5, <2>1, <2>2 DEF tcp_close
<1>6. ASSUME NEW p \in Pcbs, tcp_abort(p) PROVE Held'
  BY <1>6, <1>a, <1>b DEF tcp_abort, Unused
<1>7. ASSUME NEW p \in Pcbs, tcp_setprio(p) PROVE Held'
  <2>1. \A q \in Pcbs : pcb'[q].state = pcb[q].state /\ pcb'[q].app = pcb[q].app
    BY <1>7, SMTT(30) DEF tcp_setprio, TypeOK, Pcb
  <2> QED BY <1>7, <1>a, <2>1 DEF tcp_setprio, Held, AppHolds, NoStaleHandle
<1>8. ASSUME NEW l \in LPcbs, tcp_close_listen(l) PROVE Held'
  BY <1>8 DEF tcp_close_listen, Held, AppHolds, NoStaleHandle
<1> QED BY <1>1, <1>2, <1>3, <1>4, <1>5, <1>6, <1>7, <1>8

\* The segments.
LEMMA InputHeld ==
  ASSUME ErrfSet = TRUE, TypeOK, Held, tcp_input
  PROVE  Held'
<1>1. CASE tcp_input_active
  BY <1>1, ProcessHeld DEF tcp_input_active
<1>2. CASE tcp_timewait_input
  <2>1. \A q \in Pcbs : pcb'[q].state = pcb[q].state /\ pcb'[q].app = pcb[q].app
    BY <1>2 DEF tcp_timewait_input, TypeOK, Pcb
  <2> QED BY <1>2, <2>1 DEF tcp_timewait_input, Held, AppHolds, NoStaleHandle
<1>3. CASE tcp_listen_input
  <2>1. PICK peer \in Peers, l \in LPcbs, p \in Pcbs, mem \in BOOLEAN :
          /\ KillEffects(p)
          /\ pcb' = [pcb EXCEPT ![p] =
                        IF mem THEN [Fresh EXCEPT !.state = "SYN_RCVD",
                                          !.local_ip = "HOST",
                                          !.local_port = lpcb[l].local_port,
                                          !.remote = peer]
                               ELSE Unused]
    BY <1>3 DEF tcp_listen_input
  <2>2. stale' = {}
    BY <2>1, ForgetHeld DEF KillEffects, HeldStates
  <2>3. OnlyChanges(p) /\ pcb'[p].app = FALSE
    <3>1. OnlyChanges(p) /\ pcb'[p] =
                        IF mem THEN [Fresh EXCEPT !.state = "SYN_RCVD",
                                          !.local_ip = "HOST",
                                          !.local_port = lpcb[l].local_port,
                                          !.remote = peer]
                               ELSE Unused
      BY <2>1, OnePcb
    <3> QED BY <3>1 DEF Fresh, Unused
  <2> QED BY <2>2, <2>3, HeldStep
<1>4. CASE tcp_listen_ignores
  BY <1>4 DEF tcp_listen_ignores, Held, AppHolds, NoStaleHandle
<1> QED BY <1>1, <1>2, <1>3, <1>4 DEF tcp_input

\* The slow timer.
LEMMA SlowTmrHeld ==
  ASSUME ErrfSet = TRUE, TypeOK, ListsExact, Held, tcp_slowtmr
  PROVE  Held'
<1> USE DEF Held, AppHolds, NoStaleHandle
<1>1. CASE SlowTmrStart
  <2>1. \A q \in Pcbs : pcb'[q].state = pcb[q].state /\ pcb'[q].app = pcb[q].app
    BY <1>1, AgedType DEF SlowTmrStart, TypeOK
  <2> QED BY <1>1, <2>1 DEF SlowTmrStart
<1>2. CASE SlowTmrRemove
  <2>1. active[walk.pos] \in Pcbs
    BY <1>2 DEF SlowTmrRemove, AtActive, TypeOK
  <2> QED BY <1>2, <2>1, RemovedHeld DEF SlowTmrRemove
<1>3. CASE SlowTmrKeep
  <2>1. \A q \in Pcbs : pcb'[q].state = pcb[q].state /\ pcb'[q].app = pcb[q].app
    <3>1. PICK n : pcb' = [pcb EXCEPT ![active[walk.pos]].nrtx = n]
      BY <1>3 DEF SlowTmrKeep
    <3> QED BY <3>1 DEF TypeOK, Pcb
  <2> QED BY <1>3, <2>1 DEF SlowTmrKeep
<1>4. CASE SlowTmrNextList
  BY <1>4 DEF SlowTmrNextList
<1>5. CASE SlowTmrTw
  <2> DEFINE p == tw[walk.pos]
  <2>1. p \in Pcbs /\ pcb[p].state = "TIME_WAIT"
    BY <1>5 DEF SlowTmrTw, AtTw, TypeOK, ListsExact, On
  <2>2. CASE pcb' = [pcb EXCEPT ![p] = Unused] /\ Forget(p, FALSE)
    <3>1. stale' = {}
      BY <2>1, <2>2, ForgetHeld DEF HeldStates
    <3>2. OnlyChanges(p) /\ pcb'[p].app = FALSE
      <4>1. OnlyChanges(p) /\ pcb'[p] = Unused
        BY <2>1, <2>2, OnePcb
      <4> QED BY <4>1 DEF Unused
    <3> QED BY <2>1, <3>1, <3>2, HeldStep
  <2>3. CASE UNCHANGED <<tw, pcb, stale>>
    BY <2>3
  <2> QED BY <1>5, <2>2, <2>3 DEF SlowTmrTw
<1>6. CASE SlowTmrEnd
  BY <1>6 DEF SlowTmrEnd
<1> QED BY <1>1, <1>2, <1>3, <1>4, <1>5, <1>6 DEF tcp_slowtmr

\* With an error callback on every pcb, nothing frees a pcb the application
\* still holds without telling it: not a RST, not a timeout, not the killing of
\* a connection to make room for another.
THEOREM HandlesNeverStale ==
  ASSUME ErrfSet = TRUE, AbortUnconnected = FALSE
  PROVE  Spec => []NoStaleHandle
<1>1. Init => Held
  BY DEF Init, Held, AppHolds, NoStaleHandle, Unused
<1>2. TypeOK /\ ListsExact /\ Held /\ [Next]_vars => Held'
  <2> SUFFICES ASSUME TypeOK, ListsExact, Held, [Next]_vars PROVE Held'
    OBVIOUS
  <2>1. CASE UNCHANGED vars
    BY <2>1 DEF vars, Held, AppHolds, NoStaleHandle
  <2>2. CASE Next
    BY <2>2, CallHeld, InputHeld, SlowTmrHeld DEF Next
  <2> QED BY <2>1, <2>2
<1>3. Held => NoStaleHandle
  BY DEF Held
<1>4. Spec => []ListsExact
  BY ListsAlwaysExact
<1> QED BY <1>1, <1>2, <1>3, <1>4, TypeCorrect, PTL DEF Spec

-----------------------------------------------------------------------------
(* Local ports.  Two addresses of one host overlap as soon as one of them  *)
(* is IP_ADDR_ANY, so what tcp_bind() keeps apart are ports.               *)

LEMMA OverlapIsPort ==
  ASSUME NEW c, c.local_ip \in Addrs, NEW ip \in Addrs, NEW port
  PROVE  Overlap(c, ip, port) <=> c.local_port = port
BY DEF Overlap, Addrs

\* BindExclusive in terms of the pcbs instead of the positions of the lists.
PortsApart ==
  /\ \A p, q \in Pcbs : On(bound, p) /\ On(bound, q) /\ p # q
       => pcb[p].local_port # pcb[q].local_port
  /\ \A l, m \in LPcbs : lpcb[l].used /\ lpcb[m].used /\ l # m
       => lpcb[l].local_port # lpcb[m].local_port
  /\ \A p \in Pcbs, l \in LPcbs : On(bound, p) /\ lpcb[l].used
       => pcb[p].local_port # lpcb[l].local_port

\* What TupleUnique needs: no connection uses the port of a pcb that is bound
\* and may still connect, bound ports are the ones tcp_bind() was given, and
\* only tcp_bind() gives an unconnected pcb a port.
TuplesApart ==
  /\ \A p, q \in Pcbs : On(bound, p) /\ pcb[q].state \in ActiveStates
       => pcb[p].local_port # pcb[q].local_port
  /\ \A p \in Pcbs : On(bound, p) => pcb[p].local_port \in Ports
  /\ \A p \in Pcbs : pcb[p].state = "CLOSED" /\ ~On(bound, p)
       => pcb[p].local_port = 0
  /\ TupleUnique

SameTuple(p) ==
  /\ pcb'[p].local_ip = pcb[p].local_ip
  /\ pcb'[p].local_port = pcb[p].local_port
  /\ pcb'[p].remote = pcb[p].remote

\* A step that hands out no address: what is bound, listening or connected
\* after it was so before it, with the same address.
HandsOutNothing ==
  /\ \A p \in Pcbs : On(bound', p) => On(bound, p) /\ SameTuple(p)
  /\ \A l \in LPcbs : lpcb'[l].used => lpcb[l].used /\ lpcb'[l] = lpcb[l]
  /\ \A p \in Pcbs : pcb'[p].state \in ActiveStates
       => pcb[p].state \in ActiveStates /\ SameTuple(p)
  /\ \A p \in Pcbs : pcb'[p].state = "CLOSED" /\ ~On(bound', p)
       => \/ pcb'[p].local_port = 0
          \/ pcb[p].state = "CLOSED" /\ ~On(bound, p) /\ SameTuple(p)

LEMMA NothingHandedOut ==
  ASSUME HandsOutNothing
  PROVE  /\ PortsApart => PortsApart'
         /\ TuplesApart => TuplesApart'
<1>1. PortsApart => PortsApart'
  BY DEF HandsOutNothing, PortsApart, SameTuple
<1>2. ASSUME TuplesApart PROVE TuplesApart'
  <2>1. TupleUnique'
    BY <1>2 DEF HandsOutNothing, TuplesApart, TupleUnique, SameTuple
  <2> QED BY <1>2, <2>1 DEF HandsOutNothing, TuplesApart, SameTuple
<1> QED BY <1>1, <1>2

\* A step about one pcb that is neither bound nor a connection afterwards,
\* unless it is the connection it was.
LEMMA OneQuiet ==
  ASSUME ListsExact, NEW p \in Pcbs, OnlyChanges(p), UNCHANGED <<bound, lpcb>>,
         pcb[p].state # "CLOSED",
         pcb'[p].state \in ActiveStates
           => pcb[p].state \in ActiveStates /\ SameTuple(p),
         pcb'[p].state = "CLOSED" => pcb'[p].local_port = 0
  PROVE  HandsOutNothing
<1>1. ~On(bound, p)
  BY DEF ListsExact
<1>2. ASSUME NEW q \in Pcbs, q # p PROVE pcb'[q] = pcb[q]
  BY <1>2 DEF OnlyChanges
<1> QED BY <1>1, <1>2 DEF HandsOutNothing, SameTuple

\* A step that changes no address and no state.
LEMMA AllQuiet ==
  ASSUME UNCHANGED <<bound, lpcb>>,
         \A p \in Pcbs : SameTuple(p) /\ pcb'[p].state = pcb[p].state
  PROVE  HandsOutNothing
BY DEF HandsOutNothing

LEMMA FreedQuiet ==
  ASSUME TypeOK, ListsExact, NEW p \in Pcbs, pcb[p].state # "CLOSED",
         pcb' = [pcb EXCEPT ![p] = Unused], UNCHANGED <<bound, lpcb>>
  PROVE  HandsOutNothing
<1>1. OnlyChanges(p) /\ pcb'[p] = Unused
  BY OnePcb
<1>2. pcb'[p].state = "FREE"
  BY <1>1 DEF Unused
<1> QED BY <1>1, <1>2, OneQuiet DEF ActiveStates

\* A segment changes no address of the connection it belongs to.
LEMMA ProcessQuiet ==
  ASSUME TypeOK, ListsExact, NEW p \in Pcbs, NEW seg \in Segment,
         On(active, p), tcp_process(p, seg), UNCHANGED <<bound, lpcb>>
  PROVE  HandsOutNothing
<1> USE DEF Processes
<1>0. /\ pcb[p].state \in ActiveStates /\ pcb[p] \in Pcb
      /\ pcb[p].state # "CLOSED"
  BY DEF ListsExact, TypeOK, ActiveStates
<1>c. /\ AckRtx(pcb[p], seg) \in Pcb
      /\ AckRtx(pcb[p], seg).local_ip = pcb[p].local_ip
      /\ AckRtx(pcb[p], seg).local_port = pcb[p].local_port
      /\ AckRtx(pcb[p], seg).remote = pcb[p].remote
  <2>1. AckRtx(pcb[p], seg) \in Pcb
    BY <1>0, AckRtxType
  <2> QED BY <1>0, <2>1 DEF AckRtx, Pcb
<1>a. ASSUME NEW st \in ActiveStates, Stays(p, seg, st) PROVE HandsOutNothing
  <2>1. OnlyChanges(p) /\ pcb'[p] = [AckRtx(pcb[p], seg) EXCEPT !.state = st,
                                                                !.age = 0]
    BY <1>a, OnePcb DEF Stays
  <2>2. SameTuple(p) /\ pcb'[p].state = st
    BY <2>1, <1>c DEF Pcb, SameTuple
  <2> QED BY <1>0, <1>a, <2>1, <2>2, OneQuiet DEF ActiveStates
<1>b. ASSUME UNCHANGED pcb PROVE HandsOutNothing
  BY <1>b, AllQuiet DEF SameTuple
<1>d. ASSUME NEW errf, Removed(p, errf) PROVE HandsOutNothing
  BY <1>0, <1>d, FreedQuiet DEF Removed
<1>e. ASSUME ToTimeWait(p) PROVE HandsOutNothing
  <2>1. OnlyChanges(p) /\ pcb'[p].state = "TIME_WAIT"
    BY <1>e, <1>0 DEF ToTimeWait, OnlyChanges, TypeOK, Pcb
  <2> QED BY <1>0, <2>1, OneQuiet DEF ActiveStates
<1>1. CASE ProcessRst(p, seg)
  BY <1>1, <1>b, <1>d DEF ProcessRst
<1>2. CASE ProcessStraySyn(p, seg)
  BY <1>2, <1>b DEF ProcessStraySyn
<1>3. CASE ProcessSynSent(p, seg)
  <2>1. OnlyChanges(p) /\ SameTuple(p)
    BY <1>3, <1>0 DEF ProcessSynSent, OnlyChanges, SameTuple, TypeOK, Pcb
  <2>2. pcb'[p].state \in {"ESTABLISHED", pcb[p].state}
    BY <1>3, <1>0 DEF ProcessSynSent, TypeOK, Pcb
  <2> QED BY <1>0, <2>1, <2>2, OneQuiet DEF ActiveStates
<1>4. CASE ProcessSynRcvd(p, seg)
  <2>1. CASE Accepted(p, seg)
    <3>1. PICK st \in {"CLOSE_WAIT", "ESTABLISHED"} :
            pcb' = [pcb EXCEPT ![p] = [AckRtx(pcb[p], seg) EXCEPT
                      !.state = st, !.age = 0, !.app = TRUE]]
      BY <2>1 DEF Accepted
    <3>2. OnlyChanges(p) /\ pcb'[p] = [AckRtx(pcb[p], seg) EXCEPT
                                        !.state = st, !.age = 0, !.app = TRUE]
      BY <3>1, OnePcb
    <3>3. SameTuple(p) /\ pcb'[p].state = st
      BY <3>2, <1>c DEF Pcb, SameTuple
    <3> QED BY <1>0, <3>2, <3>3, OneQuiet
  <2>2. CASE Refused(p, seg)
    BY <2>2, <1>d DEF Refused
  <2>3. CASE SynRcvdOther(p, seg)
    <3>1. OnlyChanges(p) /\ SameTuple(p) /\ pcb'[p].state = pcb[p].state
      BY <1>0, <2>3 DEF SynRcvdOther, OnlyChanges, SameTuple, TypeOK, Pcb
    <3> QED BY <1>0, <3>1, OneQuiet
  <2> QED BY <1>4, <2>1, <2>2, <2>3 DEF ProcessSynRcvd
<1>5. CASE ProcessEstablished(p, seg)
  BY <1>0, <1>5, <1>a DEF ProcessEstablished, ActiveStates
<1>6. CASE ProcessFinWait1(p, seg)
  BY <1>6, <1>a, <1>e DEF ProcessFinWait1, ActiveStates
<1>7. CASE ProcessFinWait2(p, seg)
  BY <1>7, <1>a, <1>e DEF ProcessFinWait2, ActiveStates
<1>8. CASE ProcessClosing(p, seg)
  BY <1>8, <1>a, <1>e DEF ProcessClosing, ActiveStates
<1>9. CASE ProcessLastAck(p, seg)
  BY <1>9, <1>a, <1>d DEF ProcessLastAck, ActiveStates
<1> QED
  BY <1>1, <1>2, <1>3, <1>4, <1>5, <1>6, <1>7, <1>8, <1>9 DEF tcp_process

\* tcp_bind() hands out a port that no listener, connection or bound pcb has.
LEMMA BindPorts ==
  ASSUME TypeOK, ListsExact, NEW p \in Pcbs, tcp_bind(p)
  PROVE  /\ PortsApart => PortsApart'
         /\ 0 \notin Ports /\ TuplesApart => TuplesApart'
<1>1. PICK ip \in Addrs, req \in Ports :
        \E port \in IF req = 0 THEN tcp_new_port ELSE {req} :
          /\ ~AddressInUse(ip, port)
          /\ pcb' = [pcb EXCEPT ![p].local_ip = ip, ![p].local_port = port]
  BY DEF tcp_bind
<1>2. PICK port \in IF req = 0 THEN tcp_new_port ELSE {req} :
        /\ ~AddressInUse(ip, port)
        /\ pcb' = [pcb EXCEPT ![p].local_ip = ip, ![p].local_port = port]
  BY <1>1
<1>3. /\ \A q \in Pcbs : pcb[q].local_ip \in Addrs
      /\ \A l \in LPcbs : lpcb[l].local_ip \in Addrs
  BY DEF TypeOK, Pcb, LPcb
<1>4. /\ \A q \in Pcbs : On(bound, q) => pcb[q].local_port # port
      /\ \A q \in Pcbs : On(active, q) => pcb[q].local_port # port
      /\ \A l \in LPcbs : On(listen, l) => lpcb[l].local_port # port
  BY <1>2, <1>3, OverlapIsPort DEF AddressInUse, On
<1>5. /\ OnlyChanges(p) /\ pcb'[p].local_port = port
      /\ pcb'[p].state = "CLOSED" /\ pcb[p].state = "CLOSED"
  BY <1>2 DEF tcp_bind, OnlyChanges, TypeOK, Pcb
<1>6. /\ \A q : On(bound', q) <=> (q = p \/ On(bound, q))
      /\ UNCHANGED lpcb /\ ~On(bound, p)
  BY PcbListFacts DEF tcp_bind
<1>7. PortsApart => PortsApart'
  BY <1>4, <1>5, <1>6 DEF PortsApart, OnlyChanges, ListsExact
<1>8. ASSUME 0 \notin Ports, TuplesApart PROVE TuplesApart'
  <2>1. port \in Ports
    BY <1>2, <1>8
  <2>2. TupleUnique'
    BY <1>5, <1>8 DEF TuplesApart, TupleUnique, OnlyChanges, ActiveStates
  <2>3. (\A q, r \in Pcbs : On(bound, q) /\ pcb[r].state \in ActiveStates
           => pcb[q].local_port # pcb[r].local_port)'
    <3> SUFFICES ASSUME NEW q \in Pcbs, NEW r \in Pcbs, On(bound', q),
                        pcb'[r].state \in ActiveStates
                 PROVE  pcb'[q].local_port # pcb'[r].local_port
      OBVIOUS
    <3>1. r # p /\ pcb'[r] = pcb[r] /\ On(active, r)
      BY <1>5 DEF OnlyChanges, ActiveStates, ListsExact
    <3> QED BY <3>1, <1>4, <1>5, <1>6, <1>8 DEF TuplesApart, OnlyChanges
  <2> QED
    BY <1>5, <1>6, <1>8, <2>1, <2>2, <2>3 DEF TuplesApart, OnlyChanges
<1> QED BY <1>7, <1>8

\* tcp_listen() passes the port of the bound pcb on to the listening one.
LEMMA ListenPorts ==
  ASSUME TypeOK, ListsExact, NEW p \in Pcbs, tcp_listen(p)
  PROVE  /\ PortsApart => PortsApart'
         /\ TuplesApart => TuplesApart'
<1>1. PICK l \in LPcbs :
        /\ ~lpcb[l].used
        /\ lpcb' = [lpcb EXCEPT ![l] =
                      [used |-> TRUE, local_ip |-> pcb[p].local_ip,
                       local_port |-> pcb[p].local_port]]
  BY DEF tcp_listen
<1>2. /\ lpcb'[l].used /\ lpcb'[l].local_port = pcb[p].local_port
      /\ \A m \in LPcbs \ {l} : lpcb'[m] = lpcb[m]
  BY <1>1 DEF TypeOK
<1>3. OnlyChanges(p) /\ pcb'[p] = Unused
  BY OnePcb DEF tcp_listen
<1>4. pcb'[p].state = "FREE"
  BY <1>3 DEF Unused
<1>5. On(bound, p) /\ \A q : On(bound', q) <=> (q # p /\ On(bound, q))
  BY PcbListFacts DEF tcp_listen
<1>6. PortsApart => PortsApart'
  BY <1>2, <1>3, <1>5 DEF PortsApart, OnlyChanges
<1>7. ASSUME TuplesApart PROVE TuplesApart'
  <2>1. TupleUnique'
    BY <1>3, <1>4, <1>7 DEF TuplesApart, TupleUnique, OnlyChanges, ActiveStates
  <2>2. \A r \in Pcbs : pcb'[r].state \in ActiveStates \cup {"CLOSED"}
          => r # p /\ pcb'[r] = pcb[r]
    BY <1>3, <1>4 DEF OnlyChanges, ActiveStates
  <2> QED BY <1>3, <1>5, <1>7, <2>1, <2>2 DEF TuplesApart, OnlyChanges
<1> QED BY <1>6, <1>7

\* tcp_connect() uses the port of the bound pcb, which no connection has, or a
\* port of the ephemeral range that no connection has.
LEMMA ConnectPorts ==
  ASSUME TypeOK, ListsExact, NEW p \in Pcbs, tcp_connect(p)
  PROVE  /\ PortsApart => PortsApart'
         /\ /\ Ports \cap EphPorts = {}
            /\ PortsApart /\ TuplesApart
            => TuplesApart'
<1>0. pcb[p] \in Pcb /\ pcb[p].state = "CLOSED"
  BY DEF TypeOK, tcp_connect
<1>3. PICK peer \in Peers, port \in Nat, ip \in Addrs,
           sy \in {"none", "idle", "running"} :
        /\ port \in IF pcb[p].local_port = 0 THEN tcp_new_port
                                            ELSE {pcb[p].local_port}
        /\ ConnectsTo(p, peer, port, ip, sy)
  BY ConnectRecord
<1>4. OnlyChanges(p) /\ pcb'[p] = [pcb[p] EXCEPT !.state = "SYN_SENT",
                                !.remote = peer, !.local_port = port,
                                !.local_ip = ip, !.syn = sy]
  BY <1>3, OnePcb DEF ConnectsTo
<1>5. pcb'[p].state = "SYN_SENT" /\ pcb'[p].local_port = port
  BY <1>0, <1>4 DEF Pcb
<1>6. (\A q : On(bound', q) <=> (q # p /\ On(bound, q))) /\ UNCHANGED lpcb
  BY PcbListFacts DEF tcp_connect
<1>7. PortsApart => PortsApart'
  BY <1>4, <1>6 DEF PortsApart, OnlyChanges
<1>8. ASSUME Ports \cap EphPorts = {}, PortsApart, TuplesApart
      PROVE  TuplesApart'
  <2>1. /\ \A r \in Pcbs : r # p /\ pcb[r].state \in ActiveStates
             => pcb[r].local_port # port
        /\ \A q \in Pcbs : q # p /\ On(bound, q) => pcb[q].local_port # port
    <3>1. CASE pcb[p].local_port = 0
      <4>1. port \in EphPorts /\ ~PortTaken(port)
        BY <1>3, <3>1 DEF tcp_new_port
      <4>2. \A r \in Pcbs : On(active, r) => pcb[r].local_port # port
        BY <4>1 DEF PortTaken, On
      <4> QED BY <1>8, <4>1, <4>2 DEF TuplesApart, ListsExact
    <3>2. CASE pcb[p].local_port # 0
      <4>1. port = pcb[p].local_port /\ On(bound, p)
        BY <1>0, <1>3, <1>8, <3>2 DEF TuplesApart
      <4> QED BY <1>8, <4>1 DEF TuplesApart, PortsApart
    <3> QED BY <3>1, <3>2
  <2>2. \A r \in Pcbs \ {p} : pcb'[r] = pcb[r]
    BY <1>4 DEF OnlyChanges
  <2>3. TupleUnique'
    BY <1>5, <1>8, <2>1, <2>2 DEF TuplesApart, TupleUnique
  <2>4. (\A q, r \in Pcbs : On(bound, q) /\ pcb[r].state \in ActiveStates
           => pcb[q].local_port # pcb[r].local_port)'
    BY <1>5, <1>6, <1>8, <2>1, <2>2 DEF TuplesApart
  <2>5. (\A q \in Pcbs : pcb[q].state = "CLOSED" /\ ~On(bound, q)
           => pcb[q].local_port = 0)'
    BY <1>5, <1>6, <1>8, <2>2 DEF TuplesApart
  <2> QED BY <1>6, <1>8, <2>2, <2>3, <2>4, <2>5 DEF TuplesApart
<1> QED BY <1>7, <1>8

\* The calls that hand out no address.
LEMMA CallQuiet ==
  ASSUME AbortUnconnected = FALSE, TypeOK, ListsExact,
         \/ tcp_new
         \/ \E p \in Pcbs : tcp_close(p) \/ tcp_abort(p) \/ tcp_setprio(p)
         \/ \E l \in LPcbs : tcp_close_listen(l)
  PROVE  HandsOutNothing
<1>1. CASE tcp_new
  <2>1. PICK p \in Pcbs :
          /\ tcp_alloc(TCP_PRIO_NORMAL, p)
          /\ pcb' = [pcb EXCEPT ![p] = [Fresh EXCEPT !.app = TRUE]]
    BY <1>1 DEF tcp_new
  <2>2. pcb[p].state # "CLOSED"
    BY <2>1, AllocState DEF ActiveStates
  <2>3. OnlyChanges(p) /\ pcb'[p] = [Fresh EXCEPT !.app = TRUE]
    BY <2>1, OnePcb
  <2>4. pcb'[p].state = "CLOSED" /\ pcb'[p].local_port = 0
    BY <2>3 DEF Fresh, Unused
  <2> QED BY <1>1, <2>2, <2>3, <2>4, OneQuiet DEF tcp_new, ActiveStates
<1>2. ASSUME NEW p \in Pcbs, tcp_close(p) PROVE HandsOutNothing
  <2>1. CASE CloseFrees(p)
    <3>1. OnlyChanges(p) /\ pcb'[p] = Unused
      BY <2>1, OnePcb DEF CloseFrees
    <3>2. pcb'[p].state = "FREE"
      BY <3>1 DEF Unused
    <3>3. ~On(bound', p) /\ \A q \in Pcbs \ {p} : On(bound', q) <=> On(bound, q)
      BY <2>1, PcbListFacts DEF CloseFrees, Listed
    <3> QED BY <1>2, <3>1, <3>2, <3>3
            DEF tcp_close, HandsOutNothing, OnlyChanges, SameTuple, ActiveStates
  <2>2. CASE CloseSendsFin(p)
    <3>1. /\ OnlyChanges(p) /\ SameTuple(p)
          /\ pcb'[p].state \in {"LAST_ACK", "FIN_WAIT_1"}
          /\ pcb[p].state \in ActiveStates \ {"CLOSED"}
      BY <2>2 DEF CloseSendsFin, OnlyChanges, SameTuple, TypeOK, Pcb,
                  ActiveStates
    <3> QED BY <1>2, <2>2, <3>1, OneQuiet DEF tcp_close, CloseSendsFin
  <2> QED BY <1>2, <2>1, <2>2 DEF tcp_close
<1>3. ASSUME NEW p \in Pcbs, tcp_abort(p) PROVE HandsOutNothing
  BY <1>3, FreedQuiet DEF tcp_abort
<1>4. ASSUME NEW p \in Pcbs, tcp_setprio(p) PROVE HandsOutNothing
  <2>1. \A q \in Pcbs : SameTuple(q) /\ pcb'[q].state = pcb[q].state
    BY <1>4, SMTT(30) DEF tcp_setprio, SameTuple, TypeOK, Pcb
  <2> QED BY <1>4, <2>1, AllQuiet DEF tcp_setprio
<1>5. ASSUME NEW l \in LPcbs, tcp_close_listen(l) PROVE HandsOutNothing
  <2>1. /\ \A m \in LPcbs : lpcb'[m].used => lpcb'[m] = lpcb[m]
        /\ UNCHANGED <<pcb, bound>>
    BY <1>5 DEF tcp_close_listen, TypeOK, LUnused
  <2> QED BY <2>1 DEF HandsOutNothing, SameTuple
<1> QED BY <1>1, <1>2, <1>3, <1>4, <1>5

\* A SYN for a listening pcb creates a connection with the listener's port,
\* which no bound pcb has, and only if no connection with the peer has it.
LEMMA ListenInputPorts ==
  ASSUME TypeOK, ListsExact, PortsApart, tcp_listen_input
  PROVE  /\ PortsApart'
         /\ TuplesApart => TuplesApart'
<1>1. PICK peer \in Peers, l \in LPcbs, p \in Pcbs, mem \in BOOLEAN :
        /\ ListenMatch(l, lpcb[l].local_port)
        /\ NoMatch(active, peer, lpcb[l].local_port)
        /\ tcp_alloc(LISTEN_PRIO, p)
        /\ pcb' = [pcb EXCEPT ![p] =
                      IF mem THEN [Fresh EXCEPT !.state = "SYN_RCVD",
                                        !.local_ip = "HOST",
                                        !.local_port = lpcb[l].local_port,
                                        !.remote = peer]
                             ELSE Unused]
  BY DEF tcp_listen_input
<1>2. pcb[p].state # "CLOSED" /\ ~On(bound, p)
  BY <1>1, AllocState DEF ActiveStates, ListsExact
<1>3. UNCHANGED <<bound, lpcb>>
  BY DEF tcp_listen_input
<1>4. CASE ~mem
  BY <1>1, <1>2, <1>3, <1>4, FreedQuiet, NothingHandedOut
<1>5. CASE mem
  <2>1. OnlyChanges(p) /\ pcb'[p] = [Fresh EXCEPT !.state = "SYN_RCVD",
                                        !.local_ip = "HOST",
                                        !.local_port = lpcb[l].local_port,
                                        !.remote = peer]
    BY <1>1, <1>5, OnePcb
  <2>2. /\ pcb'[p].state = "SYN_RCVD" /\ pcb'[p].local_ip = "HOST"
        /\ pcb'[p].local_port = lpcb[l].local_port /\ pcb'[p].remote = peer
    BY <2>1 DEF Fresh, Unused
  <2>3. \A q \in Pcbs \ {p} : pcb'[q] = pcb[q]
    BY <2>1 DEF OnlyChanges
  <2>4. PortsApart'
    BY <1>2, <1>3, <2>3 DEF PortsApart
  <2>5. ASSUME TuplesApart PROVE TuplesApart'
    <3>1. lpcb[l].used
      BY <1>1 DEF ListenMatch, ListsExact, On
    <3>2. \A q \in Pcbs : pcb[q].state \in ActiveStates
            => ~Match(q, peer, lpcb[l].local_port)
      BY <1>1 DEF NoMatch, ListsExact, On
    <3>3. TupleUnique'
      BY <2>2, <2>3, <2>5, <3>2 DEF TuplesApart, TupleUnique, Match
    <3>4. (\A q, r \in Pcbs : On(bound, q) /\ pcb[r].state \in ActiveStates
             => pcb[q].local_port # pcb[r].local_port)'
      BY <1>2, <1>3, <2>2, <2>3, <2>5, <3>1 DEF TuplesApart, PortsApart
    <3> QED BY <1>2, <1>3, <2>2, <2>3, <2>5, <3>3, <3>4 DEF TuplesApart
  <2> QED BY <2>4, <2>5
<1> QED BY <1>4, <1>5

\* The other segments and the slow timer hand out no address.
LEMMA EventQuiet ==
  ASSUME TypeOK, ListsExact,
         \/ tcp_input_active \/ tcp_timewait_input \/ tcp_listen_ignores
         \/ tcp_slowtmr
  PROVE  HandsOutNothing
<1>1. CASE tcp_input_active
  <2>1. PICK p \in Pcbs, seg \in Segment : On(active, p) /\ tcp_process(p, seg)
    BY <1>1 DEF tcp_input_active, FirstMatch, On
  <2> QED BY <1>1, <2>1, ProcessQuiet DEF tcp_input_active
<1>2. CASE tcp_timewait_input
  <2>1. ASSUME NEW q \in Pcbs
        PROVE  SameTuple(q) /\ pcb'[q].state = pcb[q].state
    <3>1. pcb[q] \in Pcb /\ pcb \in [Pcbs -> Pcb]
      BY DEF TypeOK
    <3>2. pcb'[q] = pcb[q] \/ pcb'[q] = [pcb[q] EXCEPT !.age = 0]
      BY <1>2, <3>1 DEF tcp_timewait_input
    <3> QED BY <3>1, <3>2 DEF SameTuple, Pcb
  <2> QED BY <1>2, <2>1, AllQuiet DEF tcp_timewait_input
<1>3. ASSUME UNCHANGED <<pcb, bound, lpcb>> PROVE HandsOutNothing
  BY <1>3, AllQuiet DEF SameTuple
<1>4. CASE SlowTmrStart
  <2>1. ASSUME NEW q \in Pcbs
        PROVE  SameTuple(q) /\ pcb'[q].state = pcb[q].state
    <3>1. pcb[q] \in Pcb /\ pcb'[q] = Aged(pcb[q])
      BY <1>4 DEF SlowTmrStart, TypeOK
    <3> QED BY <3>1 DEF Aged, Pcb, SameTuple
  <2> QED BY <1>4, <2>1, AllQuiet DEF SlowTmrStart
<1>5. CASE SlowTmrRemove
  <2>1. active[walk.pos] \in Pcbs /\ On(active, active[walk.pos])
    BY <1>5 DEF SlowTmrRemove, AtActive, TypeOK, On
  <2>2. pcb[active[walk.pos]].state # "CLOSED"
    BY <2>1 DEF ListsExact, ActiveStates
  <2> QED BY <1>5, <2>1, <2>2, FreedQuiet DEF SlowTmrRemove, Removed
<1>6. CASE SlowTmrKeep
  <2>1. PICK n : pcb' = [pcb EXCEPT ![active[walk.pos]].nrtx = n]
    BY <1>6 DEF SlowTmrKeep
  <2>2. ASSUME NEW q \in Pcbs
        PROVE  SameTuple(q) /\ pcb'[q].state = pcb[q].state
    <3>1. pcb[q] \in Pcb /\ pcb \in [Pcbs -> Pcb]
      BY DEF TypeOK
    <3>2. pcb'[q] = pcb[q] \/ pcb'[q] = [pcb[q] EXCEPT !.nrtx = n]
      BY <2>1, <3>1
    <3> QED BY <3>1, <3>2 DEF SameTuple, Pcb
  <2> QED BY <1>6, <2>2, AllQuiet DEF SlowTmrKeep
<1>7. CASE SlowTmrTw
  <2> DEFINE p == tw[walk.pos]
  <2>1. p \in Pcbs /\ On(tw, p)
    BY <1>7 DEF SlowTmrTw, AtTw, TypeOK, On
  <2>2. pcb[p].state # "CLOSED"
    BY <2>1 DEF ListsExact
  <2>3. CASE pcb' = [pcb EXCEPT ![p] = Unused]
    BY <1>7, <2>1, <2>2, <2>3, FreedQuiet DEF SlowTmrTw
  <2>4. CASE UNCHANGED pcb
    BY <1>3, <1>7, <2>4 DEF SlowTmrTw
  <2> QED BY <1>7, <2>3, <2>4 DEF SlowTmrTw
<1> QED BY <1>1, <1>2, <1>3, <1>4, <1>5, <1>6, <1>7
        DEF tcp_slowtmr, tcp_listen_ignores, SlowTmrNextList, SlowTmrEnd

\* One step of the specification.
LEMMA PortsStep ==
  ASSUME AbortUnconnected = FALSE, TypeOK, ListsExact, PortsApart, [Next]_vars
  PROVE  /\ PortsApart'
         /\ 0 \notin Ports /\ Ports \cap EphPorts = {} /\ TuplesApart
            => TuplesApart'
<1>1. CASE HandsOutNothing
  BY <1>1, NothingHandedOut
<1>2. CASE UNCHANGED vars
  BY <1>1, <1>2, AllQuiet DEF vars, SameTuple
<1>3. CASE Next
  <2>1. CASE \E p \in Pcbs : tcp_bind(p) \/ tcp_listen(p) \/ tcp_connect(p)
    BY <2>1, BindPorts, ListenPorts, ConnectPorts
  <2>2. CASE \/ tcp_new
             \/ \E p \in Pcbs : tcp_close(p) \/ tcp_abort(p) \/ tcp_setprio(p)
             \/ \E l \in LPcbs : tcp_close_listen(l)
    BY <1>1, <2>2, CallQuiet
  <2>3. CASE tcp_listen_input
    BY <2>3, ListenInputPorts
  <2>4. CASE \/ tcp_input_active \/ tcp_timewait_input \/ tcp_listen_ignores
             \/ tcp_slowtmr
    BY <1>1, <2>4, EventQuiet
  <2> QED BY <1>3, <2>1, <2>2, <2>3, <2>4 DEF Next, tcp_input
<1> QED BY <1>2, <1>3

\* An address and port that tcp_bind() gave out have one owner, whatever ports
\* the application asks for ("any port" included), as long as it does not
\* abort a pcb that is only bound.
THEOREM BoundOnce ==
  ASSUME AbortUnconnected = FALSE
  PROVE  Spec => []BindExclusive
<1>1. Init => PortsApart
  BY DEF Init, PortsApart, On, LUnused
<1>2. TypeOK /\ ListsExact /\ PortsApart /\ [Next]_vars => PortsApart'
  BY PortsStep
<1>3. TypeOK /\ ListsExact /\ PortsApart => BindExclusive
  <2> SUFFICES ASSUME TypeOK, ListsExact, PortsApart PROVE BindExclusive
    OBVIOUS
  <2>1. /\ \A p \in Pcbs : pcb[p].local_ip \in Addrs
        /\ \A l \in LPcbs : lpcb[l].local_ip \in Addrs
    BY DEF TypeOK, Pcb, LPcb
  <2>2. /\ \A i \in DOMAIN bound : bound[i] \in Pcbs /\ On(bound, bound[i])
        /\ \A i \in DOMAIN listen :
             listen[i] \in LPcbs /\ On(listen, listen[i])
    BY DEF TypeOK, On
  <2>3. /\ \A i, j \in DOMAIN bound : i # j => bound[i] # bound[j]
        /\ \A i, j \in DOMAIN listen : i # j => listen[i] # listen[j]
        /\ \A i \in DOMAIN listen : lpcb[listen[i]].used
    BY <2>2 DEF ListsExact, NoDup
  <2>4. ASSUME NEW i \in DOMAIN bound, NEW j \in DOMAIN bound, i # j
        PROVE  ~Overlap(pcb[bound[i]], pcb[bound[j]].local_ip,
                        pcb[bound[j]].local_port)
    BY <2>1, <2>2, <2>3, <2>4, OverlapIsPort DEF PortsApart
  <2>5. ASSUME NEW i \in DOMAIN listen, NEW j \in DOMAIN listen, i # j
        PROVE  ~Overlap(lpcb[listen[i]], lpcb[listen[j]].local_ip,
                        lpcb[listen[j]].local_port)
    BY <2>1, <2>2, <2>3, <2>5, OverlapIsPort DEF PortsApart
  <2>6. ASSUME NEW i \in DOMAIN bound, NEW j \in DOMAIN listen
        PROVE  ~Overlap(pcb[bound[i]], lpcb[listen[j]].local_ip,
                        lpcb[listen[j]].local_port)
    BY <2>1, <2>2, <2>3, OverlapIsPort DEF PortsApart
  <2> QED BY <2>4, <2>5, <2>6 DEF BindExclusive
<1>4. Spec => []ListsExact
  BY ListsAlwaysExact
<1> QED BY <1>1, <1>2, <1>3, <1>4, TypeCorrect, PTL DEF Spec

\* Two connections never have the same addresses and ports, provided that the
\* application binds no port of the ephemeral range, itself or through port 0:
\* tcp_new_port() does not look at the pcbs that are only bound, so without
\* that proviso the statement is false.
THEOREM OneConnectionPerTuple ==
  ASSUME AbortUnconnected = FALSE, 0 \notin Ports, Ports \cap EphPorts = {}
  PROVE  Spec => []TupleUnique
<1>1. Init => PortsApart /\ TuplesApart
  BY DEF Init, PortsApart, TuplesApart, TupleUnique, On, Unused, LUnused,
         ActiveStates
<1>2. /\ TypeOK /\ ListsExact /\ PortsApart /\ TuplesApart
      /\ [Next]_vars
      => PortsApart' /\ TuplesApart'
  BY PortsStep
<1>3. TuplesApart => TupleUnique
  BY DEF TuplesApart
<1>4. Spec => []ListsExact
  BY ListsAlwaysExact
<1> QED BY <1>1, <1>2, <1>3, <1>4, TypeCorrect, PTL DEF Spec

=============================================================================
