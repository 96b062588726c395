--------------------------- MODULE Etharp_proofs ---------------------------
(***************************************************************************)
(* Proofs about Etharp, for every link, every size of the table and every  *)
(* pair of ages.                                                           *)
(*                                                                         *)
(* The invariant ArpInv relates three places a packet can be in: not yet   *)
(* sent, in the queue of an entry, on the wire.  A queue holds packets for *)
(* the address of its entry, oldest first, and everything on the wire for  *)
(* that address is older.  It is what makes recycling harmless: an entry   *)
(* gets another address only after its queue was emptied.                  *)
(***************************************************************************)
EXTENDS Etharp, NumberLemmas, TLAPS

-----------------------------------------------------------------------------
(* The invariant, over a table t, n packets, their hops d, and a wire w.   *)

Hops == Hosts \cup {Gw}

Names == Hops \cup {"none", "group"}

Entries == [state : {"EMPTY", "PENDING", "STABLE"}, ip : Names, mac : Names, ctime : Nat,
            q : Seq(Nat)]

Frames == [packet : Nat, mac : Names]

Typed(t, n, d, w) ==
  /\ t \in [Slots -> Entries] /\ n \in Nat
  /\ d \in Seq(Names) /\ Len(d) = n /\ w \in Seq(Frames)

\* No two entries in use have the same address.
Single(t) ==
  \A i, j \in Slots :
    t[i].state # "EMPTY" /\ t[j].state # "EMPTY" /\ t[i].ip = t[j].ip => i = j

\* What an entry in use says, of its address and of the packets that wait there.
Entry(e, n, d) ==
  /\ e.state # "EMPTY" => e.ip \in Hops
  /\ e.state = "STABLE" => e.mac = e.ip
  /\ e.q # <<>> => e.state = "PENDING"
  /\ \A k \in 1..Len(e.q) : e.q[k] \in 1..n /\ d[e.q[k]] = e.ip
  /\ \A j, k \in 1..Len(e.q) : j < k => e.q[j] < e.q[k]

Wired(n, d, w) ==
  /\ \A k \in 1..Len(w) : w[k].packet \in 1..n /\ w[k].mac = d[w[k].packet]
  /\ \A j, k \in 1..Len(w) :
       j < k /\ d[w[j].packet] = d[w[k].packet] => w[j].packet < w[k].packet

\* What has left for the address of an entry is older than what waits there.
Behind(e, d, w) ==
  \A k \in 1..Len(e.q), j \in 1..Len(w) : d[w[j].packet] = e.ip => w[j].packet < e.q[k]

Sound(t, n, d, w) ==
  /\ Typed(t, n, d, w) /\ Single(t) /\ Wired(n, d, w)
  /\ \A i \in Slots : Entry(t[i], n, d) /\ Behind(t[i], d, w)

ArpInv == etharp_cached_entry \in Slots /\ Sound(arp_table, packets, dest, wire)

-----------------------------------------------------------------------------
(* Choices among entries.                                                  *)

LEMMA SlotNumbers == Slots \subseteq Nat
BY DEF Slots

LEMMA FirstIn ==
  ASSUME NEW s \in SUBSET Slots, s # {}
  PROVE  First(s) \in s
<1>1. s \in SUBSET Nat
  BY SlotNumbers
<1>2. \E i \in s : \A j \in s : i <= j
  BY <1>1, LeastNumber
<1> QED BY <1>2, Zenon DEF First

\* Of some entries one is the oldest: ages, and places among the equally old, are
\* numbers.
LEMMA OldestIn ==
  ASSUME ArpConstants, arp_table \in [Slots -> Entries], NEW s \in SUBSET Slots, s # {}
  PROVE  Oldest(s) \in s
<1> DEFINE age(i) == arp_table[i].ctime
           older(i, j) == age(j) < age(i) \/ (age(j) = age(i) /\ j < i)
           part(n) == {i \in s : i <= n}
           T == {n \in Nat : part(n) # {} =>
                               \E i \in part(n) : \A j \in part(n) \ {i} : older(i, j)}
<1>1. \A i \in Slots : age(i) \in Nat /\ i \in Nat /\ i >= 1 /\ i <= ARP_TABLE_SIZE
  BY DEF Slots, Entries, ArpConstants
<1>2. ARP_TABLE_SIZE \in Nat
  BY DEF ArpConstants
<1>3. 0 \in T
  <2>1. part(0) = {}
    BY <1>1
  <2> QED BY <2>1
<1>4. ASSUME NEW n \in 0..ARP_TABLE_SIZE, n \in T, n < ARP_TABLE_SIZE PROVE n + 1 \in T
  <2> HIDE DEF age
  <2>1. n \in Nat /\ n + 1 \in Nat
    BY <1>2
  <2>2. CASE n + 1 \notin s
    <3>1. part(n + 1) = part(n)
      BY <1>1, <2>1, <2>2
    <3> QED BY <1>4, <2>1, <3>1
  <2>3. CASE n + 1 \in s
    <3>1. part(n + 1) = part(n) \cup {n + 1} /\ n + 1 \in part(n + 1)
      BY <1>1, <2>1, <2>3
    <3>2. CASE part(n) = {}
      BY <2>1, <3>1, <3>2
    <3>3. CASE part(n) # {}
      <4>1. PICK i \in part(n) : \A j \in part(n) \ {i} : older(i, j)
        BY <1>4, <3>3
      <4>2. i \in Slots /\ n + 1 \in Slots /\ i <= n
        BY <2>3
      <4>3. CASE age(n + 1) < age(i)
        <5>1. \A j \in part(n + 1) \ {i} : older(i, j)
          BY <3>1, <4>1, <4>3
        <5> QED BY <2>1, <3>1, <5>1
      <4>4. CASE ~(age(n + 1) < age(i))
        <5>1. ASSUME NEW j \in part(n + 1) \ {n + 1} PROVE older(n + 1, j)
          <6>1. j \in part(n) /\ j \in Slots /\ j <= n
            BY <3>1, <5>1
          <6>2. age(j) \in Nat /\ age(i) \in Nat /\ age(n + 1) \in Nat /\ j \in Nat
            BY <1>1, <4>2, <6>1
          <6>3. age(j) <= age(i)
            BY <4>1, <6>1, <6>2
          <6> QED BY <2>1, <4>4, <6>1, <6>2, <6>3
        <5> QED BY <2>1, <3>1, <5>1
      <4> QED BY <4>3, <4>4
    <3> QED BY <3>2, <3>3
  <2> QED BY <2>2, <2>3
<1>5. ARP_TABLE_SIZE \in T
  <2> HIDE DEF T
  <2>1. \A i \in 0..ARP_TABLE_SIZE : i \in T
    BY <1>2, <1>3, <1>4, BoundedInduction
  <2> QED BY <1>2, <2>1
<1>6. part(ARP_TABLE_SIZE) = s
  BY <1>1
<1>7. \E i \in s : \A j \in s \ {i} : older(i, j)
  BY <1>5, <1>6
<1> QED BY <1>7, Zenon DEF Oldest
-----------------------------------------------------------------------------
(* find_entry().                                                           *)

\* Entry i of t is the one for an address: no other in use has it.
Ready(t, i, ip) ==
  /\ i \in Slots /\ t[i].ip = ip
  /\ \A j \in Slots \ {i} : t[j].state # "EMPTY" => t[j].ip # ip

\* An entry that is changed to an empty one leaves the table as it should be.
LEMMA EmptiedOk ==
  ASSUME NEW t, NEW n, NEW d, NEW w, Sound(t, n, d, w), NEW i \in Slots, NEW e \in Entries,
         e.state = "EMPTY", e.q = <<>>
  PROVE  Sound([t EXCEPT ![i] = e], n, d, w)
<1> DEFINE u == [t EXCEPT ![i] = e]
<1>1. u \in [Slots -> Entries] /\ \A j \in Slots : u[j] = IF j = i THEN e ELSE t[j]
  BY DEF Sound, Typed
<1> HIDE DEF u
<1>2. Entry(e, n, d) /\ Behind(e, d, w)
  BY DEF Entry, Behind
<1>3. \A j \in Slots : Entry(u[j], n, d) /\ Behind(u[j], d, w)
  BY <1>1, <1>2 DEF Sound
<1>4. Single(u)
  BY <1>1 DEF Sound, Single
<1>5. Sound(u, n, d, w)
  BY <1>1, <1>3, <1>4 DEF Sound, Typed
<1> QED BY <1>5 DEF u

\* An address that is found has one entry; one that is not gets an entry that is
\* taken from none or another one, whose packets are gone.
LEMMA FindOk ==
  ASSUME ArpConstants, ArpInv, NEW ip \in Hops, NEW hard \in BOOLEAN
  PROVE  LET f == find_entry(ip, hard)
         IN  /\ hard => f.i # NoSlot
             /\ f.i # NoSlot => Ready(f.tab, f.i, ip) /\ Sound(f.tab, packets, dest, wire)
<1> DEFINE f == find_entry(ip, hard)
           v == Victim(hard)
           c == etharp_cached_entry
<1>1. /\ arp_table \in [Slots -> Entries] /\ c \in Slots /\ Single(arp_table)
      /\ Sound(arp_table, packets, dest, wire)
  BY DEF ArpInv, Sound, Typed
<1>2. NoSlot \notin Slots
  BY DEF NoSlot, Slots
<1>3. CASE Found(ip) # NoSlot
  <2>1. f.i = Found(ip) /\ f.tab = arp_table
    BY <1>3 DEF find_entry
  <2>2. Known(ip) \in SUBSET Slots
    BY DEF Known
  <2>3. Found(ip) \in Slots /\ arp_table[Found(ip)].ip = ip
        /\ arp_table[Found(ip)].state # "EMPTY"
    <3>1. CASE arp_table[c].state = "STABLE" /\ arp_table[c].ip = ip
      BY <1>1, <3>1 DEF Found
    <3>2. CASE ~(arp_table[c].state = "STABLE" /\ arp_table[c].ip = ip)
      <4>1. Known(ip) # {} /\ Found(ip) = First(Known(ip))
        BY <1>3, <3>2 DEF Found
      <4>2. Found(ip) \in Known(ip)
        BY <2>2, <4>1, FirstIn
      <4> QED BY <4>2 DEF Known
    <3> QED BY <3>1, <3>2
  <2>4. Ready(arp_table, Found(ip), ip)
    BY <1>1, <2>3 DEF Ready, Single
  <2> QED BY <1>1, <1>3, <2>1, <2>4
<1>4. CASE Found(ip) = NoSlot
  <2>1. f.i = v /\ f.tab = (IF v = NoSlot THEN arp_table ELSE Recycled(v, ip))
    BY <1>4 DEF find_entry
  <2>2. \A j \in Slots : arp_table[j].state # "EMPTY" => arp_table[j].ip # ip
    <3>1. ~(arp_table[c].state = "STABLE" /\ arp_table[c].ip = ip)
      BY <1>1, <1>2, <1>4 DEF Found
    <3>2. Known(ip) = {}
      <4>1. Known(ip) # {} => First(Known(ip)) \in Slots
        <5>1. Known(ip) \in SUBSET Slots
          BY DEF Known
        <5> QED BY <5>1, FirstIn
      <4> QED BY <1>2, <1>4, <3>1, <4>1 DEF Found
    <3> QED BY <3>2 DEF Known
  <2>3. (v = NoSlot \/ v \in Slots) /\ (hard => v # NoSlot)
    <3> DEFINE idle == {i \in InState("PENDING") : arp_table[i].q = <<>>}
    <3>1. \A s : InState(s) \in SUBSET Slots
      BY DEF InState
    <3>2. idle \in SUBSET Slots
      BY <3>1
    <3>3. Slots # {}
      BY DEF ArpConstants, Slots
    <3>4. InState("EMPTY") = {} /\ InState("STABLE") = {} => InState("PENDING") # {}
      BY <1>1, <3>3 DEF InState, Entries
    <3> HIDE DEF idle
    <3>5. /\ InState("EMPTY") # {} => First(InState("EMPTY")) \in Slots
          /\ InState("STABLE") # {} => Oldest(InState("STABLE")) \in Slots
          /\ idle # {} => Oldest(idle) \in Slots
          /\ InState("PENDING") # {} => Oldest(InState("PENDING")) \in Slots
      BY <1>1, <3>1, <3>2, FirstIn, OldestIn
    <3> QED BY <1>2, <3>4, <3>5 DEF Victim, idle
  <2>5. CASE v \in Slots
    <3> DEFINE e == [Empty EXCEPT !.ip = ip, !.mac = arp_table[v].mac]
    <3>1. e \in Entries /\ e.state = "EMPTY" /\ e.q = <<>> /\ e.ip = ip
      <4>0. <<>> \in Seq(Nat)
        OBVIOUS
      <4>1. Empty \in Entries /\ Empty.state = "EMPTY" /\ Empty.q = <<>>
        BY <4>0 DEF Empty, Entries, Names
      <4>2. arp_table[v].mac \in Names /\ ip \in Names
        BY <1>1, <2>5 DEF Entries, Names
      <4> HIDE DEF v
      <4> QED BY <4>1, <4>2 DEF Entries
    <3>2. f.tab = [arp_table EXCEPT ![v] = e]
      BY <1>2, <2>1, <2>5 DEF Recycled
    <3> HIDE DEF e, v
    <3>3. Sound(f.tab, packets, dest, wire)
      <4>1. Sound([arp_table EXCEPT ![v] = e], packets, dest, wire)
        BY <1>1, <2>5, <3>1, EmptiedOk, Zenon
      <4> QED BY <3>2, <4>1
    <3>4. f.tab[v] = e /\ \A j \in Slots \ {v} : f.tab[j] = arp_table[j]
      BY <1>1, <2>5, <3>2
    <3>5. Ready(f.tab, v, ip)
      BY <2>2, <2>5, <3>1, <3>4 DEF Ready
    <3> QED BY <2>1, <2>3, <3>3, <3>5
  <2> QED BY <2>1, <2>3, <2>5
<1> QED BY <1>3, <1>4

-----------------------------------------------------------------------------
(* What happens to an entry and to the wire.                               *)

\* An entry for an address is changed: what has to be shown of the new one.
LEMMA ChangedOk ==
  ASSUME NEW t, NEW n, NEW d, NEW w, Sound(t, n, d, w), NEW ip, NEW i, Ready(t, i, ip),
         NEW e \in Entries, e.ip = ip, Entry(e, n, d), NEW x, Typed(t, n, d, x), Wired(n, d, x),
         Behind(e, d, x), \A j \in Slots \ {i} : Behind(t[j], d, x)
  PROVE  Sound([t EXCEPT ![i] = e], n, d, x)
<1> DEFINE u == [t EXCEPT ![i] = e]
<1>0. i \in Slots /\ t \in [Slots -> Entries]
  BY DEF Ready, Typed
<1>1. u \in [Slots -> Entries] /\ \A j \in Slots : u[j] = IF j = i THEN e ELSE t[j]
  BY <1>0
<1> HIDE DEF u
<1>2. \A j \in Slots : Entry(u[j], n, d) /\ Behind(u[j], d, x)
  BY <1>1 DEF Sound
<1>3. Single(u)
  BY <1>0, <1>1 DEF Sound, Single, Ready
<1>4. Sound(u, n, d, x)
  BY <1>1, <1>2, <1>3 DEF Sound, Typed
<1> QED BY <1>4 DEF u

\* The address is resolved: what waits for it leaves, after what has left before.
LEMMA ResolvedOk ==
  ASSUME NEW t, NEW n, NEW d, NEW w, Sound(t, n, d, w), NEW ip \in Hops, NEW i, Ready(t, i, ip)
  PROVE  Sound([t EXCEPT ![i].state = "STABLE", ![i].mac = ip, ![i].ctime = 0, ![i].q = <<>>],
               n, d, w \o Flush(t[i].q, ip))
<1> DEFINE o == t[i]
           q == o.q
           e == [o EXCEPT !.state = "STABLE", !.mac = ip, !.ctime = 0, !.q = <<>>]
           g == Flush(q, ip)
           x == w \o g
           l == Len(w)
           m == Len(q)
<1>1. /\ i \in Slots /\ t \in [Slots -> Entries] /\ n \in Nat /\ d \in Seq(Names)
      /\ Len(d) = n /\ w \in Seq(Frames) /\ o \in Entries /\ o.ip = ip /\ q \in Seq(Nat)
  BY DEF Ready, Sound, Typed, Entries
<1>2. Entry(o, n, d) /\ Behind(o, d, w) /\ Wired(n, d, w)
  BY <1>1 DEF Sound
<1>3. [t EXCEPT ![i].state = "STABLE", ![i].mac = ip, ![i].ctime = 0, ![i].q = <<>>]
      = [t EXCEPT ![i] = e]
  BY <1>1 DEF Entries
<1>4. e \in Entries /\ e.state = "STABLE" /\ e.mac = ip /\ e.ip = ip /\ e.q = <<>>
  <2>1. ip \in Names /\ <<>> \in Seq(Nat)
    BY DEF Names
  <2> HIDE DEF o
  <2> QED BY <1>1, <2>1 DEF Entries
<1> HIDE DEF e
<1>5. Entry(e, n, d)
  BY <1>4 DEF Entry
<1>6. g \in Seq(Frames) /\ Len(g) = m /\ m \in Nat /\ l \in Nat
      /\ \A k \in 1..m : g[k].packet = q[k] /\ g[k].mac = ip
  <2> HIDE DEF o
  <2>1. ip \in Names /\ DOMAIN q = 1..m /\ m \in Nat /\ l \in Nat /\ \A k \in 1..m : q[k] \in Nat
    BY <1>1 DEF Names
  <2> HIDE DEF q
  <2>2. \A k \in 1..m : [packet |-> q[k], mac |-> ip] \in Frames
    BY <2>1 DEF Frames
  <2> HIDE DEF m
  <2> QED BY <2>1, <2>2 DEF Flush
<1> HIDE DEF g
<1>7. /\ x \in Seq(Frames) /\ Len(x) = l + m
      /\ \A k \in 1..(l + m) : x[k] = IF k <= l THEN w[k] ELSE g[k - l]
  <2> HIDE DEF m
  <2> QED BY <1>1, <1>6, ConcatProperties
<1> HIDE DEF x
<1>8. \A k \in 1..m : q[k] \in 1..n /\ d[q[k]] = ip
  BY <1>1, <1>2 DEF Entry
<1>9. \A j, k \in 1..m : j < k => q[j] < q[k]
  BY <1>2 DEF Entry
<1>10. \A k \in 1..m, j \in 1..l : d[w[j].packet] = ip => w[j].packet < q[k]
  BY <1>1, <1>2 DEF Behind
<1> HIDE DEF q, o, m, l
<1>11. \A k \in 1..(l + m) : \/ k \in 1..l /\ x[k] = w[k]
                             \/ k - l \in 1..m /\ k > l /\ x[k] = g[k - l]
  BY <1>6, <1>7
<1>12. Wired(n, d, x)
  <2>1. ASSUME NEW k \in 1..Len(x) PROVE x[k].packet \in 1..n /\ x[k].mac = d[x[k].packet]
    <3>1. CASE k \in 1..l /\ x[k] = w[k]
      BY <1>2, <3>1 DEF Wired, l
    <3>2. CASE k - l \in 1..m /\ k > l /\ x[k] = g[k - l]
      BY <1>6, <1>8, <3>2
    <3> QED BY <1>7, <1>11, <2>1, <3>1, <3>2
  <2>2. ASSUME NEW j \in 1..Len(x), NEW k \in 1..Len(x), j < k,
               d[x[j].packet] = d[x[k].packet]
        PROVE  x[j].packet < x[k].packet
    <3>0. j \in Int /\ k \in Int /\ l \in Nat
      BY <1>6, <1>7
    <3>1. CASE k \in 1..l /\ x[k] = w[k]
      <4>1. j \in 1..l /\ x[j] = w[j]
        BY <1>7, <1>11, <2>2, <3>0, <3>1
      <4> QED BY <1>2, <2>2, <3>1, <4>1 DEF Wired, l
    <3>2. CASE k - l \in 1..m /\ k > l /\ x[k] = g[k - l]
      <4>1. x[k].packet = q[k - l] /\ d[x[k].packet] = ip
        BY <1>6, <1>8, <3>2
      <4>2. CASE j \in 1..l /\ x[j] = w[j]
        BY <1>10, <2>2, <3>2, <4>1, <4>2
      <4>3. CASE j - l \in 1..m /\ j > l /\ x[j] = g[j - l]
        <5>1. x[j].packet = q[j - l] /\ j - l < k - l
          BY <1>6, <2>2, <3>0, <4>3
        <5> QED BY <1>9, <3>2, <4>1, <4>3, <5>1
      <4> QED BY <1>7, <1>11, <2>2, <4>2, <4>3
    <3> QED BY <1>7, <1>11, <2>2, <3>1, <3>2
  <2> QED BY <2>1, <2>2 DEF Wired
<1>13. ASSUME NEW j \in Slots \ {i} PROVE Behind(t[j], d, x)
  <2>1. Entry(t[j], n, d) /\ Behind(t[j], d, w)
    BY DEF Sound
  <2>2. t[j].q # <<>> => t[j].ip # ip
    BY <2>1 DEF Entry, Ready
  <2>3. ASSUME NEW k \in 1..Len(t[j].q), NEW h \in 1..Len(x), d[x[h].packet] = t[j].ip
        PROVE  x[h].packet < t[j].q[k]
    <3>1. t[j].ip # ip
      <4>1. t[j].q \in Seq(Nat)
        BY <1>1 DEF Entries
      <4>2. t[j].q # <<>>
        BY <2>3, <4>1
      <4> QED BY <2>2, <4>2
    <3>2. h \in 1..l /\ x[h] = w[h]
      <4>1. ~(h - l \in 1..m /\ h > l /\ x[h] = g[h - l])
        BY <1>6, <1>8, <2>3, <3>1
      <4> QED BY <1>7, <1>11, <4>1
    <3> QED BY <2>1, <2>3, <3>2 DEF Behind, l
  <2> QED BY <2>3 DEF Behind
<1>14. Behind(e, d, x)
  BY <1>4 DEF Behind
<1>15. Typed(t, n, d, x)
  BY <1>1, <1>7 DEF Typed
<1>16. Sound([t EXCEPT ![i] = e], n, d, x)
  BY <1>4, <1>5, <1>12, <1>13, <1>14, <1>15, ChangedOk
<1> QED BY <1>3, <1>16 DEF x, g, q, o

\* p is later than everything that waits or has left.
Fresh(p, t, w) ==
  /\ \A i \in Slots : \A k \in 1..Len(t[i].q) : t[i].q[k] < p
  /\ \A k \in 1..Len(w) : w[k].packet < p

\* A packet is to be sent.
LEMMA GrownOk ==
  ASSUME NEW t, NEW n, NEW d, NEW w, Sound(t, n, d, w), NEW hop \in Names,
         NEW m, m = n + 1, NEW c, c = Append(d, hop)
  PROVE  Sound(t, m, c, w) /\ Fresh(m, t, w)
<1>1. /\ t \in [Slots -> Entries] /\ n \in Nat /\ d \in Seq(Names) /\ Len(d) = n
      /\ w \in Seq(Frames)
  BY DEF Sound, Typed
<1>2. /\ c \in Seq(Names) /\ Len(c) = n + 1 /\ c[n + 1] = hop
      /\ \A k \in 1..n : c[k] = d[k]
  BY <1>1
<1>3. \A i \in 1..n : i \in 1..(n + 1) /\ i < n + 1
  BY <1>1
<1>4. Wired(n, d, w)
  BY DEF Sound
<1>5. Wired(n + 1, c, w)
  BY <1>2, <1>3, <1>4 DEF Wired
<1>6. ASSUME NEW i \in Slots
      PROVE  /\ Entry(t[i], n + 1, c) /\ Behind(t[i], c, w)
             /\ \A k \in 1..Len(t[i].q) : t[i].q[k] < n + 1
  <2>1. Entry(t[i], n, d) /\ Behind(t[i], d, w)
    BY DEF Sound
  <2>2. \A k \in 1..Len(t[i].q) : t[i].q[k] \in 1..n
    BY <2>1 DEF Entry
  <2>3. Entry(t[i], n + 1, c)
    BY <1>2, <1>3, <2>1 DEF Entry
  <2>4. Behind(t[i], c, w)
    BY <1>2, <1>4, <2>1 DEF Behind, Wired
  <2> QED BY <1>3, <2>2, <2>3, <2>4
<1>7. Typed(t, n + 1, c, w)
  BY <1>1, <1>2 DEF Typed
<1>8. Single(t)
  BY DEF Sound
<1>9. Sound(t, n + 1, c, w)
  BY <1>5, <1>6, <1>7, <1>8 DEF Sound
<1>10. Fresh(n + 1, t, w)
  BY <1>3, <1>4, <1>6 DEF Fresh, Wired
<1> QED BY <1>1, <1>2, <1>9, <1>10

\* A packet leaves at once, if none waits for the same address.
LEMMA SentOk ==
  ASSUME NEW t, NEW n \in Nat \ {0}, NEW d, NEW w, Sound(t, n, d, w), Fresh(n, t, w),
         NEW mac \in Names, d[n] = mac,
         \A i \in Slots : t[i].q # <<>> => t[i].ip # mac
  PROVE  Sound(t, n, d, Append(w, [packet |-> n, mac |-> mac]))
<1> DEFINE g == [packet |-> n, mac |-> mac]
           x == Append(w, g)
           l == Len(w)
<1>1. /\ t \in [Slots -> Entries] /\ d \in Seq(Names) /\ Len(d) = n /\ w \in Seq(Frames)
      /\ l \in Nat
  BY DEF Sound, Typed
<1>2. g \in Frames /\ g.packet = n /\ g.mac = mac
  BY DEF Frames
<1> HIDE DEF g
<1>3. /\ x \in Seq(Frames) /\ Len(x) = l + 1 /\ x[l + 1] = g
      /\ \A k \in 1..l : x[k] = w[k]
  BY <1>1, <1>2
<1> HIDE DEF x
<1>4. Wired(n, d, w) /\ \A k \in 1..l : w[k].packet < n
  BY DEF Sound, Fresh
<1>5. n \in 1..n
  OBVIOUS
<1> HIDE DEF l
<1>6. \A k \in 1..(l + 1) : k = l + 1 \/ k \in 1..l
  BY <1>1
<1>7. \A j, k \in 1..(l + 1) : j < k => j \in 1..l
  BY <1>1
<1>8. Wired(n, d, x)
  <2>1. ASSUME NEW k \in 1..Len(x) PROVE x[k].packet \in 1..n /\ x[k].mac = d[x[k].packet]
    BY <1>2, <1>3, <1>4, <1>5, <1>6 DEF Wired, l
  <2>2. ASSUME NEW j \in 1..Len(x), NEW k \in 1..Len(x), j < k,
               d[x[j].packet] = d[x[k].packet]
        PROVE  x[j].packet < x[k].packet
    <3>1. j \in 1..l /\ x[j] = w[j]
      BY <1>3, <1>7, <2>2
    <3>2. CASE k = l + 1
      BY <1>2, <1>3, <1>4, <3>1, <3>2
    <3>3. CASE k \in 1..l
      BY <1>3, <1>4, <2>2, <3>1, <3>3 DEF Wired, l
    <3> QED BY <1>3, <1>6, <3>2, <3>3
  <2> QED BY <2>1, <2>2 DEF Wired
<1>9. ASSUME NEW i \in Slots PROVE Behind(t[i], d, x)
  <2>1. Behind(t[i], d, w) /\ t[i].q \in Seq(Nat)
    BY <1>1 DEF Sound, Entries
  <2>2. ASSUME NEW k \in 1..Len(t[i].q), NEW j \in 1..Len(x), d[x[j].packet] = t[i].ip
        PROVE  x[j].packet < t[i].q[k]
    <3>1. t[i].q # <<>>
      BY <2>1, <2>2
    <3>2. j \in 1..l /\ x[j] = w[j]
      BY <1>2, <1>3, <1>6, <2>2, <3>1
    <3> QED BY <2>1, <2>2, <3>2 DEF Behind, l
  <2> QED BY <2>2 DEF Behind
<1>10. Sound(t, n, d, x)
  BY <1>1, <1>3, <1>8, <1>9 DEF Sound, Typed
<1> QED BY <1>10 DEF x, g

\* The address is asked for; the packet n waits if it is to.
LEMMA QueuedOk ==
  ASSUME NEW t, NEW n, NEW d, NEW w, Sound(t, n, d, w), NEW ip \in Hops, NEW i,
         Ready(t, i, ip), t[i].state # "STABLE", NEW room \in BOOLEAN,
         room => n # 0 /\ d[n] = ip /\ Fresh(n, t, w)
  PROVE  Sound([t EXCEPT ![i].state = "PENDING", ![i].q = IF room THEN Append(@, n) ELSE @],
               n, d, w)
<1> DEFINE o == t[i]
           p == IF room THEN Append(o.q, n) ELSE o.q
           e == [o EXCEPT !.state = "PENDING", !.q = p]
           m == Len(o.q)
<1>1. /\ i \in Slots /\ t \in [Slots -> Entries] /\ n \in Nat /\ d \in Seq(Names)
      /\ Len(d) = n /\ w \in Seq(Frames) /\ o \in Entries /\ o.ip = ip /\ o.q \in Seq(Nat)
      /\ m \in Nat
  BY DEF Ready, Sound, Typed, Entries
<1>2. Entry(o, n, d) /\ Behind(o, d, w) /\ Wired(n, d, w)
  BY <1>1 DEF Sound
<1>3. [t EXCEPT ![i].state = "PENDING", ![i].q = IF room THEN Append(@, n) ELSE @]
      = [t EXCEPT ![i] = e]
  BY <1>1 DEF Entries
<1>4. /\ p \in Seq(Nat)
      /\ \A k \in 1..Len(p) : \/ k \in 1..m /\ p[k] = o.q[k]
                              \/ room /\ k = m + 1 /\ p[k] = n
  <2> HIDE DEF o
  <2>1. CASE room
    <3>1. Append(o.q, n) \in Seq(Nat) /\ Len(Append(o.q, n)) = m + 1
          /\ Append(o.q, n)[m + 1] = n /\ \A k \in 1..m : Append(o.q, n)[k] = o.q[k]
      BY <1>1
    <3>2. p = Append(o.q, n)
      BY <2>1
    <3> HIDE DEF p, m
    <3>3. \A k \in 1..(m + 1) : k \in 1..m \/ k = m + 1
      BY <1>1
    <3> QED BY <2>1, <3>1, <3>2, <3>3
  <2>2. CASE ~room
    <3>1. p = o.q
      BY <2>2
    <3> HIDE DEF p
    <3> QED BY <1>1, <3>1
  <2> QED BY <2>1, <2>2
<1> HIDE DEF p
<1>5. e \in Entries /\ e.state = "PENDING" /\ e.ip = ip /\ e.q = p
  <2> HIDE DEF o
  <2> QED BY <1>1, <1>4 DEF Entries
<1> HIDE DEF e
<1>6. room => \A k \in 1..m : o.q[k] < n
  BY <1>1 DEF Fresh
<1>7. room => n \in 1..n
  BY <1>1
<1> HIDE DEF o, m
<1>8. Entry(e, n, d)
  <2>1. \A k \in 1..Len(p) : p[k] \in 1..n /\ d[p[k]] = ip
    BY <1>1, <1>2, <1>4, <1>7 DEF Entry, m
  <2>2. ASSUME NEW j \in 1..Len(p), NEW k \in 1..Len(p), j < k PROVE p[j] < p[k]
    <3>1. j \in 1..m /\ p[j] = o.q[j]
      BY <1>1, <1>4, <2>2
    <3> QED BY <1>2, <1>4, <1>6, <2>2, <3>1 DEF Entry, m
  <2> QED BY <1>5, <2>1, <2>2 DEF Entry
<1>9. Behind(e, d, w)
  <2>1. ASSUME NEW k \in 1..Len(p), NEW j \in 1..Len(w), d[w[j].packet] = ip
        PROVE  w[j].packet < p[k]
    BY <1>1, <1>2, <1>4, <2>1 DEF Behind, m, Fresh
  <2> QED BY <1>5, <2>1 DEF Behind
<1>10. \A j \in Slots \ {i} : Behind(t[j], d, w)
  BY DEF Sound
<1>11. Typed(t, n, d, w)
  BY DEF Sound
<1>12. Sound([t EXCEPT ![i] = e], n, d, w)
  BY <1>2, <1>5, <1>8, <1>9, <1>10, <1>11, ChangedOk
<1> QED BY <1>3, <1>12

\* An entry gets older, or it is empty and nothing waits there.
LEMMA AgedOk ==
  ASSUME NEW t, NEW n, NEW d, NEW w, Sound(t, n, d, w)
  PROVE  Sound([i \in Slots |-> Aged(t[i])], n, d, w)
<1> DEFINE u == [i \in Slots |-> Aged(t[i])]
<1>1. t \in [Slots -> Entries]
  BY DEF Sound, Typed
<1>2. ASSUME NEW i \in Slots
      PROVE  /\ u[i] \in Entries /\ u[i].ip = t[i].ip /\ u[i].mac = t[i].mac
             /\ \/ u[i].state = t[i].state /\ u[i].q = t[i].q
                \/ u[i].state = "EMPTY" /\ u[i].q = <<>>
  <2> DEFINE o == t[i]
  <2>1. o \in Entries /\ u[i] = Aged(o) /\ o.ctime + 1 \in Nat /\ 0 \in Nat /\ <<>> \in Seq(Nat)
    BY <1>1 DEF Entries
  <2> HIDE DEF o
  <2>2. [o EXCEPT !.state = "EMPTY", !.ctime = 0, !.q = <<>>] \in Entries
        /\ [o EXCEPT !.ctime = @ + 1] \in Entries
    BY <2>1 DEF Entries
  <2>3. \/ Aged(o) = o
        \/ Aged(o) = [o EXCEPT !.ctime = @ + 1]
        \/ Aged(o) = [o EXCEPT !.state = "EMPTY", !.ctime = 0, !.q = <<>>]
    BY DEF Aged
  <2> HIDE DEF u
  <2> QED BY <2>1, <2>2, <2>3 DEF Entries, o
<1>3. u \in [Slots -> Entries]
  BY <1>2
<1> HIDE DEF u
<1>4. ASSUME NEW i \in Slots PROVE Entry(u[i], n, d) /\ Behind(u[i], d, w)
  <2>1. Entry(t[i], n, d) /\ Behind(t[i], d, w)
    BY DEF Sound
  <2>2. CASE u[i].state = t[i].state /\ u[i].q = t[i].q
    BY <1>2, <2>1, <2>2 DEF Entry, Behind
  <2>3. CASE u[i].state = "EMPTY" /\ u[i].q = <<>>
    BY <2>3 DEF Entry, Behind
  <2> QED BY <1>2, <2>2, <2>3
<1>5. Single(u)
  BY <1>2 DEF Sound, Single
<1>6. Sound(u, n, d, w)
  BY <1>3, <1>4, <1>5 DEF Sound, Typed
<1> QED BY <1>6 DEF u

-----------------------------------------------------------------------------
(* The steps.                                                              *)

LEMMA InitOk == ArpConstants /\ Init => ArpInv
<1> SUFFICES ASSUME ArpConstants, Init PROVE ArpInv
  OBVIOUS
<1>1. /\ arp_table = [i \in Slots |-> Empty] /\ etharp_cached_entry = 1 /\ packets = 0
      /\ dest = <<>> /\ wire = <<>>
  BY DEF Init
<1>2. etharp_cached_entry \in Slots
  BY <1>1 DEF Slots, ArpConstants
<1>3. Empty \in Entries /\ Empty.state = "EMPTY" /\ Empty.q = <<>>
  <2>1. <<>> \in Seq(Nat)
    OBVIOUS
  <2> QED BY <2>1 DEF Empty, Entries, Names
<1>4. Typed(arp_table, packets, dest, wire)
  BY <1>1, <1>3 DEF Typed
<1>5. \A i \in Slots : arp_table[i] = Empty
  BY <1>1
<1>6. Single(arp_table) /\ \A i \in Slots : /\ Entry(arp_table[i], packets, dest)
                                            /\ Behind(arp_table[i], dest, wire)
  BY <1>3, <1>5 DEF Single, Entry, Behind
<1>7. Wired(packets, dest, wire)
  BY <1>1 DEF Wired
<1> QED BY <1>2, <1>4, <1>6, <1>7 DEF ArpInv, Sound

\* update_arp_entry() with the address the packet came from.
LEMMA UpdateStep ==
  ASSUME ArpConstants, ArpInv, NEW ip \in Hosts, NEW hard \in BOOLEAN,
         update_arp_entry(ip, ip, hard), UNCHANGED <<packets, dest>>
  PROVE  ArpInv'
<1> DEFINE f == find_entry(ip, hard)
           u == [f.tab EXCEPT ![f.i].state = "STABLE", ![f.i].mac = ip,
                              ![f.i].ctime = 0, ![f.i].q = <<>>]
           x == wire \o Flush(f.tab[f.i].q, ip)
<1>1. ip \in Hops
  BY DEF Hops
<1>2. CASE f.i = NoSlot
  <2>1. UNCHANGED <<arp_table, etharp_cached_entry, wire>>
    BY <1>2 DEF update_arp_entry
  <2> QED BY <2>1 DEF ArpInv
<1>3. CASE f.i # NoSlot
  <2>1. Ready(f.tab, f.i, ip) /\ Sound(f.tab, packets, dest, wire)
    BY <1>1, <1>3, FindOk
  <2>2. arp_table' = u /\ etharp_cached_entry' = f.i /\ wire' = x
    BY <1>3 DEF update_arp_entry
  <2> HIDE DEF f
  <2>3. Sound(u, packets, dest, x)
    BY <1>1, <2>1, ResolvedOk
  <2> HIDE DEF u, x
  <2>4. f.i \in Slots
    BY <2>1 DEF Ready
  <2> QED BY <2>2, <2>3, <2>4 DEF ArpInv
<1> QED BY <1>2, <1>3

\* etharp_query() for a packet that is the last of n, or for none.
LEMMA QueryStep ==
  ASSUME ArpConstants, ArpInv, NEW ip \in Hops, NEW k \in Nat, NEW mem \in BOOLEAN,
         etharp_query(ip, k, mem),
         NEW n, NEW d,
         \/ k = NoPacket /\ ~mem /\ n = packets /\ d = dest
         \/ k = packets + 1 /\ n = packets + 1 /\ d = Append(dest, ip)
  PROVE  etharp_cached_entry' \in Slots /\ Sound(arp_table', n, d, wire')
<1> DEFINE f == find_entry(ip, TRUE)
           room == mem /\ Waiting < MEMP_NUM_ARP_QUEUE
           t == Queried(f, k, room)
<1>1. Ready(f.tab, f.i, ip) /\ Sound(f.tab, packets, dest, wire)
  BY FindOk
<1>2. /\ arp_table' = t /\ etharp_cached_entry' = f.i
      /\ wire' = IF t[f.i].state = "STABLE" /\ k # NoPacket
                 THEN Append(wire, [packet |-> k, mac |-> t[f.i].mac]) ELSE wire
  BY DEF etharp_query
<1>3. room \in BOOLEAN /\ (room => mem)
  OBVIOUS
<1> HIDE DEF f, room
<1> DEFINE a == f.tab
           i == f.i
<1>4. i \in Slots /\ a \in [Slots -> Entries] /\ a[i].ip = ip /\ Entry(a[i], packets, dest)
  BY <1>1 DEF Ready, Sound, Typed
<1>5. packets \in Nat /\ ip \in Names
  BY <1>1 DEF Sound, Typed, Names
<1>6. /\ Sound(a, n, d, wire)
      /\ k # NoPacket => k = n /\ n \in Nat \ {0} /\ d[n] = ip /\ Fresh(n, a, wire)
      /\ k = NoPacket => ~room
  <2>1. CASE k = NoPacket /\ ~mem /\ n = packets /\ d = dest
    BY <1>1, <1>3, <2>1
  <2>2. CASE k = packets + 1 /\ n = packets + 1 /\ d = Append(dest, ip)
    <3>1. k # NoPacket
      BY <1>5, <2>2 DEF NoPacket
    <3>2. Sound(a, n, d, wire) /\ Fresh(n, a, wire) /\ n \in Nat \ {0} /\ d[n] = ip
      <4>1. Sound(a, n, d, wire) /\ Fresh(n, a, wire)
        BY <1>1, <1>5, <2>2, GrownOk, Zenon
      <4>2. dest \in Seq(Names) /\ Len(dest) = packets
        BY <1>1 DEF Sound, Typed
      <4> QED BY <1>5, <2>2, <4>1, <4>2
    <3> QED BY <2>2, <3>1, <3>2
  <2> QED BY <2>1, <2>2
<1>7. CASE a[i].state = "STABLE"
  <2>1. t = a
    BY <1>7 DEF Queried
  <2>2. a[i].mac = ip
    BY <1>4, <1>7 DEF Entry
  <2>3. CASE k = NoPacket
    BY <1>2, <1>4, <1>6, <2>1, <2>3
  <2>4. CASE k # NoPacket
    <3>1. wire' = Append(wire, [packet |-> n, mac |-> ip])
      BY <1>2, <1>6, <1>7, <2>1, <2>2, <2>4
    <3>2. \A j \in Slots : a[j].q # <<>> => a[j].ip # ip
      <4>1. ASSUME NEW j \in Slots, a[j].q # <<>> PROVE a[j].ip # ip
        <5>1. a[j].state = "PENDING"
          BY <1>1, <4>1 DEF Sound, Entry
        <5> QED BY <1>1, <1>7, <5>1 DEF Ready
      <4> QED BY <4>1
    <3>3. Sound(a, n, d, Append(wire, [packet |-> n, mac |-> ip]))
      BY <1>5, <1>6, <2>4, <3>2, SentOk
    <3> QED BY <1>2, <1>4, <2>1, <3>1, <3>3
  <2> QED BY <2>3, <2>4
<1>8. CASE a[i].state # "STABLE"
  <2> DEFINE u == [a EXCEPT ![i].state = "PENDING", ![i].q = IF room THEN Append(@, k) ELSE @]
             v == [a EXCEPT ![i].state = "PENDING", ![i].q = IF room THEN Append(@, n) ELSE @]
  <2>1. t = u
    BY <1>8 DEF Queried
  <2>2. u = v
    <3>1. room => k = n
      BY <1>6
    <3> QED BY <3>1
  <2>3. Sound(v, n, d, wire)
    <3>1. room => n # 0 /\ d[n] = ip /\ Fresh(n, a, wire)
      BY <1>6
    <3> QED BY <1>1, <1>3, <1>6, <1>8, <3>1, QueuedOk
  <2>4. v[i].state = "PENDING"
    BY <1>4 DEF Entries
  <2> HIDE DEF u, v
  <2>5. wire' = wire
    BY <1>2, <2>1, <2>2, <2>4
  <2> QED BY <1>2, <1>4, <2>1, <2>2, <2>3, <2>5
<1> QED BY <1>7, <1>8

LEMMA NextOk == ArpConstants /\ ArpInv /\ [Next]_vars => ArpInv'
<1> SUFFICES ASSUME ArpConstants, ArpInv, [Next]_vars PROVE ArpInv'
  OBVIOUS
<1>1. ASSUME NEW ip \in Hosts, NEW for_us \in BOOLEAN, etharp_arp_input(ip, for_us)
      PROVE  ArpInv'
  BY <1>1, UpdateStep DEF etharp_arp_input
<1>2. ASSUME NEW ip \in Hosts, etharp_ip_input(ip) PROVE ArpInv'
  BY <1>2, UpdateStep DEF etharp_ip_input
<1>3. ASSUME NEW ip \in Hosts \cup {"far"}, NEW mem \in BOOLEAN, etharp_output(ip, mem)
      PROVE  ArpInv'
  <2> DEFINE hop == IF ip \in Hosts THEN ip ELSE Gw
  <2>1. /\ packets' = packets + 1 /\ dest' = Append(dest, hop)
        /\ etharp_query(hop, packets + 1, mem)
    BY <1>3 DEF etharp_output
  <2>2. hop \in Hops
    BY DEF Hops
  <2>3. packets \in Nat /\ packets + 1 \in Nat
    BY DEF ArpInv, Sound, Typed
  <2> HIDE DEF hop
  <2>4. etharp_cached_entry' \in Slots /\ Sound(arp_table', packets + 1, Append(dest, hop), wire')
    BY <2>1, <2>2, <2>3, QueryStep
  <2> QED BY <2>1, <2>4 DEF ArpInv
<1>4. ASSUME NEW ip \in Hosts, etharp_probe(ip) PROVE ArpInv'
  <2>1. etharp_query(ip, NoPacket, FALSE) /\ UNCHANGED <<packets, dest>>
    BY <1>4 DEF etharp_probe
  <2>2. ip \in Hops /\ NoPacket \in Nat
    BY DEF Hops, NoPacket
  <2>3. etharp_cached_entry' \in Slots /\ Sound(arp_table', packets, dest, wire')
    BY <2>1, <2>2, QueryStep
  <2> QED BY <2>1, <2>3 DEF ArpInv
<1>5. CASE etharp_output_direct
  <2>1. /\ packets' = packets + 1 /\ dest' = Append(dest, "group")
        /\ wire' = Append(wire, [packet |-> packets + 1, mac |-> "group"])
        /\ UNCHANGED <<arp_table, etharp_cached_entry>>
    BY <1>5 DEF etharp_output_direct
  <2>2. Sound(arp_table, packets, dest, wire) /\ etharp_cached_entry \in Slots /\ packets \in Nat
    BY DEF ArpInv, Sound, Typed
  <2> DEFINE n == packets + 1
             d == Append(dest, "group")
  <2>3. "group" \in Names
    BY DEF Names
  <2>4. /\ Sound(arp_table, n, d, wire) /\ Fresh(n, arp_table, wire) /\ n \in Nat \ {0}
        /\ d[n] = "group"
    <3>1. n = packets + 1 /\ d = Append(dest, "group")
      OBVIOUS
    <3> HIDE DEF n, d
    <3>2. Sound(arp_table, n, d, wire) /\ Fresh(n, arp_table, wire)
      BY <2>2, <2>3, <3>1, GrownOk, Zenon
    <3>3. dest \in Seq(Names) /\ Len(dest) = packets
      BY <2>2 DEF Sound, Typed
    <3> QED BY <2>2, <2>3, <3>1, <3>2, <3>3
  <2> HIDE DEF n, d
  <2>5. \A i \in Slots : arp_table[i].q # <<>> => arp_table[i].ip # "group"
    <3>1. "group" \notin Hops
      BY DEF ArpConstants, Hops
    <3> QED BY <2>2, <3>1 DEF Sound, Entry
  <2>6. Sound(arp_table, n, d, Append(wire, [packet |-> n, mac |-> "group"]))
    BY <2>3, <2>4, <2>5, SentOk
  <2> QED BY <2>1, <2>2, <2>6 DEF ArpInv, n, d
<1>6. CASE etharp_tmr
  <2>1. arp_table' = [i \in Slots |-> Aged(arp_table[i])]
        /\ UNCHANGED <<etharp_cached_entry, packets, dest, wire>>
    BY <1>6 DEF etharp_tmr
  <2>2. Sound([i \in Slots |-> Aged(arp_table[i])], packets, dest, wire)
    BY AgedOk DEF ArpInv
  <2> QED BY <2>1, <2>2 DEF ArpInv
<1>7. CASE UNCHANGED vars
  BY <1>7 DEF ArpInv, vars
<1> QED BY <1>1, <1>2, <1>3, <1>4, <1>5, <1>6, <1>7 DEF Next

LEMMA InvTable == ArpInv => TableSound
BY DEF ArpInv, Sound, Single, Entry, TableSound

LEMMA InvWire == ArpInv => NeverMisdirected /\ InOrder
<1> SUFFICES ASSUME ArpInv PROVE NeverMisdirected /\ InOrder
  OBVIOUS
<1>1. Wired(packets, dest, wire) /\ DOMAIN wire = 1..Len(wire)
  BY DEF ArpInv, Sound, Typed
<1> QED BY <1>1 DEF Wired, NeverMisdirected, InOrder

-----------------------------------------------------------------------------
(* The theorems.                                                           *)

\* The invariant holds: what waits, what has left and the table agree, however
\* entries are found, resolved, recycled and expire (etharp.c).
THEOREM ArpInvariant == ASSUME ArpConstants PROVE Spec => []ArpInv
<1>1. Init => ArpInv
  BY InitOk
<1>2. ArpInv /\ [Next]_vars => ArpInv'
  BY NextOk
<1> QED BY <1>1, <1>2, PTL DEF Spec

\* An address has one entry and packets wait only where an answer is awaited, as
\* the assertion in find_entry() says.
THEOREM TableAlwaysSound == ASSUME ArpConstants PROVE Spec => []TableSound
BY ArpInvariant, InvTable, PTL

\* No frame goes to the Ethernet address of another host than its packet's next
\* hop, also after an entry was recycled.
THEOREM NoneMisdirected == ASSUME ArpConstants PROVE Spec => []NeverMisdirected
BY ArpInvariant, InvWire, PTL

\* Packets for one next hop leave in the order they were sent, none twice: what
\* waits in a queue is not overtaken.
THEOREM AlwaysInOrder == ASSUME ArpConstants PROVE Spec => []InOrder
BY ArpInvariant, InvWire, PTL

\* No packet goes astray or overtakes another: what the run of MCStack checks for
\* its instance (etharp.c).
THEOREM ArpAlwaysSound == ASSUME ArpConstants PROVE Spec => []ArpSound
BY TableAlwaysSound, NoneMisdirected, AlwaysInOrder, PTL DEF ArpSound
=============================================================================
