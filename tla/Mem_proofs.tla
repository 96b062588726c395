----------------------------- MODULE Mem_proofs -----------------------------
(***************************************************************************)
(* Proofs about Mem: for every size of the heap and of its headers, and    *)
(* every pool.                                                             *)
(***************************************************************************)
EXTENDS Mem, NaturalsInduction, WellFoundedInduction, TLAPS

-----------------------------------------------------------------------------
(* The lowest of a set.                                                    *)

IsLowest(x, s) == x \in s /\ \A y \in s : x <= y

LEMMA LowestExists ==
  ASSUME NEW s \in SUBSET Nat, s # {}
  PROVE  IsLowest(Lowest(s), s)
<1> DEFINE R == {p \in Nat \X Nat : p[1] < p[2]}
<1>1. IsWellFoundedOn(R, Nat)
  BY NatLessThanWellFounded DEF OpToRel
<1>2. PICK x \in s : \A y \in s : ~(<<y, x>> \in R)
  <2> HIDE DEF R
  <2> QED BY <1>1, WFMin
<1>3. \A y \in s : x <= y
  <2> SUFFICES ASSUME NEW y \in s PROVE x <= y
    OBVIOUS
  <2>1. <<y, x>> \notin R /\ y \in Nat /\ x \in Nat
    BY <1>2
  <2> QED BY <2>1
<1> QED BY <1>2, <1>3 DEF Lowest, IsLowest

LEMMA LowestIs ==
  ASSUME NEW s \in SUBSET Nat, NEW x, IsLowest(x, s)
  PROVE  x = Lowest(s)
<1>1. IsLowest(Lowest(s), s)
  BY LowestExists DEF IsLowest
<1> DEFINE l == Lowest(s)
<1>2. l \in Nat /\ x \in Nat /\ l <= x /\ x <= l
  <2> HIDE DEF l
  <2>1. IsLowest(l, s)
    BY <1>1 DEF l
  <2> QED BY <2>1 DEF IsLowest
<1> HIDE DEF l
<1>3. x = l
  BY <1>2
<1> QED BY <1>3 DEF l

-----------------------------------------------------------------------------
(* Blocks that tile the heap.                                              *)

Offsets == 0..MEM_SIZE

Mems == [next : Offsets, prev : Offsets, used : BOOLEAN]

Below(r) == DOMAIN r \ {MEM_SIZE}

\* The links of HeapTiled, in both directions.
Tiled(r) ==
  /\ DOMAIN r \subseteq Offsets /\ 0 \in Below(r) /\ MEM_SIZE \in DOMAIN r
  /\ r = [o \in DOMAIN r |-> r[o]]
  /\ \A o \in DOMAIN r : r[o] \in Mems
  /\ r[0].prev = 0 /\ r[MEM_SIZE].used
  /\ \A o \in Below(r) :
       /\ r[o].next \in DOMAIN r /\ r[o].next >= o + HDR
       /\ \A q \in Below(r) : q <= o \/ q >= r[o].next
  /\ \A o \in Below(r) \ {0} : r[o].prev \in Below(r) /\ r[r[o].prev].next = o

\* A link forward is followed back.
LEMMA LinkedBack ==
  ASSUME MemConstants, NEW r, Tiled(r), NEW o \in Below(r), r[o].next # MEM_SIZE
  PROVE  r[r[o].next].prev = o
<1> DEFINE n == r[o].next
           p == r[n].prev
<1>1. o \in Nat /\ n \in Nat /\ n >= o + HDR /\ HDR \in Nat \ {0} /\ n \in Below(r)
  BY DEF MemConstants, Tiled, Below, Offsets
<1>2. n # 0
  BY <1>1
<1>3. p \in Below(r) /\ r[p].next = n
  BY <1>1, <1>2 DEF Tiled
<1>4. p \in Nat /\ n >= p + HDR /\ (o <= p \/ o >= n) /\ (p <= o \/ p >= n)
  BY <1>1, <1>3 DEF Tiled, Below, Offsets
<1> HIDE DEF n, p
<1>5. p = o
  BY <1>1, <1>4
<1> QED BY <1>5 DEF n, p

\* What changing whether the block at m is used, joining the one at n to the one
\* at m, and writing a header at n in the one at m make of the heap.
Marked(r, u, m, b) ==
  /\ Tiled(u) /\ DOMAIN u = DOMAIN r /\ Below(u) = Below(r)
  /\ \A o \in DOMAIN r : /\ u[o].next = r[o].next /\ u[o].prev = r[o].prev
                         /\ u[o].used = IF o = m THEN b ELSE r[o].used

Joined(r, j, m, n) ==
  /\ Tiled(j) /\ DOMAIN j = DOMAIN r \ {n} /\ Below(j) = Below(r) \ {n}
  /\ n \in Below(r) /\ m < n /\ n < r[n].next /\ m \in Below(j)
  /\ j[m].next = r[n].next /\ j[m].prev = r[m].prev
  /\ \A o \in DOMAIN j : /\ j[o].used = r[o].used
                         /\ o # m => j[o].next = r[o].next

Divided(r, s, m, n) ==
  /\ Tiled(s) /\ DOMAIN s = DOMAIN r \cup {n} /\ Below(s) = Below(r) \cup {n}
  /\ n \notin DOMAIN r /\ m # n
  /\ s[n].next = r[m].next /\ s[n].used = FALSE /\ s[m].next = n
  /\ \A o \in DOMAIN r : /\ s[o].used = r[o].used
                         /\ o # m => s[o].next = r[o].next

LEMMA MarkOk ==
  ASSUME NEW r, Tiled(r), NEW m \in Below(r), NEW b \in BOOLEAN
  PROVE  Marked(r, [r EXCEPT ![m].used = b], m, b)
<1> DEFINE u == [r EXCEPT ![m].used = b]
<1>0. /\ DOMAIN r \subseteq Offsets /\ 0 \in Below(r) /\ MEM_SIZE \in DOMAIN r
      /\ \A o \in DOMAIN r : r[o] \in Mems
      /\ m \in DOMAIN r /\ m # MEM_SIZE
  BY DEF Tiled, Below
<1>1. DOMAIN u = DOMAIN r /\ u = [o \in DOMAIN u |-> u[o]]
  OBVIOUS
<1>2. \A o \in DOMAIN r : u[o] = IF o = m THEN [r[m] EXCEPT !.used = b] ELSE r[o]
  BY DEF Below
<1>3. \A o \in DOMAIN r : /\ u[o].next = r[o].next /\ u[o].prev = r[o].prev
                          /\ u[o].used = IF o = m THEN b ELSE r[o].used
                          /\ u[o] \in Mems
  BY <1>0, <1>2 DEF Mems
<1> HIDE DEF u
<1>4. Below(u) = Below(r)
  BY <1>1 DEF Below
<1>5. Tiled(u)
  BY <1>0, <1>1, <1>3, <1>4, SMTT(30) DEF Tiled, Below
<1> QED BY <1>1, <1>3, <1>4, <1>5 DEF Marked, u

\* A block that joins the one before it leaves a tiling.
LEMMA JoinOk ==
  ASSUME MemConstants, NEW r, Tiled(r), NEW m \in Below(r), r[m].next # MEM_SIZE
  PROVE  Joined(r, Join(r, m, r[m].next), m, r[m].next)
<1> DEFINE n == r[m].next
           k == r[n].next
           j == Join(r, m, n)
<1>0. /\ DOMAIN r \subseteq Offsets /\ 0 \in Below(r) /\ MEM_SIZE \in DOMAIN r
      /\ \A o \in DOMAIN r : r[o] \in Mems
      /\ m \in DOMAIN r /\ m # MEM_SIZE /\ HDR \in Nat \ {0} /\ MEM_SIZE \in Nat
      /\ \A o \in DOMAIN r : o \in Nat /\ o <= MEM_SIZE
  BY DEF Tiled, Below, MemConstants, Offsets
<1>1. n \in Below(r) /\ m < n /\ n < k /\ k \in DOMAIN r /\ m \in Nat /\ n \in Nat
      /\ k \in Nat
  <2>1. n \in DOMAIN r /\ n >= m + HDR /\ n \in Below(r)
    BY DEF Tiled, Below
  <2>2. k \in DOMAIN r /\ k >= n + HDR
    BY <2>1 DEF Tiled
  <2>3. m \in Nat /\ n \in Nat /\ k \in Nat
    BY <1>0, <2>1, <2>2
  <2> HIDE DEF n, k
  <2> QED BY <1>0, <2>1, <2>2, <2>3
<1>2. DOMAIN j = DOMAIN r \ {n} /\ j = [o \in DOMAIN j |-> j[o]]
  BY DEF Join
<1>3. \A o \in DOMAIN r \ {n} :
        j[o] = IF o = m THEN [r[m] EXCEPT !.next = k]
               ELSE IF o = k THEN [r[o] EXCEPT !.prev = m] ELSE r[o]
  BY DEF Join
<1> HIDE DEF j, k
<1>4. \A o \in DOMAIN r \ {n} :
        /\ j[o] \in Mems /\ j[o].used = r[o].used
        /\ j[o].next = IF o = m THEN k ELSE r[o].next
        /\ j[o].prev = IF o = k /\ o # m THEN m ELSE r[o].prev
  <2> SUFFICES ASSUME NEW o \in DOMAIN r \ {n}
               PROVE  /\ j[o] \in Mems /\ j[o].used = r[o].used
                      /\ j[o].next = IF o = m THEN k ELSE r[o].next
                      /\ j[o].prev = IF o = k /\ o # m THEN m ELSE r[o].prev
    OBVIOUS
  <2>1. r[o] \in Mems /\ r[m] \in Mems /\ k \in Offsets /\ m \in Offsets
    BY <1>0, <1>1
  <2>2. CASE o = m
    <3>1. j[o] = [r[m] EXCEPT !.next = k]
      BY <1>3, <2>2
    <3> QED BY <2>1, <2>2, <3>1 DEF Mems
  <2>3. CASE o # m /\ o = k
    <3>1. j[o] = [r[o] EXCEPT !.prev = m]
      BY <1>3, <2>3
    <3> QED BY <2>1, <2>3, <3>1 DEF Mems
  <2>4. CASE o # m /\ o # k
    BY <1>3, <2>1, <2>4
  <2> QED BY <2>2, <2>3, <2>4
<1>5. Below(j) = Below(r) \ {n}
  BY <1>2 DEF Below
<1> HIDE DEF n
<1>6. /\ DOMAIN j \subseteq Offsets /\ 0 \in Below(j) /\ MEM_SIZE \in DOMAIN j
      /\ \A o \in DOMAIN j : j[o] \in Mems
      /\ j[0].prev = 0 /\ j[MEM_SIZE].used
  <2>1. n # 0 /\ n # MEM_SIZE /\ k # 0 /\ 0 \in DOMAIN r \ {n}
        /\ MEM_SIZE \in DOMAIN r \ {n}
    BY <1>0, <1>1 DEF Below
  <2>2. r[0].prev = 0 /\ r[MEM_SIZE].used
    BY DEF Tiled
  <2> QED BY <1>0, <1>2, <1>4, <1>5, <2>1, <2>2 DEF Below
<1>7. ASSUME NEW o \in Below(j)
      PROVE  /\ j[o].next \in DOMAIN j /\ j[o].next >= o + HDR
             /\ \A q \in Below(j) : q <= o \/ q >= j[o].next
  <2>1. o \in Below(r) /\ o # n /\ o \in DOMAIN r \ {n}
    BY <1>5 DEF Below
  <2>2. CASE o = m
    <3>1. j[o].next = k /\ k \in DOMAIN j
      BY <1>1, <1>2, <1>4, <2>1, <2>2
    <3>2. n >= m + HDR /\ k >= n + HDR
      BY <1>1 DEF Tiled, n, k
    <3>3. ASSUME NEW q \in Below(j) PROVE q <= o \/ q >= k
      <4>1. q \in Below(r) /\ q # n /\ q \in Nat
        BY <1>0, <1>5 DEF Below
      <4>2. (q <= m \/ q >= n) /\ (q <= n \/ q >= k)
        BY <1>1, <4>1 DEF Tiled, n, k
      <4> QED BY <1>1, <2>2, <4>1, <4>2
    <3> QED BY <1>0, <1>1, <2>2, <3>1, <3>2, <3>3
  <2>3. CASE o # m
    <3>1. j[o].next = r[o].next
      BY <1>4, <2>1, <2>3
    <3>2. r[o].next # n
      <4>1. n # 0 /\ r[n].prev = m
        BY <1>1, LinkedBack DEF n, Below
      <4>2. r[o].next # MEM_SIZE => r[r[o].next].prev = o
        BY <2>1, LinkedBack
      <4> QED BY <1>1, <2>3, <4>1, <4>2 DEF Below
    <3>3. r[o].next \in DOMAIN r /\ r[o].next >= o + HDR
          /\ \A q \in Below(r) : q <= o \/ q >= r[o].next
      BY <2>1 DEF Tiled
    <3> QED BY <1>2, <1>5, <3>1, <3>2, <3>3
  <2> QED BY <2>2, <2>3
<1>8. ASSUME NEW o \in Below(j) \ {0}
      PROVE  j[o].prev \in Below(j) /\ j[j[o].prev].next = o
  <2>1. o \in Below(r) \ {0} /\ o # n /\ o \in DOMAIN r \ {n} /\ o \in Nat
    BY <1>0, <1>5 DEF Below
  <2>2. r[o].prev \in Below(r) /\ r[r[o].prev].next = o
    BY <2>1 DEF Tiled
  <2>m. m \in Below(j) /\ m \in DOMAIN r \ {n}
    BY <1>0, <1>1, <1>5
  <2>3. CASE o = k /\ o # m
    <3>1. j[o].prev = m
      BY <1>4, <2>1, <2>3
    <3> QED BY <1>4, <2>3, <2>m, <3>1
  <2>4. CASE ~(o = k /\ o # m)
    <3>1. j[o].prev = r[o].prev
      BY <1>4, <2>1, <2>4
    <3>2. o # k
      BY <1>1, <2>4
    <3>3. r[o].prev # n /\ r[o].prev # m
      <4>1. r[n].next = k /\ r[m].next = n
        BY DEF n, k
      <4> QED BY <2>1, <2>2, <3>2, <4>1
    <3>4. r[o].prev \in Below(j) /\ r[o].prev \in DOMAIN r \ {n}
      BY <1>5, <2>2, <3>3 DEF Below
    <3> QED BY <1>4, <2>2, <3>1, <3>3, <3>4
  <2> QED BY <2>3, <2>4
<1>9. Tiled(j)
  BY <1>2, <1>6, <1>7, <1>8 DEF Tiled
<1>10. m \in Below(j) /\ m \in DOMAIN r \ {n} /\ m # k
  BY <1>0, <1>1, <1>5
<1>11. j[m].next = k /\ j[m].prev = r[m].prev
  BY <1>4, <1>10
<1> QED BY <1>1, <1>2, <1>4, <1>5, <1>9, <1>10, <1>11 DEF Joined, n, j, k

\* A header written inside a block leaves a tiling.
LEMMA SplitOk ==
  ASSUME MemConstants, NEW r, Tiled(r), NEW m \in Below(r), NEW n \in Nat,
         m + HDR <= n, n + HDR <= r[m].next
  PROVE  Divided(r, Split(r, m, n), m, n)
<1> DEFINE k == r[m].next
           s == Split(r, m, n)
<1>0. /\ DOMAIN r \subseteq Offsets /\ 0 \in Below(r) /\ MEM_SIZE \in DOMAIN r
      /\ \A o \in DOMAIN r : r[o] \in Mems
      /\ m \in DOMAIN r /\ m # MEM_SIZE /\ HDR \in Nat \ {0} /\ MEM_SIZE \in Nat
      /\ \A o \in DOMAIN r : o \in Nat /\ o <= MEM_SIZE
  BY DEF Tiled, Below, MemConstants, Offsets
<1>1. k \in DOMAIN r /\ k >= m + HDR /\ (\A q \in Below(r) : q <= m \/ q >= k)
      /\ k \in Nat /\ m \in Nat /\ k <= MEM_SIZE
  BY <1>0 DEF Tiled
<1>k. m < n /\ n < k /\ n + HDR <= k /\ m + HDR <= n
  <2>1. n + HDR <= k
    OBVIOUS
  <2> HIDE DEF k
  <2> QED BY <1>0, <1>1, <2>1
<1>2. DOMAIN s = DOMAIN r \cup {n} /\ s = [o \in DOMAIN s |-> s[o]]
  BY DEF Split
<1>3. \A o \in DOMAIN r \cup {n} :
        s[o] = IF o = n THEN [next |-> k, prev |-> m, used |-> FALSE]
               ELSE IF o = m THEN [r[m] EXCEPT !.next = n]
               ELSE IF o = k /\ o # MEM_SIZE THEN [r[o] EXCEPT !.prev = n] ELSE r[o]
  BY DEF Split
<1> HIDE DEF k, s
<1>n. n \notin DOMAIN r /\ n # MEM_SIZE /\ n \in Offsets /\ n # 0 /\ n # m /\ n # k /\ m # k
  <2>1. n < MEM_SIZE /\ n > 0
    BY <1>0, <1>1, <1>k
  <2>2. n \notin Below(r)
    BY <1>1, <1>k
  <2>3. n # 0 /\ n # m /\ n # k /\ m # k /\ n # MEM_SIZE /\ n \in Offsets
    BY <1>0, <1>1, <1>k, <2>1 DEF Offsets
  <2> QED BY <2>2, <2>3 DEF Below
<1>4. \A o \in DOMAIN r :
        /\ s[o] \in Mems /\ s[o].used = r[o].used
        /\ s[o].next = IF o = m THEN n ELSE r[o].next
        /\ s[o].prev = IF o = k /\ o # MEM_SIZE THEN n ELSE r[o].prev
  <2> SUFFICES ASSUME NEW o \in DOMAIN r
               PROVE  /\ s[o] \in Mems /\ s[o].used = r[o].used
                      /\ s[o].next = IF o = m THEN n ELSE r[o].next
                      /\ s[o].prev = IF o = k /\ o # MEM_SIZE THEN n ELSE r[o].prev
    OBVIOUS
  <2>1. r[o] \in Mems /\ r[m] \in Mems /\ n \in Offsets /\ o # n
    BY <1>0, <1>n
  <2>2. CASE o = m
    <3>1. s[o] = [r[m] EXCEPT !.next = n]
      BY <1>3, <2>1, <2>2
    <3> QED BY <1>n, <2>1, <2>2, <3>1 DEF Mems
  <2>3. CASE o # m /\ o = k /\ o # MEM_SIZE
    <3>1. s[o] = [r[o] EXCEPT !.prev = n]
      BY <1>3, <2>1, <2>3
    <3> QED BY <2>1, <2>3, <3>1 DEF Mems
  <2>4. CASE o # m /\ ~(o = k /\ o # MEM_SIZE)
    <3>1. s[o] = r[o]
      BY <1>3, <2>1, <2>4
    <3> QED BY <2>1, <2>4, <3>1
  <2> QED BY <2>2, <2>3, <2>4
<1>5. s[n].next = k /\ s[n].prev = m /\ s[n].used = FALSE /\ s[n] \in Mems
  <2>1. s[n] = [next |-> k, prev |-> m, used |-> FALSE]
    BY <1>3
  <2> QED BY <1>0, <1>1, <2>1 DEF Mems
<1>6. Below(s) = Below(r) \cup {n}
  BY <1>2, <1>n DEF Below
<1>7. /\ DOMAIN s \subseteq Offsets /\ 0 \in Below(s) /\ MEM_SIZE \in DOMAIN s
      /\ \A o \in DOMAIN s : s[o] \in Mems
      /\ s[0].prev = 0 /\ s[MEM_SIZE].used
  <2>1. 0 \in DOMAIN r /\ k # 0
    BY <1>0, <1>1, <1>k DEF Below
  <2>2. r[0].prev = 0 /\ r[MEM_SIZE].used
    BY DEF Tiled
  <2> QED BY <1>0, <1>2, <1>4, <1>5, <1>6, <1>n, <2>1, <2>2
<1>8. ASSUME NEW o \in Below(s)
      PROVE  /\ s[o].next \in DOMAIN s /\ s[o].next >= o + HDR
             /\ \A q \in Below(s) : q <= o \/ q >= s[o].next
  <2>1. CASE o = n
    <3>1. s[o].next = k /\ k \in DOMAIN s /\ k >= o + HDR
      BY <1>0, <1>1, <1>2, <1>5, <1>k, <2>1
    <3>2. ASSUME NEW q \in Below(s) PROVE q <= o \/ q >= k
      <4>0. CASE q = n
        BY <1>1, <1>k, <2>1, <4>0
      <4>1. CASE q \in Below(r)
        <5>1. (q <= m \/ q >= k) /\ q \in Nat
          BY <1>0, <1>1, <4>1 DEF Below
        <5> QED BY <1>1, <1>k, <2>1, <5>1
      <4> QED BY <1>6, <4>0, <4>1
    <3> QED BY <3>1, <3>2
  <2>2. CASE o = m
    <3>1. s[o].next = n /\ n \in DOMAIN s /\ n >= o + HDR
      BY <1>0, <1>1, <1>2, <1>4, <1>k, <2>2
    <3>2. ASSUME NEW q \in Below(s) PROVE q <= o \/ q >= n
      <4>0. CASE q = n
        BY <1>1, <1>k, <2>2, <4>0
      <4>1. CASE q \in Below(r)
        <5>1. (q <= m \/ q >= k) /\ q \in Nat
          BY <1>0, <1>1, <4>1 DEF Below
        <5> QED BY <1>1, <1>k, <2>2, <5>1
      <4> QED BY <1>6, <4>0, <4>1
    <3> QED BY <3>1, <3>2
  <2>3. CASE o # n /\ o # m
    <3>1. o \in Below(r) /\ o \in DOMAIN r /\ o \in Nat
      BY <1>0, <1>6, <2>3 DEF Below
    <3>2. s[o].next = r[o].next
      BY <1>4, <2>3, <3>1
    <3>3. r[o].next \in DOMAIN r /\ r[o].next >= o + HDR /\ r[o].next \in Nat
          /\ \A q \in Below(r) : q <= o \/ q >= r[o].next
      BY <1>0, <3>1 DEF Tiled
    <3>4. n <= o \/ n >= r[o].next
      <4>1. (o <= m \/ o >= k) /\ (m <= o \/ m >= r[o].next)
        BY <1>1, <3>1, <3>3
      <4> QED BY <1>1, <1>k, <2>3, <3>1, <3>3, <4>1
    <3> QED BY <1>2, <1>6, <3>2, <3>3, <3>4
  <2> QED BY <2>1, <2>2, <2>3
<1>9. ASSUME NEW o \in Below(s) \ {0}
      PROVE  s[o].prev \in Below(s) /\ s[s[o].prev].next = o
  <2>m. m \in Below(s) /\ n \in Below(s) /\ m \in DOMAIN r /\ s[m].next = n
    BY <1>0, <1>4, <1>6
  <2>1. CASE o = n
    BY <1>5, <2>1, <2>m
  <2>2. CASE o # n /\ o = k
    <3>1. o \in DOMAIN r /\ o # MEM_SIZE
      BY <1>1, <2>2 DEF Below
    <3>2. s[o].prev = n
      BY <1>4, <2>2, <3>1
    <3> QED BY <1>5, <2>2, <2>m, <3>2
  <2>3. CASE o # n /\ o # k
    <3>1. o \in Below(r) \ {0} /\ o \in DOMAIN r
      BY <1>6, <2>3 DEF Below
    <3>2. s[o].prev = r[o].prev /\ r[o].prev \in Below(r) /\ r[r[o].prev].next = o
      BY <1>4, <2>3, <3>1 DEF Tiled
    <3>3. r[o].prev # m /\ r[o].prev \in DOMAIN r
      BY <2>3, <3>2 DEF k, Below
    <3> QED BY <1>4, <1>6, <3>2, <3>3
  <2> QED BY <2>1, <2>2, <2>3
<1>10. Tiled(s)
  BY <1>2, <1>7, <1>8, <1>9 DEF Tiled
<1>11. m \in DOMAIN r
  BY <1>0
<1> QED BY <1>2, <1>4, <1>5, <1>6, <1>10, <1>11, <1>n DEF Divided, s, k

-----------------------------------------------------------------------------
(* The inductive invariant of the heap.                                    *)

Frees(r) == {q \in DOMAIN r : ~r[q].used \/ q = MEM_SIZE}

Allocations == [at : Nat, size : Nat]

\* Every used block has one owner, and is large enough for it and for mem_free()
\* and mem_realloc() to make a block of it again.
Owned(r, w) ==
  /\ w \subseteq Allocations
  /\ \A o \in Below(r) : r[o].used <=> \E a \in w : a.at = o
  /\ \A a \in w : /\ a.at \in Below(r) /\ a.size <= Payload(r, a.at)
                  /\ MIN_SIZE <= Payload(r, a.at)
  /\ \A a, b \in w : a.at = b.at => a = b

Plugged(r) == \A o \in Below(r) : ~r[o].used => r[r[o].next].used

HeapOk(r, lf, w) == Tiled(r) /\ Owned(r, w) /\ Plugged(r) /\ IsLowest(lf, Frees(r))

LEMMA Offs ==
  ASSUME MemConstants, NEW r, Tiled(r)
  PROVE  /\ \A o \in DOMAIN r : o \in Nat /\ o <= MEM_SIZE
         /\ \A o \in Below(r) : /\ o \in DOMAIN r /\ o # MEM_SIZE
                                /\ r[o].next \in DOMAIN r /\ r[o].next \in Nat
                                /\ o < r[o].next /\ r[o].next # o
                                /\ r[o].used \in BOOLEAN
         /\ MEM_SIZE \in DOMAIN r /\ r[MEM_SIZE].used
         /\ MEM_SIZE \in Nat /\ HDR \in Nat \ {0} /\ MIN_SIZE \in Nat
         /\ Frees(r) \in SUBSET Nat
<1>1. /\ \A o \in DOMAIN r : o \in Nat /\ o <= MEM_SIZE
      /\ MEM_SIZE \in DOMAIN r /\ r[MEM_SIZE].used
      /\ MEM_SIZE \in Nat /\ HDR \in Nat \ {0} /\ MIN_SIZE \in Nat
  BY DEF MemConstants, Tiled, Offsets
<1>2. ASSUME NEW o \in Below(r)
      PROVE  /\ o \in DOMAIN r /\ o # MEM_SIZE
             /\ r[o].next \in DOMAIN r /\ r[o].next \in Nat
             /\ o < r[o].next /\ r[o].next # o
             /\ r[o].used \in BOOLEAN
  <2>1. o \in DOMAIN r /\ o # MEM_SIZE
    BY DEF Below
  <2>2. r[o].next \in DOMAIN r /\ r[o].next >= o + HDR /\ r[o] \in Mems
    BY <2>1 DEF Tiled
  <2>3. r[o].next \in Nat /\ o \in Nat
    BY <1>1, <2>1, <2>2
  <2>4. o < r[o].next
    BY <1>1, <2>2, <2>3
  <2> QED BY <2>1, <2>2, <2>3, <2>4 DEF Mems
<1> QED BY <1>1, <1>2 DEF Frees

LEMMA InitHeap == MemConstants /\ Init => HeapOk(ram, lfree, owned)
<1> SUFFICES ASSUME MemConstants, Init PROVE HeapOk(ram, lfree, owned)
  OBVIOUS
<1>1. /\ ram = [o \in {0, MEM_SIZE} |->
                  IF o = 0 THEN [next |-> MEM_SIZE, prev |-> 0, used |-> FALSE]
                  ELSE [next |-> MEM_SIZE, prev |-> MEM_SIZE, used |-> TRUE]]
      /\ lfree = 0 /\ owned = {}
  BY DEF Init, mem_init
<1>2. MEM_SIZE \in Nat /\ HDR \in Nat \ {0} /\ HDR <= MEM_SIZE /\ MEM_SIZE # 0
      /\ MEM_SIZE >= 0 + HDR
  BY DEF MemConstants
<1>3. /\ DOMAIN ram = {0, MEM_SIZE}
      /\ ram[0] = [next |-> MEM_SIZE, prev |-> 0, used |-> FALSE]
      /\ ram[MEM_SIZE] = [next |-> MEM_SIZE, prev |-> MEM_SIZE, used |-> TRUE]
      /\ ram = [o \in DOMAIN ram |-> ram[o]]
  BY <1>1, <1>2
<1>4. Below(ram) = {0} /\ DOMAIN ram \subseteq Offsets
  BY <1>2, <1>3 DEF Below, Offsets
<1>5. ram[0] \in Mems /\ ram[MEM_SIZE] \in Mems
  BY <1>2, <1>3 DEF Mems, Offsets
<1>6. Tiled(ram)
  <2>1. /\ 0 \in Below(ram) /\ MEM_SIZE \in DOMAIN ram
        /\ \A o \in DOMAIN ram : ram[o] \in Mems
        /\ ram[0].prev = 0 /\ ram[MEM_SIZE].used
    <3>1. ram[0].prev = 0 /\ ram[MEM_SIZE].used = TRUE
      BY <1>3
    <3>2. 0 \in Below(ram) /\ MEM_SIZE \in DOMAIN ram
      BY <1>3, <1>4
    <3>3. \A o \in DOMAIN ram : o = 0 \/ o = MEM_SIZE
      BY <1>3
    <3> QED BY <1>5, <3>1, <3>2, <3>3
  <2>2. ram[0].next = MEM_SIZE
    BY <1>3
  <2>3. \A o \in Below(ram) :
          /\ ram[o].next \in DOMAIN ram /\ ram[o].next >= o + HDR
          /\ \A q \in Below(ram) : q <= o \/ q >= ram[o].next
    BY <1>2, <1>4, <2>1, <2>2
  <2>4. Below(ram) \ {0} = {}
    BY <1>4
  <2> QED BY <1>3, <1>4, <2>1, <2>3, <2>4 DEF Tiled
<1>7. Owned(ram, owned) /\ Plugged(ram)
  BY <1>1, <1>3, <1>4 DEF Owned, Plugged
<1>8. IsLowest(lfree, Frees(ram))
  BY <1>1, <1>2, <1>3 DEF IsLowest, Frees
<1> QED BY <1>6, <1>7, <1>8 DEF HeapOk

-----------------------------------------------------------------------------
(* mem_malloc().                                                           *)

\* The block at o was taken and what is left of it, if anything, split off.
Carved(r, u, o, size) ==
  /\ Tiled(u) /\ Below(r) \subseteq Below(u)
  /\ \A q \in Below(u) \ Below(r) : o < q /\ u[q].used = FALSE /\ u[q].next = r[o].next
  /\ \A q \in DOMAIN r : /\ u[q].used = IF q = o THEN TRUE ELSE r[q].used
                         /\ q # o /\ q # MEM_SIZE => u[q].next = r[q].next
  /\ size <= Payload(u, o)

LEMMA CarvedOk ==
  ASSUME MemConstants, NEW r, NEW lf, NEW w, HeapOk(r, lf, w),
         NEW o \in Below(r), ~r[o].used, lf <= o,
         NEW u, NEW size \in Nat, Carved(r, u, o, size), MIN_SIZE <= size,
         NEW want \in Nat, want <= size,
         NEW lf2, lf2 = IF o = lf
                        THEN Lowest({q \in DOMAIN u : q >= o /\ (~u[q].used \/ q = MEM_SIZE)})
                        ELSE lf
  PROVE  HeapOk(u, lf2, w \cup {[at |-> o, size |-> want]})
<1> DEFINE a == [at |-> o, size |-> want]
           x == w \cup {a}
<1>0. /\ Tiled(r) /\ Owned(r, w) /\ Plugged(r) /\ IsLowest(lf, Frees(r))
      /\ Tiled(u) /\ Below(r) \subseteq Below(u) /\ size <= Payload(u, o)
      /\ \A q \in Below(u) \ Below(r) :
           o < q /\ u[q].used = FALSE /\ u[q].next = r[o].next
      /\ \A q \in DOMAIN r : /\ u[q].used = IF q = o THEN TRUE ELSE r[q].used
                             /\ q # o /\ q # MEM_SIZE => u[q].next = r[q].next
  BY DEF HeapOk, Carved
<1>1. /\ o \in Nat /\ o \in DOMAIN r /\ o # MEM_SIZE /\ r[o].next \in DOMAIN r
      /\ r[o].next # o /\ MIN_SIZE \in Nat /\ MEM_SIZE \in DOMAIN u
  BY <1>0, Offs
<1>2. \A b \in w : b.at \in Below(r) /\ b.at # o
  BY <1>0 DEF Owned
<1>3. a \in Allocations /\ a.at = o /\ a.size = want
  BY <1>1 DEF Allocations
<1> HIDE DEF a
<1>4. Owned(u, x)
  <2>1. x \subseteq Allocations
    BY <1>0, <1>3 DEF Owned
  <2>2. ASSUME NEW q \in Below(u) PROVE u[q].used <=> \E b \in x : b.at = q
    <3>1. CASE q \notin Below(r)
      BY <1>0, <1>2, <1>3, <3>1
    <3>2. CASE q = o
      BY <1>0, <1>1, <1>3, <3>2
    <3>3. CASE q \in Below(r) /\ q # o
      <4>1. q \in DOMAIN r /\ u[q].used = r[q].used
        BY <1>0, <3>3 DEF Below
      <4>2. r[q].used <=> \E b \in w : b.at = q
        BY <1>0, <3>3 DEF Owned
      <4> QED BY <1>3, <3>3, <4>1, <4>2
    <3> QED BY <3>1, <3>2, <3>3
  <2>3. ASSUME NEW b \in x
        PROVE  b.at \in Below(u) /\ b.size <= Payload(u, b.at) /\ MIN_SIZE <= Payload(u, b.at)
    <3>1. CASE b = a
      <4>1. Payload(u, o) \in Int
        BY <1>0, <1>1, Offs DEF Payload
      <4> QED BY <1>0, <1>1, <1>3, <3>1, <4>1
    <3>2. CASE b \in w
      <4>1. b.at \in Below(r) /\ b.at # o /\ b.at \in DOMAIN r /\ b.at # MEM_SIZE
        BY <1>2, <3>2 DEF Below
      <4>2. Payload(u, b.at) = Payload(r, b.at)
        BY <1>0, <4>1 DEF Payload
      <4> QED BY <1>0, <3>2, <4>1, <4>2 DEF Owned
    <3> QED BY <3>1, <3>2
  <2>4. \A b, c \in x : b.at = c.at => b = c
    BY <1>0, <1>2, <1>3 DEF Owned
  <2> HIDE DEF x
  <2> QED BY <2>1, <2>2, <2>3, <2>4 DEF Owned
<1>5. Plugged(u)
  <2> SUFFICES ASSUME NEW q \in Below(u), ~u[q].used PROVE u[u[q].next].used
    BY DEF Plugged
  <2>1. CASE q \notin Below(r)
    <3>1. r[r[o].next].used
      BY <1>0 DEF Plugged
    <3> QED BY <1>0, <1>1, <2>1, <3>1
  <2>2. CASE q \in Below(r)
    <3>1. q \in DOMAIN r /\ q # MEM_SIZE /\ q # o /\ ~r[q].used /\ u[q].next = r[q].next
      BY <1>0, <2>2 DEF Below
    <3>2. r[r[q].next].used /\ r[q].next \in DOMAIN r
      BY <1>0, <2>2, <3>1 DEF Plugged, Tiled
    <3> QED BY <1>0, <3>1, <3>2
  <2> QED BY <2>1, <2>2
<1>6. IsLowest(lf2, Frees(u))
  <2>0. lf \in Frees(r) /\ lf \in Nat /\ \A y \in Frees(r) : lf <= y
    BY <1>0, Offs DEF IsLowest
  <2>1. ASSUME NEW y \in Frees(u)
        PROVE  y \in Nat /\ lf <= y /\ (lf = o => y >= o)
    <3>1. y \in Nat /\ y \in DOMAIN u
      BY <1>0, Offs DEF Frees
    <3>2. CASE y \in Below(u) \ Below(r)
      BY <1>0, <1>1, <2>0, <3>1, <3>2
    <3>3. CASE y \notin Below(u) \ Below(r)
      <4>1. y \in Frees(r)
        BY <1>0, <1>1, <3>1, <3>3, Offs DEF Frees, Below
      <4> QED BY <2>0, <3>1, <4>1
    <3> QED BY <3>2, <3>3
  <2>2. CASE o = lf
    <3> DEFINE s == {q \in DOMAIN u : q >= o /\ (~u[q].used \/ q = MEM_SIZE)}
    <3>1. s = Frees(u)
      BY <2>1, <2>2 DEF Frees
    <3>2. s \in SUBSET Nat /\ MEM_SIZE \in s
      BY <1>1, <2>1, <3>1 DEF Frees
    <3>3. lf2 = Lowest(s)
      BY <2>2
    <3> HIDE DEF s
    <3>4. IsLowest(lf2, s)
      BY <3>2, <3>3, LowestExists
    <3> QED BY <3>1, <3>4
  <2>3. CASE o # lf
    <3>1. lf2 = lf
      BY <2>3
    <3>2. lf \in Frees(u)
      BY <1>0, <1>1, <2>0, <2>3 DEF Frees, Below
    <3> QED BY <2>1, <3>1, <3>2 DEF IsLowest
  <2> QED BY <2>2, <2>3
<1> QED BY <1>0, <1>4, <1>5, <1>6 DEF HeapOk, a, x

\* The block found is taken, split or whole.
LEMMA MallocCarves ==
  ASSUME MemConstants, NEW r, Tiled(r), NEW o \in Below(r), NEW size \in Nat,
         size <= Payload(r, o)
  PROVE  LET s == IF Payload(r, o) >= size + HDR + MIN_SIZE
                  THEN Split(r, o, o + HDR + size) ELSE r
         IN  Carved(r, [s EXCEPT ![o].used = TRUE], o, size)
<1> DEFINE n == o + HDR + size
           s == IF Payload(r, o) >= size + HDR + MIN_SIZE THEN Split(r, o, n) ELSE r
           u == [s EXCEPT ![o].used = TRUE]
<1>1. /\ o \in Nat /\ o \in DOMAIN r /\ o # MEM_SIZE /\ r[o].next \in Nat
      /\ HDR \in Nat /\ HDR # 0 /\ MIN_SIZE \in Nat
  BY Offs
<1>2. CASE Payload(r, o) >= size + HDR + MIN_SIZE
  <2>1. n \in Nat /\ o + HDR <= n /\ n + HDR <= r[o].next /\ o < n /\ size <= n - (o + HDR)
    <3> DEFINE k == r[o].next
    <3>1. k - (o + HDR) >= size + HDR + MIN_SIZE /\ k \in Nat
      BY <1>1, <1>2 DEF Payload
    <3> HIDE DEF k
    <3>2. n \in Nat /\ o + HDR <= n /\ n + HDR <= k /\ o < n /\ size <= n - (o + HDR)
      BY <1>1, <3>1
    <3> QED BY <3>2 DEF k
  <2> HIDE DEF n
  <2> DEFINE t == Split(r, o, n)
  <2>2. /\ Tiled(t) /\ DOMAIN t = DOMAIN r \cup {n} /\ Below(t) = Below(r) \cup {n}
        /\ n \notin DOMAIN r /\ o # n
        /\ t[n].next = r[o].next /\ t[n].used = FALSE /\ t[o].next = n
        /\ \A q \in DOMAIN r : /\ t[q].used = r[q].used
                               /\ q # o => t[q].next = r[q].next
    <3>1. Divided(r, t, o, n)
      BY <2>1, SplitOk
    <3> HIDE DEF t
    <3> QED BY <3>1 DEF Divided
  <2>3. s = t
    BY <1>2
  <2> HIDE DEF t, s
  <2>4. /\ Tiled(u) /\ DOMAIN u = DOMAIN t
        /\ \A q \in DOMAIN t : /\ u[q].next = t[q].next /\ u[q].prev = t[q].prev
                               /\ u[q].used = IF q = o THEN TRUE ELSE t[q].used
    <3>1. o \in Below(t)
      BY <2>2
    <3>2. Marked(t, u, o, TRUE)
      BY <2>2, <2>3, <3>1, MarkOk
    <3> QED BY <3>2 DEF Marked
  <2> HIDE DEF u
  <2>5. Below(u) = Below(r) \cup {n} /\ n \in DOMAIN t
    BY <2>2, <2>4 DEF Below
  <2>6. size <= Payload(u, o)
    <3>1. u[o].next = n
      BY <1>1, <2>2, <2>4
    <3> QED BY <2>1, <3>1 DEF Payload
  <2>7. \A q \in DOMAIN r : /\ u[q].used = IF q = o THEN TRUE ELSE r[q].used
                            /\ q # o /\ q # MEM_SIZE => u[q].next = r[q].next
    BY <2>2, <2>4
  <2>8. \A q \in Below(u) \ Below(r) : o < q /\ u[q].used = FALSE /\ u[q].next = r[o].next
    BY <2>1, <2>2, <2>4, <2>5
  <2> QED BY <2>4, <2>5, <2>6, <2>7, <2>8 DEF Carved, u, s, n
<1>3. CASE ~(Payload(r, o) >= size + HDR + MIN_SIZE)
  <2>1. s = r
    BY <1>3
  <2> HIDE DEF s
  <2>2. /\ Tiled(u) /\ DOMAIN u = DOMAIN r
        /\ \A q \in DOMAIN r : /\ u[q].next = r[q].next /\ u[q].prev = r[q].prev
                               /\ u[q].used = IF q = o THEN TRUE ELSE r[q].used
    <3>1. Marked(r, u, o, TRUE)
      BY <2>1, MarkOk
    <3> QED BY <3>1 DEF Marked
  <2> HIDE DEF u
  <2>3. Below(u) = Below(r) /\ Payload(u, o) = Payload(r, o)
    BY <1>1, <2>2 DEF Below, Payload
  <2> QED BY <2>2, <2>3 DEF Carved, u, s, n
<1> QED BY <1>2, <1>3

LEMMA MallocKeeps ==
  ASSUME MemConstants, HeapOk(ram, lfree, owned), NEW want \in 1..MEM_SIZE,
         mem_malloc(want)
  PROVE  HeapOk(ram, lfree, owned)'
<1> DEFINE size == IF want < MIN_SIZE THEN MIN_SIZE ELSE want
           o == Lowest(Fits(size))
           s == IF Payload(ram, o) >= size + HDR + MIN_SIZE
                THEN Split(ram, o, o + HDR + size) ELSE ram
           u == [s EXCEPT ![o].used = TRUE]
<1>1. size \in Nat /\ want \in Nat /\ want <= size /\ MIN_SIZE <= size
  BY DEF MemConstants
<1>2. /\ Fits(size) # {} /\ ram' = u /\ lfree' = LfreeAfter(u, o)
      /\ owned' = owned \cup {[at |-> o, size |-> want]}
  BY DEF mem_malloc
<1> HIDE DEF size
<1>3. Tiled(ram)
  BY DEF HeapOk
<1>4. Fits(size) \in SUBSET Nat
  BY <1>3, Offs DEF Fits
<1>5. o \in Fits(size)
  BY <1>2, <1>4, LowestExists DEF IsLowest
<1> HIDE DEF o
<1>6. /\ o \in Below(ram) /\ ~ram[o].used /\ lfree <= o /\ size <= Payload(ram, o)
  <2>1. o \in DOMAIN ram /\ ~ram[o].used /\ lfree <= o /\ Payload(ram, o) >= size
    BY <1>5 DEF Fits
  <2>2. o # MEM_SIZE
    BY <1>3, <2>1, Offs
  <2>3. o \in Below(ram)
    BY <2>1, <2>2 DEF Below
  <2>4. Payload(ram, o) \in Int
    BY <1>3, <2>3, Offs DEF Payload
  <2> QED BY <1>1, <2>1, <2>3, <2>4
<1>7. Carved(ram, u, o, size)
  BY <1>1, <1>3, <1>6, MallocCarves
<1> HIDE DEF u
<1>8. HeapOk(u, LfreeAfter(u, o), owned \cup {[at |-> o, size |-> want]})
  BY <1>1, <1>6, <1>7, CarvedOk DEF LfreeAfter
<1> QED BY <1>2, <1>8

-----------------------------------------------------------------------------
(* mem_free().                                                             *)

\* A block that joins a free one leaves the owners and the lowest free block.
Merged(r, j, lf, w, m, n) ==
  /\ Tiled(j) /\ Owned(j, w) /\ IsLowest(lf, Frees(j))
  /\ m \in Below(j) /\ Below(j) \subseteq Below(r) /\ ~j[m].used
  /\ j[m].next = r[n].next /\ j[m].prev = r[m].prev
  /\ r[n].next \in DOMAIN j /\ j[r[n].next].used = r[r[n].next].used
  /\ \A q \in Below(j) : q # m => j[q].next = r[q].next /\ j[q].used = r[q].used
  /\ \A q \in Below(j) : q # m /\ r[r[q].next].used => j[j[q].next].used

LEMMA JoinFree ==
  ASSUME MemConstants, NEW r, Tiled(r), NEW lf, NEW w, Owned(r, w),
         IsLowest(lf, Frees(r)),
         NEW m \in Below(r), NEW n, n = r[m].next, n # MEM_SIZE, ~r[m].used, ~r[n].used
  PROVE  Merged(r, Join(r, m, n), IF lf = n THEN m ELSE lf, w, m, n)
<1> DEFINE j == Join(r, m, n)
<1>1. /\ Tiled(j) /\ DOMAIN j = DOMAIN r \ {n} /\ Below(j) = Below(r) \ {n}
      /\ n \in Below(r) /\ m < n /\ n < r[n].next /\ m \in Below(j)
      /\ j[m].next = r[n].next
      /\ \A o \in DOMAIN j : /\ j[o].used = r[o].used
                             /\ o # m => j[o].next = r[o].next
      /\ j[m].prev = r[m].prev
  <2>1. Joined(r, j, m, n)
    BY JoinOk
  <2> QED BY <2>1 DEF Joined
<1> HIDE DEF j
<1>2. /\ m \in DOMAIN r /\ m \in DOMAIN j /\ n \in DOMAIN r /\ m \in Nat /\ n \in Nat
      /\ r[n].next \in DOMAIN r /\ r[n].next # n
      /\ \A q \in Below(r) : q \in DOMAIN r /\ r[q].next \in DOMAIN r
      /\ \A q \in Below(j) : q \in DOMAIN j
  BY <1>1, Offs DEF Below
<1>3. \A q \in Below(j) : q # m /\ r[r[q].next].used => j[j[q].next].used
  BY <1>1, <1>2
<1>4. \A a \in w : a.at # m /\ a.at # n
  BY <1>1 DEF Owned
<1>5. Owned(j, w)
  <2>1. \A o \in Below(j) : j[o].used <=> \E a \in w : a.at = o
    BY <1>1, <1>2 DEF Owned
  <2>2. ASSUME NEW a \in w
        PROVE  /\ a.at \in Below(j) /\ a.size <= Payload(j, a.at)
               /\ MIN_SIZE <= Payload(j, a.at)
    <3>1. a.at \in Below(r) /\ a.at \in Below(j) /\ a.at \in DOMAIN j
      BY <1>1, <1>2, <1>4 DEF Owned
    <3>2. Payload(j, a.at) = Payload(r, a.at)
      BY <1>1, <1>4, <3>1 DEF Payload
    <3> QED BY <3>1, <3>2 DEF Owned
  <2> QED BY <2>1, <2>2 DEF Owned
<1>6. IsLowest(IF lf = n THEN m ELSE lf, Frees(j))
  <2>1. Frees(j) = Frees(r) \ {n}
    BY <1>1 DEF Frees
  <2>2. m \in Frees(j) /\ lf \in Frees(r) /\ Frees(r) \in SUBSET Nat
        /\ \A y \in Frees(r) : lf <= y
    BY <1>1, <1>2, <2>1, Offs DEF Frees, IsLowest
  <2>3. lf # n
    BY <1>1, <1>2, <2>1, <2>2
  <2> QED BY <2>1, <2>2, <2>3 DEF IsLowest
<1> QED BY <1>1, <1>2, <1>3, <1>5, <1>6 DEF Merged, j

\* The block of an allocation is marked free.
Freed(r, u, lf, w, m) ==
  /\ m \in Below(r) /\ Marked(r, u, m, FALSE)
  /\ Owned(u, w) /\ IsLowest(lf, Frees(u))

LEMMA MarkFree ==
  ASSUME MemConstants, NEW r, NEW lf, NEW w, HeapOk(r, lf, w), NEW a \in w,
         NEW m, m = a.at, NEW u, u = [r EXCEPT ![m].used = FALSE],
         NEW lf2, lf2 = IF m < lf THEN m ELSE lf
  PROVE  Freed(r, u, lf2, w \ {a}, m)
<1>0. /\ Tiled(r) /\ Owned(r, w) /\ Plugged(r) /\ IsLowest(lf, Frees(r))
  BY DEF HeapOk
<1>1. m \in Below(r) /\ \A b \in w \ {a} : b.at # m
  BY <1>0 DEF Owned
<1>2. Marked(r, u, m, FALSE)
  BY <1>0, <1>1, MarkOk
<1>3. /\ Tiled(u) /\ DOMAIN u = DOMAIN r /\ Below(u) = Below(r)
      /\ \A o \in DOMAIN r : /\ u[o].next = r[o].next
                             /\ u[o].used = IF o = m THEN FALSE ELSE r[o].used
      /\ m \in DOMAIN r /\ m \in Nat
  BY <1>0, <1>1, <1>2, Offs DEF Marked
<1>4. Owned(u, w \ {a})
  <2>1. ASSUME NEW o \in Below(u)
        PROVE  u[o].used <=> \E b \in w \ {a} : b.at = o
    <3>1. o \in DOMAIN r /\ o \in Below(r) /\ (r[o].used <=> \E b \in w : b.at = o)
      BY <1>0, <1>3 DEF Owned, Below
    <3>2. CASE o = m
      BY <1>1, <1>3, <3>1, <3>2
    <3>3. CASE o # m
      BY <1>3, <3>1, <3>3
    <3> QED BY <3>2, <3>3
  <2>2. ASSUME NEW b \in w \ {a}
        PROVE  /\ b.at \in Below(u) /\ b.size <= Payload(u, b.at)
               /\ MIN_SIZE <= Payload(u, b.at)
    <3>1. b.at \in Below(r) /\ b.at \in DOMAIN r /\ b.size <= Payload(r, b.at)
          /\ MIN_SIZE <= Payload(r, b.at)
      BY <1>0 DEF Owned, Below
    <3>2. Payload(u, b.at) = Payload(r, b.at)
      BY <1>3, <3>1 DEF Payload
    <3> QED BY <1>3, <3>1, <3>2
  <2>3. w \ {a} \subseteq Allocations /\ \A b, c \in w \ {a} : b.at = c.at => b = c
    BY <1>0 DEF Owned
  <2> QED BY <2>1, <2>2, <2>3 DEF Owned
<1>5. IsLowest(lf2, Frees(u))
  <2>1. Frees(u) = Frees(r) \cup {m} /\ Frees(r) \in SUBSET Nat
    <3>1. Frees(r) \in SUBSET Nat
      BY <1>0, Offs
    <3>2. \A q : q \in Frees(u) <=> q \in Frees(r) \cup {m}
      BY <1>3 DEF Frees
    <3> QED BY <3>1, <3>2
  <2>2. lf \in Frees(r) /\ \A y \in Frees(r) : lf <= y
    BY <1>0 DEF IsLowest
  <2>3. lf \in Nat /\ m \in Nat
    BY <1>3, <2>1, <2>2
  <2>4. CASE m < lf
    <3>1. ASSUME NEW y \in Frees(r) PROVE m <= y
      <4>1. y \in Nat /\ lf <= y
        BY <2>1, <2>2
      <4> QED BY <2>3, <2>4, <4>1
    <3>2. lf2 = m
      BY <2>4
    <3>3. m <= m
      BY <2>3
    <3>4. m \in Frees(u) /\ \A y \in Frees(u) : m <= y
      BY <2>1, <3>1, <3>3
    <3> QED BY <3>2, <3>4 DEF IsLowest
  <2>5. CASE ~(m < lf)
    <3>1. lf2 = lf /\ lf <= m
      BY <2>3, <2>5
    <3> QED BY <2>1, <2>2, <2>3, <3>1 DEF IsLowest
  <2> QED BY <2>4, <2>5
<1> QED BY <1>1, <1>2, <1>4, <1>5 DEF Freed

\* plug_holes(), before it looks back: only the block before m may be free and
\* have a free block behind it, m itself.
Forward(s, lf, w, m, p) ==
  /\ Tiled(s) /\ Owned(s, w) /\ IsLowest(lf, Frees(s))
  /\ m \in Below(s) /\ ~s[m].used /\ s[m].prev = p /\ s[s[m].next].used
  /\ \A q \in Below(s) : q # p /\ ~s[q].used => s[s[q].next].used

LEMMA PlugBack ==
  ASSUME MemConstants, NEW s, NEW lf, NEW w, NEW m, NEW p, Forward(s, lf, w, m, p)
  PROVE  IF p # m /\ ~s[p].used
         THEN HeapOk(Join(s, p, m), IF lf = m THEN p ELSE lf, w)
         ELSE HeapOk(s, lf, w)
<1>0. /\ Tiled(s) /\ Owned(s, w) /\ IsLowest(lf, Frees(s))
      /\ m \in Below(s) /\ ~s[m].used /\ s[m].prev = p /\ s[s[m].next].used
      /\ \A q \in Below(s) : q # p /\ ~s[q].used => s[s[q].next].used
  BY DEF Forward
<1>1. CASE p # m /\ ~s[p].used
  <2> DEFINE j == Join(s, p, m)
  <2>1. m # 0
    BY <1>0, <1>1 DEF Tiled
  <2>2. p \in Below(s) /\ s[p].next = m /\ m # MEM_SIZE
    BY <1>0, <2>1 DEF Tiled, Below
  <2>3. Merged(s, j, IF lf = m THEN p ELSE lf, w, p, m)
    BY <1>0, <1>1, <2>2, JoinFree
  <2> HIDE DEF j
  <2>4. Plugged(j)
    <3> SUFFICES ASSUME NEW q \in Below(j), ~j[q].used PROVE j[j[q].next].used
      BY DEF Plugged
    <3>1. CASE q = p
      BY <1>0, <2>3, <3>1 DEF Merged
    <3>2. CASE q # p
      BY <1>0, <2>3, <3>2 DEF Merged
    <3> QED BY <3>1, <3>2
  <2>5. HeapOk(j, IF lf = m THEN p ELSE lf, w)
    BY <2>3, <2>4 DEF HeapOk, Merged
  <2> QED BY <1>1, <2>5 DEF j
<1>2. CASE ~(p # m /\ ~s[p].used)
  <2>1. Plugged(s)
    BY <1>0, <1>2 DEF Plugged
  <2> QED BY <1>0, <1>2, <2>1 DEF HeapOk
<1> QED BY <1>1, <1>2

PluggedForward(u, lf, w, m, n) ==
  IF ~u[n].used /\ n # MEM_SIZE
  THEN Forward(Join(u, m, n), IF lf = n THEN m ELSE lf, w, m, u[m].prev)
  ELSE Forward(u, lf, w, m, u[m].prev)

LEMMA PlugForwardOk ==
  ASSUME MemConstants, NEW r, NEW lf, NEW w, HeapOk(r, lf, w), NEW a \in w,
         NEW m, m = a.at, NEW u, u = [r EXCEPT ![m].used = FALSE],
         NEW lf2, lf2 = IF m < lf THEN m ELSE lf, NEW n, n = u[m].next
  PROVE  PluggedForward(u, lf2, w \ {a}, m, n)
<1>0. /\ Tiled(r) /\ Plugged(r) /\ m \in Below(r) /\ Marked(r, u, m, FALSE)
      /\ Owned(u, w \ {a}) /\ IsLowest(lf2, Frees(u))
  <2>1. Freed(r, u, lf2, w \ {a}, m)
    BY MarkFree
  <2> QED BY <2>1 DEF HeapOk, Freed
<1>1. /\ Tiled(u) /\ DOMAIN u = DOMAIN r /\ Below(u) = Below(r)
      /\ \A o \in DOMAIN r : /\ u[o].next = r[o].next /\ u[o].prev = r[o].prev
                             /\ u[o].used = IF o = m THEN FALSE ELSE r[o].used
  BY <1>0 DEF Marked
<1>2. /\ m \in DOMAIN r /\ n \in DOMAIN r /\ n # m /\ u[m].used = FALSE
      /\ \A q \in Below(r) : q \in DOMAIN r /\ r[q].next \in DOMAIN r
  BY <1>0, <1>1, Offs
<1> DEFINE p == u[m].prev
\* A block that has m behind it is the one m links back to.
<1>3. \A q \in Below(u) : u[q].next = m => q = p
  BY <1>0, <1>1, LinkedBack DEF Below
<1>4. \A q \in Below(u) : q # p /\ q # m /\ ~u[q].used => u[u[q].next].used
  <2> SUFFICES ASSUME NEW q \in Below(u), q # p, q # m, ~u[q].used
               PROVE  u[u[q].next].used
    OBVIOUS
  <2>1. q \in DOMAIN r /\ q \in Below(r) /\ ~r[q].used /\ u[q].next = r[q].next
        /\ r[q].next \in DOMAIN r
    BY <1>1, <1>2
  <2>2. r[r[q].next].used
    BY <1>0, <2>1 DEF Plugged
  <2>3. r[q].next # m
    BY <1>3, <2>1
  <2> QED BY <1>1, <2>1, <2>2, <2>3
<1>5. CASE ~u[n].used /\ n # MEM_SIZE
  <2> DEFINE j == Join(u, m, n)
             l == IF lf2 = n THEN m ELSE lf2
             x == w \ {a}
  <2>1. Merged(u, j, l, x, m, n)
    <3>1. m \in Below(u) /\ ~u[m].used
      BY <1>0, <1>1, <1>2
    <3>2. Owned(u, x) /\ IsLowest(lf2, Frees(u)) /\ Tiled(u)
      BY <1>0, <1>1
    <3>3. ~u[n].used /\ n # MEM_SIZE /\ n = u[m].next
      BY <1>5
    <3> HIDE DEF x
    <3> QED BY ONLY MemConstants, <3>1, <3>2, <3>3, JoinFree
  <2>2. u[u[n].next].used
    <3>1. n \in Below(r) /\ ~r[n].used /\ u[n].next = r[n].next /\ r[n].next \in DOMAIN r
      BY <1>1, <1>2, <1>5 DEF Below
    <3>2. r[r[n].next].used
      BY <1>0, <3>1 DEF Plugged
    <3>3. r[n].next # m
      <4>1. n \in Nat /\ m \in Nat /\ m < n /\ n < r[n].next /\ r[n].next \in Nat
        BY <1>0, <1>1, <1>2, <3>1, Offs
      <4> QED BY <4>1
    <3> QED BY <1>1, <3>1, <3>2, <3>3
  <2> HIDE DEF j, l, x, p
  <2>3. j[m].prev = p /\ j[j[m].next].used
    BY <2>1, <2>2 DEF Merged, p
  <2>4. \A q \in Below(j) : q # p /\ ~j[q].used => j[j[q].next].used
    <3> SUFFICES ASSUME NEW q \in Below(j), q # p, ~j[q].used PROVE j[j[q].next].used
      OBVIOUS
    <3>1. CASE q = m
      BY <2>3, <3>1
    <3>2. CASE q # m
      <4>1. q \in Below(u) /\ ~u[q].used
        BY <2>1, <3>2 DEF Merged
      <4>2. u[u[q].next].used
        BY <1>4, <3>2, <4>1
      <4> QED BY <2>1, <3>2, <4>2 DEF Merged
    <3> QED BY <3>1, <3>2
  <2>5. Forward(j, l, x, m, p)
    BY <2>1, <2>3, <2>4 DEF Forward, Merged
  <2> QED BY <1>5, <2>5 DEF PluggedForward, j, l, x, p
<1>6. CASE ~(~u[n].used /\ n # MEM_SIZE)
  <2>1. u[n].used
    BY <1>1, <1>6, Offs
  <2>2. Forward(u, lf2, w \ {a}, m, p)
    BY <1>0, <1>1, <1>2, <1>4, <2>1 DEF Forward
  <2> QED BY <1>6, <2>2 DEF PluggedForward
<1> QED BY <1>5, <1>6

LEMMA FreeKeeps ==
  ASSUME MemConstants, HeapOk(ram, lfree, owned), NEW a \in owned, mem_free(a)
  PROVE  HeapOk(ram, lfree, owned)'
<1> DEFINE m == a.at
           u == [ram EXCEPT ![m].used = FALSE]
           lf == IF m < lfree THEN m ELSE lfree
           n == u[m].next
           fwd == IF ~u[n].used /\ n # MEM_SIZE
                  THEN [ram |-> Join(u, m, n), lfree |-> IF lf = n THEN m ELSE lf]
                  ELSE [ram |-> u, lfree |-> lf]
           p == fwd.ram[m].prev
           s == IF p # m /\ ~fwd.ram[p].used
                THEN [ram |-> Join(fwd.ram, p, m),
                      lfree |-> IF fwd.lfree = m THEN p ELSE fwd.lfree]
                ELSE fwd
<1>1. ram' = s.ram /\ lfree' = s.lfree /\ owned' = owned \ {a}
  BY DEF mem_free, plug_holes
<1> DEFINE w == owned \ {a}
<1>2. Forward(fwd.ram, fwd.lfree, w, m, u[m].prev)
  <2>1. PluggedForward(u, lf, w, m, n)
    BY PlugForwardOk
  <2> HIDE DEF m, u, lf, n, w
  <2> QED BY <2>1 DEF PluggedForward
<1> HIDE DEF fwd, w
<1>3. p = u[m].prev
  BY <1>2 DEF Forward
<1>4. Forward(fwd.ram, fwd.lfree, w, m, p)
  BY <1>2, <1>3
<1> HIDE DEF m, p
<1>5. IF p # m /\ ~fwd.ram[p].used
      THEN HeapOk(Join(fwd.ram, p, m), IF fwd.lfree = m THEN p ELSE fwd.lfree, w)
      ELSE HeapOk(fwd.ram, fwd.lfree, w)
  BY <1>4, PlugBack
<1>6. HeapOk(s.ram, s.lfree, w)
  BY <1>5
<1> HIDE DEF s
<1> QED BY <1>1, <1>6 DEF w

-----------------------------------------------------------------------------
(* mem_realloc().                                                          *)

\* The block at o was cut at c; the block behind the cut is free, and took the
\* place of the free block at n if there was one.
Shrunk(r, s, o, n, c) ==
  /\ Tiled(s) /\ c \in Below(s) /\ o \in Below(s) /\ o < c
  /\ Below(s) \ {c} = Below(r) \ {n}
  /\ s[c].used = FALSE /\ s[s[c].next].used /\ s[o].next = c
  /\ \A q \in DOMAIN r \ {n} : q \in DOMAIN s /\ s[q].used = r[q].used
  /\ \A q \in Below(r) \ {n} : q # o => s[q].next = r[q].next

LEMMA ShrunkOk ==
  ASSUME MemConstants, NEW r, NEW lf, NEW w, HeapOk(r, lf, w), NEW a \in w,
         NEW o, o = a.at, NEW n, n \in Below(r) => ~r[n].used, n # MEM_SIZE,
         NEW c \in Nat, NEW s, Shrunk(r, s, o, n, c),
         NEW want \in Nat, want <= c - (o + HDR), MIN_SIZE <= c - (o + HDR)
  PROVE  Owned(s, (w \ {a}) \cup {[a EXCEPT !.size = want]}) /\ Plugged(s)
<1> DEFINE b == [a EXCEPT !.size = want]
           x == (w \ {a}) \cup {b}
<1>0. /\ Tiled(r) /\ Owned(r, w) /\ Plugged(r)
      /\ Tiled(s) /\ c \in Below(s) /\ o \in Below(s) /\ o < c
      /\ Below(s) \ {c} = Below(r) \ {n}
      /\ s[c].used = FALSE /\ s[s[c].next].used /\ s[o].next = c
      /\ \A q \in DOMAIN r \ {n} : q \in DOMAIN s /\ s[q].used = r[q].used
      /\ \A q \in Below(r) \ {n} : q # o => s[q].next = r[q].next
  BY DEF HeapOk, Shrunk
<1>1. /\ a \in Allocations /\ o \in Below(r) /\ r[o].used
      /\ \A d \in w : d.at \in Below(r) /\ r[d.at].used
      /\ \A d \in w \ {a} : d.at # o
  BY <1>0 DEF Owned
<1>2. b \in Allocations /\ b.at = o /\ b.size = want
  BY <1>1 DEF Allocations
<1>3. o # n /\ o \in DOMAIN r \ {n} /\ o # c /\ o \in Nat
  BY <1>0, <1>1, Offs
<1> HIDE DEF b
<1>4. \A d \in w : d.at # c /\ d.at # n /\ d.at \in Below(s)
  <2> SUFFICES ASSUME NEW d \in w PROVE d.at # c /\ d.at # n /\ d.at \in Below(s)
    OBVIOUS
  <2>1. d.at # n /\ d.at \in Below(r) \ {n}
    BY <1>1
  <2> QED BY <1>0, <2>1
<1>5. Owned(s, x)
  <2>1. x \subseteq Allocations
    BY <1>0, <1>2 DEF Owned
  <2>2. ASSUME NEW q \in Below(s) PROVE s[q].used <=> \E d \in x : d.at = q
    <3>1. CASE q = c
      BY <1>0, <1>2, <1>3, <1>4, <3>1
    <3>2. CASE q # c
      <4>1. q \in Below(r) \ {n}
        BY <1>0, <3>2
      <4>2. q \in DOMAIN r \ {n}
        BY <4>1 DEF Below
      <4>3. s[q].used = r[q].used /\ (r[q].used <=> \E d \in w : d.at = q)
        BY <1>0, <4>1, <4>2 DEF Owned
      <4>4. (\E d \in w : d.at = q) <=> (\E d \in x : d.at = q)
        BY <1>1, <1>2
      <4> QED BY <4>3, <4>4
    <3> QED BY <3>1, <3>2
  <2>3. ASSUME NEW d \in x
        PROVE  d.at \in Below(s) /\ d.size <= Payload(s, d.at) /\ MIN_SIZE <= Payload(s, d.at)
    <3>1. CASE d = b
      BY <1>0, <1>2, <3>1 DEF Payload
    <3>2. CASE d \in w \ {a}
      <4>1. d.at \in Below(r) \ {n} /\ d.at # o /\ d.at \in Below(s)
        BY <1>1, <1>4, <3>2
      <4>2. Payload(s, d.at) = Payload(r, d.at)
        BY <1>0, <4>1 DEF Payload
      <4> QED BY <1>0, <3>2, <4>1, <4>2 DEF Owned
    <3> QED BY <3>1, <3>2
  <2>4. \A d, e \in x : d.at = e.at => d = e
    BY <1>0, <1>1, <1>2 DEF Owned
  <2> HIDE DEF x
  <2> QED BY <2>1, <2>2, <2>3, <2>4 DEF Owned
<1>6. Plugged(s)
  <2> SUFFICES ASSUME NEW q \in Below(s), ~s[q].used PROVE s[s[q].next].used
    BY DEF Plugged
  <2>1. CASE q = c
    BY <1>0, <2>1
  <2>2. CASE q # c
    <3>1. q \in Below(r) \ {n} /\ q \in DOMAIN r \ {n}
      BY <1>0, <2>2 DEF Below
    <3>2. ~r[q].used /\ q # o
      BY <1>0, <1>1, <3>1
    <3>3. r[r[q].next].used /\ s[q].next = r[q].next /\ r[q].next \in DOMAIN r
      BY <1>0, <3>1, <3>2, Offs DEF Plugged
    <3>4. r[q].next # n
      <4>1. CASE n \in Below(r)
        BY <3>3, <4>1
      <4>2. CASE n \notin Below(r)
        BY <3>3, <4>2 DEF Below
      <4> QED BY <4>1, <4>2
    <3> QED BY <1>0, <3>3, <3>4
  <2> QED BY <2>1, <2>2
<1> QED BY <1>5, <1>6 DEF x, b

\* Shrinking before a free block.
LEMMA IntoShrinks ==
  ASSUME MemConstants, NEW r, NEW lf, NEW w, HeapOk(r, lf, w),
         NEW o \in Below(r), r[o].used, NEW n, n = r[o].next, ~r[n].used,
         NEW c \in Nat, o + HDR <= c, c < n,
         NEW s, s = Split(Join(r, o, n), o, c)
  PROVE  /\ Shrunk(r, s, o, n, c) /\ n \in Below(r) /\ n # MEM_SIZE
         /\ IsLowest(IF lf = n THEN c ELSE lf, Frees(s))
<1> DEFINE j == Join(r, o, n)
<1>0. /\ Tiled(r) /\ Plugged(r) /\ IsLowest(lf, Frees(r))
  BY DEF HeapOk
<1>1. n # MEM_SIZE
  BY <1>0, Offs
<1>2. Joined(r, j, o, n)
  BY <1>0, <1>1, JoinOk
<1>3. s = Split(j, o, c)
  OBVIOUS
<1> HIDE DEF j
<1>4. /\ Tiled(j) /\ DOMAIN j = DOMAIN r \ {n} /\ Below(j) = Below(r) \ {n}
      /\ n \in Below(r) /\ o < n /\ n < r[n].next /\ o \in Below(j)
      /\ j[o].next = r[n].next
      /\ \A q \in DOMAIN j : /\ j[q].used = r[q].used
                             /\ q # o => j[q].next = r[q].next
  BY <1>2 DEF Joined
<1> DEFINE k == r[n].next
<1>5. /\ o \in Nat /\ n \in Nat /\ k \in Nat /\ HDR \in Nat /\ HDR # 0 /\ k \in DOMAIN r
      /\ k >= n + HDR /\ n < k /\ r[k].used /\ o \in DOMAIN j
      /\ (\A q \in Below(r) : q <= o \/ q >= n)
  BY <1>0, <1>4, Offs DEF Tiled, Plugged, Below
<1> HIDE DEF k
<1>6. c + HDR <= k /\ o < c
  BY <1>5
<1>7. Divided(j, s, o, c)
  <2>1. j[o].next = k
    BY <1>4 DEF k
  <2> QED BY <1>3, <1>4, <1>6, <2>1, SplitOk
<1>8. /\ Tiled(s) /\ DOMAIN s = DOMAIN j \cup {c} /\ Below(s) = Below(j) \cup {c}
      /\ c \notin DOMAIN j
      /\ s[c].next = k /\ s[c].used = FALSE /\ s[o].next = c
      /\ \A q \in DOMAIN j : /\ s[q].used = j[q].used
                             /\ q # o => s[q].next = j[q].next
  BY <1>4, <1>7 DEF Divided, k
<1>9. Shrunk(r, s, o, n, c)
  <2>1. k # n /\ k \in DOMAIN j
    BY <1>4, <1>5
  <2>2. s[s[c].next].used
    BY <1>4, <1>5, <1>8, <2>1
  <2>3. \A q \in DOMAIN r \ {n} : q \in DOMAIN s /\ s[q].used = r[q].used
    BY <1>4, <1>8
  <2>4. \A q \in Below(r) \ {n} : q # o => s[q].next = r[q].next
    BY <1>4, <1>8 DEF Below
  <2>5. Below(s) \ {c} = Below(r) \ {n}
    BY <1>4, <1>8 DEF Below
  <2> QED BY <1>4, <1>6, <1>8, <2>2, <2>3, <2>4, <2>5 DEF Shrunk
<1>10. IsLowest(IF lf = n THEN c ELSE lf, Frees(s))
  <2>1. c # n /\ n \in DOMAIN r /\ c # MEM_SIZE
    BY <1>4, <1>5, <1>8, Offs DEF Below
  <2>2. Frees(s) = (Frees(r) \ {n}) \cup {c}
    <3>1. \A q : q \in Frees(s) <=> q \in (Frees(r) \ {n}) \cup {c}
      BY <1>4, <1>8, <2>1 DEF Frees
    <3> QED BY <3>1
  <2>3. lf \in Frees(r) /\ (\A y \in Frees(r) : lf <= y) /\ Frees(r) \in SUBSET Nat
        /\ n \in Frees(r) /\ lf \in Nat
    BY <1>0, <2>1, Offs DEF Frees, IsLowest
  <2>4. CASE lf = n
    <3>1. ASSUME NEW y \in Frees(s) PROVE c <= y
      <4>1. CASE y = c
        BY <4>1
      <4>2. CASE y \in Frees(r)
        <5>1. lf <= y /\ y \in Nat
          BY <2>3, <4>2
        <5> QED BY <1>5, <2>4, <5>1
      <4> QED BY <2>2, <4>1, <4>2
    <3> QED BY <2>2, <2>4, <3>1 DEF IsLowest
  <2>5. CASE lf # n
    <3>1. lf < n
      BY <1>5, <2>3, <2>5
    <3>2. lf \in Below(r)
      <4>1. lf # MEM_SIZE /\ lf \in DOMAIN r
        BY <1>0, <1>5, <2>1, <2>3, <3>1, Offs DEF Frees
      <4> QED BY <4>1 DEF Below
    <3>3. lf < c
      <4>1. lf <= o \/ lf >= n
        BY <1>5, <3>2
      <4> QED BY <1>5, <1>6, <2>3, <3>1, <4>1
    <3>4. lf \in Frees(s)
      BY <2>2, <2>3, <2>5
    <3>5. ASSUME NEW y \in Frees(s) PROVE lf <= y
      BY <2>2, <2>3, <3>3
    <3> QED BY <2>5, <3>4, <3>5 DEF IsLowest
  <2> QED BY <2>4, <2>5
<1> QED BY <1>1, <1>4, <1>9, <1>10

\* Shrinking before a used block.
LEMMA SplitShrinks ==
  ASSUME MemConstants, NEW r, NEW lf, NEW w, HeapOk(r, lf, w),
         NEW o \in Below(r), r[o].used, r[r[o].next].used,
         NEW c \in Nat, o + HDR <= c, c + HDR <= r[o].next,
         NEW s, s = Split(r, o, c)
  PROVE  /\ Shrunk(r, s, o, c, c) /\ c \notin Below(r) /\ c # MEM_SIZE
         /\ IsLowest(IF c < lf THEN c ELSE lf, Frees(s))
<1> DEFINE k == r[o].next
<1>0. /\ Tiled(r) /\ IsLowest(lf, Frees(r))
  BY DEF HeapOk
<1>1. Divided(r, s, o, c)
  BY <1>0, SplitOk
<1>2. /\ o \in Nat /\ k \in Nat /\ k \in DOMAIN r /\ HDR \in Nat /\ HDR # 0
      /\ o \in DOMAIN r
  BY <1>0, Offs
<1>3. /\ Tiled(s) /\ DOMAIN s = DOMAIN r \cup {c} /\ Below(s) = Below(r) \cup {c}
      /\ c \notin DOMAIN r
      /\ s[c].next = k /\ s[c].used = FALSE /\ s[o].next = c
      /\ \A q \in DOMAIN r : /\ s[q].used = r[q].used
                             /\ q # o => s[q].next = r[q].next
  BY <1>1 DEF Divided
<1>4. o < c
  BY <1>2
<1>5. c \notin Below(r) /\ c # MEM_SIZE
  BY <1>0, <1>3, Offs DEF Below
<1>6. Shrunk(r, s, o, c, c)
  <2>1. s[s[c].next].used
    BY <1>2, <1>3
  <2>2. Below(s) \ {c} = Below(r) \ {c}
    BY <1>3
  <2> HIDE DEF k
  <2> QED BY <1>3, <1>4, <2>1, <2>2 DEF Shrunk, Below
<1>7. IsLowest(IF c < lf THEN c ELSE lf, Frees(s))
  <2>1. Frees(s) = Frees(r) \cup {c}
    <3>1. \A q : q \in Frees(s) <=> q \in Frees(r) \cup {c}
      BY <1>3, <1>5 DEF Frees
    <3> QED BY <3>1
  <2>2. lf \in Frees(r) /\ (\A y \in Frees(r) : lf <= y) /\ Frees(r) \in SUBSET Nat
        /\ lf \in Nat
    BY <1>0, Offs DEF IsLowest
  <2>3. CASE c < lf
    <3>1. ASSUME NEW y \in Frees(s) PROVE c <= y
      BY <2>1, <2>2, <2>3
    <3> QED BY <2>1, <2>3, <3>1 DEF IsLowest
  <2>4. CASE ~(c < lf)
    <3>1. ASSUME NEW y \in Frees(s) PROVE lf <= y
      BY <2>1, <2>2, <2>4
    <3> QED BY <2>1, <2>2, <2>4, <3>1 DEF IsLowest
  <2> QED BY <2>3, <2>4
<1> QED BY <1>5, <1>6, <1>7

\* A block that keeps its place is large enough for the smaller allocation.
LEMMA SameBlock ==
  ASSUME MemConstants, NEW r, NEW lf, NEW w, HeapOk(r, lf, w), NEW a \in w,
         NEW want \in Nat, want <= a.size
  PROVE  HeapOk(r, lf, (w \ {a}) \cup {[a EXCEPT !.size = want]})
<1> DEFINE b == [a EXCEPT !.size = want]
           x == (w \ {a}) \cup {b}
<1>0. Tiled(r) /\ Owned(r, w)
  BY DEF HeapOk
<1>1. a \in Allocations /\ a.at \in Below(r) /\ a.size <= Payload(r, a.at)
      /\ MIN_SIZE <= Payload(r, a.at)
  BY <1>0 DEF Owned
<1>2. b \in Allocations /\ b.at = a.at /\ b.size = want /\ a.size \in Nat
  BY <1>1 DEF Allocations
<1> HIDE DEF b
<1>3. want <= Payload(r, a.at)
  <2>1. Payload(r, a.at) \in Int
    BY <1>0, <1>1, Offs DEF Payload
  <2> QED BY <1>1, <1>2, <2>1
<1>4. Owned(r, x)
  <2>1. x \subseteq Allocations
    BY <1>0, <1>2 DEF Owned
  <2>2. ASSUME NEW q PROVE (\E d \in w : d.at = q) <=> (\E d \in x : d.at = q)
    BY <1>2
  <2>3. \A q \in Below(r) : r[q].used <=> \E d \in x : d.at = q
    BY <1>0, <2>2 DEF Owned
  <2>4. ASSUME NEW d \in x
        PROVE  d.at \in Below(r) /\ d.size <= Payload(r, d.at) /\ MIN_SIZE <= Payload(r, d.at)
    BY <1>0, <1>1, <1>2, <1>3 DEF Owned
  <2>5. \A d, e \in x : d.at = e.at => d = e
    BY <1>0, <1>2 DEF Owned
  <2> HIDE DEF x
  <2> QED BY <2>1, <2>3, <2>4, <2>5 DEF Owned
<1> QED BY <1>4 DEF HeapOk, x, b

LEMMA ReallocKeeps ==
  ASSUME MemConstants, HeapOk(ram, lfree, owned), NEW a \in owned,
         NEW want \in 1..MEM_SIZE, mem_realloc(a, want)
  PROVE  HeapOk(ram, lfree, owned)'
<1> DEFINE size == IF want < MIN_SIZE THEN MIN_SIZE ELSE want
           o == a.at
           n == ram[o].next
           c == o + HDR + size
           x == (owned \ {a}) \cup {[a EXCEPT !.size = want]}
<1>1. /\ want <= a.size /\ owned' = x
      /\ IF size = Payload(ram, o) THEN UNCHANGED <<ram, lfree>>
         ELSE IF ~ram[n].used THEN ReallocInto(o, n, c)
         ELSE ReallocSplit(o, size, c)
  BY DEF mem_realloc
<1>2. Tiled(ram) /\ Owned(ram, owned)
  BY DEF HeapOk
<1>3. /\ o \in Below(ram) /\ a.size \in Nat /\ a.size <= Payload(ram, o)
      /\ MIN_SIZE <= Payload(ram, o) /\ ram[o].used
  BY <1>2 DEF Owned, Allocations
<1>4. o \in Nat /\ n \in Nat /\ HDR \in Nat /\ MIN_SIZE \in Nat /\ want \in Nat
  BY <1>2, <1>3, Offs
<1>5. Payload(ram, o) = n - (o + HDR)
  BY DEF Payload
<1>6. /\ size \in Nat /\ want <= size /\ MIN_SIZE <= size /\ size <= n - (o + HDR)
  <2> HIDE DEF n, o
  <2> QED BY <1>1, <1>3, <1>4, <1>5
<1>7. /\ c \in Nat /\ o + HDR <= c /\ want <= c - (o + HDR) /\ MIN_SIZE <= c - (o + HDR)
  <2> HIDE DEF size, n, o
  <2> QED BY <1>4, <1>6
<1>8. HeapOk(ram, lfree, x)
  BY <1>1, <1>4, SameBlock
<1>9. CASE UNCHANGED <<ram, lfree>>
  BY <1>1, <1>8, <1>9
<1>10. CASE size # Payload(ram, o) /\ ~ram[n].used
  <2> DEFINE s == Split(Join(ram, o, n), o, c)
  <2>1. c < n
    <3> HIDE DEF size, n, o
    <3> QED BY <1>4, <1>5, <1>6, <1>10
  <2>2. ram' = s /\ lfree' = IF lfree = n THEN c ELSE lfree
    BY <1>1, <1>10 DEF ReallocInto
  <2>3. /\ Shrunk(ram, s, o, n, c) /\ n \in Below(ram) /\ n # MEM_SIZE
        /\ IsLowest(IF lfree = n THEN c ELSE lfree, Frees(s))
    <3> HIDE DEF c
    <3> QED BY <1>3, <1>7, <1>10, <2>1, IntoShrinks
  <2> HIDE DEF s, c, n
  <2>4. Owned(s, x) /\ Plugged(s)
    BY <1>4, <1>7, <1>10, <2>3, ShrunkOk
  <2> HIDE DEF x
  <2> QED BY <1>1, <2>2, <2>3, <2>4 DEF HeapOk, Shrunk
<1>11. CASE /\ size # Payload(ram, o) /\ ram[n].used
            /\ size + HDR + MIN_SIZE <= Payload(ram, o)
  <2> DEFINE s == Split(ram, o, c)
  <2>1. c + HDR <= n
    <3> HIDE DEF size, n, o
    <3> QED BY <1>4, <1>5, <1>6, <1>11
  <2>2. ram' = s /\ lfree' = IF c < lfree THEN c ELSE lfree
    BY <1>1, <1>11 DEF ReallocSplit
  <2>3. /\ Shrunk(ram, s, o, c, c) /\ c \notin Below(ram) /\ c # MEM_SIZE
        /\ IsLowest(IF c < lfree THEN c ELSE lfree, Frees(s))
    <3> HIDE DEF c
    <3> QED BY <1>3, <1>7, <1>11, <2>1, SplitShrinks
  <2> HIDE DEF s, c, n
  <2>4. Owned(s, x) /\ Plugged(s)
    BY <1>4, <1>7, <2>3, ShrunkOk
  <2> HIDE DEF x
  <2> QED BY <1>1, <2>2, <2>3, <2>4 DEF HeapOk, Shrunk
<1>12. UNCHANGED <<ram, lfree>> \/ (size # Payload(ram, o) /\ ~ram[n].used)
       \/ (/\ size # Payload(ram, o) /\ ram[n].used
           /\ size + HDR + MIN_SIZE <= Payload(ram, o))
  BY <1>1 DEF ReallocSplit
<1> QED BY <1>9, <1>10, <1>11, <1>12

-----------------------------------------------------------------------------
(* The pool.                                                               *)

PoolOk ==
  /\ memp_tab \in Seq(Nat) /\ taken \subseteq Nat
  /\ PoolSane

LEMMA InitPool == MemConstants /\ Init => PoolOk
<1> SUFFICES ASSUME MemConstants, Init PROVE PoolOk
  OBVIOUS
<1> DEFINE k == Len(Elements)
<1>1. /\ memp_tab = [i \in 1..k |-> Elements[k + 1 - i]] /\ taken = {}
      /\ Elements \in Seq(Nat) /\ k \in Nat /\ DOMAIN Elements = 1..k
      /\ \A i, j \in DOMAIN Elements : i # j => Elements[i] # Elements[j]
  BY DEF Init, memp_init, MemConstants
<1> HIDE DEF k
<1>2. \A i \in 1..k : k + 1 - i \in 1..k
  BY <1>1
<1>3. DOMAIN memp_tab = 1..k /\ \A i \in 1..k : memp_tab[i] = Elements[k + 1 - i]
  BY <1>1
<1>4. memp_tab \in Seq(Nat)
  <2>1. \A i \in 1..k : Elements[k + 1 - i] \in Nat
    BY <1>1, <1>2
  <2> QED BY <1>1, <2>1
<1>5. ASSUME NEW i \in 1..k, NEW j \in 1..k, i # j PROVE memp_tab[i] # memp_tab[j]
  <2>1. k + 1 - i # k + 1 - j
    BY <1>1, <1>5
  <2> QED BY <1>1, <1>2, <1>3, <2>1
<1> QED BY <1>1, <1>3, <1>4, <1>5 DEF PoolOk, PoolSane

LEMMA PoolKeeps ==
  ASSUME PoolOk, memp_malloc \/ \E e \in taken : memp_free(e)
  PROVE  PoolOk'
<1>0. /\ memp_tab \in Seq(Nat) /\ taken \subseteq Nat
      /\ \A i, j \in DOMAIN memp_tab : i # j => memp_tab[i] # memp_tab[j]
      /\ \A i \in DOMAIN memp_tab : memp_tab[i] \notin taken
  BY DEF PoolOk, PoolSane
<1> DEFINE k == Len(memp_tab)
<1>1. k \in Nat /\ DOMAIN memp_tab = 1..k /\ \A i \in 1..k : memp_tab[i] \in Nat
  BY <1>0
<1>2. CASE memp_malloc
  <2>1. memp_tab # <<>> /\ taken' = taken \cup {memp_tab[1]} /\ memp_tab' = Tail(memp_tab)
    BY <1>2 DEF memp_malloc
  <2>2. k # 0 /\ memp_tab' \in Seq(Nat) /\ Len(memp_tab') = k - 1
        /\ \A i \in 1..(k - 1) : memp_tab'[i] = memp_tab[i + 1]
    BY <1>0, <2>1
  <2> HIDE DEF k
  <2>3. DOMAIN memp_tab' = 1..(k - 1) /\ 1 \in 1..k
        /\ \A i \in 1..(k - 1) : i + 1 \in 1..k /\ i + 1 # 1
    BY <1>1, <2>2
  <2>4. ASSUME NEW i \in 1..(k - 1), NEW j \in 1..(k - 1), i # j
        PROVE  memp_tab'[i] # memp_tab'[j]
    <3>1. i + 1 # j + 1
      BY <1>1, <2>4
    <3>2. i + 1 \in DOMAIN memp_tab /\ j + 1 \in DOMAIN memp_tab
      BY <1>1, <2>3
    <3>3. memp_tab[i + 1] # memp_tab[j + 1]
      BY <1>0, <3>1, <3>2
    <3> QED BY <2>2, <3>3
  <2>5. ASSUME NEW i \in 1..(k - 1) PROVE memp_tab'[i] \notin taken'
    <3>1. i + 1 \in DOMAIN memp_tab /\ 1 \in DOMAIN memp_tab /\ i + 1 # 1
      BY <1>1, <2>3
    <3>2. memp_tab[i + 1] # memp_tab[1] /\ memp_tab[i + 1] \notin taken
      BY <1>0, <3>1
    <3> QED BY <2>1, <2>2, <3>2
  <2>6. taken' \subseteq Nat
    BY <1>0, <1>1, <2>1, <2>3
  <2> QED BY <2>2, <2>3, <2>4, <2>5, <2>6 DEF PoolOk, PoolSane
<1>3. ASSUME NEW e \in taken, memp_free(e) PROVE PoolOk'
  <2>1. memp_tab' = <<e>> \o memp_tab /\ taken' = taken \ {e} /\ e \in Nat
    BY <1>0, <1>3 DEF memp_free
  <2>2. memp_tab' \in Seq(Nat) /\ Len(memp_tab') = k + 1
        /\ \A i \in 1..(k + 1) : memp_tab'[i] = IF i = 1 THEN e ELSE memp_tab[i - 1]
    BY <1>0, <2>1
  <2> HIDE DEF k
  <2>3. DOMAIN memp_tab' = 1..(k + 1)
        /\ \A i \in 1..(k + 1) : i # 1 => i - 1 \in 1..k
    BY <1>1, <2>2
  <2>4. ASSUME NEW i \in 1..(k + 1), NEW j \in 1..(k + 1), i # j
        PROVE  memp_tab'[i] # memp_tab'[j]
    <3>0. \A h \in 1..(k + 1) : h # 1 => /\ h - 1 \in DOMAIN memp_tab
                                         /\ memp_tab'[h] = memp_tab[h - 1]
                                         /\ memp_tab'[h] # e
      <4> SUFFICES ASSUME NEW h \in 1..(k + 1), h # 1
                   PROVE  /\ h - 1 \in DOMAIN memp_tab
                          /\ memp_tab'[h] = memp_tab[h - 1] /\ memp_tab'[h] # e
        OBVIOUS
      <4>1. h - 1 \in DOMAIN memp_tab
        BY <1>1, <2>3
      <4>2. memp_tab'[h] = memp_tab[h - 1]
        BY <2>2
      <4>3. memp_tab[h - 1] \notin taken
        BY <1>0, <4>1
      <4> QED BY <4>1, <4>2, <4>3
    <3>e. \A h \in 1..(k + 1) : h = 1 => memp_tab'[h] = e
      BY <2>2
    <3>1. CASE i = 1
      <4>1. j # 1
        BY <2>4, <3>1
      <4> QED BY <3>0, <3>e, <3>1, <4>1
    <3>2. CASE j = 1
      <4>1. i # 1
        BY <2>4, <3>2
      <4> QED BY <3>0, <3>e, <3>2, <4>1
    <3>3. CASE i # 1 /\ j # 1
      <4>1. i - 1 # j - 1
        BY <1>1, <2>4
      <4>2. i - 1 \in DOMAIN memp_tab /\ j - 1 \in DOMAIN memp_tab
            /\ memp_tab'[i] = memp_tab[i - 1] /\ memp_tab'[j] = memp_tab[j - 1]
        BY <3>0, <3>3
      <4>3. memp_tab[i - 1] # memp_tab[j - 1]
        BY <1>0, <4>1, <4>2
      <4> QED BY <4>2, <4>3
    <3> QED BY <3>1, <3>2, <3>3
  <2>5. ASSUME NEW i \in 1..(k + 1) PROVE memp_tab'[i] \notin taken'
    BY <1>0, <1>1, <2>1, <2>2, <2>3
  <2> QED BY <1>0, <2>1, <2>2, <2>3, <2>4, <2>5 DEF PoolOk, PoolSane
<1> QED BY <1>2, <1>3

-----------------------------------------------------------------------------
(* The theorems.                                                           *)

MemInv == HeapOk(ram, lfree, owned) /\ PoolOk

\* Whatever is allocated, shrunk and freed, and in whatever order, the heap and
\* the pool keep their invariant (mem_malloc, mem_free, mem_realloc, memp_malloc
\* and memp_free together).
THEOREM MemInvariant == ASSUME MemConstants PROVE Spec => []MemInv
<1>1. Init => MemInv
  BY InitHeap, InitPool DEF MemInv
<1>2. MemInv /\ [Next]_vars => MemInv'
  <2> SUFFICES ASSUME MemInv, [Next]_vars PROVE MemInv'
    OBVIOUS
  <2>0. HeapOk(ram, lfree, owned) /\ PoolOk
    BY DEF MemInv
  <2>1. ASSUME UNCHANGED <<memp_tab, taken>> PROVE PoolOk'
    BY <2>0, <2>1 DEF PoolOk, PoolSane
  <2>2. ASSUME UNCHANGED <<ram, lfree, owned>> PROVE HeapOk(ram, lfree, owned)'
    BY <2>0, <2>2
  <2>3. ASSUME NEW n \in 1..MEM_SIZE, mem_malloc(n) PROVE MemInv'
    <3>1. UNCHANGED <<memp_tab, taken>>
      BY <2>3 DEF mem_malloc
    <3> QED BY <2>0, <2>1, <2>3, <3>1, MallocKeeps DEF MemInv
  <2>4. ASSUME NEW a \in owned, mem_free(a) PROVE MemInv'
    <3>1. UNCHANGED <<memp_tab, taken>>
      BY <2>4 DEF mem_free
    <3> QED BY <2>0, <2>1, <2>4, <3>1, FreeKeeps DEF MemInv
  <2>5. ASSUME NEW a \in owned, NEW n \in 1..MEM_SIZE, mem_realloc(a, n) PROVE MemInv'
    <3>1. UNCHANGED <<memp_tab, taken>>
      BY <2>5 DEF mem_realloc
    <3> QED BY <2>0, <2>1, <2>5, <3>1, ReallocKeeps DEF MemInv
  <2>6. CASE memp_malloc \/ \E e \in taken : memp_free(e)
    <3>1. UNCHANGED <<ram, lfree, owned>>
      BY <2>6 DEF memp_malloc, memp_free
    <3> QED BY <2>0, <2>2, <2>6, <3>1, PoolKeeps DEF MemInv
  <2>7. CASE UNCHANGED vars
    <3>1. UNCHANGED <<ram, lfree, owned>> /\ UNCHANGED <<memp_tab, taken>>
      BY <2>7 DEF vars
    <3> QED BY <2>1, <2>2, <3>1 DEF MemInv
  <2> QED BY <2>3, <2>4, <2>5, <2>6, <2>7 DEF Next
<1> QED BY <1>1, <1>2, PTL DEF Spec

\* Whatever is allocated, shrunk and freed, the blocks tile the heap, the links
\* back agree with the links forward, every allocation lies within a used block
\* of its own, and no used block is lost (mem_malloc, mem_realloc, plug_holes).
THEOREM HeapAlwaysTiled == ASSUME MemConstants PROVE Spec => []HeapTiled
<1>1. MemInv => HeapTiled
  <2> SUFFICES ASSUME MemInv PROVE HeapTiled
    OBVIOUS
  <2>1. Tiled(ram) /\ Owned(ram, owned) /\ Blocks = Below(ram)
    BY DEF MemInv, HeapOk, Blocks, Below
  <2>2. \A o \in Below(ram) : ram[o].next # MEM_SIZE => ram[ram[o].next].prev = o
    BY <2>1, LinkedBack
  <2>3. \A o \in Below(ram) : /\ ram[o].next \in DOMAIN ram /\ ram[o].next >= o + HDR
                              /\ \A q \in Below(ram) : q <= o \/ q >= ram[o].next
    BY <2>1 DEF Tiled
  <2>4. 0 \in Below(ram)
    BY <2>1 DEF Tiled
  <2>5. /\ \A o \in Below(ram) : ram[o].used <=> \E a \in owned : a.at = o
        /\ \A a \in owned : a.at \in Below(ram) /\ a.size <= Payload(ram, a.at)
    BY <2>1 DEF Owned
  <2> QED BY <2>1, <2>2, <2>3, <2>4, <2>5 DEF HeapTiled
<1> QED BY <1>1, MemInvariant, PTL

\* plug_holes() is called wherever it has to be: no two neighbouring blocks are
\* ever both free.
THEOREM HolesAlwaysPlugged == ASSUME MemConstants PROVE Spec => []HolesPlugged
<1>1. MemInv => HolesPlugged
  BY DEF MemInv, HeapOk, Plugged, HolesPlugged, Blocks, Below
<1> QED BY <1>1, MemInvariant, PTL

\* lfree is the lowest free block, so the search of mem_malloc() misses none.
THEOREM LfreeAlwaysLowest == ASSUME MemConstants PROVE Spec => []LfreeLowest
<1>1. MemInv => LfreeLowest
  <2> SUFFICES ASSUME MemInv PROVE LfreeLowest
    OBVIOUS
  <2>1. Tiled(ram) /\ IsLowest(lfree, Frees(ram))
    BY DEF MemInv, HeapOk
  <2>2. Frees(ram) \in SUBSET Nat
    BY <2>1, Offs
  <2>3. lfree = Lowest(Frees(ram))
    BY <2>1, <2>2, LowestIs
  <2> QED BY <2>3 DEF LfreeLowest, Frees
<1> QED BY <1>1, MemInvariant, PTL

\* What memp_sanity() checks holds always: no element is twice on the free list
\* of its pool, or on it while in use (memp_malloc, memp_free).
THEOREM PoolAlwaysSane == ASSUME MemConstants PROVE Spec => []PoolSane
<1>1. MemInv => PoolSane
  BY DEF MemInv, PoolOk
<1> QED BY <1>1, MemInvariant, PTL

\* The heap and the pools lose and confuse nothing: what the run of MCStack checks
\* for its instance (mem.c, memp.c).
THEOREM HeapAlwaysSound == ASSUME MemConstants PROVE Spec => []HeapSound
BY HeapAlwaysTiled, HolesAlwaysPlugged, LfreeAlwaysLowest, PoolAlwaysSane, PTL DEF HeapSound
=============================================================================
