---------------------------- MODULE Pbuf_proofs ----------------------------
(***************************************************************************)
(* Proofs about Pbuf, for all pools, sizes and lengths.                    *)
(*                                                                         *)
(* The invariant PbufInv speaks of neighbours only: a pbuf has at most one *)
(* before it, its tot_len exceeds that of the next by its own len, and its *)
(* ref counts the holders and the pbuf before it.  A rank that goes down   *)
(* along the chains makes them end.  While pbuf_free() walks down a chain  *)
(* one reference is owed to the pbuf it stands at: Good(b, A, h, x) is the *)
(* invariant with that debt at x.  What whole chains hold (tot_len, the    *)
(* bytes, a copy of them) follows by induction along the chain, with the   *)
(* lemmas of NumberLemmas about recursive functions on an interval.        *)
(***************************************************************************)
EXTENDS Pbuf, NumberLemmas, FiniteSetTheorems, TLAPS

-----------------------------------------------------------------------------
(* The invariant, over pbufs b, those in use A, and references h.          *)

Recs == [next : Pbufs \cup {None}, len : Nat, tot_len : Nat, ref : Nat, room : Nat]

Typed(b, A, h) ==
  /\ b \in [Pbufs -> Recs] /\ A \in SUBSET Pbufs /\ h \in [Pbufs -> Nat]
  /\ \A p \in Pbufs \ A : b[p] = Blank /\ h[p] = 0

\* No chain leads to a pbuf that is in a pool.
Linked(b, A) == \A p \in Pbufs : b[p].next \in A \cup {None}

\* A pbuf follows at most one other.
Lone(b) == \A p, q \in Pbufs : b[p].next # None /\ b[p].next = b[q].next => p = q

\* Chains end: a rank goes down along them.
Ranked(b, r) ==
  r \in [Pbufs -> Nat] /\ \A p \in Pbufs : b[p].next # None => r[b[p].next] < r[p]

Acyclic(b) == \E r : Ranked(b, r)

Rest(b, p) == IF b[p].next = None THEN 0 ELSE b[b[p].next].tot_len

Lens(b) == \A p \in Pbufs : b[p].tot_len = b[p].len + Rest(b, p)

\* The reference that a chain holds, and one that is about to be dropped at x.
Num(b, p) == IF \E q \in Pbufs : b[q].next = p THEN 1 ELSE 0

Owing(x, p) == IF p = x THEN 1 ELSE 0

Counts(b, A, h, x) ==
  \A p \in A : b[p].ref > 0 /\ b[p].ref = h[p] + Num(b, p) + Owing(x, p)

Shape(b) == b \in [Pbufs -> Recs] /\ Lone(b) /\ Acyclic(b)

Sane(b, A, h) == Typed(b, A, h) /\ Linked(b, A) /\ Lone(b) /\ Acyclic(b) /\ Lens(b)

Good(b, A, h, x) == Sane(b, A, h) /\ Counts(b, A, h, x)

PbufInv == Good(pb, alive, held, None)

-----------------------------------------------------------------------------
(* Chains.                                                                 *)

Path(b, p, c) ==
  /\ c \in Seq(Pbufs) /\ Len(c) > 0 /\ c[1] = p
  /\ \A i \in 1..Len(c) : i < Len(c) => b[c[i]].next = c[i + 1]

IsChain(b, p, c) == Path(b, p, c) /\ b[c[Len(c)]].next = None

LEMMA PathDown ==
  ASSUME PbufConstants, NEW b \in [Pbufs -> Recs], NEW r, Ranked(b, r), NEW p, NEW c,
         Path(b, p, c)
  PROVE  \A i, j \in 1..Len(c) : i < j => r[c[j]] < r[c[i]]
<1> DEFINE l == Len(c)
<1>1. l \in Nat /\ \A i \in 1..l : c[i] \in Pbufs
  BY DEF Path
<1>2. ASSUME NEW i \in 1..l, i < l PROVE i + 1 \in 1..l /\ r[c[i + 1]] < r[c[i]]
  <2>1. i + 1 \in 1..l /\ b[c[i]].next = c[i + 1]
    BY <1>1, <1>2 DEF Path
  <2>2. c[i + 1] \in Pbufs /\ c[i] \in Pbufs /\ None \notin Pbufs
    BY <1>1, <2>1 DEF PbufConstants
  <2>3. b[c[i]].next # None
    BY <2>1, <2>2
  <2> QED BY <2>1, <2>2, <2>3 DEF Ranked
<1>3. \A i \in 1..l : r[c[i]] \in Nat
  BY <1>1 DEF Ranked
<1> HIDE DEF l
<1> DEFINE T == {j \in 0..l : \A i \in 1..l : i < j => r[c[j]] < r[c[i]]}
<1>4. 0 \in T
  BY <1>1
<1>5. ASSUME NEW j \in 0..l, j \in T, j < l PROVE j + 1 \in T
  <2>1. j + 1 \in 0..l /\ j \in Nat
    BY <1>1, <1>5
  <2>2. ASSUME NEW i \in 1..l, i < j + 1 PROVE r[c[j + 1]] < r[c[i]]
    <3>1. j \in 1..l
      BY <1>1, <2>2
    <3>2. r[c[j + 1]] < r[c[j]] /\ j + 1 \in 1..l
      BY <1>2, <1>5, <3>1
    <3>3. CASE i = j
      BY <3>2, <3>3
    <3>4. CASE i < j
      <4>1. r[c[j]] < r[c[i]]
        BY <1>5, <3>4
      <4> QED BY <1>3, <3>1, <3>2, <4>1
    <3> QED BY <1>1, <2>1, <2>2, <3>3, <3>4
  <2> QED BY <2>1, <2>2
<1>6. \A j \in 0..l : j \in T
  <2> HIDE DEF T
  <2> QED BY <1>1, <1>4, <1>5, BoundedInduction
<1>7. \A j \in 1..l : j \in 0..l
  BY <1>1
<1> QED BY <1>6, <1>7 DEF l

LEMMA PathOnce ==
  ASSUME PbufConstants, NEW b, Shape(b), NEW p, NEW c, Path(b, p, c)
  PROVE  /\ \A i, j \in 1..Len(c) : c[i] = c[j] => i = j
         /\ Len(c) <= Cardinality(Pbufs)
<1> DEFINE l == Len(c)
<1>1. PICK r : Ranked(b, r)
  BY DEF Shape, Acyclic
<1>2. \A i, j \in 1..l : i < j => r[c[j]] < r[c[i]]
  BY <1>1, PathDown DEF Shape
<1>3. l \in Nat /\ l > 0 /\ \A i \in 1..l : c[i] \in Pbufs /\ r[c[i]] \in Nat
  BY <1>1 DEF Path, Ranked
<1>s. c \in [1..l -> Pbufs]
  BY DEF Path
<1> HIDE DEF l
<1>4. ASSUME NEW i \in 1..l, NEW j \in 1..l, c[i] = c[j] PROVE i = j
  <2>1. ~(i < j) /\ ~(j < i)
    BY <1>2, <1>3, <1>4
  <2> QED BY <1>3, <2>1
<1>5. IsFiniteSet(Pbufs) /\ IsFiniteSet(1..l) /\ Cardinality(1..l) = l
      /\ Cardinality(Pbufs) \in Nat
  <2>1. IsFiniteSet(1..l) /\ Cardinality(1..l) = IF 1 > l THEN 0 ELSE l - 1 + 1
    BY <1>3, FS_Interval
  <2>2. IsFiniteSet(Pbufs)
    BY DEF PbufConstants
  <2>3. Cardinality(Pbufs) \in Nat
    BY <2>2, FS_CardinalityType
  <2> QED BY <1>3, <2>1, <2>2, <2>3
<1>6. ~(Cardinality(Pbufs) < Cardinality(1..l))
  <2>1. SUFFICES ASSUME Cardinality(Pbufs) < Cardinality(1..l) PROVE FALSE
    OBVIOUS
  <2>2. \E i, j \in 1..l : i # j /\ c[i] = c[j]
    BY <1>5, <1>s, <2>1, FS_PigeonHole
  <2> QED BY <1>4, <2>2
<1>7. l <= Cardinality(Pbufs)
  BY <1>3, <1>5, <1>6
<1> QED BY <1>4, <1>7 DEF l

OneStep(b, c) ==
  LET q == b[c[Len(c)]].next IN IF q = None THEN c ELSE Append(c, q)

Paths == {c \in Seq(Pbufs) : Len(c) > 0}

LEMMA StepType ==
  ASSUME NEW b \in [Pbufs -> Recs], NEW c \in Paths
  PROVE  OneStep(b, c) \in Paths /\ c[Len(c)] \in Pbufs
<1>1. c \in Seq(Pbufs) /\ Len(c) \in Nat /\ Len(c) > 0
  BY DEF Paths
<1>2. c[Len(c)] \in Pbufs
  BY <1>1
<1>3. b[c[Len(c)]].next \in Pbufs \cup {None}
  BY <1>2 DEF Recs
<1>4. CASE b[c[Len(c)]].next = None
  BY <1>2, <1>4 DEF OneStep
<1>5. CASE b[c[Len(c)]].next # None
  <2> DEFINE q == b[c[Len(c)]].next
  <2>1. q \in Pbufs /\ OneStep(b, c) = Append(c, q)
    BY <1>3, <1>5 DEF OneStep
  <2> HIDE DEF q
  <2>2. Append(c, q) \in Seq(Pbufs) /\ Len(Append(c, q)) = Len(c) + 1
    BY <1>1, <2>1
  <2> QED BY <1>1, <1>2, <2>1, <2>2 DEF Paths
<1> QED BY <1>4, <1>5

LEMMA WalkRuns ==
  ASSUME PbufConstants, NEW b \in [Pbufs -> Recs], NEW p \in Pbufs
  PROVE  LET n == Cardinality(Pbufs)
         IN  \E f : /\ f \in [0..n -> Paths] /\ f[0] = <<p>>
                    /\ \A i \in 1..n : f[i] = OneStep(b, f[i - 1])
                    /\ ChainOf(b, p) = f[n]
<1> DEFINE n == Cardinality(Pbufs)
           first == <<p>>
           Sol(f) == f = [i \in 0..n |-> IF i = 0 THEN first ELSE OneStep(b, f[i - 1])]
           g == [t \in Paths \X Nat |-> OneStep(b, t[1])]
<1>1. n \in Nat
  BY FS_CardinalityType DEF PbufConstants
<1>2. first \in Paths
  BY DEF Paths
<1>3. g \in [Paths \X Nat -> Paths]
  BY StepType
<1>4. \E f : Sol(f)
  <2> HIDE DEF g, first, n
  <2>0. StepFunction(Paths, g, first, n)
    BY <1>1, <1>2, <1>3 DEF StepFunction
  <2>a. PICK f : IsRecursion(f, Paths, g, first, n)
    BY <2>0, RecursionExists
  <2>1. /\ f \in [0..n -> Paths] /\ f[0] = first
        /\ \A i \in 1..n : f[i] = g[<<f[i - 1], i>>]
    BY <2>a DEF IsRecursion
  <2>2. ASSUME NEW i \in 1..n PROVE f[i] = OneStep(b, f[i - 1])
    <3>1. i - 1 \in 0..n /\ i \in Nat
      BY <1>1
    <3>2. f[i - 1] \in Paths
      BY <2>1, <3>1
    <3>3. g[<<f[i - 1], i>>] = OneStep(b, f[i - 1])
      BY <3>1, <3>2 DEF g
    <3> QED BY <2>1, <3>3
  <2>3. \A i \in 0..n : i # 0 => i \in 1..n
    BY <1>1
  <2>4. Sol(f)
    BY <2>1, <2>2, <2>3
  <2> QED BY <2>4
<1> DEFINE run == CHOOSE f : Sol(f)
<1>5. Sol(run)
  <2> HIDE DEF Sol
  <2> QED BY <1>4
<1>6. ChainOf(b, p) = run[n]
  BY DEF ChainOf, OneStep
<1> HIDE DEF run, first, n
<1>7. run[0] = first
  BY <1>1, <1>5
<1>8. ASSUME NEW i \in 1..n PROVE run[i] = OneStep(b, run[i - 1])
  <2>1. i \in 0..n /\ i # 0
    BY <1>1
  <2> QED BY <1>5, <2>1
<1>9. ASSUME NEW i \in 0..n PROVE run[i] \in Paths
  <2> DEFINE T == {j \in 0..n : run[j] \in Paths}
  <2>1. 0 \in T
    BY <1>1, <1>2, <1>7
  <2>2. ASSUME NEW j \in 0..n, j \in T, j < n PROVE j + 1 \in T
    <3>1. j + 1 \in 1..n /\ (j + 1) - 1 = j /\ j + 1 \in 0..n
      BY <1>1, <2>2
    <3>2. run[j + 1] = OneStep(b, run[j])
      BY <1>8, <3>1
    <3>3. run[j] \in Paths
      BY <2>2
    <3>4. run[j + 1] \in Paths
      BY <3>2, <3>3, StepType
    <3> QED BY <3>1, <3>4
  <2> HIDE DEF T
  <2>3. \A j \in 0..n : j \in T
    BY <1>1, <2>1, <2>2, BoundedInduction
  <2> QED BY <2>3 DEF T
<1>10. run \in [0..n -> Paths]
  <2>1. DOMAIN run = 0..n /\ run = [i \in 0..n |-> run[i]]
    BY <1>5
  <2> QED BY <1>9, <2>1
<1> QED BY <1>6, <1>7, <1>8, <1>10 DEF n, first

\* The chain of a pbuf: it begins there, follows the links and ends.
LEMMA ChainIs ==
  ASSUME PbufConstants, NEW b, Shape(b), NEW p \in Pbufs
  PROVE  IsChain(b, p, ChainOf(b, p))
<1> DEFINE n == Cardinality(Pbufs)
<1>1. PICK f : /\ f \in [0..n -> Paths] /\ f[0] = <<p>>
               /\ \A i \in 1..n : f[i] = OneStep(b, f[i - 1])
               /\ ChainOf(b, p) = f[n]
  BY WalkRuns DEF Shape
<1>2. n \in Nat
  BY FS_CardinalityType DEF PbufConstants
<1>3. b \in [Pbufs -> Recs]
  BY DEF Shape
<1> HIDE DEF n
<1> DEFINE Ends(c) == b[c[Len(c)]].next = None
           T == {i \in 0..n : Path(b, p, f[i]) /\ (Ends(f[i]) \/ Len(f[i]) = i + 1)}
<1>4. 0 \in T
  <2>1. <<p>> \in Seq(Pbufs) /\ Len(<<p>>) = 1 /\ <<p>>[1] = p
    OBVIOUS
  <2>2. Path(b, p, <<p>>)
    BY <2>1 DEF Path
  <2> QED BY <1>1, <1>2, <2>1, <2>2
<1>5. ASSUME NEW i \in 0..n, i \in T, i < n PROVE i + 1 \in T
  <2>1. i + 1 \in 1..n /\ (i + 1) - 1 = i /\ i + 1 \in 0..n /\ i \in Nat
    BY <1>2, <1>5
  <2>2. f[i + 1] = OneStep(b, f[i])
    BY <1>1, <2>1
  <2> DEFINE c == f[i]
             d == f[i + 1]
             q == b[c[Len(c)]].next
  <2>3. Path(b, p, c) /\ c \in Paths /\ (Ends(c) \/ Len(c) = i + 1)
    BY <1>1, <1>5
  <2> HIDE DEF c, d, Ends
  <2>4. CASE Ends(c)
    <3>1. d = c
      BY <2>2, <2>4 DEF c, d, Ends, OneStep
    <3> QED BY <2>1, <2>3, <2>4, <3>1 DEF d
  <2>5. CASE ~Ends(c)
    <3>1. d = Append(c, q) /\ q # None
      BY <2>2, <2>5 DEF c, d, Ends, OneStep
    <3>2. c[Len(c)] \in Pbufs /\ c \in Seq(Pbufs) /\ Len(c) \in Nat /\ Len(c) > 0
      BY <1>3, <2>3, StepType DEF Paths
    <3>3. q \in Pbufs
      BY <1>3, <3>1, <3>2 DEF Recs
    <3>e. b[c[Len(c)]].next = q
      OBVIOUS
    <3> HIDE DEF q
    <3>4. /\ d \in Seq(Pbufs) /\ Len(d) = Len(c) + 1 /\ d[Len(c) + 1] = q
          /\ \A k \in 1..Len(c) : d[k] = c[k]
      BY <3>1, <3>2, <3>3
    <3>5. ASSUME NEW k \in 1..Len(d), k < Len(d) PROVE b[d[k]].next = d[k + 1]
      <4>1. k \in 1..Len(c) /\ d[k] = c[k]
        BY <3>2, <3>4, <3>5
      <4>2. CASE k < Len(c)
        <5>1. k + 1 \in 1..Len(c)
          BY <3>2, <4>1, <4>2
        <5> QED BY <2>3, <3>4, <4>1, <4>2, <5>1 DEF Path
      <4>3. CASE k = Len(c)
        BY <3>4, <3>e, <4>1, <4>3
      <4> QED BY <3>2, <4>1, <4>2, <4>3
    <3>6. d[1] = p /\ Len(d) > 0
      <4>1. 1 \in 1..Len(c)
        BY <3>2
      <4> QED BY <2>3, <3>2, <3>4, <4>1 DEF Path
    <3>7. Path(b, p, d) /\ Len(d) = (i + 1) + 1
      BY <2>1, <2>3, <2>5, <3>4, <3>5, <3>6 DEF Path
    <3> QED BY <2>1, <3>7 DEF d
  <2> QED BY <2>4, <2>5
<1>6. n \in T
  <2> HIDE DEF T
  <2>1. \A i \in 0..n : i \in T
    BY <1>2, <1>4, <1>5, BoundedInduction
  <2> QED BY <1>2, <2>1
<1>7. Path(b, p, f[n]) /\ (Ends(f[n]) \/ Len(f[n]) = n + 1)
  BY <1>6
<1>8. Len(f[n]) <= n
  BY <1>7, PathOnce DEF n
<1>9. Len(f[n]) # n + 1
  <2>1. Len(f[n]) \in Nat
    BY <1>7 DEF Path
  <2> QED BY <1>2, <1>8, <2>1
<1> QED BY <1>1, <1>7, <1>9 DEF IsChain

\* What the proofs use of a chain c of length l.
Chained(b, p, c, l) ==
  /\ l = Len(c) /\ c \in Seq(Pbufs) /\ l \in Nat \ {0} /\ c[1] = p /\ l \in 1..l
  /\ \A i \in 1..l : c[i] \in Pbufs
  /\ \A i, j \in 1..l : c[i] = c[j] => i = j
  /\ \A i \in 1..l : i < l => i + 1 \in 1..l /\ b[c[i]].next = c[i + 1]
  /\ b[c[l]].next = None
  /\ \A i \in 1..l : i # 1 => i - 1 \in 1..l /\ b[c[i - 1]].next = c[i]

LEMMA ChainFacts ==
  ASSUME PbufConstants, NEW b, Shape(b), NEW p \in Pbufs
  PROVE  Chained(b, p, ChainOf(b, p), Len(ChainOf(b, p)))
<1> DEFINE c == ChainOf(b, p)
<1>0. IsChain(b, p, c)
  BY ChainIs
<1> HIDE DEF c
<1>1. Path(b, p, c) /\ b[c[Len(c)]].next = None
  BY <1>0 DEF IsChain
<1>2. \A i, j \in 1..Len(c) : c[i] = c[j] => i = j
  BY <1>1, PathOnce
<1>3. c \in Seq(Pbufs) /\ Len(c) \in Nat \ {0} /\ c[1] = p /\ Len(c) \in 1..Len(c)
  BY <1>1 DEF Path
<1>4. \A i \in 1..Len(c) : i < Len(c) => i + 1 \in 1..Len(c) /\ b[c[i]].next = c[i + 1]
  BY <1>1, <1>3 DEF Path
<1>5. \A i \in 1..Len(c) : c[i] \in Pbufs
  BY <1>3
<1>6. ASSUME NEW i \in 1..Len(c), i # 1
      PROVE  i - 1 \in 1..Len(c) /\ b[c[i - 1]].next = c[i]
  <2>1. i - 1 \in 1..Len(c) /\ i - 1 < Len(c) /\ (i - 1) + 1 = i
    BY <1>3, <1>6
  <2>2. b[c[i - 1]].next = c[(i - 1) + 1]
    BY <1>4, <2>1
  <2> QED BY <2>1, <2>2
<1>7. Chained(b, p, c, Len(c))
  BY <1>1, <1>2, <1>3, <1>4, <1>5, <1>6 DEF Chained
<1> QED BY <1>7 DEF c

LEMMA LowestIs ==
  ASSUME NEW s \in SUBSET Nat, s # {}
  PROVE  Lowest(s) \in s /\ \A y \in s : Lowest(s) <= y
<1>1. \E x \in s : \A y \in s : x <= y
  BY LeastNumber
<1> QED BY <1>1, Zenon DEF Lowest

LEMMA GoodShape ==
  ASSUME NEW b, NEW A, NEW h, NEW x, Good(b, A, h, x)
  PROVE  Shape(b)
BY DEF Good, Sane, Shape, Typed

-----------------------------------------------------------------------------
(* pbuf_free().                                                            *)

\* Freeing takes back the reference that is owed.
LEMMA DropOk ==
  ASSUME PbufConstants, NEW b, NEW A, NEW h, NEW x \in A, Good(b, A, h, x)
  PROVE  LET d == Drop(b, x)
         IN  Good(Freed(d), A \ d.gone, h, None) /\ d.gone \subseteq A
<1> DEFINE c == ChainOf(b, x)
           l == Len(c)
           s == {i \in 1..l : b[c[i]].ref > 1 \/ i = l}
           k == Lowest(s)
           m == {c[i] : i \in 1..k}
           gone == {q \in m : b[q].ref = 1}
           low == [q \in Pbufs |-> IF q \in m THEN [b[q] EXCEPT !.ref = @ - 1] ELSE b[q]]
           n == [q \in Pbufs |-> IF q \in gone THEN Blank ELSE low[q]]
<1>1. Drop(b, x).gone = gone /\ Freed(Drop(b, x)) = n
  BY DEF Drop, Freed
<1>2. Shape(b) /\ x \in Pbufs /\ Typed(b, A, h) /\ A \subseteq Pbufs
  BY GoodShape DEF Good, Sane, Typed
<1>3. Chained(b, x, c, l)
  BY <1>2, ChainFacts
<1> HIDE DEF c, l
<1>4. /\ l \in Nat \ {0} /\ c[1] = x /\ l \in 1..l
      /\ \A i \in 1..l : c[i] \in Pbufs
      /\ \A i, j \in 1..l : c[i] = c[j] => i = j
      /\ \A i \in 1..l : i < l => i + 1 \in 1..l /\ b[c[i]].next = c[i + 1]
      /\ b[c[l]].next = None
      /\ \A i \in 1..l : i # 1 => i - 1 \in 1..l /\ b[c[i - 1]].next = c[i]
  BY <1>3 DEF Chained
<1>5. k \in 1..l /\ (b[c[k]].ref > 1 \/ k = l)
      /\ \A i \in 1..l : i < k => ~(b[c[i]].ref > 1) /\ i # l
  <2>1. s \in SUBSET Nat /\ l \in s
    BY <1>4
  <2>2. k \in s /\ \A y \in s : k <= y
    <3> HIDE DEF s
    <3> QED BY <2>1, LowestIs
  <2> HIDE DEF k
  <2> QED BY <1>4, <2>2
<1> HIDE DEF k, s
<1>6. /\ b \in [Pbufs -> Recs] /\ h \in [Pbufs -> Nat]
      /\ \A p \in Pbufs : b[p].next \in Pbufs \cup {None} /\ b[p].len \in Nat
                         /\ b[p].tot_len \in Nat /\ b[p].ref \in Nat /\ b[p].room \in Nat
                         /\ h[p] \in Nat
      /\ None \notin Pbufs
  BY <1>2 DEF Typed, Recs, PbufConstants
<1>7. \A i \in 1..l : c[i] \in A
  <2>1. ASSUME NEW i \in 1..l PROVE c[i] \in A
    <3>1. CASE i = 1
      BY <1>4, <3>1
    <3>2. CASE i # 1
      <4>1. i - 1 \in 1..l /\ b[c[i - 1]].next = c[i] /\ c[i - 1] \in Pbufs /\ c[i] \in Pbufs
        BY <1>4, <3>2
      <4> QED BY <1>6, <4>1 DEF Good, Sane, Linked
    <3> QED BY <3>1, <3>2
  <2> QED BY <2>1
<1>8. /\ \A p \in A : b[p].ref > 0 /\ b[p].ref = h[p] + Num(b, p) + Owing(x, p)
      /\ \A p : Num(b, p) \in {0, 1} /\ Owing(x, p) \in {0, 1}
  BY DEF Good, Sane, Counts, Num, Owing
<1>9. \A i \in 1..l : i < k => b[c[i]].ref = 1
  <2>1. ASSUME NEW i \in 1..l, i < k PROVE b[c[i]].ref = 1
    <3>1. ~(b[c[i]].ref > 1) /\ c[i] \in A /\ b[c[i]].ref > 0 /\ b[c[i]].ref \in Nat
      BY <1>2, <1>5, <1>6, <1>7, <1>8, <2>1
    <3> QED BY <3>1
  <2> QED BY <2>1
\* Which are gone: the first ones, up to the k-th.
<1>10. \A q \in gone : \E i \in 1..l : q = c[i] /\ i <= k /\ (i = k => k = l) /\ b[q].ref = 1
  BY <1>4, <1>5
<1>11. \A i \in 1..l : i < k => c[i] \in gone
  BY <1>4, <1>5, <1>9
<1>12. \A i \in 1..l : i > k => c[i] \notin gone
  BY <1>4, <1>5
<1>13. \A q \in m : q \in gone \/ q = c[k]
  BY <1>4, <1>5, <1>9
<1>14. gone \subseteq A /\ gone \subseteq Pbufs /\ c[k] \in m
  BY <1>2, <1>4, <1>5, <1>7
<1> DEFINE B == A \ gone
<1>15. \A q \in Pbufs : q \notin gone => /\ n[q].next = b[q].next /\ n[q].len = b[q].len
                                        /\ n[q].tot_len = b[q].tot_len
                                        /\ n[q].room = b[q].room
                                        /\ (q # c[k] => n[q] = b[q])
                                        /\ (q = c[k] => n[q].ref = b[q].ref - 1)
  <2> HIDE DEF gone, m
  <2>1. ASSUME NEW q \in Pbufs, q \notin gone
        PROVE  /\ n[q].next = b[q].next /\ n[q].len = b[q].len
               /\ n[q].tot_len = b[q].tot_len /\ n[q].room = b[q].room
               /\ (q # c[k] => n[q] = b[q])
               /\ (q = c[k] => n[q].ref = b[q].ref - 1)
    <3>0. n[q] = low[q]
      BY <2>1
    <3>1. CASE q = c[k]
      <4>1. n[q] = [b[q] EXCEPT !.ref = @ - 1] /\ b[q] \in Recs
        BY <1>6, <1>14, <3>0, <3>1
      <4> HIDE DEF n
      <4> QED BY <3>1, <4>1 DEF Recs
    <3>2. CASE q # c[k]
      BY <1>13, <2>1, <3>0, <3>2
    <3> QED BY <3>1, <3>2
  <2> QED BY <2>1
<1>16. \A q \in gone : n[q] = Blank /\ n[q].next = None
  <2> HIDE DEF gone, m
  <2> QED BY <1>14 DEF Blank
<1>n. n \in [Pbufs -> Recs]
  <2>1. ASSUME NEW q \in Pbufs PROVE n[q] \in Recs
    <3>1. CASE q \in gone
      BY <1>16, <3>1 DEF Blank, Recs
    <3>2. CASE q \notin gone /\ q # c[k]
      BY <1>6, <1>15, <3>2
    <3>3. CASE q \notin gone /\ q = c[k]
      <4>1. n[q] = [b[q] EXCEPT !.ref = b[q].ref - 1] /\ b[q] \in Recs
        <5> HIDE DEF gone, m
        <5> QED BY <1>6, <1>14, <3>3
      <4>2. b[q].ref - 1 \in Nat
        <5>1. c[k] \in A
          BY <1>5, <1>7
        <5> QED BY <1>2, <1>6, <1>8, <3>3, <5>1
      <4> HIDE DEF n
      <4> QED BY <4>1, <4>2 DEF Recs
    <3> QED BY <3>1, <3>2, <3>3
  <2> QED BY <2>1
<1> HIDE DEF n, low
\* Nobody else holds, or leads to, what is gone.
<1>17. ASSUME NEW q \in gone
       PROVE  h[q] = 0 /\ \A p \in Pbufs : b[p].next = q => p \in gone
  <2>1. PICK i \in 1..l : q = c[i] /\ i <= k /\ b[q].ref = 1
    BY <1>10
  <2>2. q \in A /\ q \in Pbufs
    BY <1>2, <1>14
  <2>3. CASE i = 1
    <3>1. q = x /\ Owing(x, q) = 1
      BY <1>4, <2>1, <2>3 DEF Owing
    <3>2. h[q] \in Nat /\ Num(b, q) \in {0, 1} /\ b[q].ref = h[q] + Num(b, q) + Owing(x, q)
      BY <1>6, <1>8, <2>2
    <3>3. h[q] = 0 /\ Num(b, q) = 0
      BY <2>1, <3>1, <3>2
    <3> QED BY <3>3 DEF Num
  <2>4. CASE i # 1
    <3>1. i - 1 \in 1..l /\ b[c[i - 1]].next = c[i] /\ c[i - 1] \in Pbufs
      BY <1>4, <2>4
    <3>2. Num(b, q) = 1
      BY <2>1, <3>1 DEF Num
    <3>3. h[q] \in Nat /\ Owing(x, q) \in {0, 1} /\ b[q].ref = h[q] + Num(b, q) + Owing(x, q)
      BY <1>6, <1>8, <2>2
    <3>4. h[q] = 0
      BY <2>1, <3>2, <3>3
    <3>5. i - 1 < k
      BY <1>4, <1>5, <2>1, <3>1
    <3>6. c[i - 1] \in gone
      BY <1>11, <3>1, <3>5
    <3>7. ASSUME NEW p \in Pbufs, b[p].next = q PROVE p \in gone
      <4>1. p = c[i - 1]
        BY <1>6, <2>1, <2>2, <3>1, <3>7 DEF Good, Sane, Lone
      <4> QED BY <3>6, <4>1
    <3> QED BY <3>4, <3>7
  <2> QED BY <2>3, <2>4
<1>18. Typed(n, B, h)
  <2>1. ASSUME NEW p \in Pbufs \ B PROVE n[p] = Blank /\ h[p] = 0
    <3>1. CASE p \in gone
      BY <1>16, <1>17, <3>1
    <3>2. CASE p \notin gone
      <4>1. p \in Pbufs \ A
        BY <3>2
      <4>2. p # c[k]
        BY <1>5, <1>7, <4>1
      <4>3. n[p] = b[p]
        BY <1>15, <3>2, <4>2
      <4> QED BY <1>2, <4>1, <4>3 DEF Typed
    <3> QED BY <3>1, <3>2
  <2> QED BY <1>2, <1>6, <1>n, <2>1 DEF Typed
<1> HIDE DEF gone
<1>19. Linked(n, B)
  <2>1. ASSUME NEW p \in Pbufs PROVE n[p].next \in B \cup {None}
    <3>1. CASE p \in gone
      BY <1>16, <3>1
    <3>2. CASE p \notin gone
      <4>1. n[p].next = b[p].next /\ b[p].next \in A \cup {None}
        BY <1>15, <3>2 DEF Good, Sane, Linked
      <4>2. b[p].next \notin gone
        BY <1>17, <3>2
      <4> QED BY <4>1, <4>2
    <3> QED BY <3>1, <3>2
  <2> QED BY <2>1 DEF Linked
<1>20. \A p \in Pbufs : n[p].next = None \/ n[p].next = b[p].next
  BY <1>15, <1>16
<1>21. Lone(n)
  BY <1>20 DEF Good, Sane, Lone
<1>22. Acyclic(n)
  <2>1. PICK r : Ranked(b, r)
    BY DEF Good, Sane, Acyclic
  <2>2. Ranked(n, r)
    BY <1>20, <2>1 DEF Ranked
  <2> QED BY <2>2 DEF Acyclic
<1>23. Lens(n)
  <2>1. ASSUME NEW p \in Pbufs PROVE n[p].tot_len = n[p].len + Rest(n, p)
    <3>1. CASE p \in gone
      BY <1>16, <3>1 DEF Blank, Rest
    <3>2. CASE p \notin gone
      <4>1. n[p].next = b[p].next /\ n[p].len = b[p].len /\ n[p].tot_len = b[p].tot_len
        BY <1>15, <3>2
      <4>2. Rest(n, p) = Rest(b, p)
        <5>1. CASE b[p].next = None
          BY <4>1, <5>1 DEF Rest
        <5>2. CASE b[p].next # None
          <6>1. b[p].next \in Pbufs /\ b[p].next \notin gone
            BY <1>6, <1>17, <3>2, <5>2
          <6> QED BY <1>15, <4>1, <5>2, <6>1 DEF Rest
        <5> QED BY <5>1, <5>2
      <4> QED BY <4>1, <4>2 DEF Good, Sane, Lens
    <3> QED BY <3>1, <3>2
  <2> QED BY <2>1 DEF Lens
<1>24. Counts(n, B, h, None)
  <2>1. ASSUME NEW p \in B
        PROVE  n[p].ref > 0 /\ n[p].ref = h[p] + Num(n, p) + Owing(None, p)
    <3>1. p \in A /\ p \in Pbufs /\ p \notin gone /\ p # None
      BY <1>2, <1>6
    <3>2. Owing(None, p) = 0
      BY <3>1 DEF Owing
    <3>3. b[p].ref > 0 /\ b[p].ref = h[p] + Num(b, p) + Owing(x, p)
          /\ h[p] \in Nat /\ b[p].ref \in Nat
      BY <1>6, <1>8, <3>1
    <3>4. CASE p = c[k]
      <4>1. n[p].ref = b[p].ref - 1
        BY <1>15, <3>1, <3>4
      <4>2. b[p].ref > 1
        <5>1. b[p].ref # 1
          BY <1>5, <1>14, <3>1, <3>4 DEF gone
        <5> QED BY <3>3, <5>1
      <4>3. CASE k = 1
        <5>1. p = x /\ Owing(x, p) = 1
          BY <1>4, <3>4, <4>3 DEF Owing
        <5>2. gone = {}
          <6>1. \A q \in gone : FALSE
            <7>1. ASSUME NEW q \in gone PROVE FALSE
              <8>1. PICK i \in 1..l : q = c[i] /\ i <= k
                BY <1>10, <7>1
              <8>2. i = k
                BY <1>4, <1>5, <4>3, <8>1
              <8> QED BY <3>1, <3>4, <8>1, <8>2
            <7> QED BY <7>1
          <6> QED BY <6>1
        <5>3. \A q \in Pbufs : n[q].next = b[q].next
          BY <1>15, <5>2
        <5>4. Num(n, p) = Num(b, p)
          BY <5>3 DEF Num
        <5> QED BY <3>2, <3>3, <4>1, <4>2, <5>1, <5>4, <1>8
      <4>4. CASE k # 1
        <5>1. k - 1 \in 1..l /\ b[c[k - 1]].next = c[k] /\ c[k - 1] \in Pbufs /\ k - 1 < k
          BY <1>4, <1>5, <4>4
        <5>2. Num(b, p) = 1
          BY <3>4, <5>1 DEF Num
        <5>3. c[k - 1] \in gone
          BY <1>11, <5>1
        <5>4. ASSUME NEW q \in Pbufs, n[q].next = p PROVE FALSE
          <6>1. b[q].next = p /\ q \notin gone
            BY <1>15, <1>16, <3>1, <5>4
          <6>2. q = c[k - 1]
            BY <3>1, <3>4, <5>1, <6>1 DEF Good, Sane, Lone
          <6> QED BY <5>3, <6>1, <6>2
        <5>5. Num(n, p) = 0
          BY <5>4 DEF Num
        <5>6. p # x
          BY <1>4, <1>5, <3>4, <4>4
        <5>7. Owing(x, p) = 0
          BY <5>6 DEF Owing
        <5> QED BY <3>2, <3>3, <4>1, <4>2, <5>2, <5>5, <5>7
      <4> QED BY <4>3, <4>4
    <3>5. CASE p # c[k]
      <4>1. n[p].ref = b[p].ref
        BY <1>15, <3>1, <3>5
      <4>2. p \notin m
        BY <1>13, <3>1, <3>5
      <4>3. p # x
        <5>1. x \in m
          BY <1>4, <1>5
        <5> QED BY <4>2, <5>1
      <4>4. Owing(x, p) = 0
        BY <4>3 DEF Owing
      <4>5. ASSUME NEW q \in Pbufs, b[q].next = p PROVE n[q].next = p
        <5>1. SUFFICES ASSUME q \in gone PROVE FALSE
          BY <1>15, <4>5
        <5>2. PICK i \in 1..l : q = c[i] /\ i <= k /\ (i = k => k = l)
          BY <1>10, <5>1
        <5>3. i < l
          BY <1>4, <1>5, <3>1, <4>5, <5>2
        <5>4. i + 1 \in 1..l /\ p = c[i + 1]
          BY <1>4, <4>5, <5>2, <5>3
        <5>5. i + 1 \in 1..k
          BY <1>4, <1>5, <5>2, <5>3
        <5> QED BY <4>2, <5>4, <5>5
      <4>6. ASSUME NEW q \in Pbufs, n[q].next = p PROVE b[q].next = p
        BY <1>20, <3>1, <4>6
      <4>7. Num(n, p) = Num(b, p)
        BY <4>5, <4>6 DEF Num
      <4> QED BY <3>2, <3>3, <4>1, <4>4, <4>7, <1>8
    <3> QED BY <3>4, <3>5
  <2> QED BY <2>1 DEF Counts
<1> QED BY <1>1, <1>14, <1>18, <1>19, <1>21, <1>22, <1>23, <1>24 DEF Good, Sane

-----------------------------------------------------------------------------
(* Steps that leave the links alone, and new pbufs.                        *)

\* What is known of each pbuf.
LEMMA FieldTypes ==
  ASSUME PbufConstants, NEW b, NEW A, NEW h, Sane(b, A, h)
  PROVE  /\ b \in [Pbufs -> Recs] /\ h \in [Pbufs -> Nat] /\ A \subseteq Pbufs
         /\ \A p \in Pbufs : b[p] \in Recs
         /\ \A p \in Pbufs : b[p].next \in Pbufs \cup {None} /\ b[p].len \in Nat
                            /\ b[p].tot_len \in Nat /\ b[p].ref \in Nat /\ b[p].room \in Nat
         /\ \A p \in Pbufs : h[p] \in Nat
         /\ None \notin Pbufs
BY DEF Sane, Typed, Recs, PbufConstants

LEMMA LinksKept ==
  ASSUME NEW b, NEW n, NEW A, Linked(b, A), Lone(b), Acyclic(b),
         \A p \in Pbufs : n[p].next = b[p].next
  PROVE  Linked(n, A) /\ Lone(n) /\ Acyclic(n) /\ \A p : Num(n, p) = Num(b, p)
<1>1. Linked(n, A) /\ Lone(n)
  BY DEF Linked, Lone
<1>2. PICK r : Ranked(b, r)
  BY DEF Acyclic
<1>3. Ranked(n, r)
  BY <1>2 DEF Ranked
<1>4. \A p : Num(n, p) = Num(b, p)
  BY DEF Num
<1> QED BY <1>1, <1>3, <1>4 DEF Acyclic

\* The references held to a pbuf in use, and its count.
LEMMA HeldOk ==
  ASSUME PbufConstants, NEW b, NEW A, NEW h, Sane(b, A, h), NEW p \in A, NEW v \in Nat
  PROVE  LET g == [h EXCEPT ![p] = v]
         IN  Sane(b, A, g) /\ g[p] = v /\ \A q \in Pbufs : q # p => g[q] = h[q]
<1> DEFINE g == [h EXCEPT ![p] = v]
<1>1. h \in [Pbufs -> Nat] /\ A \subseteq Pbufs
  BY FieldTypes
<1>2. g \in [Pbufs -> Nat] /\ g[p] = v /\ \A q \in Pbufs : q # p => g[q] = h[q]
  BY <1>1
<1> HIDE DEF g
<1>3. Typed(b, A, g)
  BY <1>1, <1>2 DEF Sane, Typed
<1> QED BY <1>2, <1>3 DEF Sane, g

LEMMA BumpOk ==
  ASSUME PbufConstants, NEW b, NEW A, NEW h, Sane(b, A, h), NEW p \in A
  PROVE  LET n == [b EXCEPT ![p].ref = @ + 1]
         IN  /\ Sane(n, A, h) /\ n[p].ref = b[p].ref + 1
             /\ \A q \in Pbufs : q # p => n[q].ref = b[q].ref
             /\ \A q : Num(n, q) = Num(b, q)
<1> DEFINE n == [b EXCEPT ![p].ref = @ + 1]
<1>1. /\ A \subseteq Pbufs /\ None \notin Pbufs /\ b \in [Pbufs -> Recs]
      /\ \A q \in Pbufs : b[q].ref \in Nat /\ b[q] \in Recs /\ b[q].next \in Pbufs \cup {None}
  BY FieldTypes
<1>2. n[p] = [b[p] EXCEPT !.ref = b[p].ref + 1] /\ \A q \in Pbufs : q # p => n[q] = b[q]
  BY <1>1
<1>3. b[p] \in Recs /\ b[p].ref + 1 \in Nat /\ p \in Pbufs
  BY <1>1
<1>4. /\ n[p].next = b[p].next /\ n[p].len = b[p].len /\ n[p].tot_len = b[p].tot_len
      /\ n[p].ref = b[p].ref + 1
  BY <1>2, <1>3 DEF Recs
<1>5. n[p] \in Recs
  <2> HIDE DEF n
  <2> QED BY <1>2, <1>3 DEF Recs
<1>6. n \in [Pbufs -> Recs]
  BY <1>1, <1>2, <1>5
<1> HIDE DEF n
<1>7. \A q \in Pbufs : n[q].next = b[q].next /\ n[q].len = b[q].len /\ n[q].tot_len = b[q].tot_len
  BY <1>2, <1>4
<1>8. Linked(n, A) /\ Lone(n) /\ Acyclic(n) /\ \A q : Num(n, q) = Num(b, q)
  BY <1>7, LinksKept DEF Sane
<1>9. Lens(n)
  <2>1. \A q \in Pbufs : Rest(n, q) = Rest(b, q)
    BY <1>1, <1>7 DEF Rest
  <2> QED BY <1>7, <2>1 DEF Sane, Lens
<1>10. Typed(n, A, h)
  BY <1>2, <1>6 DEF Sane, Typed
<1> QED BY <1>2, <1>4, <1>8, <1>9, <1>10 DEF Sane, n

\* Two ways to say what is counted.
LEMMA CountsAre ==
  ASSUME PbufConstants, NEW b, NEW A, NEW h, Sane(b, A, h)
  PROVE  /\ Counts(b, A, h, None) <=> \A q \in A : b[q].ref > 0 /\ b[q].ref = h[q] + Num(b, q)
         /\ \A q \in A : h[q] \in Nat /\ b[q].ref \in Nat /\ Num(b, q) \in {0, 1} /\ q \in Pbufs
<1>1. /\ A \subseteq Pbufs /\ None \notin Pbufs
      /\ \A q \in Pbufs : h[q] \in Nat /\ b[q].ref \in Nat
  BY FieldTypes
<1>2. \A q \in A : Owing(None, q) = 0 /\ Num(b, q) \in {0, 1}
  BY <1>1 DEF Owing, Num
<1> QED BY <1>1, <1>2 DEF Counts

\* A holder's reference becomes the one that is owed.
LEMMA OweOk ==
  ASSUME PbufConstants, NEW b, NEW A, NEW h, Good(b, A, h, None), NEW p \in A, h[p] > 0
  PROVE  Good(b, A, [h EXCEPT ![p] = @ - 1], p)
<1> DEFINE v == h[p] - 1
           g == [h EXCEPT ![p] = v]
<1>1. Sane(b, A, h) /\ Counts(b, A, h, None)
  BY DEF Good
<1>2. \A q \in A : /\ h[q] \in Nat /\ Num(b, q) \in {0, 1} /\ q \in Pbufs
                   /\ b[q].ref > 0 /\ b[q].ref = h[q] + Num(b, q)
  BY <1>1, CountsAre
<1>3. v \in Nat
  BY <1>2
<1>4. Sane(b, A, g) /\ g[p] = v /\ \A q \in Pbufs : q # p => g[q] = h[q]
  <2> HIDE DEF v
  <2> QED BY <1>1, <1>3, HeldOk
<1> HIDE DEF g
<1>5. ASSUME NEW q \in A
      PROVE  b[q].ref > 0 /\ b[q].ref = g[q] + Num(b, q) + Owing(p, q)
  <2>1. CASE q = p
    BY <1>2, <1>4, <2>1 DEF Owing
  <2>2. CASE q # p
    BY <1>2, <1>4, <2>2 DEF Owing
  <2> QED BY <2>1, <2>2
<1>6. Good(b, A, g, p)
  BY <1>4, <1>5 DEF Good, Counts
<1> QED BY <1>6 DEF g

LEMMA FreeStep ==
  ASSUME PbufConstants, PbufInv, NEW p \in Mine, pbuf_free(p)
  PROVE  PbufInv'
<1> DEFINE d == Drop(pb, p)
           g == [held EXCEPT ![p] = @ - 1]
<1>1. pb' = Freed(d) /\ alive' = alive \ d.gone /\ held' = g
  BY DEF pbuf_free
<1>2. p \in alive /\ held[p] > 0
  BY DEF Mine
<1>3. Good(pb, alive, g, p)
  BY <1>2, OweOk DEF PbufInv
<1>4. Good(Freed(d), alive \ d.gone, g, None)
  <2> HIDE DEF g
  <2> QED BY <1>2, <1>3, DropOk
<1> HIDE DEF d, g
<1> QED BY <1>1, <1>4 DEF PbufInv

LEMMA RefStep ==
  ASSUME PbufConstants, PbufInv, NEW p \in Mine, pbuf_ref(p)
  PROVE  PbufInv'
<1> DEFINE n == [pb EXCEPT ![p].ref = @ + 1]
           v == held[p] + 1
           g == [held EXCEPT ![p] = v]
<1>1. pb' = n /\ alive' = alive /\ held' = g
  BY DEF pbuf_ref
<1>2. p \in alive
  BY DEF Mine
<1>3. Sane(pb, alive, held) /\ Counts(pb, alive, held, None)
  BY DEF PbufInv, Good
<1>4. \A q \in alive : /\ held[q] \in Nat /\ Num(pb, q) \in {0, 1} /\ q \in Pbufs
                      /\ pb[q].ref \in Nat /\ pb[q].ref > 0 /\ pb[q].ref = held[q] + Num(pb, q)
  BY <1>3, CountsAre
<1>5. /\ Sane(n, alive, held) /\ n[p].ref = pb[p].ref + 1
      /\ \A q \in Pbufs : q # p => n[q].ref = pb[q].ref
      /\ \A q : Num(n, q) = Num(pb, q)
  BY <1>2, <1>3, BumpOk
<1>6. v \in Nat
  BY <1>2, <1>4
<1> HIDE DEF n
<1>7. Sane(n, alive, g) /\ g[p] = v /\ \A q \in Pbufs : q # p => g[q] = held[q]
  <2> HIDE DEF v
  <2> QED BY <1>2, <1>5, <1>6, HeldOk
<1> HIDE DEF g
<1>8. \A q \in alive : n[q].ref > 0 /\ n[q].ref = g[q] + Num(n, q)
  BY <1>2, <1>4, <1>5, <1>7
<1>9. Counts(n, alive, g, None)
  BY <1>7, <1>8, CountsAre
<1> QED BY <1>1, <1>7, <1>9 DEF PbufInv, Good

\* A pbuf of its own, as pbuf_alloc() makes it.
LEMMA AddOk ==
  ASSUME PbufConstants, NEW b, NEW A, NEW h, Good(b, A, h, None), NEW q \in Pbufs \ A,
         NEW len \in Nat, NEW room \in Nat
  PROVE  Good([b EXCEPT ![q] = [next |-> None, len |-> len, tot_len |-> len, ref |-> 1,
                                room |-> room]],
              A \cup {q}, [h EXCEPT ![q] = 1], None)
<1> DEFINE e == [next |-> None, len |-> len, tot_len |-> len, ref |-> 1, room |-> room]
           n == [b EXCEPT ![q] = e]
           g == [h EXCEPT ![q] = 1]
           B == A \cup {q}
<1>1. Sane(b, A, h) /\ Counts(b, A, h, None)
  BY DEF Good
<1>2. /\ h \in [Pbufs -> Nat] /\ A \subseteq Pbufs /\ None \notin Pbufs
      /\ b \in [Pbufs -> Recs]
      /\ \A p \in Pbufs : h[p] \in Nat /\ b[p].next \in Pbufs \cup {None}
  BY <1>1, FieldTypes
<1>3. e \in Recs
  BY DEF Recs
<1>4. /\ n \in [Pbufs -> Recs] /\ n[q].next = None /\ n[q].len = len /\ n[q].tot_len = len
      /\ n[q].ref = 1 /\ \A p \in Pbufs : p # q => n[p] = b[p]
  BY <1>2, <1>3
<1>5. g \in [Pbufs -> Nat] /\ g[q] = 1 /\ \A p \in Pbufs : p # q => g[p] = h[p]
  BY <1>2
<1> HIDE DEF n, g, e
<1>6. \A p \in Pbufs : b[p].next # q /\ b[p].next \in A \cup {None}
  BY <1>1, <1>2 DEF Sane, Linked
<1>f. b[q].next = None
  BY <1>1 DEF Sane, Typed, Blank
<1>7. \A p \in Pbufs : n[p].next = b[p].next
  BY <1>4, <1>f
<1>8. Linked(n, A) /\ Lone(n) /\ Acyclic(n) /\ \A p : Num(n, p) = Num(b, p)
  BY <1>1, <1>7, LinksKept DEF Sane
<1>9. Linked(n, B)
  BY <1>8 DEF Linked
<1>10. Lens(n)
  <2>1. ASSUME NEW p \in Pbufs PROVE n[p].tot_len = n[p].len + Rest(n, p)
    <3>1. CASE p = q
      BY <1>4, <3>1 DEF Rest
    <3>2. CASE p # q
      <4>1. n[p] = b[p] /\ b[p].tot_len = b[p].len + Rest(b, p)
        BY <1>1, <1>4, <3>2 DEF Sane, Lens
      <4>2. Rest(n, p) = Rest(b, p)
        BY <1>2, <1>4, <1>6, <4>1 DEF Rest
      <4> QED BY <4>1, <4>2
    <3> QED BY <3>1, <3>2
  <2> QED BY <2>1 DEF Lens
<1>11. Typed(n, B, g)
  BY <1>1, <1>2, <1>4, <1>5 DEF Sane, Typed
<1>12. ASSUME NEW p \in B
       PROVE  n[p].ref > 0 /\ n[p].ref = g[p] + Num(n, p) + Owing(None, p)
  <2>1. p \in Pbufs /\ Owing(None, p) = 0 /\ Num(n, p) = Num(b, p)
    BY <1>2, <1>8 DEF Owing
  <2>2. CASE p = q
    <3>1. Num(b, p) = 0
      BY <1>6, <2>2 DEF Num
    <3> QED BY <1>4, <1>5, <2>1, <2>2, <3>1
  <2>3. CASE p # q
    <3>1. n[p] = b[p] /\ g[p] = h[p] /\ p \in A
      BY <1>4, <1>5, <2>1, <2>3
    <3> QED BY <1>1, <2>1, <3>1 DEF Counts
  <2> QED BY <2>2, <2>3
<1> QED BY <1>8, <1>9, <1>10, <1>11, <1>12 DEF Good, Sane, Counts, n, g, e

LEMMA AllocOneStep ==
  ASSUME PbufConstants, PbufInv, NEW p \in RAM \cup ROM, NEW n \in 1..MaxLen,
         pbuf_alloc_one(p, n)
  PROVE  PbufInv'
<1> DEFINE room == IF p \in RAM THEN Headroom ELSE 0
<1>1. p \in Pbufs \ alive /\ n \in Nat /\ room \in Nat
  BY DEF pbuf_alloc_one, Pbufs, PbufConstants
<1>2. /\ pb' = [pb EXCEPT ![p] = [next |-> None, len |-> n, tot_len |-> n, ref |-> 1,
                                  room |-> room]]
      /\ alive' = alive \cup {p} /\ held' = [held EXCEPT ![p] = 1]
  BY DEF pbuf_alloc_one, Given
<1> HIDE DEF room
<1> QED BY <1>1, <1>2, AddOk DEF PbufInv

LEMMA CoalesceStep ==
  ASSUME PbufConstants, PbufInv, NEW p \in Mine, NEW q \in RAM, pbuf_coalesce(p, q)
  PROVE  PbufInv'
<1> DEFINE d == Drop(pb, p)
           b == Freed(d)
           g == [held EXCEPT ![p] = @ - 1]
           n == pb[p].tot_len
           B == alive \ d.gone
<1>1. p \in alive /\ held[p] > 0 /\ q \in Pbufs \ alive /\ q # p
  BY DEF Mine, pbuf_coalesce, Pbufs
<1>2. n \in Nat /\ Headroom \in Nat
  <2>1. alive \subseteq Pbufs /\ \A x \in Pbufs : pb[x].tot_len \in Nat
    BY FieldTypes DEF PbufInv, Good
  <2> QED BY <1>1, <2>1 DEF PbufConstants
<1>3. Good(pb, alive, g, p)
  BY <1>1, OweOk DEF PbufInv
<1>4. Good(b, B, g, None)
  <2> HIDE DEF g
  <2> QED BY <1>1, <1>3, DropOk
<1>5. q \in Pbufs \ B
  BY <1>1
<1>6. /\ pb' = [b EXCEPT ![q] = [next |-> None, len |-> n, tot_len |-> n, ref |-> 1,
                                 room |-> Headroom]]
      /\ alive' = B \cup {q} /\ held' = [held EXCEPT ![p] = @ - 1, ![q] = 1]
  BY DEF pbuf_coalesce
<1>7. held' = [g EXCEPT ![q] = 1]
  BY <1>6
<1> HIDE DEF b, B, g, n
<1>8. Good([b EXCEPT ![q] = [next |-> None, len |-> n, tot_len |-> n, ref |-> 1,
                             room |-> Headroom]], B \cup {q}, [g EXCEPT ![q] = 1], None)
  BY <1>2, <1>4, <1>5, AddOk
<1> QED BY <1>6, <1>7, <1>8 DEF PbufInv

-----------------------------------------------------------------------------
(* Steps at the head of a chain.                                           *)

LEMMA HeadFacts ==
  ASSUME PbufConstants, PbufInv, NEW p \in Heads
  PROVE  /\ p \in alive /\ p \in Pbufs /\ held[p] > 0
         /\ \A q \in Pbufs : pb[q].next # p
<1>1. p \in alive /\ held[p] > 0 /\ \A q \in alive : pb[q].next # p
  BY DEF Heads
<1>2. Typed(pb, alive, held)
  BY DEF PbufInv, Good, Sane
<1>3. p \in Pbufs /\ None \notin Pbufs
  BY <1>1, <1>2 DEF Typed, PbufConstants
<1>4. \A q \in Pbufs \ alive : pb[q].next = None
  BY <1>2 DEF Typed, Blank
<1> QED BY <1>1, <1>3, <1>4

\* The members of a head's chain: links neither enter nor leave them.
LEMMA MembersClosed ==
  ASSUME PbufConstants, PbufInv, NEW p \in Heads, NEW c, NEW l, Chained(pb, p, c, l)
  PROVE  LET m == {c[i] : i \in 1..l}
         IN  \A q \in Pbufs : pb[q].next # None => (pb[q].next \in m <=> q \in m)
<1> DEFINE m == {c[i] : i \in 1..l}
<1>1. \A q \in Pbufs : pb[q].next # p
  BY HeadFacts
<1>2. ASSUME NEW q \in Pbufs, pb[q].next # None, pb[q].next \in m PROVE q \in m
  <2>1. PICK i \in 1..l : pb[q].next = c[i]
    BY <1>2
  <2>2. i # 1
    BY <1>1, <2>1 DEF Chained
  <2>3. i - 1 \in 1..l /\ pb[c[i - 1]].next = c[i] /\ c[i - 1] \in Pbufs
    BY <2>2 DEF Chained
  <2>4. q = c[i - 1]
    BY <1>2, <2>1, <2>3 DEF PbufInv, Good, Sane, Lone
  <2> QED BY <2>3, <2>4
<1>3. ASSUME NEW q \in Pbufs, pb[q].next # None, q \in m PROVE pb[q].next \in m
  <2>1. PICK i \in 1..l : q = c[i]
    BY <1>3
  <2>2. i < l
    BY <1>3, <2>1 DEF Chained
  <2> QED BY <2>1, <2>2 DEF Chained
<1> QED BY <1>2, <1>3

LEMMA MembersAre ==
  ASSUME PbufConstants, NEW b, Shape(b), NEW p \in Pbufs
  PROVE  LET c == ChainOf(b, p)
         IN  Members(b, p) = {c[i] : i \in 1..Len(c)} /\ Last(b, p) = c[Len(c)]
<1>1. Chained(b, p, ChainOf(b, p), Len(ChainOf(b, p)))
  BY ChainFacts
<1>2. DOMAIN ChainOf(b, p) = 1..Len(ChainOf(b, p))
  BY <1>1 DEF Chained
<1> QED BY <1>2 DEF Members, Last

\* Two packets become one: the last pbuf of the first leads to the second.
LEMMA CatOk ==
  ASSUME PbufConstants, PbufInv, NEW h, NEW t, Apart(h, t)
  PROVE  LET n == Cat(h, t)
         IN  /\ Sane(n, alive, held) /\ t \in alive
             /\ \A q \in Pbufs : n[q].ref = pb[q].ref
             /\ Num(n, t) = 1 /\ Num(pb, t) = 0
             /\ \A q \in Pbufs : q # t => Num(n, q) = Num(pb, q)
<1> DEFINE n == Cat(h, t)
           c == ChainOf(pb, h)
           k == Len(c)
           m == {c[i] : i \in 1..k}
           l == c[k]
<1>1. Sane(pb, alive, held)
  BY DEF PbufInv, Good
<1>2. h \in Heads /\ t \in Heads /\ Members(pb, h) \cap Members(pb, t) = {}
  BY DEF Apart
<1>3. /\ h \in Pbufs /\ t \in Pbufs /\ t \in alive
      /\ \A q \in Pbufs : pb[q].next # h
      /\ \A q \in Pbufs : pb[q].next # t
  BY <1>2, HeadFacts
<1>4. Shape(pb)
  BY GoodShape DEF PbufInv
<1>5. Chained(pb, h, c, k)
  BY <1>3, <1>4, ChainFacts
<1>6. Members(pb, h) = m /\ Last(pb, h) = l
  BY <1>3, <1>4, MembersAre
<1>7. t \notin m
  <2> DEFINE d == ChainOf(pb, t)
  <2>1. Chained(pb, t, d, Len(d)) /\ Members(pb, t) = {d[i] : i \in 1..Len(d)}
    BY <1>3, <1>4, ChainFacts, MembersAre
  <2> HIDE DEF d
  <2>2. t = d[1] /\ 1 \in 1..Len(d)
    BY <2>1 DEF Chained
  <2>3. t \in Members(pb, t)
    BY <2>1, <2>2
  <2> HIDE DEF m
  <2> QED BY <1>2, <1>6, <2>3
<1>8. \A q \in Pbufs : pb[q].next # None => (pb[q].next \in m <=> q \in m)
  <2> HIDE DEF c, k
  <2> QED BY <1>2, <1>5, MembersClosed
<1>9. n = [q \in Pbufs |->
            IF q \in m THEN [pb[q] EXCEPT !.tot_len = @ + pb[t].tot_len,
                                          !.next = IF q = l THEN t ELSE @]
            ELSE pb[q]]
  <2> HIDE DEF m, l
  <2> QED BY <1>6 DEF Cat
<1>10. l \in m /\ l \in Pbufs /\ pb[l].next = None /\ m \subseteq Pbufs
  <2> HIDE DEF c, k
  <2> QED BY <1>5 DEF Chained
<1>11. /\ pb \in [Pbufs -> Recs] /\ held \in [Pbufs -> Nat] /\ alive \subseteq Pbufs
       /\ \A p \in Pbufs : pb[p] \in Recs
       /\ \A p \in Pbufs : pb[p].next \in Pbufs \cup {None} /\ pb[p].len \in Nat
                          /\ pb[p].tot_len \in Nat /\ pb[p].ref \in Nat /\ pb[p].room \in Nat
       /\ None \notin Pbufs
  BY <1>1, FieldTypes
<1> DEFINE x == pb[t].tot_len
<1>x. x \in Nat
  BY <1>3, <1>11
<1> HIDE DEF n, l, m, c, k
<1>12. ASSUME NEW q \in Pbufs
       PROVE  /\ n[q] \in Recs /\ n[q].ref = pb[q].ref /\ n[q].len = pb[q].len
              /\ n[q].next = IF q = l THEN t ELSE pb[q].next
              /\ n[q].tot_len = pb[q].tot_len + (IF q \in m THEN x ELSE 0)
              /\ (q \notin m => n[q] = pb[q])
  <2> HIDE DEF x
  <2>1. CASE q \in m
    <3> DEFINE y == IF q = l THEN t ELSE pb[q].next
    <3>1. n[q] = [pb[q] EXCEPT !.tot_len = pb[q].tot_len + x, !.next = y]
      BY <1>9, <2>1 DEF x
    <3>2. pb[q] \in Recs /\ y \in Pbufs \cup {None} /\ pb[q].tot_len + x \in Nat
      BY <1>3, <1>11, <1>x
    <3> HIDE DEF y
    <3>3. /\ n[q].ref = pb[q].ref /\ n[q].len = pb[q].len /\ n[q].next = y
          /\ n[q].tot_len = pb[q].tot_len + x
      BY <3>1, <3>2 DEF Recs
    <3>4. n[q] \in Recs
      BY <3>1, <3>2 DEF Recs
    <3> QED BY <2>1, <3>3, <3>4 DEF y
  <2>2. CASE q \notin m
    <3>1. n[q] = pb[q] /\ q # l
      BY <1>9, <1>10, <2>2
    <3> QED BY <1>11, <2>2, <3>1
  <2> QED BY <2>1, <2>2
<1>13. n \in [Pbufs -> Recs]
  BY <1>9, <1>12
<1>14. Typed(n, alive, held)
  <2>1. ASSUME NEW q \in Pbufs \ alive PROVE n[q] = Blank /\ held[q] = 0
    <3>1. pb[q] = Blank /\ held[q] = 0
      BY <1>1 DEF Sane, Typed
    <3>2. q \notin m
      <4>1. SUFFICES ASSUME q \in m PROVE FALSE
        OBVIOUS
      <4>2. PICK i \in 1..k : q = c[i]
        BY <4>1 DEF m
      <4>3. CASE i = 1
        <5>1. q = h /\ h \in alive
          BY <1>2, <1>5, <4>2, <4>3, HeadFacts DEF Chained
        <5> QED BY <5>1
      <4>4. CASE i # 1
        <5>1. c[i - 1] \in Pbufs /\ pb[c[i - 1]].next = q
          BY <1>5, <4>2, <4>4 DEF Chained
        <5> QED BY <1>1, <1>11, <5>1 DEF Sane, Linked
      <4> QED BY <4>3, <4>4
    <3> QED BY <1>12, <3>1, <3>2
  <2> QED BY <1>11, <1>13, <2>1 DEF Typed
<1>15. Linked(n, alive)
  BY <1>1, <1>3, <1>12 DEF Sane, Linked
<1>16. Lone(n)
  <2>1. ASSUME NEW p \in Pbufs, NEW q \in Pbufs, n[p].next # None, n[p].next = n[q].next
        PROVE  p = q
    <3>1. CASE p = l
      BY <1>3, <1>12, <2>1, <3>1
    <3>2. CASE q = l
      BY <1>3, <1>12, <2>1, <3>2
    <3>3. CASE p # l /\ q # l
      BY <1>1, <1>12, <2>1, <3>3 DEF Sane, Lone
    <3> QED BY <3>1, <3>2, <3>3
  <2> QED BY <2>1 DEF Lone
<1>17. Acyclic(n)
  <2>1. PICK r : Ranked(pb, r)
    BY <1>1 DEF Sane, Acyclic
  <2> DEFINE z == r[t] + 1
             u == [q \in Pbufs |-> IF q \in m THEN r[q] + z ELSE r[q]]
  <2>2. z \in Nat /\ \A q \in Pbufs : r[q] \in Nat
    BY <1>3, <2>1 DEF Ranked
  <2>3. u \in [Pbufs -> Nat]
    BY <2>2
  <2>4. ASSUME NEW q \in Pbufs, n[q].next # None PROVE u[n[q].next] < u[q]
    <3>1. CASE q = l
      <4>1. n[q].next = t /\ u[t] = r[t] /\ u[q] = r[q] + z
        BY <1>3, <1>7, <1>10, <1>12, <3>1
      <4> QED BY <1>3, <2>2, <4>1
    <3>2. CASE q # l
      <4>1. n[q].next = pb[q].next /\ pb[q].next # None /\ pb[q].next \in Pbufs
        BY <1>11, <1>12, <2>4, <3>2
      <4>2. r[pb[q].next] < r[q] /\ (pb[q].next \in m <=> q \in m)
        BY <1>8, <2>1, <4>1 DEF Ranked
      <4> HIDE DEF z
      <4> QED BY <2>2, <4>1, <4>2
    <3> QED BY <3>1, <3>2
  <2> HIDE DEF u
  <2>5. Ranked(n, u)
    BY <2>3, <2>4 DEF Ranked
  <2> QED BY <2>5 DEF Acyclic
<1>18. Lens(n)
  <2>1. ASSUME NEW q \in Pbufs PROVE n[q].tot_len = n[q].len + Rest(n, q)
    <3>0. pb[q].tot_len = pb[q].len + Rest(pb, q)
      BY <1>1 DEF Sane, Lens
    <3>1. CASE q = l
      <4>1. Rest(pb, q) = 0 /\ q \in m
        BY <1>10, <3>1 DEF Rest
      <4>2. n[q].next = t /\ n[q].tot_len = pb[q].tot_len + x /\ n[q].len = pb[q].len
        BY <1>12, <3>1, <4>1
      <4>3. n[t].tot_len = x /\ t # None
        BY <1>3, <1>7, <1>11, <1>12
      <4>4. Rest(n, q) = x
        BY <4>2, <4>3 DEF Rest
      <4> HIDE DEF x
      <4> QED BY <1>x, <1>11, <3>0, <4>1, <4>2, <4>4
    <3>2. CASE q # l
      <4>1. n[q].next = pb[q].next /\ n[q].len = pb[q].len
            /\ n[q].tot_len = pb[q].tot_len + (IF q \in m THEN x ELSE 0)
        BY <1>12, <3>2
      <4>2. CASE pb[q].next = None
        <5>1. q \notin m
          <6>1. SUFFICES ASSUME q \in m PROVE FALSE
            OBVIOUS
          <6>2. PICK i \in 1..k : q = c[i]
            BY <6>1 DEF m
          <6>3. i # k
            BY <3>2, <6>2 DEF l
          <6>4. i < k /\ i \in Nat /\ k \in Nat
            BY <1>5, <6>2, <6>3 DEF Chained
          <6>5. pb[q].next = c[i + 1] /\ c[i + 1] \in Pbufs
            BY <1>5, <6>2, <6>4 DEF Chained
          <6> QED BY <1>11, <4>2, <6>5
        <5> QED BY <1>11, <3>0, <4>1, <4>2, <5>1 DEF Rest
      <4>3. CASE pb[q].next # None
        <5>1. pb[q].next \in Pbufs /\ (pb[q].next \in m <=> q \in m)
          BY <1>8, <1>11, <4>3
        <5>2. Rest(pb, q) = pb[pb[q].next].tot_len /\ Rest(n, q) = n[pb[q].next].tot_len
          BY <4>1, <4>3 DEF Rest
        <5>3. n[pb[q].next].tot_len = pb[pb[q].next].tot_len + (IF q \in m THEN x ELSE 0)
          BY <1>12, <5>1
        <5> HIDE DEF x
        <5> QED BY <1>x, <1>11, <3>0, <4>1, <5>1, <5>2, <5>3
      <4> QED BY <4>2, <4>3
    <3> QED BY <3>1, <3>2
  <2> QED BY <2>1 DEF Lens
<1>19. Num(n, t) = 1 /\ Num(pb, t) = 0
  BY <1>3, <1>10, <1>12 DEF Num
<1>20. ASSUME NEW q \in Pbufs, q # t PROVE Num(n, q) = Num(pb, q)
  <2>1. \A p \in Pbufs : n[p].next = q <=> pb[p].next = q
    BY <1>10, <1>11, <1>12, <1>20
  <2> QED BY <2>1 DEF Num
<1> QED BY <1>3, <1>12, <1>14, <1>15, <1>16, <1>17, <1>18, <1>19, <1>20 DEF Sane, n

LEMMA CatStep ==
  ASSUME PbufConstants, PbufInv, NEW h, NEW t, pbuf_cat(h, t)
  PROVE  PbufInv'
<1> DEFINE n == Cat(h, t)
           v == held[t] - 1
           g == [held EXCEPT ![t] = v]
<1>1. pb' = n /\ alive' = alive /\ held' = g /\ Apart(h, t)
  BY DEF pbuf_cat
<1>2. /\ Sane(n, alive, held) /\ t \in alive
      /\ \A q \in Pbufs : n[q].ref = pb[q].ref
      /\ Num(n, t) = 1 /\ Num(pb, t) = 0
      /\ \A q \in Pbufs : q # t => Num(n, q) = Num(pb, q)
  BY <1>1, CatOk
<1>3. \A q \in alive : /\ held[q] \in Nat /\ Num(pb, q) \in {0, 1} /\ q \in Pbufs
                      /\ pb[q].ref \in Nat /\ pb[q].ref > 0 /\ pb[q].ref = held[q] + Num(pb, q)
  BY CountsAre DEF PbufInv, Good
<1>4. v \in Nat
  <2>1. t \in Heads
    BY <1>1 DEF Apart
  <2> QED BY <1>2, <1>3, <2>1, HeadFacts
<1> HIDE DEF n
<1>5. Sane(n, alive, g) /\ g[t] = v /\ \A q \in Pbufs : q # t => g[q] = held[q]
  <2> HIDE DEF v
  <2> QED BY <1>2, <1>4, HeldOk
<1> HIDE DEF g
<1>6. \A q \in alive : n[q].ref > 0 /\ n[q].ref = g[q] + Num(n, q)
  BY <1>2, <1>3, <1>5
<1>7. Counts(n, alive, g, None)
  BY <1>5, <1>6, CountsAre
<1> QED BY <1>1, <1>5, <1>7 DEF PbufInv, Good

LEMMA ChainStep ==
  ASSUME PbufConstants, PbufInv, NEW h, NEW t, pbuf_chain(h, t)
  PROVE  PbufInv'
<1> DEFINE n == Cat(h, t)
           e == [n EXCEPT ![t].ref = @ + 1]
<1>1. pb' = e /\ alive' = alive /\ held' = held /\ Apart(h, t)
  BY DEF pbuf_chain
<1>2. /\ Sane(n, alive, held) /\ t \in alive
      /\ \A q \in Pbufs : n[q].ref = pb[q].ref
      /\ Num(n, t) = 1 /\ Num(pb, t) = 0
      /\ \A q \in Pbufs : q # t => Num(n, q) = Num(pb, q)
  BY <1>1, CatOk
<1>3. \A q \in alive : /\ held[q] \in Nat /\ Num(pb, q) \in {0, 1} /\ q \in Pbufs
                      /\ pb[q].ref \in Nat /\ pb[q].ref > 0 /\ pb[q].ref = held[q] + Num(pb, q)
  BY CountsAre DEF PbufInv, Good
<1> HIDE DEF n
<1>4. /\ Sane(e, alive, held) /\ e[t].ref = n[t].ref + 1
      /\ \A q \in Pbufs : q # t => e[q].ref = n[q].ref
      /\ \A q : Num(e, q) = Num(n, q)
  <2>1. Sane(n, alive, held) /\ t \in alive
    BY <1>2
  <2> QED BY <2>1, BumpOk
<1> HIDE DEF e
<1>5. ASSUME NEW q \in alive PROVE e[q].ref > 0 /\ e[q].ref = held[q] + Num(e, q)
  <2>1. CASE q = t
    BY <1>2, <1>3, <1>4, <2>1
  <2>2. CASE q # t
    BY <1>2, <1>3, <1>4, <2>2
  <2> QED BY <2>1, <2>2
<1>6. Counts(e, alive, held, None)
  BY <1>4, <1>5, CountsAre
<1> QED BY <1>1, <1>4, <1>6 DEF PbufInv, Good

\* Lengths change, the links remain.
LEMMA KeptOk ==
  ASSUME PbufConstants, PbufInv, NEW n, n \in [Pbufs -> Recs], Lens(n),
         \A q \in Pbufs : n[q].next = pb[q].next /\ n[q].ref = pb[q].ref,
         \A q \in Pbufs \ alive : n[q] = pb[q]
  PROVE  Good(n, alive, held, None)
<1>1. Sane(pb, alive, held) /\ Counts(pb, alive, held, None)
  BY DEF PbufInv, Good
<1>2. Linked(n, alive) /\ Lone(n) /\ Acyclic(n) /\ \A q : Num(n, q) = Num(pb, q)
  BY <1>1, LinksKept DEF Sane
<1>3. Typed(n, alive, held)
  BY <1>1 DEF Sane, Typed
<1>4. Counts(n, alive, held, None)
  <2>1. alive \subseteq Pbufs
    BY <1>1, FieldTypes
  <2> QED BY <1>1, <1>2, <2>1 DEF Counts
<1> QED BY <1>2, <1>3, <1>4 DEF Good, Sane

\* A link is cut: what it led to has lost a reference.
LEMMA CutOk ==
  ASSUME PbufConstants, PbufInv, NEW n, n \in [Pbufs -> Recs], Lens(n),
         NEW u \in Pbufs, NEW x, x = pb[u].next, x # None, n[u].next = None,
         \A q \in Pbufs : q # u => n[q].next = pb[q].next,
         \A q \in Pbufs : n[q].ref = pb[q].ref,
         \A q \in Pbufs \ alive : n[q] = pb[q]
  PROVE  x \in alive /\ Good(n, alive, held, x)
<1>1. Sane(pb, alive, held) /\ Counts(pb, alive, held, None)
  BY DEF PbufInv, Good
<1>2. Typed(pb, alive, held) /\ Linked(pb, alive) /\ Lone(pb) /\ Acyclic(pb)
  BY <1>1 DEF Sane
<1>3. x \in alive
  BY <1>2 DEF Linked
<1>4. \A q \in Pbufs : n[q].next = None \/ n[q].next = pb[q].next
  OBVIOUS
<1>5. Linked(n, alive)
  BY <1>2, <1>4 DEF Linked
<1>6. Lone(n)
  BY <1>2, <1>4 DEF Lone
<1>7. Acyclic(n)
  <2>1. PICK r : Ranked(pb, r)
    BY <1>2 DEF Acyclic
  <2>2. Ranked(n, r)
    BY <1>4, <2>1 DEF Ranked
  <2> QED BY <2>2 DEF Acyclic
<1>8. Typed(n, alive, held)
  BY <1>2 DEF Typed
<1>9. ASSUME NEW q \in alive
      PROVE  n[q].ref > 0 /\ n[q].ref = held[q] + Num(n, q) + Owing(x, q)
  <2>1. /\ held[q] \in Nat /\ Num(pb, q) \in {0, 1} /\ q \in Pbufs
        /\ pb[q].ref > 0 /\ pb[q].ref = held[q] + Num(pb, q)
    BY <1>1, CountsAre
  <2>2. n[q].ref = pb[q].ref /\ q # None
    BY <2>1 DEF PbufConstants
  <2>3. CASE q = x
    <3>1. Num(pb, q) = 1
      BY <2>3 DEF Num
    <3>2. ASSUME NEW v \in Pbufs, n[v].next = x PROVE FALSE
      <4>1. v # u /\ pb[v].next = x
        BY <3>2
      <4> QED BY <1>2, <4>1 DEF Lone
    <3>3. Num(n, q) = 0
      BY <2>3, <3>2 DEF Num
    <3>4. Owing(x, q) = 1
      BY <2>3 DEF Owing
    <3> QED BY <2>1, <2>2, <3>1, <3>3, <3>4
  <2>4. CASE q # x
    <3>1. \A v \in Pbufs : n[v].next = q <=> pb[v].next = q
      BY <2>2, <2>4
    <3>2. Num(n, q) = Num(pb, q) /\ Owing(x, q) = 0
      BY <2>4, <3>1 DEF Num, Owing
    <3> QED BY <2>1, <2>2, <3>2
  <2> QED BY <2>3, <2>4
<1> QED BY <1>3, <1>5, <1>6, <1>7, <1>8, <1>9 DEF Good, Sane, Counts

\* A head changes its length and room: nobody before it has counted them.
LEMMA HeadChange ==
  ASSUME PbufConstants, PbufInv, NEW p \in Heads, NEW n, n \in [Pbufs -> Recs],
         \A q \in Pbufs : q # p => n[q] = pb[q], n[p].tot_len = n[p].len + Rest(n, p)
  PROVE  Lens(n) /\ \A q \in Pbufs \ alive : n[q] = pb[q]
<1>1. p \in alive /\ p \in Pbufs /\ \A q \in Pbufs : pb[q].next # p
  BY HeadFacts
<1>2. \A q \in Pbufs : pb[q].next \in Pbufs \cup {None}
  BY FieldTypes DEF PbufInv, Good
<1>3. ASSUME NEW q \in Pbufs PROVE n[q].tot_len = n[q].len + Rest(n, q)
  <2>1. CASE q = p
    BY <2>1
  <2>2. CASE q # p
    <3>1. n[q] = pb[q] /\ pb[q].tot_len = pb[q].len + Rest(pb, q)
      BY <2>2 DEF PbufInv, Good, Sane, Lens
    <3>2. Rest(n, q) = Rest(pb, q)
      BY <1>1, <1>2, <3>1 DEF Rest
    <3> QED BY <3>1, <3>2
  <2> QED BY <2>1, <2>2
<1> QED BY <1>1, <1>3 DEF Lens

LEMMA HeaderStep ==
  ASSUME PbufConstants, PbufInv, NEW p \in Mine, NEW n \in 1..Headroom,
         pbuf_header_add(p, n) \/ pbuf_header_hide(p, n)
  PROVE  PbufInv'
<1>1. /\ pb \in [Pbufs -> Recs] /\ alive \subseteq Pbufs
      /\ \A q \in Pbufs : /\ pb[q] \in Recs /\ pb[q].len \in Nat /\ pb[q].tot_len \in Nat
                          /\ pb[q].room \in Nat /\ pb[q].next \in Pbufs \cup {None}
  BY FieldTypes DEF PbufInv, Good
<1>2. p \in Pbufs /\ n \in Nat
  BY <1>1 DEF Mine, PbufConstants
<1>3. pb[p].tot_len = pb[p].len + Rest(pb, p) /\ Rest(pb, p) \in Nat
  <2>1. pb[p].tot_len = pb[p].len + Rest(pb, p)
    BY <1>2 DEF PbufInv, Good, Sane, Lens
  <2> QED BY <1>1, <1>2, <2>1 DEF Rest
<1>4. PICK x \in Nat, y \in Nat, z \in Nat :
         /\ pb' = [pb EXCEPT ![p].len = x, ![p].tot_len = y, ![p].room = z]
         /\ y = x + Rest(pb, p) /\ p \in Heads /\ alive' = alive /\ held' = held
  <2>1. CASE pbuf_header_add(p, n)
    <3>1. /\ p \in Heads /\ n <= pb[p].room /\ alive' = alive /\ held' = held
          /\ pb' = [pb EXCEPT ![p].len = pb[p].len + n, ![p].tot_len = pb[p].tot_len + n,
                              ![p].room = pb[p].room - n]
      BY <1>1, <1>2, <2>1 DEF pbuf_header_add
    <3>2. /\ pb[p].len + n \in Nat /\ pb[p].tot_len + n \in Nat /\ pb[p].room - n \in Nat
          /\ pb[p].tot_len + n = (pb[p].len + n) + Rest(pb, p)
      BY <1>1, <1>2, <1>3, <3>1
    <3> QED BY <3>1, <3>2
  <2>2. CASE pbuf_header_hide(p, n)
    <3> DEFINE z == IF p \in ROM THEN pb[p].room ELSE pb[p].room + n
    <3>1. /\ p \in Heads /\ n <= pb[p].len /\ alive' = alive /\ held' = held
          /\ pb' = [pb EXCEPT ![p].len = pb[p].len - n, ![p].tot_len = pb[p].tot_len - n,
                              ![p].room = z]
      BY <1>1, <1>2, <2>2 DEF pbuf_header_hide
    <3>2. /\ pb[p].len - n \in Nat /\ pb[p].tot_len - n \in Nat /\ z \in Nat
          /\ pb[p].tot_len - n = (pb[p].len - n) + Rest(pb, p)
      BY <1>1, <1>2, <1>3, <3>1
    <3> HIDE DEF z
    <3> QED BY <3>1, <3>2
  <2> QED BY <2>1, <2>2
<1> DEFINE b == [pb EXCEPT ![p].len = x, ![p].tot_len = y, ![p].room = z]
<1>5. b[p] = [pb[p] EXCEPT !.len = x, !.tot_len = y, !.room = z]
      /\ \A q \in Pbufs : q # p => b[q] = pb[q]
  BY <1>1, <1>2
<1>6. /\ b[p].len = x /\ b[p].tot_len = y /\ b[p].next = pb[p].next /\ b[p].ref = pb[p].ref
      /\ b[p] \in Recs
  <2> HIDE DEF b
  <2> QED BY <1>1, <1>2, <1>5 DEF Recs
<1>7. b \in [Pbufs -> Recs]
  BY <1>1, <1>5, <1>6
<1> HIDE DEF b
<1>8. Rest(b, p) = Rest(pb, p)
  <2>1. pb[p].next # p
    BY <1>2, <1>4, HeadFacts
  <2> QED BY <1>1, <1>2, <1>5, <1>6, <2>1 DEF Rest
<1>9. Lens(b) /\ \A q \in Pbufs \ alive : b[q] = pb[q]
  <2>1. p \in Heads /\ b[p].tot_len = b[p].len + Rest(b, p)
    BY <1>4, <1>6, <1>8
  <2>2. \A q \in Pbufs : q # p => b[q] = pb[q]
    BY <1>5
  <2> QED BY <1>7, <2>1, <2>2, HeadChange
<1>10. \A q \in Pbufs : b[q].next = pb[q].next /\ b[q].ref = pb[q].ref
  BY <1>5, <1>6
<1>11. Good(b, alive, held, None)
  BY <1>7, <1>9, <1>10, KeptOk
<1> QED BY <1>4, <1>11 DEF PbufInv, b

LEMMA DechainStep ==
  ASSUME PbufConstants, PbufInv, NEW p \in Mine, pbuf_dechain(p)
  PROVE  PbufInv'
<1> DEFINE n == [pb EXCEPT ![p].next = None, ![p].tot_len = pb[p].len]
           x == pb[p].next
           d == Drop(n, x)
<1>1. /\ p \in Heads /\ x # None
      /\ pb' = Freed(d) /\ alive' = alive \ d.gone /\ held' = held
  BY DEF pbuf_dechain
<1>2. /\ p \in alive /\ p \in Pbufs /\ \A q \in Pbufs : pb[q].next # p
  BY <1>1, HeadFacts
<1>3. Sane(pb, alive, held) /\ Counts(pb, alive, held, None)
  BY DEF PbufInv, Good
<1>4. /\ pb \in [Pbufs -> Recs] /\ alive \subseteq Pbufs /\ None \notin Pbufs
      /\ \A q \in Pbufs : /\ pb[q] \in Recs /\ pb[q].len \in Nat
                          /\ pb[q].next \in Pbufs \cup {None}
  BY <1>3, FieldTypes
<1>5. n[p] = [pb[p] EXCEPT !.next = None, !.tot_len = pb[p].len]
      /\ \A q \in Pbufs : q # p => n[q] = pb[q]
  BY <1>2, <1>4
<1>6. /\ n[p].next = None /\ n[p].len = pb[p].len /\ n[p].tot_len = pb[p].len
      /\ n[p].ref = pb[p].ref /\ n[p] \in Recs
  <2>1. pb[p] \in Recs /\ pb[p].len \in Nat /\ None \in Pbufs \cup {None}
    BY <1>2, <1>4
  <2> HIDE DEF n
  <2> QED BY <1>5, <2>1 DEF Recs
<1>7. n \in [Pbufs -> Recs]
  BY <1>4, <1>5, <1>6
<1> HIDE DEF n
<1>8. Lens(n) /\ \A q \in Pbufs \ alive : n[q] = pb[q]
  <2>1. n[p].tot_len = n[p].len + Rest(n, p)
    <3>1. Rest(n, p) = 0
      BY <1>6 DEF Rest
    <3> QED BY <1>2, <1>4, <1>6, <3>1
  <2>2. \A q \in Pbufs : q # p => n[q] = pb[q]
    BY <1>5
  <2>3. p \in Heads
    BY <1>1
  <2> QED BY <1>7, <2>1, <2>2, <2>3, HeadChange
<1>9. \A q \in Pbufs : n[q].ref = pb[q].ref
  BY <1>5, <1>6
<1>10. \A q \in Pbufs : q # p => n[q].next = pb[q].next
  BY <1>5
<1>11. x \in alive /\ Good(n, alive, held, x)
  <2>1. x = pb[p].next
    OBVIOUS
  <2> HIDE DEF x
  <2> QED BY <1>1, <1>2, <1>6, <1>7, <1>8, <1>9, <1>10, <2>1, CutOk
<1>12. Good(Freed(d), alive \ d.gone, held, None)
  <2> HIDE DEF x
  <2> QED BY <1>11, DropOk
<1> HIDE DEF d
<1> QED BY <1>1, <1>12 DEF PbufInv

-----------------------------------------------------------------------------
(* Lengths along a chain.                                                  *)

\* f[k] is the length of the first k pbufs.
Sums(b, c, f) ==
  /\ f \in [0..Len(c) -> Nat] /\ f[0] = 0
  /\ \A k \in 1..Len(c) : f[k] = f[k - 1] + b[c[k]].len

LEMMA SumRuns ==
  ASSUME NEW b \in [Pbufs -> Recs], NEW c \in Seq(Pbufs)
  PROVE  \E f : Sums(b, c, f) /\ \A i : Before(b, c, i) = f[i - 1]
<1> DEFINE l == Len(c)
           Sol(f) == f = [k \in 0..l |-> IF k = 0 THEN 0 ELSE f[k - 1] + b[c[k]].len]
           add == [k \in Nat |-> IF k \in 1..l THEN b[c[k]].len ELSE 0]
           g == [t \in Nat \X Nat |-> t[1] + add[t[2]]]
<1>1. l \in Nat /\ \A k \in 1..l : b[c[k]].len \in Nat
  BY DEF Recs
<1>2. add \in [Nat -> Nat] /\ \A k \in 1..l : add[k] = b[c[k]].len
  BY <1>1
<1>3. g \in [Nat \X Nat -> Nat]
  <2> HIDE DEF add
  <2>1. ASSUME NEW t \in Nat \X Nat PROVE t[1] + add[t[2]] \in Nat
    <3>1. t[1] \in Nat /\ t[2] \in Nat
      OBVIOUS
    <3>2. add[t[2]] \in Nat
      BY <1>2, <3>1
    <3> QED BY <3>1, <3>2
  <2> QED BY <2>1
<1>4. \E f : Sol(f)
  <2> HIDE DEF g, l
  <2>0. StepFunction(Nat, g, 0, l)
    BY <1>1, <1>3 DEF StepFunction
  <2>a. PICK f : IsRecursion(f, Nat, g, 0, l)
    BY <2>0, RecursionExists
  <2>1. /\ f \in [0..l -> Nat] /\ f[0] = 0
        /\ \A i \in 1..l : f[i] = g[<<f[i - 1], i>>]
    BY <2>a DEF IsRecursion
  <2>2. ASSUME NEW i \in 1..l PROVE f[i] = f[i - 1] + b[c[i]].len
    <3>1. i - 1 \in 0..l /\ i \in Nat
      BY <1>1
    <3>2. f[i - 1] \in Nat
      BY <2>1, <3>1
    <3>3. g[<<f[i - 1], i>>] = f[i - 1] + add[i]
      <4> HIDE DEF add
      <4> QED BY <3>1, <3>2 DEF g
    <3> QED BY <1>2, <2>1, <3>3
  <2>3. \A i \in 0..l : i # 0 => i \in 1..l
    BY <1>1
  <2>4. Sol(f)
    BY <2>1, <2>2, <2>3
  <2> QED BY <2>4
<1> DEFINE run == CHOOSE f : Sol(f)
<1>5. Sol(run)
  <2> HIDE DEF Sol
  <2> QED BY <1>4
<1>6. \A i : Before(b, c, i) = run[i - 1]
  BY DEF Before
<1> HIDE DEF run, l
<1>7. run[0] = 0
  BY <1>1, <1>5
<1>8. ASSUME NEW i \in 1..l PROVE run[i] = run[i - 1] + b[c[i]].len
  <2>1. i \in 0..l /\ i # 0
    BY <1>1
  <2> QED BY <1>5, <2>1
<1>9. ASSUME NEW i \in 0..l PROVE run[i] \in Nat
  <2> DEFINE T == {j \in 0..l : run[j] \in Nat}
  <2>1. 0 \in T
    BY <1>1, <1>7
  <2>2. ASSUME NEW j \in 0..l, j \in T, j < l PROVE j + 1 \in T
    <3>1. j + 1 \in 1..l /\ (j + 1) - 1 = j /\ j + 1 \in 0..l
      BY <1>1, <2>2
    <3>2. run[j + 1] = run[j] + b[c[j + 1]].len
      BY <1>8, <3>1
    <3>3. run[j] \in Nat /\ b[c[j + 1]].len \in Nat
      BY <1>1, <2>2, <3>1
    <3>4. run[j + 1] \in Nat
      BY <3>2, <3>3
    <3> QED BY <3>1, <3>4
  <2> HIDE DEF T
  <2>3. \A j \in 0..l : j \in T
    BY <1>1, <2>1, <2>2, BoundedInduction
  <2> QED BY <2>3 DEF T
<1>10. run \in [0..l -> Nat]
  <2>1. DOMAIN run = 0..l /\ run = [i \in 0..l |-> run[i]]
    BY <1>5
  <2> QED BY <1>9, <2>1
<1>11. Sums(b, c, run)
  BY <1>7, <1>8, <1>10 DEF Sums, l
<1> QED BY <1>6, <1>11

\* tot_len, from each place of a chain on.
LEMMA TotIs ==
  ASSUME PbufConstants, NEW b \in [Pbufs -> Recs], Lens(b), NEW p, NEW c, NEW l,
         Chained(b, p, c, l), NEW f, Sums(b, c, f)
  PROVE  /\ \A k \in 1..l : b[p].tot_len = f[k - 1] + b[c[k]].tot_len
         /\ b[p].tot_len = f[l]
<1>1. /\ l \in Nat \ {0} /\ c[1] = p /\ l = Len(c)
      /\ \A i \in 1..l : c[i] \in Pbufs
      /\ \A i \in 1..l : i < l => i + 1 \in 1..l /\ b[c[i]].next = c[i + 1]
      /\ b[c[l]].next = None
  BY DEF Chained
<1>2. /\ f \in [0..l -> Nat] /\ f[0] = 0
      /\ \A k \in 1..l : f[k] = f[k - 1] + b[c[k]].len
  BY <1>1 DEF Sums
<1>3. \A q \in Pbufs : b[q].len \in Nat /\ b[q].tot_len \in Nat /\ q # None
  BY DEF Recs, PbufConstants
<1> DEFINE T == {j \in 0..l : j < l => b[p].tot_len = f[j] + b[c[j + 1]].tot_len}
<1>4. 0 \in T
  <2>1. b[p].tot_len \in Nat
    BY <1>1, <1>3
  <2> QED BY <1>1, <1>2, <2>1
<1>5. ASSUME NEW j \in 0..l, j \in T, j < l PROVE j + 1 \in T
  <2> DEFINE i == j + 1
  <2>1. i \in 1..l /\ i - 1 = j /\ i \in 0..l /\ j \in 0..l
    BY <1>1, <1>5
  <2>2. b[p].tot_len = f[j] + b[c[i]].tot_len
    BY <1>5
  <2> HIDE DEF i
  <2>3. SUFFICES ASSUME i < l PROVE b[p].tot_len = f[i] + b[c[i + 1]].tot_len
    BY <2>1 DEF i
  <2>4. i + 1 \in 1..l /\ b[c[i]].next = c[i + 1] /\ c[i] \in Pbufs /\ c[i + 1] \in Pbufs
    BY <1>1, <2>1, <2>3
  <2>5. b[c[i]].tot_len = b[c[i]].len + b[c[i + 1]].tot_len
    BY <1>3, <2>4 DEF Lens, Rest
  <2>6. f[i] = f[j] + b[c[i]].len /\ f[i] \in Nat /\ f[j] \in Nat
    BY <1>2, <2>1
  <2> QED BY <1>3, <2>2, <2>4, <2>5, <2>6
<1>6. \A j \in 0..l : j \in T
  <2> HIDE DEF T
  <2> QED BY <1>1, <1>4, <1>5, BoundedInduction
<1>7. ASSUME NEW k \in 1..l PROVE b[p].tot_len = f[k - 1] + b[c[k]].tot_len
  <2>1. k - 1 \in 0..l /\ k - 1 < l /\ (k - 1) + 1 = k
    BY <1>1
  <2> QED BY <1>6, <2>1
<1>8. b[p].tot_len = f[l]
  <2>1. l \in 1..l /\ l - 1 \in 0..l /\ l \in 0..l
    BY <1>1
  <2>2. b[c[l]].tot_len = b[c[l]].len
    BY <1>1, <1>3, <2>1 DEF Lens, Rest
  <2>3. f[l] = f[l - 1] + b[c[l]].len /\ b[p].tot_len = f[l - 1] + b[c[l]].tot_len
    BY <1>2, <1>7, <2>1
  <2> QED BY <2>2, <2>3
<1> QED BY <1>7, <1>8

-----------------------------------------------------------------------------
(* pbuf_realloc().                                                         *)

LEMMA ReallocStep ==
  ASSUME PbufConstants, PbufInv, NEW p \in Mine, NEW n \in 0..MaxLen, pbuf_realloc(p, n)
  PROVE  PbufInv'
<1> DEFINE c == ChainOf(pb, p)
           l == Len(c)
           s == {k \in DOMAIN c : n - Before(pb, c, k) <= pb[c[k]].len}
           i == Lowest(s)
           r == n - Before(pb, c, i)
           cut == pb[p].tot_len - n
           b == [q \in Pbufs |->
                   IF q = c[i] THEN [pb[q] EXCEPT !.len = r, !.tot_len = r, !.next = None]
                   ELSE IF \E k \in 1..i : c[k] = q
                        THEN [pb[q] EXCEPT !.tot_len = @ - cut] ELSE pb[q]]
           d == IF i = l THEN [pb |-> b, gone |-> {}] ELSE Drop(b, c[i + 1])
<1>1. /\ p \in Heads /\ n < pb[p].tot_len
      /\ pb' = Freed(d) /\ alive' = alive \ d.gone /\ held' = held
  BY DEF pbuf_realloc, Realloc
<1>2. p \in alive /\ p \in Pbufs /\ \A q \in Pbufs : pb[q].next # p
  BY <1>1, HeadFacts
<1>3. Sane(pb, alive, held) /\ Shape(pb) /\ Lens(pb) /\ Lone(pb) /\ Linked(pb, alive)
  BY GoodShape DEF PbufInv, Good, Sane
<1>4. /\ pb \in [Pbufs -> Recs] /\ alive \subseteq Pbufs /\ None \notin Pbufs
      /\ \A q \in Pbufs : /\ pb[q] \in Recs /\ pb[q].len \in Nat /\ pb[q].tot_len \in Nat
                          /\ pb[q].next \in Pbufs \cup {None} /\ pb[q].ref \in Nat
  BY <1>3, FieldTypes
<1>5. Chained(pb, p, c, l)
  BY <1>2, <1>3, ChainFacts
<1> HIDE DEF c, l
<1>6. /\ l \in Nat \ {0} /\ c[1] = p /\ l = Len(c) /\ c \in Seq(Pbufs) /\ l \in 1..l
      /\ \A k \in 1..l : c[k] \in Pbufs
      /\ \A k, j \in 1..l : c[k] = c[j] => k = j
      /\ \A k \in 1..l : k < l => k + 1 \in 1..l /\ pb[c[k]].next = c[k + 1]
      /\ pb[c[l]].next = None
      /\ \A k \in 1..l : k # 1 => k - 1 \in 1..l /\ pb[c[k - 1]].next = c[k]
  BY <1>5 DEF Chained
<1>7. PICK f : Sums(pb, c, f) /\ \A k : Before(pb, c, k) = f[k - 1]
  BY <1>4, <1>6, SumRuns
<1>8. /\ \A k \in 1..l : pb[p].tot_len = f[k - 1] + pb[c[k]].tot_len
      /\ pb[p].tot_len = f[l]
  BY <1>3, <1>4, <1>5, <1>7, TotIs
<1>9. /\ \A k \in 0..l : f[k] \in Nat
      /\ f[0] = 0 /\ \A k \in 1..l : f[k] = f[k - 1] + pb[c[k]].len /\ f[k - 1] \in Nat
  <2>1. \A k \in 1..l : k - 1 \in 0..l
    BY <1>6
  <2> QED BY <1>6, <1>7, <2>1 DEF Sums
<1>10. /\ n \in Nat /\ pb[p].tot_len \in Nat /\ n < pb[p].tot_len
       /\ cut \in Nat /\ cut = pb[p].tot_len - n
  <2>1. n < pb[p].tot_len
    <3> HIDE DEF d
    <3> QED BY <1>1
  <2>2. n \in Nat /\ pb[p].tot_len \in Nat
    BY <1>2, <1>4 DEF PbufConstants
  <2> QED BY <2>1, <2>2
<1> HIDE DEF cut
<1>11. i \in 1..l /\ n - f[i - 1] <= pb[c[i]].len
       /\ \A k \in 1..l : k < i => ~(n - f[k - 1] <= pb[c[k]].len)
  <2>1. DOMAIN c = 1..l
    BY <1>6
  <2>2. s = {k \in 1..l : n - f[k - 1] <= pb[c[k]].len}
    BY <1>7, <2>1
  <2> HIDE DEF s
  <2>3. l \in s
    <3>1. f[l] = f[l - 1] + pb[c[l]].len /\ f[l - 1] \in Nat /\ pb[c[l]].len \in Nat
      BY <1>4, <1>6, <1>9
    <3>2. n < f[l - 1] + pb[c[l]].len
      BY <1>8, <1>10, <3>1
    <3>3. n - f[l - 1] <= pb[c[l]].len
      BY <1>10, <3>1, <3>2
    <3> QED BY <1>6, <2>2, <3>3
  <2>4. s \in SUBSET Nat
    BY <2>2
  <2>5. i \in s /\ \A k \in s : i <= k
    BY <2>3, <2>4, LowestIs
  <2> HIDE DEF i
  <2> QED BY <1>6, <2>2, <2>5
<1> HIDE DEF i, s
<1>12. r = n - f[i - 1] /\ r \in Nat
  <2>1. r = n - f[i - 1]
    BY <1>7
  <2>2. CASE i = 1
    BY <1>9, <1>10, <2>1, <2>2
  <2>3. CASE i # 1
    <3> DEFINE k == i - 1
    <3>1. k \in 1..l /\ k < i
      BY <1>6, <1>11, <2>3
    <3>2. r = n - f[k]
      BY <2>1
    <3> HIDE DEF k, r
    <3>3. /\ ~(n - f[k - 1] <= pb[c[k]].len) /\ f[k] = f[k - 1] + pb[c[k]].len
          /\ f[k - 1] \in Nat /\ pb[c[k]].len \in Nat
      BY <1>4, <1>6, <1>9, <1>11, <3>1
    <3>4. r \in Nat
      BY <1>10, <3>2, <3>3
    <3> QED BY <2>1, <3>4
  <2> QED BY <2>2, <2>3
<1> HIDE DEF r
<1>13. ASSUME NEW k \in 1..i
       PROVE  /\ k \in 1..l /\ f[k - 1] \in Nat /\ n - f[k - 1] \in Nat
              /\ pb[c[k]].tot_len - cut = n - f[k - 1]
  <2>1. k \in 1..l
    BY <1>6, <1>11
  <2>2. /\ pb[p].tot_len = f[k - 1] + pb[c[k]].tot_len /\ pb[c[k]].tot_len \in Nat
        /\ f[k - 1] \in Nat /\ pb[c[k]].len \in Nat
    BY <1>4, <1>6, <1>8, <1>9, <2>1
  <2>3. pb[c[k]].tot_len - cut = n - f[k - 1]
    BY <1>10, <2>2
  <2>4. n - f[k - 1] \in Nat
    <3>1. CASE k = i
      BY <1>12, <3>1
    <3>2. CASE k # i
      <4>1. k < i
        BY <1>6, <1>11, <3>2
      <4>2. ~(n - f[k - 1] <= pb[c[k]].len)
        BY <1>11, <2>1, <4>1
      <4> QED BY <1>10, <2>2, <4>2
    <3> QED BY <3>1, <3>2
  <2> QED BY <2>1, <2>2, <2>3, <2>4
<1> DEFINE m == {c[k] : k \in 1..i}
\* The pbufs after the step, before anything is freed.
<1>14. /\ b[c[i]] \in Recs /\ b[c[i]].len = r /\ b[c[i]].tot_len = r /\ b[c[i]].next = None
       /\ b[c[i]].ref = pb[c[i]].ref
  <2>1. c[i] \in Pbufs /\ pb[c[i]] \in Recs /\ None \in Pbufs \cup {None}
    BY <1>4, <1>6, <1>11
  <2>2. b[c[i]] = [pb[c[i]] EXCEPT !.len = r, !.tot_len = r, !.next = None]
    BY <2>1
  <2> HIDE DEF b
  <2> QED BY <1>12, <2>1, <2>2 DEF Recs
<1>15. ASSUME NEW k \in 1..i, k # i
       PROVE  /\ b[c[k]] \in Recs /\ b[c[k]].tot_len = n - f[k - 1]
              /\ b[c[k]].len = pb[c[k]].len
              /\ b[c[k]].next = pb[c[k]].next /\ b[c[k]].ref = pb[c[k]].ref
  <2>1. /\ c[k] \in Pbufs /\ pb[c[k]] \in Recs /\ c[k] # c[i] /\ \E j \in 1..i : c[j] = c[k]
        /\ pb[c[k]].tot_len - cut \in Nat /\ pb[c[k]].tot_len - cut = n - f[k - 1]
    BY <1>4, <1>6, <1>11, <1>13, <1>15
  <2>2. b[c[k]] = [pb[c[k]] EXCEPT !.tot_len = pb[c[k]].tot_len - cut]
    BY <2>1
  <2> HIDE DEF b
  <2>3. /\ b[c[k]] \in Recs /\ b[c[k]].tot_len = pb[c[k]].tot_len - cut
        /\ b[c[k]].len = pb[c[k]].len
        /\ b[c[k]].next = pb[c[k]].next /\ b[c[k]].ref = pb[c[k]].ref
    BY <2>1, <2>2 DEF Recs
  <2> QED BY <2>1, <2>3
<1>16. ASSUME NEW q \in Pbufs, q \notin m PROVE b[q] = pb[q]
  <2>1. q # c[i] /\ ~\E k \in 1..i : c[k] = q
    <3>1. i \in 1..i
      BY <1>6, <1>11
    <3> QED BY <1>16, <3>1
  <2> QED BY <2>1
<1>17. b = [q \in Pbufs |-> b[q]]
  OBVIOUS
<1> HIDE DEF b
<1>18. ASSUME NEW q \in Pbufs
       PROVE  b[q] \in Recs /\ b[q].ref = pb[q].ref /\ (q # c[i] => b[q].next = pb[q].next)
  <2>1. CASE q \in m
    <3>1. PICK k \in 1..i : q = c[k]
      BY <2>1
    <3> QED BY <1>14, <1>15, <3>1
  <2>2. CASE q \notin m
    BY <1>4, <1>16, <2>2
  <2> QED BY <2>1, <2>2
<1>19. b \in [Pbufs -> Recs]
  BY <1>17, <1>18
<1>20. ASSUME NEW q \in Pbufs PROVE b[q].tot_len = b[q].len + Rest(b, q)
  <2>1. CASE q = c[i]
    <3>1. Rest(b, q) = 0 /\ b[q].tot_len = r /\ b[q].len = r
      BY <1>14, <2>1 DEF Rest
    <3> QED BY <1>12, <3>1
  <2>2. CASE q # c[i] /\ q \in m
    <3>1. PICK k \in 1..i : q = c[k]
      BY <2>2
    <3>2. k # i /\ k \in 1..l /\ k < l /\ k + 1 \in 1..i /\ k + 1 \in 1..l
      <4>1. k # i
        BY <2>2, <3>1
      <4> QED BY <1>6, <1>11, <4>1
    <3>3. pb[q].next = c[k + 1] /\ c[k + 1] \in Pbufs /\ c[k + 1] # None
      BY <1>4, <1>6, <3>1, <3>2
    <3>4. b[q].next = c[k + 1] /\ b[q].len = pb[c[k]].len /\ b[q].tot_len = n - f[k - 1]
      BY <1>15, <3>1, <3>2, <3>3
    <3> DEFINE j == k + 1
    <3>5. j \in 1..i /\ j - 1 = k
      BY <3>2
    <3>6. Rest(b, q) = b[c[j]].tot_len
      BY <3>3, <3>4 DEF Rest
    <3> HIDE DEF j
    <3>7. b[c[j]].tot_len = n - f[j - 1]
      BY <1>12, <1>14, <1>15, <3>5
    <3>8. b[c[j]].tot_len = n - f[k]
      BY <3>5, <3>7
    <3>9. f[k] = f[k - 1] + pb[c[k]].len /\ f[k - 1] \in Nat /\ pb[c[k]].len \in Nat
      BY <1>4, <1>6, <1>9, <3>2
    <3> QED BY <1>10, <3>4, <3>6, <3>8, <3>9
  <2>3. CASE q \notin m
    <3>1. b[q] = pb[q] /\ pb[q].tot_len = pb[q].len + Rest(pb, q)
      BY <1>3, <1>16, <2>3 DEF Lens
    <3>2. Rest(b, q) = Rest(pb, q)
      <4>1. CASE pb[q].next = None
        BY <3>1, <4>1 DEF Rest
      <4>2. CASE pb[q].next # None
        <5>1. pb[q].next \in Pbufs
          BY <1>4, <4>2
        <5>2. pb[q].next \notin m
          <6>1. SUFFICES ASSUME NEW k \in 1..i, pb[q].next = c[k] PROVE FALSE
            OBVIOUS
          <6>2. k # 1 /\ k \in 1..l
            BY <1>2, <1>6, <1>13, <6>1
          <6>3. k - 1 \in 1..l /\ pb[c[k - 1]].next = c[k] /\ c[k - 1] \in Pbufs /\ k - 1 \in 1..i
            BY <1>6, <1>11, <6>1, <6>2
          <6>4. q = c[k - 1]
            BY <1>3, <4>2, <6>1, <6>3 DEF Lone
          <6> QED BY <2>3, <6>3, <6>4
        <5>3. b[pb[q].next] = pb[pb[q].next]
          BY <1>16, <5>1, <5>2
        <5> QED BY <3>1, <4>2, <5>3 DEF Rest
      <4> QED BY <4>1, <4>2
    <3> QED BY <3>1, <3>2
  <2> QED BY <2>1, <2>2, <2>3
<1>21. Lens(b)
  BY <1>20 DEF Lens
<1>22. ASSUME NEW q \in Pbufs \ alive PROVE b[q] = pb[q]
  <2>1. q \notin m
    <3>1. SUFFICES ASSUME NEW k \in 1..i, q = c[k] PROVE FALSE
      OBVIOUS
    <3>2. CASE k = 1
      BY <1>2, <1>6, <3>1, <3>2
    <3>3. CASE k # 1
      <4>1. k \in 1..l
        BY <1>13
      <4>2. c[k - 1] \in Pbufs /\ pb[c[k - 1]].next = q
        BY <1>6, <3>1, <3>3, <4>1
      <4> QED BY <1>3, <1>4, <4>2 DEF Linked
    <3> QED BY <3>2, <3>3
  <2> QED BY <1>16, <2>1
<1>23. c[i] \in Pbufs
  BY <1>6, <1>11
<1>24. CASE i = l
  <2>1. \A q \in Pbufs : b[q].next = pb[q].next
    BY <1>6, <1>14, <1>18, <1>24
  <2>2. Good(b, alive, held, None)
    BY <1>18, <1>19, <1>21, <1>22, <2>1, KeptOk
  <2>3. d.gone = {} /\ d.pb = b
    BY <1>24
  <2>4. Freed(d) = b /\ alive \ d.gone = alive
    BY <1>17, <2>3 DEF Freed
  <2> HIDE DEF d
  <2> QED BY <1>1, <2>2, <2>4 DEF PbufInv
<1>25. CASE i # l
  <2> DEFINE x == c[i + 1]
  <2>1. x = pb[c[i]].next /\ x \in Pbufs /\ x # None
    BY <1>4, <1>6, <1>11, <1>25
  <2>2. d = Drop(b, x)
    BY <1>25
  <2> HIDE DEF x, d
  <2>3. x \in alive /\ Good(b, alive, held, x)
    <3>1. \A q \in Pbufs : q # c[i] => b[q].next = pb[q].next
      BY <1>18
    <3>2. \A q \in Pbufs : b[q].ref = pb[q].ref
      BY <1>18
    <3>3. b[c[i]].next = None
      BY <1>14
    <3> QED BY <1>19, <1>21, <1>22, <1>23, <2>1, <3>1, <3>2, <3>3, CutOk
  <2>4. Good(Freed(d), alive \ d.gone, held, None)
    BY <2>2, <2>3, DropOk
  <2> QED BY <1>1, <2>4 DEF PbufInv
<1> QED BY <1>24, <1>25

-----------------------------------------------------------------------------
(* pbuf_alloc() from the pool.                                             *)

LEMMA PoolEnds ==
  ASSUME PbufConstants, NEW length \in Nat
  PROVE  /\ PoolCount(length) \in Nat \ {0}
         /\ PoolEnd(length, PoolCount(length)) = length
         /\ \A i \in Nat \ {0} : /\ PoolEnd(length, i) \in 0..length
                                /\ PoolEnd(length, i) <= PoolEnd(length, i + 1)
<1> DEFINE m == PBUF_POOL_BUFSIZE
           room == m - Headroom
           rest == length - Least(length, room)
           x == rest + m - 1
           k == x \div m
           n == 1 + k
<1>1. m \in Nat \ {0} /\ Headroom \in Nat /\ room \in Nat /\ room = m - Headroom
  BY DEF PbufConstants
<1>2. PoolCount(length) = n
  BY DEF PoolCount
<1> HIDE DEF m, room
<1>3. rest \in Nat /\ (length <= room => rest = 0) /\ (length > room => rest = length - room)
  BY <1>1 DEF Least
<1>x. x \in Nat /\ x = rest + m - 1
  BY <1>1, <1>3
<1> HIDE DEF rest, x
<1>4. k \in Nat /\ k * m \in Nat /\ rest <= k * m
  <2>1. k \in Int /\ x = k * m + (x % m) /\ x % m \in 0..(m - 1)
    BY <1>1, <1>x
  <2>2. k * m \in Int
    BY <1>1, <2>1
  <2>3. x % m <= m - 1 /\ x % m \in Nat
    BY <1>1, <2>1
  <2>4. k * m = x - (x % m)
    <3> HIDE DEF k
    <3> QED BY <1>x, <2>1, <2>2, <2>3
  <2>5. rest <= k * m
    <3> HIDE DEF k
    <3> QED BY <1>1, <1>3, <1>x, <2>3, <2>4
  <2>6. k \in Nat
    BY <1>1, <1>x
  <2> HIDE DEF k
  <2> QED BY <1>3, <2>2, <2>5, <2>6
<1> HIDE DEF k
<1>5. n \in Nat \ {0}
  BY <1>4
<1>6. n * m = m + k * m
  BY <1>1, <1>4
<1>7. n * m - Headroom >= length
  BY <1>1, <1>3, <1>4, <1>6
<1>8. PoolEnd(length, n) = length
  <2> DEFINE y == n * m - Headroom
  <2>1. y \in Int /\ y >= length
    BY <1>1, <1>4, <1>6, <1>7
  <2>2. PoolEnd(length, n) = Least(length, y)
    BY DEF PoolEnd, m
  <2> HIDE DEF y
  <2> QED BY <2>1, <2>2 DEF Least
<1>9. ASSUME NEW i \in Nat \ {0}
      PROVE  PoolEnd(length, i) \in 0..length /\ PoolEnd(length, i) <= PoolEnd(length, i + 1)
  <2> DEFINE y == i * m - Headroom
             z == (i + 1) * m - Headroom
  <2>1. i * m \in Nat /\ (i + 1) * m = i * m + m
    BY <1>1
  <2>2. i * m >= m
    <3>1. i - 1 \in Nat /\ (i - 1) * m \in Nat /\ i * m = (i - 1) * m + m
      BY <1>1
    <3> QED BY <1>1, <2>1, <3>1
  <2>3. y \in Nat /\ z \in Nat /\ y <= z
    BY <1>1, <2>1, <2>2
  <2>4. PoolEnd(length, i) = Least(length, y) /\ PoolEnd(length, i + 1) = Least(length, z)
    BY DEF PoolEnd, m
  <2> HIDE DEF y, z
  <2> QED BY <2>3, <2>4 DEF Least
<1> QED BY <1>2, <1>5, <1>8, <1>9

LEMMA FreePoolIs ==
  ASSUME PbufConstants, NEW n \in Nat, n <= Cardinality(POOL \ alive)
  PROVE  /\ FreePool(n) \in [1..n -> POOL \ alive]
         /\ \A i, j \in 1..n : FreePool(n)[i] = FreePool(n)[j] => i = j
<1> DEFINE s == POOL \ alive
           k == Cardinality(s)
<1>1. IsFiniteSet(s)
  <2>1. IsFiniteSet(Pbufs) /\ s \in SUBSET Pbufs
    BY DEF PbufConstants, Pbufs
  <2> HIDE DEF s
  <2> QED BY <2>1, FS_Subset
<1> HIDE DEF s
<1>2. k \in Nat /\ ExistsBijection(1..k, s)
  BY <1>1, FS_CardinalityType
<1>3. PICK f : f \in [1..k -> s] /\ \A i, j \in 1..k : f[i] = f[j] => i = j
  BY <1>2 DEF ExistsBijection, Bijection, Injection, IsInjective
<1>4. n <= k
  BY DEF s
<1> HIDE DEF k
<1> DEFINE c == [i \in 1..n |-> f[i]]
<1>5. c \in [1..n -> s] /\ \A i, j \in 1..n : c[i] = c[j] => i = j
  BY <1>2, <1>3, <1>4
<1> HIDE DEF c
<1>6. \E d \in [1..n -> s] : \A i, j \in 1..n : d[i] = d[j] => i = j
  BY <1>5
<1> QED BY <1>6, Zenon DEF FreePool, s

LEMMA AllocPoolStep ==
  ASSUME PbufConstants, PbufInv, NEW length \in 1..MaxLen, pbuf_alloc_pool(length)
  PROVE  PbufInv'
<1> DEFINE n == PoolCount(length)
           c == FreePool(n)
           b == PoolChain(c, length)
           new == {c[i] : i \in 1..n}
           g == [held EXCEPT ![c[1]] = 1]
           B == alive \cup new
           end == [i \in 0..n |-> IF i = 0 THEN 0 ELSE PoolEnd(length, i)]
<1>1. /\ n <= Cardinality(POOL \ alive)
      /\ pb' = b /\ alive' = B /\ held' = g
  BY DEF pbuf_alloc_pool, Given
<1>2. length \in Nat
  BY DEF PbufConstants
<1>3. n \in Nat \ {0} /\ 1 \in 1..n /\ n \in 1..n
  BY <1>2, PoolEnds
<1>4. c \in [1..n -> POOL \ alive] /\ \A i, j \in 1..n : c[i] = c[j] => i = j
  BY <1>1, <1>3, FreePoolIs
<1>5. /\ \A i \in 0..n : end[i] \in 0..length
      /\ \A i \in 1..n : end[i - 1] <= end[i]
      /\ end[0] = 0 /\ end[n] = length
      /\ \A i \in 1..n : PoolEnd(length, i) = end[i]
  <2>1. \A i \in Nat \ {0} : /\ PoolEnd(length, i) \in 0..length
                            /\ PoolEnd(length, i) <= PoolEnd(length, i + 1)
    BY <1>2, PoolEnds
  <2>2. PoolEnd(length, n) = length
    BY <1>2, PoolEnds
  <2> HIDE DEF n
  <2>3. \A i \in 0..n : end[i] \in 0..length
    BY <1>2, <1>3, <2>1
  <2>4. ASSUME NEW i \in 1..n PROVE end[i - 1] <= end[i]
    <3>1. CASE i = 1
      BY <1>2, <1>3, <2>3, <3>1
    <3>2. CASE i # 1
      <4>1. i - 1 \in Nat \ {0} /\ (i - 1) + 1 = i /\ i - 1 \in 0..n /\ i \in 0..n
        BY <1>3, <3>2
      <4>2. PoolEnd(length, i - 1) <= PoolEnd(length, (i - 1) + 1)
        BY <2>1, <4>1
      <4> QED BY <3>2, <4>1, <4>2
    <3> QED BY <3>1, <3>2
  <2>5. end[0] = 0 /\ end[n] = length
    BY <1>3, <2>2
  <2>6. \A i \in 1..n : PoolEnd(length, i) = end[i]
    BY <1>3
  <2> HIDE DEF end
  <2> QED BY <2>3, <2>4, <2>5, <2>6
<1> HIDE DEF n, c, end
<1>6. Sane(pb, alive, held) /\ Counts(pb, alive, held, None)
  BY DEF PbufInv, Good
<1>7. /\ pb \in [Pbufs -> Recs] /\ held \in [Pbufs -> Nat]
      /\ alive \subseteq Pbufs /\ None \notin Pbufs
      /\ \A q \in Pbufs : pb[q] \in Recs /\ pb[q].next \in Pbufs \cup {None}
  BY <1>6, FieldTypes
<1>8. /\ \A i \in 1..n : c[i] \in Pbufs /\ c[i] \notin alive
      /\ DOMAIN c = 1..n /\ Len(c) = n
  <2>1. \A i \in 1..n : c[i] \in Pbufs /\ c[i] \notin alive
    BY <1>4 DEF Pbufs
  <2>2. DOMAIN c = 1..n
    BY <1>4
  <2>3. Len(c) = n
    <3>1. c \in Seq(POOL \ alive)
      BY <1>3, <1>4, SeqDef
    <3> QED BY <1>3, <1>4, <3>1, LenProperties
  <2> QED BY <2>1, <2>2, <2>3
<1>9. new \cap alive = {} /\ new \subseteq Pbufs /\ B \subseteq Pbufs
  BY <1>7, <1>8
\* The pbufs of the new chain.
<1>10. ASSUME NEW i \in 1..n
       PROVE  b[c[i]] = [next |-> IF i < n THEN c[i + 1] ELSE None,
                         len |-> end[i] - end[i - 1], tot_len |-> length - end[i - 1],
                         ref |-> 1, room |-> IF i = 1 THEN Headroom ELSE 0]
  <2> DEFINE j == CHOOSE k \in DOMAIN c : c[k] = c[i]
  <2>1. j = i
    <3>1. \E k \in DOMAIN c : c[k] = c[i]
      BY <1>8
    <3>2. j \in DOMAIN c /\ c[j] = c[i]
      BY <3>1
    <3> QED BY <1>4, <1>8, <3>2
  <2>2. \E k \in DOMAIN c : c[k] = c[i]
    BY <1>8
  <2> DEFINE from(k) == IF k = 1 THEN 0 ELSE PoolEnd(length, k - 1)
             rec(k) == [next |-> IF k < Len(c) THEN c[k + 1] ELSE None,
                        len |-> PoolEnd(length, k) - from(k),
                        tot_len |-> length - from(k), ref |-> 1,
                        room |-> IF k = 1 THEN Headroom ELSE 0]
  <2>3. b[c[i]] = rec(j)
    BY <1>8, <2>2, Zenon DEF PoolChain
  <2> HIDE DEF j
  <2>4. b[c[i]] = rec(i)
    BY <2>1, <2>3
  <2>5. from(i) = end[i - 1]
    <3>1. CASE i = 1
      BY <1>5, <3>1
    <3>2. CASE i # 1
      BY <1>3, <1>5, <3>2
    <3> QED BY <3>1, <3>2
  <2> HIDE DEF from
  <2> QED BY <1>5, <1>8, <2>4, <2>5
<1>11. ASSUME NEW q \in Pbufs, q \notin new PROVE b[q] = pb[q]
  <2>1. ~\E k \in DOMAIN c : c[k] = q
    BY <1>8, <1>11
  <2> QED BY <2>1 DEF PoolChain
<1>12. b = [q \in Pbufs |-> b[q]]
  BY DEF PoolChain
<1> HIDE DEF b
<1>13. ASSUME NEW i \in 1..n
       PROVE  /\ b[c[i]].next = IF i < n THEN c[i + 1] ELSE None
              /\ b[c[i]].len = end[i] - end[i - 1] /\ b[c[i]].tot_len = length - end[i - 1]
              /\ b[c[i]].ref = 1 /\ b[c[i]] \in Recs
  <2>1. /\ i \in 0..n /\ i - 1 \in 0..n /\ (i < n => i + 1 \in 1..n)
    BY <1>3
  <2>2. /\ end[i] - end[i - 1] \in Nat /\ length - end[i - 1] \in Nat
    BY <1>2, <1>5, <2>1
  <2>3. (IF i < n THEN c[i + 1] ELSE None) \in Pbufs \cup {None}
    BY <1>8, <2>1
  <2>4. (IF i = 1 THEN Headroom ELSE 0) \in Nat
    BY DEF PbufConstants
  <2> DEFINE y == IF i < n THEN c[i + 1] ELSE None
             v == end[i] - end[i - 1]
             w == length - end[i - 1]
             z == IF i = 1 THEN Headroom ELSE 0
  <2>5. b[c[i]] = [next |-> y, len |-> v, tot_len |-> w, ref |-> 1, room |-> z]
    BY <1>10
  <2>6. y \in Pbufs \cup {None} /\ v \in Nat /\ w \in Nat /\ z \in Nat
    BY <2>2, <2>3, <2>4
  <2> HIDE DEF y, v, w, z
  <2>7. /\ b[c[i]].next = y /\ b[c[i]].len = v /\ b[c[i]].tot_len = w /\ b[c[i]].ref = 1
        /\ b[c[i]] \in Recs
    BY <2>5, <2>6 DEF Recs
  <2> QED BY <2>7 DEF y, v, w
<1>14. b \in [Pbufs -> Recs]
  <2>1. ASSUME NEW q \in Pbufs PROVE b[q] \in Recs
    BY <1>7, <1>11, <1>13
  <2> QED BY <1>12, <2>1
<1>15. /\ g \in [Pbufs -> Nat] /\ g[c[1]] = 1 /\ \A q \in Pbufs : q # c[1] => g[q] = held[q]
  BY <1>3, <1>7, <1>8
<1> HIDE DEF g
<1>16. Typed(b, B, g)
  <2>1. ASSUME NEW q \in Pbufs \ B PROVE b[q] = Blank /\ g[q] = 0
    <3>1. q \notin new /\ q \in Pbufs \ alive /\ q # c[1]
      BY <1>3
    <3>2. pb[q] = Blank /\ held[q] = 0
      BY <1>6, <3>1 DEF Sane, Typed
    <3> QED BY <1>11, <1>15, <3>1, <3>2
  <2> QED BY <1>9, <1>14, <1>15, <2>1 DEF Typed
<1>17. ASSUME NEW q \in Pbufs, q \notin new
       PROVE  b[q].next \in alive \cup {None} /\ b[q].next \notin new
  <2>1. b[q].next \in alive \cup {None}
    BY <1>6, <1>11, <1>17 DEF Sane, Linked
  <2> QED BY <1>7, <1>9, <2>1
<1>18. ASSUME NEW i \in 1..n, i < n PROVE i + 1 \in 1..n /\ b[c[i]].next = c[i + 1]
  BY <1>3, <1>13, <1>18
<1>19. b[c[n]].next = None
  BY <1>3, <1>13
<1>20. \A i \in 1..n : i = n \/ i < n
  BY <1>3
<1>21. Linked(b, B)
  <2>1. ASSUME NEW q \in Pbufs PROVE b[q].next \in B \cup {None}
    <3>1. CASE q \in new
      <4>1. PICK i \in 1..n : q = c[i]
        BY <3>1
      <4> QED BY <1>18, <1>19, <1>20, <4>1
    <3>2. CASE q \notin new
      BY <1>17, <3>2
    <3> QED BY <3>1, <3>2
  <2> QED BY <2>1 DEF Linked
<1>22. Lone(b)
  <2>1. ASSUME NEW p \in Pbufs, NEW q \in Pbufs, b[p].next # None, b[p].next = b[q].next
        PROVE  p = q
    <3>1. CASE p \in new /\ q \in new
      <4>1. PICK i \in 1..n, j \in 1..n : p = c[i] /\ q = c[j]
        BY <3>1
      <4>2. i < n /\ j < n
        BY <1>19, <1>20, <2>1, <4>1
      <4>3. c[i + 1] = c[j + 1] /\ i + 1 \in 1..n /\ j + 1 \in 1..n
        BY <1>18, <2>1, <4>1, <4>2
      <4>4. i + 1 = j + 1
        BY <1>4, <4>3
      <4>5. i = j
        BY <1>3, <4>4
      <4> QED BY <4>1, <4>5
    <3>2. CASE p \notin new /\ q \notin new
      BY <1>6, <1>11, <2>1, <3>2 DEF Sane, Lone
    <3>3. ASSUME NEW u \in Pbufs, NEW v \in Pbufs, u \in new, v \notin new, b[u].next # None
          PROVE  b[u].next # b[v].next
      <4>1. PICK i \in 1..n : u = c[i]
        BY <3>3
      <4>2. b[u].next \in new
        BY <1>18, <1>19, <1>20, <3>3, <4>1
      <4> QED BY <1>17, <3>3, <4>2
    <3> QED BY <2>1, <3>1, <3>2, <3>3
  <2> QED BY <2>1 DEF Lone
<1>23. Acyclic(b)
  <2>1. PICK r : Ranked(pb, r)
    BY <1>6 DEF Sane, Acyclic
  <2> DEFINE at(q) == CHOOSE k \in 1..n : c[k] = q
             u == [q \in Pbufs |-> IF q \in new THEN n - at(q) ELSE r[q]]
  <2>2. \A i \in 1..n : at(c[i]) = i
    <3>1. ASSUME NEW i \in 1..n PROVE at(c[i]) = i
      <4>1. \E k \in 1..n : c[k] = c[i]
        OBVIOUS
      <4>2. at(c[i]) \in 1..n /\ c[at(c[i])] = c[i]
        BY <4>1
      <4> QED BY <1>4, <4>2
    <3> QED BY <3>1
  <2> HIDE DEF at
  <2>3. \A i \in 1..n : u[c[i]] = n - i /\ n - i \in Nat
    BY <1>3, <1>8, <2>2
  <2>4. \A q \in Pbufs : q \notin new => u[q] = r[q] /\ r[q] \in Nat
    BY <2>1 DEF Ranked
  <2>5. u = [q \in Pbufs |-> u[q]]
    OBVIOUS
  <2> HIDE DEF u
  <2>6. u \in [Pbufs -> Nat]
    <3>1. ASSUME NEW q \in Pbufs PROVE u[q] \in Nat
      <4>1. CASE q \in new
        BY <2>3, <4>1
      <4>2. CASE q \notin new
        BY <2>4, <4>2
      <4> QED BY <4>1, <4>2
    <3> QED BY <2>5, <3>1
  <2>7. ASSUME NEW q \in Pbufs, b[q].next # None PROVE u[b[q].next] < u[q]
    <3>1. CASE q \in new
      <4>1. PICK i \in 1..n : q = c[i]
        BY <3>1
      <4>2. i < n /\ i + 1 \in 1..n /\ b[q].next = c[i + 1]
        BY <1>18, <1>19, <1>20, <2>7, <4>1
      <4>3. u[b[q].next] = n - (i + 1) /\ u[q] = n - i
        BY <2>3, <4>1, <4>2
      <4> QED BY <1>3, <4>1, <4>3
    <3>2. CASE q \notin new
      <4>1. b[q].next = pb[q].next /\ pb[q].next \in Pbufs /\ pb[q].next \notin new
        BY <1>7, <1>11, <1>17, <2>7, <3>2
      <4>2. r[pb[q].next] < r[q]
        BY <2>1, <2>7, <4>1 DEF Ranked
      <4> QED BY <2>4, <3>2, <4>1, <4>2
    <3> QED BY <3>1, <3>2
  <2>8. Ranked(b, u)
    BY <2>6, <2>7 DEF Ranked
  <2> QED BY <2>8 DEF Acyclic
<1>24. Lens(b)
  <2>1. ASSUME NEW q \in Pbufs PROVE b[q].tot_len = b[q].len + Rest(b, q)
    <3>1. CASE q \in new
      <4>1. PICK i \in 1..n : q = c[i]
        BY <3>1
      <4>2. i \in 0..n /\ i - 1 \in 0..n
        BY <1>3
      <4>3. end[i] \in Nat /\ end[i - 1] \in Nat
            /\ b[q].len = end[i] - end[i - 1] /\ b[q].tot_len = length - end[i - 1]
        BY <1>2, <1>5, <1>13, <4>1, <4>2
      <4>4. CASE i = n
        <5>1. Rest(b, q) = 0
          BY <1>19, <4>1, <4>4 DEF Rest
        <5> QED BY <1>2, <1>5, <4>3, <4>4, <5>1
      <4>5. CASE i < n
        <5> DEFINE j == i + 1
        <5>1. j \in 1..n /\ j - 1 = i /\ b[q].next = c[j]
          BY <1>18, <4>1, <4>5
        <5> HIDE DEF j
        <5>2. b[c[j]].tot_len = length - end[i] /\ c[j] # None
          BY <1>7, <1>8, <1>13, <5>1
        <5>3. Rest(b, q) = length - end[i]
          BY <5>1, <5>2 DEF Rest
        <5> QED BY <1>2, <4>3, <5>3
      <4> QED BY <1>20, <4>4, <4>5
    <3>2. CASE q \notin new
      <4>1. b[q] = pb[q] /\ pb[q].tot_len = pb[q].len + Rest(pb, q)
        BY <1>6, <1>11, <3>2 DEF Sane, Lens
      <4>2. Rest(b, q) = Rest(pb, q)
        <5>1. CASE b[q].next = None
          BY <4>1, <5>1 DEF Rest
        <5>2. CASE b[q].next # None
          <6>1. pb[q].next \in Pbufs /\ pb[q].next \notin new
            BY <1>7, <1>17, <3>2, <4>1, <5>2
          <6> QED BY <1>11, <4>1, <6>1 DEF Rest
        <5> QED BY <5>1, <5>2
      <4> QED BY <4>1, <4>2
    <3> QED BY <3>1, <3>2
  <2> QED BY <2>1 DEF Lens
<1>25. Sane(b, B, g)
  BY <1>16, <1>21, <1>22, <1>23, <1>24 DEF Sane
<1>26. ASSUME NEW q \in B PROVE b[q].ref > 0 /\ b[q].ref = g[q] + Num(b, q)
  <2>1. CASE q \in new
    <3>1. PICK i \in 1..n : q = c[i]
      BY <2>1
    <3>2. b[q].ref = 1
      BY <1>13, <3>1
    <3>3. CASE i = 1
      <4>1. ASSUME NEW u \in Pbufs, b[u].next = q PROVE FALSE
        <5>1. u \in new
          BY <1>17, <2>1, <4>1
        <5>2. PICK j \in 1..n : u = c[j]
          BY <5>1
        <5>3. j < n
          BY <1>7, <1>8, <1>19, <1>20, <3>1, <4>1, <5>2
        <5>4. j + 1 \in 1..n /\ c[j + 1] = c[1]
          BY <1>18, <3>1, <3>3, <4>1, <5>2, <5>3
        <5>5. j + 1 = 1
          BY <1>3, <1>4, <5>4
        <5> QED BY <1>3, <5>5
      <4>2. Num(b, q) = 0
        BY <4>1 DEF Num
      <4> QED BY <1>15, <3>1, <3>2, <3>3, <4>2
    <3>4. CASE i # 1
      <4>1. i - 1 \in 1..n /\ i - 1 < n /\ (i - 1) + 1 = i
        BY <1>3, <3>4
      <4>2. b[c[i - 1]].next = c[i] /\ c[i - 1] \in Pbufs
        BY <1>8, <1>18, <4>1
      <4>3. Num(b, q) = 1
        BY <3>1, <4>2 DEF Num
      <4>4. q # c[1] /\ q \in Pbufs \ alive
        BY <1>3, <1>4, <1>8, <3>1, <3>4
      <4>5. g[q] = 0
        BY <1>6, <1>15, <4>4 DEF Sane, Typed
      <4> QED BY <3>2, <4>3, <4>5
    <3> QED BY <3>3, <3>4
  <2>2. CASE q \notin new
    <3>1. q \in alive /\ q \in Pbufs /\ q # c[1] /\ b[q] = pb[q] /\ g[q] = held[q]
      BY <1>3, <1>7, <1>11, <1>15, <2>2
    <3>2. pb[q].ref > 0 /\ pb[q].ref = held[q] + Num(pb, q)
      BY <1>6, <3>1, CountsAre
    <3>3. \A u \in Pbufs : b[u].next = q <=> pb[u].next = q
      <4>1. ASSUME NEW u \in Pbufs PROVE b[u].next = q <=> pb[u].next = q
        <5>1. CASE u \in new
          <6>1. PICK i \in 1..n : u = c[i]
            BY <5>1
          <6>2. b[u].next \in new \cup {None}
            BY <1>18, <1>19, <1>20, <6>1
          <6>3. u \in Pbufs \ alive
            BY <1>8, <6>1
          <6>4. pb[u].next = None
            BY <1>6, <6>3 DEF Sane, Typed, Blank
          <6> QED BY <1>7, <2>2, <3>1, <6>2, <6>4
        <5>2. CASE u \notin new
          BY <1>11, <5>2
        <5> QED BY <5>1, <5>2
      <4> QED BY <4>1
    <3>4. Num(b, q) = Num(pb, q)
      BY <3>3 DEF Num
    <3> QED BY <3>1, <3>2, <3>4
  <2> QED BY <2>1, <2>2
<1>27. Counts(b, B, g, None)
  <2> HIDE DEF B
  <2> QED BY <1>25, <1>26, CountsAre
<1> HIDE DEF B
<1> QED BY <1>1, <1>25, <1>27 DEF PbufInv, Good

-----------------------------------------------------------------------------
(* The bytes of a packet, and copies of them.                              *)

Cells == Pbufs \X Nat

LEMMA BytesAre ==
  ASSUME NEW q \in Pbufs, NEW u \in Nat, NEW v \in Nat, u <= v
  PROVE  /\ Bytes(q, u, v) \in Seq(Cells) /\ Len(Bytes(q, u, v)) = v - u
         /\ \A j \in 1..(v - u) : Bytes(q, u, v)[j] = <<q, u + j>>
<1> DEFINE n == v - u
           s == [j \in 1..n |-> <<q, u + j>>]
<1>1. n \in Nat
  OBVIOUS
<1>2. Bytes(q, u, v) = s
  BY DEF Bytes
<1> HIDE DEF n
<1>3. s \in [1..n -> Cells]
  BY <1>1 DEF Cells
<1>4. s \in Seq(Cells)
  BY <1>1, <1>3, SeqDef
<1>5. Len(s) = n
  BY <1>1, <1>3, <1>4, LenProperties
<1> QED BY <1>2, <1>4, <1>5 DEF n

\* f[i] is what the first i pbufs hold.
Filled(b, c, f) ==
  /\ f \in [0..Len(c) -> Seq(Cells)] /\ f[0] = <<>>
  /\ \A i \in 1..Len(c) : f[i] = f[i - 1] \o Bytes(c[i], 0, b[c[i]].len)

LEMMA FlatRuns ==
  ASSUME NEW b \in [Pbufs -> Recs], NEW p, ChainOf(b, p) \in Seq(Pbufs)
  PROVE  \E f : Filled(b, ChainOf(b, p), f) /\ Flat(b, p) = f[Len(ChainOf(b, p))]
<1> DEFINE c == ChainOf(b, p)
           l == Len(c)
           more(i) == Bytes(c[i], 0, b[c[i]].len)
           Sol(f) == f = [i \in 0..l |-> IF i = 0 THEN <<>> ELSE f[i - 1] \o more(i)]
           V == Seq(Cells)
           add == [k \in Nat |-> IF k \in 1..l THEN more(k) ELSE <<>>]
           g == [t \in V \X Nat |-> t[1] \o add[t[2]]]
<1>c. c \in Seq(Pbufs)
  OBVIOUS
<1>0. Flat(b, p) = LET cat == CHOOSE f : Sol(f) IN cat[l]
  BY DEF Flat
<1> HIDE DEF c
<1>1. l \in Nat /\ \A k \in 1..l : c[k] \in Pbufs /\ b[c[k]].len \in Nat
  BY <1>c DEF Recs
<1>m. ASSUME NEW k \in 1..l PROVE more(k) \in V
  <2> DEFINE y == b[c[k]].len
             q == c[k]
  <2>1. q \in Pbufs /\ y \in Nat /\ 0 \in Nat /\ 0 <= y
    BY <1>1
  <2> HIDE DEF y, q
  <2>2. Bytes(q, 0, y) \in Seq(Cells)
    BY <2>1, BytesAre, Zenon
  <2> QED BY <2>2 DEF y, q
<1> HIDE DEF more
<1>2. add \in [Nat -> V] /\ \A k \in 1..l : add[k] = more(k)
  BY <1>1, <1>m
<1>3. g \in [V \X Nat -> V]
  <2> HIDE DEF add
  <2>1. ASSUME NEW t \in V \X Nat PROVE t[1] \o add[t[2]] \in V
    <3>1. t[1] \in V /\ t[2] \in Nat
      OBVIOUS
    <3>2. add[t[2]] \in V
      BY <1>2, <3>1
    <3> QED BY <3>1, <3>2
  <2> QED BY <2>1
<1>v. <<>> \in V
  OBVIOUS
<1>4. \E f : Sol(f)
  <2> HIDE DEF g, l, V
  <2>0. StepFunction(V, g, <<>>, l)
    BY <1>1, <1>3, <1>v DEF StepFunction
  <2>a. PICK f : IsRecursion(f, V, g, <<>>, l)
    BY <2>0, RecursionExists
  <2>1. /\ f \in [0..l -> V] /\ f[0] = <<>>
        /\ \A i \in 1..l : f[i] = g[<<f[i - 1], i>>]
    BY <2>a DEF IsRecursion
  <2>2. ASSUME NEW i \in 1..l PROVE f[i] = f[i - 1] \o more(i)
    <3>1. i - 1 \in 0..l /\ i \in Nat
      BY <1>1
    <3>2. f[i - 1] \in V
      BY <2>1, <3>1
    <3>3. g[<<f[i - 1], i>>] = f[i - 1] \o add[i]
      <4> HIDE DEF add
      <4> QED BY <3>1, <3>2 DEF g
    <3> QED BY <1>2, <2>1, <3>3
  <2>3. \A i \in 0..l : i # 0 => i \in 1..l
    BY <1>1
  <2>4. Sol(f)
    BY <2>1, <2>2, <2>3
  <2> QED BY <2>4
<1> DEFINE run == CHOOSE f : Sol(f)
<1>5. Sol(run)
  <2> HIDE DEF Sol
  <2> QED BY <1>4
<1>6. Flat(b, p) = run[l]
  BY <1>0
<1> HIDE DEF run, l
<1>7. run[0] = <<>>
  BY <1>1, <1>5
<1>8. ASSUME NEW i \in 1..l PROVE run[i] = run[i - 1] \o more(i)
  <2>1. i \in 0..l /\ i # 0
    BY <1>1
  <2> QED BY <1>5, <2>1
<1>9. ASSUME NEW i \in 0..l PROVE run[i] \in V
  <2> DEFINE T == {j \in 0..l : run[j] \in V}
  <2>1. 0 \in T
    <3> HIDE DEF V
    <3> QED BY <1>1, <1>7, <1>v
  <2>2. ASSUME NEW j \in 0..l, j \in T, j < l PROVE j + 1 \in T
    <3>1. j + 1 \in 1..l /\ (j + 1) - 1 = j /\ j + 1 \in 0..l
      BY <1>1, <2>2
    <3>2. run[j + 1] = run[j] \o more(j + 1)
      BY <1>8, <3>1
    <3>3. run[j] \in V /\ more(j + 1) \in V
      BY <1>m, <2>2, <3>1
    <3>4. run[j + 1] \in V
      BY <3>2, <3>3
    <3> QED BY <3>1, <3>4
  <2> HIDE DEF T
  <2>3. \A j \in 0..l : j \in T
    BY <1>1, <2>1, <2>2, BoundedInduction
  <2> QED BY <2>3 DEF T
<1>10. run \in [0..l -> V]
  <2>1. DOMAIN run = 0..l /\ run = [i \in 0..l |-> run[i]]
    BY <1>5
  <2> QED BY <1>9, <2>1
<1>11. Filled(b, c, run)
  BY <1>7, <1>8, <1>10 DEF Filled, l, more
<1> QED BY <1>6, <1>11 DEF c, l

\* What the first i pbufs hold: how many bytes, and what the i-th adds.
Laid(b, c, f, s) ==
  /\ \A i \in 0..Len(c) : Len(f[i]) = s[i] /\ f[i] \in Seq(Cells) /\ s[i] \in Nat
  /\ \A i \in 1..Len(c) :
       /\ \A j \in 1..s[i - 1] : f[i][j] = f[i - 1][j]
       /\ \A j \in 1..b[c[i]].len : f[i][s[i - 1] + j] = <<c[i], j>>

LEMMA FilledIs ==
  ASSUME NEW b \in [Pbufs -> Recs], NEW c \in Seq(Pbufs), NEW f, Filled(b, c, f),
         NEW s, Sums(b, c, s)
  PROVE  Laid(b, c, f, s)
<1> DEFINE l == Len(c)
<1>1. l \in Nat /\ \A k \in 1..l : c[k] \in Pbufs /\ b[c[k]].len \in Nat
  BY DEF Recs
<1>2. /\ \A i \in 0..l : s[i] \in Nat /\ f[i] \in Seq(Cells)
      /\ s[0] = 0 /\ f[0] = <<>>
      /\ \A i \in 1..l : s[i] = s[i - 1] + b[c[i]].len
      /\ \A i \in 1..l : f[i] = f[i - 1] \o Bytes(c[i], 0, b[c[i]].len)
  BY DEF Filled, Sums
<1> HIDE DEF l
<1>3. ASSUME NEW i \in 1..l, Len(f[i - 1]) = s[i - 1]
      PROVE  /\ Len(f[i]) = s[i]
             /\ \A j \in 1..s[i - 1] : f[i][j] = f[i - 1][j]
             /\ \A j \in 1..b[c[i]].len : f[i][s[i - 1] + j] = <<c[i], j>>
  <2> DEFINE y == b[c[i]].len
             e == Bytes(c[i], 0, y)
             z == f[i - 1]
             v == s[i - 1]
  <2>1. i - 1 \in 0..l /\ y \in Nat /\ c[i] \in Pbufs
    BY <1>1
  <2>2. z \in Seq(Cells) /\ v \in Nat /\ Len(z) = v
    BY <1>2, <1>3, <2>1
  <2>3. f[i] = z \o e /\ s[i] = v + y
    BY <1>2
  <2> HIDE DEF y
  <2>4. e \in Seq(Cells) /\ Len(e) = y /\ \A j \in 1..y : e[j] = <<c[i], j>>
    <3>0. 0 \in Nat /\ 0 <= y
      BY <2>1
    <3>1. /\ e \in Seq(Cells) /\ Len(e) = y - 0
          /\ \A j \in 1..(y - 0) : e[j] = <<c[i], 0 + j>>
      BY <2>1, <3>0, BytesAre, Zenon
    <3>2. y - 0 = y /\ \A j \in 1..y : 0 + j = j
      BY <2>1
    <3> HIDE DEF e
    <3> QED BY <3>1, <3>2
  <2> HIDE DEF e, z, v
  <2>5. /\ Len(z \o e) = v + y
        /\ \A j \in 1..(v + y) : (z \o e)[j] = IF j <= v THEN z[j] ELSE e[j - v]
    BY <2>2, <2>4, ConcatProperties
  <2>6. ASSUME NEW j \in 1..v PROVE f[i][j] = z[j]
    <3>1. j \in 1..(v + y) /\ j <= v
      BY <2>1, <2>2
    <3> QED BY <2>3, <2>5, <3>1
  <2>7. ASSUME NEW j \in 1..y PROVE f[i][v + j] = <<c[i], j>>
    <3>1. v + j \in 1..(v + y) /\ ~(v + j <= v) /\ (v + j) - v = j
      BY <2>1, <2>2
    <3>2. f[i][v + j] = e[(v + j) - v]
      BY <2>3, <2>5, <3>1
    <3> QED BY <2>4, <3>1, <3>2
  <2> QED BY <2>3, <2>5, <2>6, <2>7 DEF y, z, v
<1> DEFINE T == {j \in 0..l : Len(f[j]) = s[j]}
<1>4. 0 \in T
  BY <1>1, <1>2
<1>5. ASSUME NEW j \in 0..l, j \in T, j < l PROVE j + 1 \in T
  <2> DEFINE i == j + 1
  <2>1. i \in 1..l /\ i - 1 = j /\ i \in 0..l
    BY <1>1, <1>5
  <2>2. Len(f[j]) = s[j]
    BY <1>5
  <2> HIDE DEF i
  <2>3. Len(f[i]) = s[i]
    BY <1>3, <2>1, <2>2
  <2> QED BY <2>1, <2>3 DEF i
<1>6. \A j \in 0..l : Len(f[j]) = s[j]
  <2> HIDE DEF T
  <2>1. \A j \in 0..l : j \in T
    BY <1>1, <1>4, <1>5, BoundedInduction
  <2> QED BY <2>1 DEF T
<1>7. \A i \in 1..l : i - 1 \in 0..l
  BY <1>1
<1>8. ASSUME NEW i \in 1..l
      PROVE  /\ \A j \in 1..s[i - 1] : f[i][j] = f[i - 1][j]
             /\ \A j \in 1..b[c[i]].len : f[i][s[i - 1] + j] = <<c[i], j>>
  <2>1. Len(f[i - 1]) = s[i - 1]
    BY <1>6, <1>7
  <2> QED BY <1>3, <2>1
<1> QED BY <1>2, <1>6, <1>8 DEF l, Laid

\* One turn of the loop of pbuf_copy_partial().
OneCopy(b, c, len, i, r) ==
  LET l == b[c[i]].len
  IN  IF Len(r.got) = len THEN r
      ELSE IF r.off # 0 /\ r.off >= l THEN [r EXCEPT !.off = @ - l]
      ELSE [got |-> r.got \o Bytes(c[i], r.off, r.off + Least(l - r.off, len - Len(r.got))),
            off |-> 0]

Copies(len) == {r \in [got : Seq(Cells), off : Nat] : Len(r.got) <= len}

\* What it does with k bytes copied, z to skip, at a pbuf q of length l.
Turned(len, r, o, q, l, k, z) ==
  /\ o \in Copies(len) /\ k \in Nat /\ l \in Nat /\ z \in Nat /\ k <= len
  /\ k = len => o = r
  /\ k # len /\ z # 0 /\ z >= l => o.got = r.got /\ o.off = z - l
  /\ k # len /\ ~(z # 0 /\ z >= l) =>
       LET y == Least(l - z, len - k)
       IN  /\ y \in Nat /\ o.off = 0 /\ Len(o.got) = k + y
           /\ \A j \in 1..k : o.got[j] = r.got[j]
           /\ \A j \in 1..y : o.got[k + j] = <<q, z + j>>

LEMMA OneCopyIs ==
  ASSUME NEW b \in [Pbufs -> Recs], NEW c, NEW i, c[i] \in Pbufs, NEW len \in Nat,
         NEW r \in Copies(len)
  PROVE  Turned(len, r, OneCopy(b, c, len, i, r), c[i], b[c[i]].len, Len(r.got), r.off)
<1> DEFINE l == b[c[i]].len
           k == Len(r.got)
           o == OneCopy(b, c, len, i, r)
<1> USE DEF Turned
<1>1. r \in [got : Seq(Cells), off : Nat] /\ Len(r.got) <= len
  BY DEF Copies
<1>2. r.got \in Seq(Cells) /\ r.off \in Nat /\ k \in Nat /\ k <= len /\ l \in Nat
  BY <1>1 DEF Recs
<1>3. CASE k = len
  <2>1. o = r
    BY <1>3 DEF OneCopy
  <2> QED BY <1>2, <1>3, <2>1
<1>4. CASE k # len /\ r.off # 0 /\ r.off >= l
  <2>1. o = [r EXCEPT !.off = r.off - l]
    BY <1>4 DEF OneCopy
  <2>2. r.off - l \in Nat
    BY <1>2, <1>4
  <2>3. o.got = r.got /\ o.off = r.off - l /\ o \in [got : Seq(Cells), off : Nat]
    BY <1>1, <1>2, <2>1, <2>2
  <2>4. o \in Copies(len)
    BY <1>2, <2>3 DEF Copies
  <2> QED BY <1>2, <1>4, <2>3, <2>4
<1>5. CASE k # len /\ ~(r.off # 0 /\ r.off >= l)
  <2> DEFINE y == Least(l - r.off, len - k)
             u == r.off
             v == u + y
             q == c[i]
             e == Bytes(q, u, v)
  <2>1. y \in Nat /\ y <= len - k
    BY <1>2, <1>5 DEF Least
  <2>2. o = [got |-> r.got \o e, off |-> 0]
    BY <1>5 DEF OneCopy
  <2> HIDE DEF y
  <2>3. u \in Nat /\ v \in Nat /\ u <= v /\ v - u = y /\ q \in Pbufs
    BY <1>2, <2>1
  <2> HIDE DEF u, v, q
  <2>4. e \in Seq(Cells) /\ Len(e) = y /\ \A j \in 1..y : e[j] = <<q, u + j>>
    <3>1. e \in Seq(Cells) /\ Len(e) = v - u /\ \A j \in 1..(v - u) : e[j] = <<q, u + j>>
      BY <2>3, BytesAre, Zenon
    <3> HIDE DEF e
    <3> QED BY <2>3, <3>1
  <2> HIDE DEF e
  <2>5. /\ r.got \o e \in Seq(Cells) /\ Len(r.got \o e) = k + y
        /\ \A j \in 1..(k + y) : (r.got \o e)[j] = IF j <= k THEN r.got[j] ELSE e[j - k]
    <3> DEFINE g == r.got
    <3>1. g \in Seq(Cells) /\ Len(g) = k
      BY <1>2
    <3>2. k + y = Len(g) + Len(e)
      BY <2>4, <3>1
    <3> HIDE DEF g, k
    <3>3. /\ g \o e \in Seq(Cells) /\ Len(g \o e) = Len(g) + Len(e)
          /\ \A j \in 1..(Len(g) + Len(e)) :
               (g \o e)[j] = IF j <= Len(g) THEN g[j] ELSE e[j - Len(g)]
      BY <2>4, <3>1, ConcatProperties
    <3>4. /\ g \o e \in Seq(Cells) /\ Len(g \o e) = k + y
          /\ \A j \in 1..(k + y) : (g \o e)[j] = IF j <= k THEN g[j] ELSE e[j - k]
      BY <3>1, <3>2, <3>3
    <3> QED BY <3>4 DEF g
  <2>6. o.got = r.got \o e /\ o.off = 0 /\ o \in [got : Seq(Cells), off : Nat]
    BY <2>2, <2>5
  <2>7. Len(o.got) = k + y /\ Len(o.got) <= len
    BY <1>2, <2>1, <2>5, <2>6
  <2>8. o \in Copies(len)
    BY <2>6, <2>7 DEF Copies
  <2>9. ASSUME NEW j \in 1..k PROVE o.got[j] = r.got[j]
    <3>1. j \in 1..(k + y) /\ j <= k
      BY <1>2, <2>1
    <3> QED BY <2>5, <2>6, <3>1
  <2>10. ASSUME NEW j \in 1..y PROVE o.got[k + j] = <<q, u + j>>
    <3>1. k + j \in 1..(k + y) /\ ~(k + j <= k) /\ (k + j) - k = j
      BY <1>2, <2>1
    <3>2. o.got[k + j] = e[(k + j) - k]
      BY <2>5, <2>6, <3>1
    <3> QED BY <2>4, <3>1, <3>2
  <2> QED BY <1>2, <1>5, <2>1, <2>6, <2>7, <2>8, <2>9, <2>10 DEF y, u, q
<1> QED BY <1>3, <1>4, <1>5

Copied(b, c, len, offset, f) ==
  /\ f \in [0..Len(c) -> Copies(len)] /\ f[0] = [got |-> <<>>, off |-> offset]
  /\ \A i \in 1..Len(c) : f[i] = OneCopy(b, c, len, i, f[i - 1])

LEMMA CopyRuns ==
  ASSUME NEW b \in [Pbufs -> Recs], NEW p, ChainOf(b, p) \in Seq(Pbufs),
         NEW len \in Nat, NEW offset \in Nat
  PROVE  \E f : /\ Copied(b, ChainOf(b, p), len, offset, f)
                /\ pbuf_copy_partial(b, p, len, offset) = f[Len(ChainOf(b, p))].got
<1> DEFINE c == ChainOf(b, p)
           l == Len(c)
           first == [got |-> <<>>, off |-> offset]
           turn(i, r) == OneCopy(b, c, len, i, r)
           Sol(f) == f = [i \in 0..l |-> IF i = 0 THEN first ELSE turn(i, f[i - 1])]
           V == Copies(len)
           g == [t \in V \X Nat |-> IF t[2] \in 1..l THEN turn(t[2], t[1]) ELSE t[1]]
<1>c. c \in Seq(Pbufs)
  OBVIOUS
<1>0. pbuf_copy_partial(b, p, len, offset) = LET run == CHOOSE f : Sol(f) IN run[l].got
  BY DEF pbuf_copy_partial, OneCopy
<1> HIDE DEF c
<1>1. l \in Nat /\ \A k \in 1..l : c[k] \in Pbufs
  BY <1>c
<1> HIDE DEF l
<1>t. ASSUME NEW i \in 1..l, NEW r \in V PROVE turn(i, r) \in V
  <2>1. c[i] \in Pbufs
    BY <1>1
  <2>2. Turned(len, r, turn(i, r), c[i], b[c[i]].len, Len(r.got), r.off)
    BY <2>1, OneCopyIs
  <2> QED BY <2>2 DEF Turned
<1>v. first \in V
  BY DEF Copies
<1> HIDE DEF turn, V, first
<1>3. g \in [V \X Nat -> V]
  <2>1. ASSUME NEW t \in V \X Nat
        PROVE  (IF t[2] \in 1..l THEN turn(t[2], t[1]) ELSE t[1]) \in V
    <3>1. t[1] \in V /\ t[2] \in Nat
      OBVIOUS
    <3> QED BY <1>t, <3>1
  <2> QED BY <2>1
<1>4. \E f : Sol(f)
  <2> HIDE DEF g
  <2>0. StepFunction(V, g, first, l)
    BY <1>1, <1>3, <1>v DEF StepFunction
  <2>a. PICK f : IsRecursion(f, V, g, first, l)
    BY <2>0, RecursionExists
  <2>1. /\ f \in [0..l -> V] /\ f[0] = first
        /\ \A i \in 1..l : f[i] = g[<<f[i - 1], i>>]
    BY <2>a DEF IsRecursion
  <2>2. ASSUME NEW i \in 1..l PROVE f[i] = turn(i, f[i - 1])
    <3>1. i - 1 \in 0..l /\ i \in Nat
      BY <1>1
    <3>2. f[i - 1] \in V
      BY <2>1, <3>1
    <3>3. g[<<f[i - 1], i>>] = turn(i, f[i - 1])
      BY <3>1, <3>2 DEF g
    <3> QED BY <2>1, <3>3
  <2>3. \A i \in 0..l : i # 0 => i \in 1..l
    BY <1>1
  <2>4. Sol(f)
    BY <2>1, <2>2, <2>3
  <2> QED BY <2>4
<1> DEFINE run == CHOOSE f : Sol(f)
<1>5. Sol(run)
  <2> HIDE DEF Sol
  <2> QED BY <1>4
<1>6. pbuf_copy_partial(b, p, len, offset) = run[l].got
  BY <1>0
<1> HIDE DEF run
<1>7. run[0] = first
  BY <1>1, <1>5
<1>8. ASSUME NEW i \in 1..l PROVE run[i] = turn(i, run[i - 1])
  <2>1. i \in 0..l /\ i # 0
    BY <1>1
  <2> QED BY <1>5, <2>1
<1>9. ASSUME NEW i \in 0..l PROVE run[i] \in V
  <2> DEFINE T == {j \in 0..l : run[j] \in V}
  <2>1. 0 \in T
    BY <1>1, <1>7, <1>v
  <2>2. ASSUME NEW j \in 0..l, j \in T, j < l PROVE j + 1 \in T
    <3>1. j + 1 \in 1..l /\ (j + 1) - 1 = j /\ j + 1 \in 0..l
      BY <1>1, <2>2
    <3>2. run[j + 1] = turn(j + 1, run[j])
      BY <1>8, <3>1
    <3>3. run[j] \in V
      BY <2>2
    <3>4. run[j + 1] \in V
      BY <1>t, <3>1, <3>2, <3>3
    <3> QED BY <3>1, <3>4
  <2> HIDE DEF T
  <2>3. \A j \in 0..l : j \in T
    BY <1>1, <2>1, <2>2, BoundedInduction
  <2> QED BY <2>3 DEF T
<1>10. run \in [0..l -> V]
  <2>1. DOMAIN run = 0..l /\ run = [i \in 0..l |-> run[i]]
    BY <1>5
  <2> QED BY <1>9, <2>1
<1>11. Copied(b, c, len, offset, run)
  BY <1>7, <1>8, <1>10 DEF Copied, l, turn, first, V
<1> QED BY <1>6, <1>11 DEF c, l

\* Where the copy is after v bytes of the packet: t bytes are copied.
Reached(r, o, len, v, e) ==
  /\ r.off = IF o > v THEN o - v ELSE 0
  /\ Len(r.got) = IF v <= o THEN 0 ELSE Least(o + len, v) - o
  /\ \A j \in 1..Len(r.got) : r.got[j] = e[o + j]

\* A turn goes on where the last one stopped.
LEMMA CopyTurn ==
  ASSUME NEW b \in [Pbufs -> Recs], NEW c, NEW i, c[i] \in Pbufs, NEW len \in Nat \ {0},
         NEW o \in Nat, NEW r \in Copies(len), NEW v \in Nat, NEW e, Reached(r, o, len, v, e),
         NEW d, \A j \in 1..v : d[j] = e[j],
         \A j \in 1..b[c[i]].len : d[v + j] = <<c[i], j>>
  PROVE  Reached(OneCopy(b, c, len, i, r), o, len, v + b[c[i]].len, d)
<1> DEFINE k == Len(r.got)
           l == b[c[i]].len
           w == v + l
           n == OneCopy(b, c, len, i, r)
<1> DEFINE z == r.off
<1>0. Turned(len, r, n, c[i], l, k, z)
  BY OneCopyIs
<1>2. /\ z = IF o > v THEN o - v ELSE 0
      /\ k = IF v <= o THEN 0 ELSE Least(o + len, v) - o
      /\ \A j \in 1..k : r.got[j] = e[o + j]
  BY DEF Reached
<1>d. \A j \in 1..l : d[v + j] = <<c[i], j>>
  OBVIOUS
<1> SUFFICES Reached(n, o, len, w, d)
  OBVIOUS
<1> HIDE DEF k, z, l, n
<1>1. k \in Nat /\ l \in Nat /\ z \in Nat /\ k <= len /\ len \in Nat \ {0}
  BY <1>0 DEF Turned
<1>a. z = IF o > v THEN o - v ELSE 0
  BY <1>2
<1>b. k = IF v <= o THEN 0 ELSE Least(o + len, v) - o
  BY <1>2
<1>w. w = v + l /\ w \in Nat
  BY <1>1
<1> HIDE DEF w
<1>3. \A j \in 1..k : o + j \in 1..v /\ d[o + j] = r.got[j]
  <2>1. ASSUME NEW j \in 1..k PROVE o + j \in 1..v /\ d[o + j] = r.got[j]
    <3>1. o + j \in 1..v
      BY <1>1, <1>b DEF Least
    <3> QED BY <1>2, <3>1
  <2> QED BY <2>1
<1>4. CASE k = len
  <2>1. n = r
    BY <1>0, <1>4 DEF Turned
  <2>2. v >= o + len /\ v > o
    BY <1>1, <1>4, <1>b DEF Least
  <2>3. z = IF o > w THEN o - w ELSE 0
    BY <1>1, <1>a, <1>w, <2>2
  <2>4. k = IF w <= o THEN 0 ELSE Least(o + len, w) - o
    BY <1>1, <1>4, <1>w, <2>2 DEF Least
  <2> QED BY <1>3, <2>1, <2>3, <2>4 DEF Reached, k, z
<1>5. CASE k # len /\ z # 0 /\ z >= l
  <2>1. n.got = r.got /\ n.off = z - l
    BY <1>0, <1>5 DEF Turned
  <2>2. o > v /\ z = o - v /\ o >= w
    BY <1>1, <1>5, <1>a, <1>w
  <2>3. k = 0
    BY <1>b, <2>2
  <2>4. n.off = IF o > w THEN o - w ELSE 0
    <3>1. z - l = o - w
      BY <1>1, <1>w, <2>2
    <3>2. o - w = IF o > w THEN o - w ELSE 0
      BY <1>w, <2>2
    <3> QED BY <2>1, <3>1, <3>2
  <2>5. Len(n.got) = IF w <= o THEN 0 ELSE Least(o + len, w) - o
    BY <1>w, <2>1, <2>2, <2>3 DEF k
  <2>6. \A j \in 1..Len(n.got) : n.got[j] = d[o + j]
    BY <1>3, <2>1 DEF k
  <2> QED BY <2>4, <2>5, <2>6 DEF Reached
<1>6. CASE k # len /\ ~(z # 0 /\ z >= l)
  <2> DEFINE y == Least(l - z, len - k)
  <2>1. /\ y \in Nat /\ n.off = 0 /\ Len(n.got) = k + y
        /\ \A j \in 1..k : n.got[j] = r.got[j]
        /\ \A j \in 1..y : n.got[k + j] = <<c[i], z + j>>
    BY <1>0, <1>6 DEF Turned
  <2>2. y = IF l - z < len - k THEN l - z ELSE len - k
    BY DEF Least
  <2> HIDE DEF y
  <2>y. y \in Nat
    BY <2>1
  <2>3. o <= w /\ k < len
    BY <1>1, <1>6, <1>a, <1>w
  <2>4. n.off = IF o > w THEN o - w ELSE 0
    BY <1>w, <2>1, <2>3
  \* The next byte is the one asked for.
  <2>5. v + z = o + k
    BY <1>1, <1>a, <1>b, <2>3 DEF Least
  <2>6. k + y = IF w <= o THEN 0 ELSE Least(o + len, w) - o
    <3>1. o + k + l - z = w
      BY <1>1, <1>w, <2>5
    <3>2. CASE l - z < len - k
      <4>1. k + y = w - o
        BY <1>1, <1>w, <2>2, <3>1, <3>2
      <4>2. w < o + len
        BY <1>1, <1>w, <3>1, <3>2
      <4> QED BY <1>w, <2>3, <4>1, <4>2 DEF Least
    <3>3. CASE ~(l - z < len - k)
      <4>1. k + y = len
        BY <1>1, <2>2, <3>3
      <4>2. w >= o + len
        BY <1>1, <1>w, <3>1, <3>3
      <4> QED BY <1>1, <1>w, <4>1, <4>2 DEF Least
    <3> QED BY <3>2, <3>3
  <2>7. ASSUME NEW j \in 1..(k + y) PROVE n.got[j] = d[o + j]
    <3>1. CASE j <= k
      <4>1. j \in 1..k
        BY <1>1, <3>1
      <4> QED BY <1>3, <2>1, <4>1
    <3>2. CASE j > k
      <4> DEFINE a == j - k
                 x == z + a
      <4>1. a \in 1..y /\ k + a = j /\ x \in 1..l /\ v + x = o + j
        BY <1>1, <2>y, <2>2, <2>5, <3>2
      <4>2. n.got[k + a] = <<c[i], z + a>>
        BY <2>1, <4>1
      <4>3. d[v + x] = <<c[i], x>>
        BY <1>d, <4>1
      <4> QED BY <4>1, <4>2, <4>3
    <3> QED BY <1>1, <2>y, <3>1, <3>2
  <2> QED BY <2>1, <2>4, <2>6, <2>7 DEF Reached
<1> QED BY <1>4, <1>5, <1>6

LEMMA CopyIs ==
  ASSUME PbufConstants, NEW b, Shape(b), NEW p \in Pbufs,
         NEW len \in 1..Len(Flat(b, p)), NEW o \in 0..Len(Flat(b, p))
  PROVE  pbuf_copy_partial(b, p, len, o)
           = SubSeq(Flat(b, p), o + 1, Least(o + len, Len(Flat(b, p))))
<1> DEFINE c == ChainOf(b, p)
           l == Len(c)
           all == Flat(b, p)
           copy == pbuf_copy_partial(b, p, len, o)
<1>1. Chained(b, p, c, l) /\ b \in [Pbufs -> Recs]
  BY ChainFacts DEF Shape
<1>2. c \in Seq(Pbufs) /\ l \in Nat /\ \A i \in 1..l : c[i] \in Pbufs
  <2> HIDE DEF c, l
  <2> QED BY <1>1 DEF Chained
<1>3. PICK f : Filled(b, c, f) /\ all = f[l]
  BY <1>1, <1>2, FlatRuns
<1>4. PICK s : Sums(b, c, s)
  BY <1>1, <1>2, SumRuns
<1>5. /\ \A i \in 0..l : Len(f[i]) = s[i] /\ f[i] \in Seq(Cells) /\ s[i] \in Nat
      /\ \A i \in 1..l :
           /\ \A j \in 1..s[i - 1] : f[i][j] = f[i - 1][j]
           /\ \A j \in 1..b[c[i]].len : f[i][s[i - 1] + j] = <<c[i], j>>
  <2>1. b \in [Pbufs -> Recs] /\ c \in Seq(Pbufs) /\ Filled(b, c, f) /\ Sums(b, c, s)
    BY <1>1, <1>2, <1>3, <1>4
  <2>2. Laid(b, c, f, s)
    BY <2>1, FilledIs, Zenon
  <2> HIDE DEF c
  <2> QED BY <2>2 DEF Laid
<1>6. l \in 0..l /\ Len(all) = s[l] /\ all \in Seq(Cells) /\ s[l] \in Nat
  BY <1>2, <1>3, <1>5
<1>7. len \in Nat \ {0} /\ o \in Nat /\ len \in 1..s[l] /\ o \in 0..s[l]
  BY <1>6
<1>8. PICK t : Copied(b, c, len, o, t) /\ copy = t[l].got
  BY <1>1, <1>2, <1>7, CopyRuns
<1> HIDE DEF c, l, all, copy
<1>9. /\ \A i \in 0..l : t[i] \in Copies(len)
      /\ t[0] = [got |-> <<>>, off |-> o]
      /\ \A i \in 1..l : t[i] = OneCopy(b, c, len, i, t[i - 1])
  BY <1>8 DEF Copied, l
<1>10. s[0] = 0 /\ \A i \in 1..l : s[i] = s[i - 1] + b[c[i]].len
  BY <1>4 DEF Sums, l
<1> DEFINE T == {i \in 0..l : Reached(t[i], o, len, s[i], f[i])}
<1>11. 0 \in T
  <2>1. t[0].got = <<>> /\ t[0].off = o
    BY <1>9
  <2>2. Len(t[0].got) = 0 /\ 0 \in 0..l
    BY <1>2, <2>1
  <2>3. Reached(t[0], o, len, s[0], f[0])
    BY <1>7, <1>10, <2>1, <2>2 DEF Reached
  <2> QED BY <2>2, <2>3
<1>12. ASSUME NEW j \in 0..l, j \in T, j < l PROVE j + 1 \in T
  <2> DEFINE i == j + 1
  <2>1. i \in 1..l /\ i - 1 = j /\ i \in 0..l
    BY <1>2, <1>12
  <2>2. Reached(t[j], o, len, s[j], f[j])
    BY <1>12
  <2> HIDE DEF i
  <2>3. t[j] \in Copies(len) /\ s[j] \in Nat /\ c[i] \in Pbufs
    BY <1>2, <1>5, <1>9, <2>1
  <2>4. t[i] = OneCopy(b, c, len, i, t[j]) /\ s[i] = s[j] + b[c[i]].len
    BY <1>9, <1>10, <2>1
  <2>5. /\ \A x \in 1..s[j] : f[i][x] = f[j][x]
        /\ \A x \in 1..b[c[i]].len : f[i][s[j] + x] = <<c[i], x>>
    BY <1>5, <2>1
  <2>6. Reached(OneCopy(b, c, len, i, t[j]), o, len, s[j] + b[c[i]].len, f[i])
    BY <1>1, <1>7, <2>2, <2>3, <2>5, CopyTurn
  <2>7. Reached(t[i], o, len, s[i], f[i])
    BY <2>4, <2>6
  <2> QED BY <2>1, <2>7 DEF i
<1>13. Reached(t[l], o, len, s[l], f[l])
  <2> HIDE DEF T
  <2>1. \A i \in 0..l : i \in T
    BY <1>2, <1>11, <1>12, BoundedInduction
  <2> QED BY <1>6, <2>1 DEF T
<1> DEFINE x == s[l]
           y == Least(o + len, x)
           sub == SubSeq(all, o + 1, y)
<1>14. /\ Len(copy) = IF x <= o THEN 0 ELSE y - o
       /\ \A j \in 1..Len(copy) : copy[j] = all[o + j]
  BY <1>3, <1>8, <1>13 DEF Reached
<1>15. copy \in Seq(Cells)
  BY <1>6, <1>8, <1>9 DEF Copies
<1>16. x \in Nat /\ y \in Int /\ y <= x /\ (x <= o => y <= o) /\ (x > o => y > o)
  BY <1>6, <1>7 DEF Least
<1> HIDE DEF x, y
<1>17. \A j \in (o + 1)..y : all[j] \in Cells
  <2>1. ASSUME NEW j \in (o + 1)..y PROVE all[j] \in Cells
    <3>1. j \in 1..Len(all)
      BY <1>6, <1>7, <1>16 DEF x
    <3> QED BY <1>6, <3>1, ElementOfSeq
  <2> QED BY <2>1
<1>18. /\ sub \in Seq(Cells) /\ Len(sub) = IF o + 1 <= y THEN y - (o + 1) + 1 ELSE 0
       /\ \A j \in 1..(y - (o + 1) + 1) : sub[j] = all[(o + 1) + j - 1]
  <2>1. o + 1 \in Int /\ y \in Int
    BY <1>7, <1>16
  <2> QED BY <1>17, <2>1, SubSeqProperties
<1> HIDE DEF sub
<1>19. Len(sub) = Len(copy)
  BY <1>7, <1>14, <1>16, <1>18
<1>20. ASSUME NEW j \in 1..Len(copy) PROVE copy[j] = sub[j]
  <2>1. j \in 1..(y - (o + 1) + 1) /\ (o + 1) + j - 1 = o + j
    BY <1>7, <1>14, <1>16
  <2>2. sub[j] = all[(o + 1) + j - 1]
    BY <1>18, <2>1
  <2> QED BY <1>14, <2>1, <2>2
<1>21. copy = sub
  BY <1>15, <1>18, <1>19, <1>20, SeqEqual
<1> QED BY <1>6, <1>21 DEF copy, sub, all, x, y

\* tot_len of the first pbuf is the number of bytes of the packet.
LEMMA FlatLen ==
  ASSUME PbufConstants, NEW b, Shape(b), Lens(b), NEW p \in Pbufs
  PROVE  b[p].tot_len = Len(Flat(b, p))
<1> DEFINE c == ChainOf(b, p)
           l == Len(c)
           all == Flat(b, p)
<1>1. Chained(b, p, c, l) /\ b \in [Pbufs -> Recs]
  BY ChainFacts DEF Shape
<1>2. c \in Seq(Pbufs) /\ l \in Nat
  <2> HIDE DEF c, l
  <2> QED BY <1>1 DEF Chained
<1>3. PICK f : Filled(b, c, f) /\ all = f[l]
  BY <1>1, <1>2, FlatRuns
<1>4. PICK s : Sums(b, c, s)
  BY <1>1, <1>2, SumRuns
<1>5. Laid(b, c, f, s)
  BY <1>1, <1>2, <1>3, <1>4, FilledIs, Zenon
<1>6. b[p].tot_len = s[l]
  <2> HIDE DEF c, l
  <2> QED BY <1>1, <1>4, TotIs
<1> HIDE DEF c, all
<1>7. l \in 0..l /\ Len(f[l]) = s[l]
  BY <1>2, <1>5 DEF Laid
<1> QED BY <1>3, <1>6, <1>7 DEF all

\* What follows a pbuf is one of those in use: as many as the count says.
LEMMA NumIs ==
  ASSUME PbufConstants, PbufInv, NEW p \in alive
  PROVE  Cardinality({q \in alive : pb[q].next = p}) = Num(pb, p)
<1> DEFINE s == {q \in alive : pb[q].next = p}
<1>1. /\ p \in Pbufs /\ p # None
      /\ \A q \in Pbufs : pb[q].next = p => q \in alive
      /\ \A q, r \in Pbufs : pb[q].next = p /\ pb[r].next = p => q = r
      /\ alive \subseteq Pbufs
  <2>1. alive \subseteq Pbufs /\ None \notin Pbufs /\ Lone(pb)
        /\ \A q \in Pbufs \ alive : pb[q] = Blank
    BY DEF PbufConstants, PbufInv, Good, Sane, Typed
  <2>2. Blank.next = None
    BY DEF Blank
  <2> QED BY <2>1, <2>2 DEF Lone
<1>2. CASE \E q \in Pbufs : pb[q].next = p
  <2>1. PICK q \in Pbufs : pb[q].next = p
    BY <1>2
  <2>2. s = {q}
    BY <1>1, <2>1
  <2>3. Cardinality({q}) = 1
    BY FS_Singleton
  <2> HIDE DEF s
  <2>4. Cardinality(s) = 1
    BY <2>2, <2>3
  <2>5. Num(pb, p) = 1
    BY <1>2 DEF Num
  <2> QED BY <2>4, <2>5 DEF s
<1>3. CASE ~ \E q \in Pbufs : pb[q].next = p
  <2>1. s = {}
    BY <1>1, <1>3
  <2>2. Cardinality({}) = 0
    BY FS_EmptySet
  <2> HIDE DEF s
  <2>3. Cardinality(s) = 0
    BY <2>1, <2>2
  <2>4. Num(pb, p) = 0
    BY <1>3 DEF Num
  <2> QED BY <2>3, <2>4 DEF s
<1> QED BY <1>2, <1>3

-----------------------------------------------------------------------------
(* The theorems.                                                           *)

LEMMA InitOk ==
  ASSUME PbufConstants, Init
  PROVE  PbufInv
<1>1. Blank \in Recs /\ Blank.next = None /\ Blank.len = 0 /\ Blank.tot_len = 0
  BY DEF Blank, Recs
<1>2. /\ pb \in [Pbufs -> Recs] /\ alive = {} /\ held \in [Pbufs -> Nat]
      /\ \A p \in Pbufs : pb[p] = Blank /\ held[p] = 0
  BY <1>1 DEF Init
<1>3. \A p \in Pbufs : pb[p].next = None /\ pb[p].len = 0 /\ pb[p].tot_len = 0
  BY <1>1, <1>2
<1>4. Acyclic(pb)
  <2> DEFINE r == [p \in Pbufs |-> 0]
  <2>1. Ranked(pb, r)
    BY <1>3 DEF Ranked
  <2> QED BY <2>1 DEF Acyclic
<1>5. Lens(pb)
  BY <1>3 DEF Lens, Rest
<1>6. Typed(pb, alive, held) /\ Linked(pb, alive) /\ Lone(pb)
  BY <1>2, <1>3 DEF Typed, Linked, Lone
<1>7. Counts(pb, alive, held, None)
  BY <1>2 DEF Counts
<1> QED BY <1>4, <1>5, <1>6, <1>7 DEF PbufInv, Good, Sane

LEMMA NextOk ==
  ASSUME PbufConstants, PbufInv, [Next]_vars
  PROVE  PbufInv'
<1>1. ASSUME NEW n \in 1..MaxLen, pbuf_alloc_pool(n) PROVE PbufInv'
  BY <1>1, AllocPoolStep
<1>2. ASSUME NEW p \in RAM \cup ROM, NEW n \in 1..MaxLen, pbuf_alloc_one(p, n) PROVE PbufInv'
  BY <1>2, AllocOneStep
<1>3. ASSUME NEW p \in Mine, pbuf_free(p) PROVE PbufInv'
  BY <1>3, FreeStep
<1>4. ASSUME NEW p \in Mine, pbuf_ref(p) PROVE PbufInv'
  BY <1>4, RefStep
<1>5. ASSUME NEW h \in Mine, NEW t \in Mine, pbuf_cat(h, t) PROVE PbufInv'
  BY <1>5, CatStep
<1>6. ASSUME NEW h \in Mine, NEW t \in Mine, pbuf_chain(h, t) PROVE PbufInv'
  BY <1>6, ChainStep
<1>7. ASSUME NEW p \in Mine, pbuf_dechain(p) PROVE PbufInv'
  BY <1>7, DechainStep
<1>8. ASSUME NEW p \in Mine, NEW n \in 0..MaxLen, pbuf_realloc(p, n) PROVE PbufInv'
  BY <1>8, ReallocStep
<1>9. ASSUME NEW p \in Mine, NEW n \in 1..Headroom,
             pbuf_header_add(p, n) \/ pbuf_header_hide(p, n)
      PROVE  PbufInv'
  BY <1>9, HeaderStep
<1>10. ASSUME NEW p \in Mine, NEW q \in RAM, pbuf_coalesce(p, q) PROVE PbufInv'
  BY <1>10, CoalesceStep
<1>11. CASE Next
  BY <1>1, <1>2, <1>3, <1>4, <1>5, <1>6, <1>7, <1>8, <1>9, <1>10, <1>11, Zenon DEF Next
<1>12. CASE UNCHANGED vars
  <2>1. pb' = pb /\ alive' = alive /\ held' = held
    BY <1>12 DEF vars
  <2> QED BY <2>1 DEF PbufInv
<1> QED BY <1>11, <1>12

\* Whatever the callers of core/pbuf.c do with the pbufs they hold: chains end,
\* no pbuf is in two, what is in a pool is in none, and every tot_len and every
\* count is what its neighbours make it.
THEOREM PbufInvariant ==
  ASSUME PbufConstants
  PROVE  Spec => []PbufInv
<1>1. Init => PbufInv
  BY InitOk
<1>2. PbufInv /\ [Next]_vars => PbufInv'
  BY NextOk
<1> QED BY <1>1, <1>2, PTL DEF Spec

\* The count of a pbuf is the number of its holders, and no chain leads into a
\* pool (pbuf_free, pbuf_ref, pbuf_cat, pbuf_chain, pbuf_dechain, pbuf_realloc).
THEOREM RefsAlwaysExact ==
  ASSUME PbufConstants
  PROVE  Spec => []RefsExact
<1>1. ASSUME PbufInv PROVE RefsExact
  <2>1. /\ \A p \in alive : pb[p].ref > 0 /\ pb[p].ref = held[p] + Num(pb, p) + Owing(None, p)
        /\ \A p \in Pbufs : pb[p].next \in alive \cup {None}
        /\ alive \subseteq Pbufs /\ None \notin Pbufs /\ held \in [Pbufs -> Nat]
    BY <1>1 DEF PbufConstants, PbufInv, Good, Sane, Typed, Linked, Counts
  <2>2. ASSUME NEW p \in alive
        PROVE  pb[p].ref = held[p] + Cardinality({q \in alive : pb[q].next = p})
    <3>1. Cardinality({q \in alive : pb[q].next = p}) = Num(pb, p)
      BY <1>1, NumIs
    <3>2. held[p] \in Nat /\ Num(pb, p) \in Nat /\ Owing(None, p) = 0
      BY <2>1 DEF Num, Owing
    <3>3. pb[p].ref = held[p] + Num(pb, p)
      BY <2>1, <3>2
    <3> QED BY <3>1, <3>3
  <2> QED BY <2>1, <2>2 DEF RefsExact
<1> QED BY <1>1, PbufInvariant, PTL

\* tot_len is what the packet holds from this pbuf on (pbuf_alloc, pbuf_cat,
\* pbuf_dechain, pbuf_realloc, pbuf_header).
THEOREM TotLenAlwaysExact ==
  ASSUME PbufConstants
  PROVE  Spec => []TotLenExact
<1>1. ASSUME PbufInv PROVE TotLenExact
  <2>1. Shape(pb) /\ Lens(pb) /\ alive \subseteq Pbufs
    BY <1>1 DEF PbufInv, Good, Sane, Shape, Typed
  <2> QED BY <2>1, FlatLen DEF TotLenExact
<1> QED BY <1>1, PbufInvariant, PTL

\* The loop of pbuf_copy_partial() copies the bytes asked for.
THEOREM CopyAlwaysExact ==
  ASSUME PbufConstants
  PROVE  Spec => []CopyExact
<1>1. ASSUME PbufInv PROVE CopyExact
  <2>1. Shape(pb) /\ Heads \subseteq Pbufs
    BY <1>1 DEF PbufInv, Good, Sane, Shape, Typed, Heads
  <2>2. ASSUME NEW p \in Heads, NEW n \in 1..Len(Flat(pb, p)), NEW o \in 0..Len(Flat(pb, p))
        PROVE  pbuf_copy_partial(pb, p, n, o)
                 = SubSeq(Flat(pb, p), o + 1, Least(o + n, Len(Flat(pb, p))))
    BY <2>1, <2>2, CopyIs
  <2> QED BY <2>2, Zenon DEF CopyExact
<1> QED BY <1>1, PbufInvariant, PTL

\* Chains of shared buffers stay whole: what the run of MCStack checks for its
\* instance (pbuf.c).
THEOREM PbufsAlwaysSound ==
  ASSUME PbufConstants
  PROVE  Spec => []PbufsSound
BY RefsAlwaysExact, TotLenAlwaysExact, CopyAlwaysExact, PTL DEF PbufsSound
=============================================================================
