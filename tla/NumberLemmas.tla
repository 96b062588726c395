----------------------------- MODULE NumberLemmas -----------------------------
(***************************************************************************)
(* Lemmas that the proofs about several components use: on remainders, on  *)
(* induction and recursion over the numbers, on parts of sequences.        *)
(***************************************************************************)
EXTENDS Integers, SequenceTheorems, NaturalsInduction, WellFoundedInduction, TLAPS

-----------------------------------------------------------------------------
(* Remainders.                                                             *)

\* The remainder is what is left of a multiple.
LEMMA ModUnique ==
  ASSUME NEW m \in Nat \ {0}, NEW q \in Int, NEW r \in 0..(m - 1)
  PROVE  (q * m + r) % m = r
OBVIOUS

LEMMA ModForm ==
  ASSUME NEW m \in Nat \ {0}, NEW x \in Int
  PROVE  /\ x % m \in 0..(m - 1)
         /\ \E q \in Int : x = q * m + (x % m)
<1>1. x % m \in 0..(m - 1)
  OBVIOUS
<1>2. x \div m \in Int /\ x = (x \div m) * m + (x % m)
  OBVIOUS
<1> QED BY <1>1, <1>2

\* A remainder is moved like what it is the remainder of.
LEMMA ModShift ==
  ASSUME NEW m \in Nat \ {0}, NEW s \in Int, NEW x \in Int, NEW n \in Int
  PROVE  (((s + x) % m) + n) % m = (s + (x + n)) % m
<1> DEFINE c == s + x
           d == s + (x + n)
           a == c % m
           b == d % m
<1>0. c \in Int /\ d \in Int /\ m \in Nat \ {0}
  OBVIOUS
<1> HIDE DEF c, d
<1>1. PICK q \in Int : c = q * m + a
  BY <1>0, ModForm
<1>2. PICK p \in Int : d = p * m + b
  BY <1>0, ModForm
<1>3. a \in 0..(m - 1) /\ b \in 0..(m - 1)
  BY <1>0, ModForm
<1>4. a + n = (p - q) * m + b
  <2> HIDE DEF a, b
  <2>1. a \in Int /\ b \in Int /\ p * m \in Int /\ q * m \in Int
        /\ (p - q) * m = p * m - q * m
    BY <1>3
  <2> QED BY <1>1, <1>2, <2>1 DEF c, d
<1>5. (a + n) % m = b
  <2> HIDE DEF a, b
  <2>1. p - q \in Int
    OBVIOUS
  <2> QED BY <1>3, <1>4, <2>1, ModUnique
<1> QED BY <1>5 DEF c, d

\* The distance of two remainders, if it is less than half the modulus.
LEMMA ModApart ==
  ASSUME NEW m \in Nat \ {0}, m % 2 = 0, NEW s \in Int, NEW x \in Int, NEW y \in Int,
         2 * (x - y) < m, 2 * (y - x) < m
  PROVE  ((((s + x) % m) - ((s + y) % m) + (m \div 2)) % m) - (m \div 2) = x - y
<1> DEFINE c == s + x
           d == s + y
           a == c % m
           b == d % m
           h == m \div 2
<1>0. c \in Int /\ d \in Int /\ m \in Nat \ {0}
  OBVIOUS
<1>t. h \in Nat /\ 2 * h = m
  OBVIOUS
<1> HIDE DEF c, d, h
<1>1. PICK q \in Int : c = q * m + a
  BY <1>0, ModForm
<1>2. PICK p \in Int : d = p * m + b
  BY <1>0, ModForm
<1>3. a \in 0..(m - 1) /\ b \in 0..(m - 1) /\ h \in Nat /\ 2 * h = m
  BY <1>0, <1>t, ModForm
<1> HIDE DEF a, b
<1>4. a - b + h = (p - q) * m + (x - y + h)
  <2>1. p * m \in Int /\ q * m \in Int /\ (p - q) * m = p * m - q * m
    OBVIOUS
  <2> QED BY <1>1, <1>2, <1>3, <2>1 DEF c, d
<1>5. x - y + h \in 0..(m - 1)
  BY <1>3
<1>6. (a - b + h) % m = x - y + h
  <2>1. p - q \in Int
    OBVIOUS
  <2> QED BY <1>4, <1>5, <2>1, ModUnique
<1>7. ((((s + x) % m) - ((s + y) % m) + (m \div 2)) % m) - (m \div 2) = ((a - b + h) % m) - h
  BY DEF a, b, c, d, h
<1> QED BY <1>3, <1>6, <1>7

-----------------------------------------------------------------------------
(* Induction over the numbers, and functions defined by recursion.  The    *)
(* library's induction theorems have an operator as parameter; these have  *)
(* a set or a function instead.                                            *)

LEMMA SetInduction ==
  ASSUME NEW T \in SUBSET Nat, 0 \in T, \A n \in T : n + 1 \in T
  PROVE  T = Nat
<1> DEFINE R == {p \in Nat \X Nat : p[1] < p[2]}
           U == Nat \ T
<1>1. SUFFICES ASSUME U # {} PROVE FALSE
  OBVIOUS
<1>2. IsWellFoundedOn(R, Nat)
  BY NatLessThanWellFounded DEF OpToRel
<1>3. PICK x \in U : \A y \in U : ~(<<y, x>> \in R)
  <2> HIDE DEF R, U
  <2>1. U \subseteq Nat
    BY DEF U
  <2> QED BY <1>1, <1>2, <2>1, WFMin
<1>4. x \in Nat /\ x # 0
  OBVIOUS
<1>5. x - 1 \in Nat
  BY <1>4
<1>6. <<x - 1, x>> \in R
  BY <1>4, <1>5
<1>7. x - 1 \in T
  BY <1>3, <1>5, <1>6
<1>8. (x - 1) + 1 = x
  BY <1>4
<1> QED BY <1>7, <1>8

\* Induction up to a bound.
LEMMA BoundedInduction ==
  ASSUME NEW n \in Nat, NEW T, 0 \in T,
         \A i \in 0..n : i \in T /\ i < n => i + 1 \in T
  PROVE  \A i \in 0..n : i \in T
<1> DEFINE U == {i \in Nat : i <= n => i \in T}
<1>1. 0 \in U
  OBVIOUS
<1>2. ASSUME NEW i \in U PROVE i + 1 \in U
  BY <1>2
<1>3. U = Nat
  <2> HIDE DEF U
  <2>1. U \in SUBSET Nat
    BY DEF U
  <2> QED BY <1>1, <1>2, <2>1, SetInduction
<1> QED BY <1>3

\* A function can be built from its first value and a step.
StepFunction(V, g, v, n) == g \in [V \X Nat -> V] /\ v \in V /\ n \in Nat

IsRecursion(f, V, g, v, n) ==
  /\ f \in [0..n -> V]
  /\ f[0] = v
  /\ \A i \in 1..n : f[i] = g[<<f[i - 1], i>>]

LEMMA RecursionExists ==
  ASSUME NEW V, NEW g, NEW v, NEW n, StepFunction(V, g, v, n)
  PROVE  \E f : IsRecursion(f, V, g, v, n)
<1> USE DEF StepFunction
<1> DEFINE Sol(f, m) == /\ f \in [0..m -> V]
                        /\ f[0] = v
                        /\ \A i \in 1..m : f[i] = g[<<f[i - 1], i>>]
           T == {m \in Nat : \E f : Sol(f, m)}
<1>1. 0 \in T
  <2>1. Sol([i \in 0..0 |-> v], 0)
    OBVIOUS
  <2> QED BY <2>1
<1>2. ASSUME NEW m \in T PROVE m + 1 \in T
  <2>1. PICK f : Sol(f, m)
    OBVIOUS
  <2> DEFINE h == [i \in 0..(m + 1) |->
                     IF i <= m THEN f[i] ELSE g[<<f[m], m + 1>>]]
  <2>2. f[m] \in V /\ m \in Nat
    BY <2>1
  <2>3. g[<<f[m], m + 1>>] \in V
    BY <2>2
  <2>4. h \in [0..(m + 1) -> V] /\ h[0] = v
    BY <2>1, <2>2, <2>3
  <2>5. ASSUME NEW i \in 1..(m + 1) PROVE h[i] = g[<<h[i - 1], i>>]
    <3>1. CASE i <= m
      BY <2>1, <2>2, <3>1
    <3>2. CASE i = m + 1
      BY <2>1, <2>2, <3>2, SMTT(30)
    <3> QED BY <2>2, <3>1, <3>2
  <2>6. Sol(h, m + 1)
    BY <2>4, <2>5
  <2> HIDE DEF Sol, h
  <2> QED BY <2>2, <2>6
<1>3. T = Nat
  <2> HIDE DEF T
  <2>1. T \in SUBSET Nat
    BY DEF T
  <2> QED BY <1>1, <1>2, <2>1, SetInduction
<1>4. n \in T
  BY <1>3
<1> QED BY <1>4 DEF IsRecursion

\* Every set of numbers has a least one.
LEMMA LeastNumber ==
  ASSUME NEW T \in SUBSET Nat, T # {}
  PROVE  \E x \in T : \A y \in T : x <= y
<1> DEFINE R == {p \in Nat \X Nat : p[1] < p[2]}
<1>1. IsWellFoundedOn(R, Nat)
  BY NatLessThanWellFounded DEF OpToRel
<1>2. PICK x \in T : \A y \in T : ~(<<y, x>> \in R)
  <2> HIDE DEF R
  <2> QED BY <1>1, WFMin
<1>3. ASSUME NEW y \in T PROVE x <= y
  <2>1. <<y, x>> \notin R /\ y \in Nat /\ x \in Nat
    BY <1>2
  <2> QED BY <2>1
<1> QED BY <1>2, <1>3

-----------------------------------------------------------------------------
(* The first segments of a queue, and the rest of it.                      *)

LEMMA FrontFacts ==
  ASSUME NEW S, NEW q \in Seq(S), NEW n \in 0..Len(q)
  PROVE  /\ SubSeq(q, 1, n) \in Seq(S) /\ Len(SubSeq(q, 1, n)) = n
         /\ \A j \in 1..n : SubSeq(q, 1, n)[j] = q[j]
<1>1. Len(q) \in Nat /\ n \in Nat /\ \A i \in 1..n : q[i] \in S
  OBVIOUS
<1>2. /\ SubSeq(q, 1, n) \in Seq(S)
      /\ Len(SubSeq(q, 1, n)) = IF 1 <= n THEN n - 1 + 1 ELSE 0
      /\ \A j \in 1..(n - 1 + 1) : SubSeq(q, 1, n)[j] = q[1 + j - 1]
  BY <1>1, SubSeqProperties
<1>3. Len(SubSeq(q, 1, n)) = n
  BY <1>1, <1>2
<1>4. ASSUME NEW j \in 1..n PROVE SubSeq(q, 1, n)[j] = q[j]
  <2>1. j \in 1..(n - 1 + 1) /\ 1 + j - 1 = j
    BY <1>1
  <2> QED BY <1>2, <2>1
<1> QED BY <1>2, <1>3, <1>4

LEMMA SuffixFacts ==
  ASSUME NEW S, NEW q \in Seq(S), NEW n \in 0..Len(q)
  PROVE  LET r == SubSeq(q, n + 1, Len(q))
         IN  /\ r \in Seq(S) /\ Len(r) = Len(q) - n
             /\ \A j \in 1..(Len(q) - n) : r[j] = q[n + j]
             /\ r = << >> <=> n = Len(q)
<1> DEFINE l == Len(q)
           r == SubSeq(q, n + 1, l)
<1>1. l \in Nat /\ n \in Nat /\ n <= l /\ \A i \in (n + 1)..l : q[i] \in S
  OBVIOUS
<1> HIDE DEF l
<1>2. /\ r \in Seq(S)
      /\ Len(r) = IF n + 1 <= l THEN l - (n + 1) + 1 ELSE 0
      /\ \A j \in 1..(l - (n + 1) + 1) : r[j] = q[(n + 1) + j - 1]
  BY <1>1, SubSeqProperties
<1> HIDE DEF r
<1>3. Len(r) = l - n
  BY <1>1, <1>2
<1>4. ASSUME NEW j \in 1..(l - n) PROVE r[j] = q[n + j]
  <2>1. j \in 1..(l - (n + 1) + 1) /\ (n + 1) + j - 1 = n + j
    BY <1>1
  <2> QED BY <1>2, <2>1
<1>5. r = << >> <=> n = l
  <2>1. r = << >> => Len(r) = 0
    BY EmptySeq
  <2>2. r # << >> => Len(r) \in Nat \ {0}
    BY <1>2, EmptySeq
  <2> QED BY <1>1, <1>3, <2>1, <2>2
<1> QED BY <1>2, <1>3, <1>4, <1>5 DEF l, r
=============================================================================
