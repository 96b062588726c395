--------------------------- MODULE TcpSend_proofs ---------------------------
(***************************************************************************)
(* Proofs about TcpSend, for every value of its constants.                 *)
(*                                                                         *)
(* Sequence numbers are compared by the position in the stream they stand  *)
(* for.  By position the queues of a connected pcb are one chain: unacked, *)
(* from a segment that holds the byte at lastack, then unsent, to snd_lbb. *)
(* The invariant SendInv says this, that what is sent and what the peer    *)
(* has answered agree with it, and that windows, timers and counters fit.  *)
(* It is kept by every turn of the loop of tcp_output(), hence by          *)
(* tcp_output(), and by what each caller does to the queues before it.     *)
(***************************************************************************)
EXTENDS TcpSend, NumberLemmas, SequenceTheorems, FiniteSetTheorems, TLAPS

-----------------------------------------------------------------------------
(* Sequence numbers, by their position in the stream: the first byte is at *)
(* 0, the SYN at -1, the FIN at N.                                         *)

Seqs == 0..(M - 1)

Pos(x) == Minus(x, ISS)

Places == (-1)..(N + 2)

\* Adding to a sequence number moves its position.
LEMMA PlusPlus ==
  ASSUME M \in Nat \ {0}, NEW s \in Int, NEW x \in Int, NEW n \in Int
  PROVE  Plus(Plus(s, x), n) = Plus(s, x + n)
BY ModShift DEF Plus

\* Two sequence numbers less than half the space apart compare like their
\* positions.
LEMMA MinusPlus ==
  ASSUME M \in Nat \ {0}, M % 2 = 0, NEW s \in Int, NEW x \in Int, NEW y \in Int,
         2 * (x - y) < M, 2 * (y - x) < M
  PROVE  Minus(Plus(s, x), Plus(s, y)) = x - y
BY ModApart DEF Minus, Plus

LEMMA SpaceFacts ==
  /\ M \in Nat \ {0} /\ M % 2 = 0 /\ ISS \in Seqs /\ ISS \in Int /\ N \in Nat
  /\ 2 * (N + 3) < M /\ M \div 2 \in Nat /\ 2 * (M \div 2) = M
  /\ TCP_MSS \in Nat \ {0} /\ W \in Nat /\ 10 * TCP_MSS < W /\ W8 \in Nat \ {0}
  /\ PeerBuf \in Nat /\ PeerBuf < W
<1>1. /\ M \in Nat /\ M % 2 = 0 /\ ISS \in 0..(M - 1) /\ N \in Nat /\ 2 * (N + 3) < M
      /\ TCP_MSS \in Nat \ {0} /\ W \in Nat /\ 10 * TCP_MSS < W /\ W8 \in Nat \ {0}
      /\ PeerBuf \in 0..(W - 1)
  BY SendConstants
<1>2. M \div 2 \in Nat /\ 2 * (M \div 2) = M
  BY <1>1
<1> QED BY <1>1, <1>2 DEF Seqs

LEMMA PosForm ==
  ASSUME NEW x \in Seqs
  PROVE  Pos(x) \in Int /\ Plus(ISS, Pos(x)) = x
<1> DEFINE h == M \div 2
           d == x - ISS + h
           r == d % M
<1>0. M \in Nat \ {0} /\ ISS \in Int /\ h \in Nat /\ x \in Int /\ x \in 0..(M - 1)
  BY SpaceFacts DEF Seqs
<1> HIDE DEF h
<1>1. d \in Int
  BY <1>0
<1> HIDE DEF d
<1>2. r \in 0..(M - 1)
  BY <1>0, <1>1, ModForm
<1>3. PICK q \in Int : d = q * M + r
  BY <1>0, <1>1, ModForm
<1> HIDE DEF r
<1>4. ISS + (r - h) = (-q) * M + x
  <2>1. q * M \in Int /\ (-q) * M = -(q * M)
    BY <1>0
  <2> QED BY <1>0, <1>2, <1>3, <2>1 DEF d
<1>5. (ISS + (r - h)) % M = x
  <2>1. -q \in Int
    OBVIOUS
  <2> QED BY <1>0, <1>4, <2>1, ModUnique
<1>6. Pos(x) = r - h
  BY DEF Pos, Minus, r, d, h
<1> QED BY <1>0, <1>2, <1>5, <1>6 DEF Plus

\* The position of a sequence number that is some way on.
LEMMA PosPlus ==
  ASSUME NEW x \in Seqs, NEW k \in Int, Pos(x) + k \in Places
  PROVE  Plus(x, k) \in Seqs /\ Pos(Plus(x, k)) = Pos(x) + k
<1> DEFINE i == Pos(x)
<1>1. i \in Int /\ Plus(ISS, i) = x
  BY PosForm
<1> HIDE DEF i
<1>2. M \in Nat \ {0} /\ M % 2 = 0 /\ ISS \in Int /\ ISS \in 0..(M - 1) /\ N \in Nat
      /\ 2 * (N + 3) < M
  BY SpaceFacts DEF Seqs
<1>3. Plus(x, k) = Plus(ISS, i + k)
  BY <1>1, <1>2, PlusPlus
<1>4. Plus(ISS, 0) = ISS
  BY <1>2 DEF Plus
<1>5. i + k \in Int /\ 2 * ((i + k) - 0) < M /\ 2 * (0 - (i + k)) < M
  BY <1>1, <1>2 DEF Places, i
<1>6. Minus(Plus(ISS, i + k), Plus(ISS, 0)) = (i + k) - 0
  BY <1>2, <1>5, MinusPlus
<1>7. Plus(x, k) \in Seqs
  BY <1>2, SpaceFacts DEF Plus, Seqs
<1> QED BY <1>1, <1>3, <1>4, <1>6, <1>7 DEF Pos, i

LEMMA PosIss == Pos(ISS) = 0 /\ ISS \in Seqs
<1>1. M \in Nat \ {0} /\ M % 2 = 0 /\ ISS \in Int /\ ISS \in 0..(M - 1) /\ M > 0
  BY SpaceFacts DEF Seqs
<1>2. Plus(ISS, 0) = ISS
  BY <1>1 DEF Plus
<1>3. Minus(Plus(ISS, 0), Plus(ISS, 0)) = 0 - 0
  BY <1>1, MinusPlus
<1> QED BY <1>1, <1>2, <1>3 DEF Pos, Seqs

\* The comparisons of tcp.h, for the numbers in play.
LEMMA Compare ==
  ASSUME NEW x \in Seqs, NEW y \in Seqs, Pos(x) \in Places, Pos(y) \in Places
  PROVE  /\ Minus(x, y) = Pos(x) - Pos(y)
         /\ TCP_SEQ_LT(x, y) <=> Pos(x) < Pos(y)
         /\ TCP_SEQ_LEQ(x, y) <=> Pos(x) <= Pos(y)
         /\ x = y <=> Pos(x) = Pos(y)
<1> DEFINE i == Pos(x)
           j == Pos(y)
<1>1. i \in Int /\ j \in Int /\ Plus(ISS, i) = x /\ Plus(ISS, j) = y
      /\ i \in Places /\ j \in Places
  BY PosForm
<1> HIDE DEF i, j
<1>2. M \in Nat \ {0} /\ M % 2 = 0 /\ ISS \in Int /\ N \in Nat /\ 2 * (N + 3) < M
  BY SpaceFacts
<1>3. 2 * (i - j) < M /\ 2 * (j - i) < M
  BY <1>1, <1>2 DEF Places
<1>4. Minus(x, y) = i - j
  BY <1>1, <1>2, <1>3, MinusPlus
<1>5. TCP_SEQ_LT(x, y) <=> i < j
  BY <1>1, <1>4 DEF TCP_SEQ_LT
<1>6. TCP_SEQ_LEQ(x, y) <=> i <= j
  BY <1>1, <1>4 DEF TCP_SEQ_LEQ
<1>7. x = y <=> i = j
  BY <1>1 DEF i, j
<1> QED BY <1>4, <1>5, <1>6, <1>7 DEF i, j

LEMMA CompareBetween ==
  ASSUME NEW x \in Seqs, NEW y \in Seqs, NEW z \in Seqs,
         Pos(x) \in Places, Pos(y) \in Places, Pos(z) \in Places
  PROVE  TCP_SEQ_BETWEEN(x, y, z) <=> Pos(y) <= Pos(x) /\ Pos(x) <= Pos(z)
<1>1. Minus(x, y) = Pos(x) - Pos(y) /\ Minus(x, z) = Pos(x) - Pos(z)
  BY Compare
<1>2. Pos(x) \in Int /\ Pos(y) \in Int /\ Pos(z) \in Int
  BY PosForm
<1> QED BY <1>1, <1>2 DEF TCP_SEQ_BETWEEN

-----------------------------------------------------------------------------
(* Segments and chains of them.                                            *)

Segs == [seqno : Seqs, data : Seq(Nat), clen : Nat, fin : BOOLEAN, syn : BOOLEAN]

\* A segment covers the positions from From to below To; its data ends at DataTo.
From(seg) == Pos(seg.seqno)

DataTo(seg) == From(seg) + Len(seg.data)

To(seg) == DataTo(seg) + Count(seg.fin)

\* A segment of the stream, when w bytes are written: it holds the bytes of its
\* positions, it is not empty and not longer than the MSS, and a FIN is at N.
Good(seg, w, mss) ==
  /\ seg \in Segs /\ ~seg.syn
  /\ From(seg) \in 0..N /\ Len(seg.data) <= mss /\ DataTo(seg) <= w
  /\ From(seg) < To(seg)
  /\ \A k \in 1..Len(seg.data) : seg.data[k] = From(seg) + k
  /\ seg.fin => DataTo(seg) = N

\* The segments of q follow each other, from position lo to position hi.
Chained(q, lo, hi, w, mss) ==
  /\ q \in Seq(Segs)
  /\ \A i \in 1..Len(q) : Good(q[i], w, mss)
  /\ \A i \in 1..Len(q) : i < Len(q) => From(q[i + 1]) = To(q[i])
  /\ IF q = <<>> THEN lo = hi ELSE From(q[1]) = lo /\ To(q[Len(q)]) = hi

\* What is known of any segment of the stream.
LEMMA GoodFacts ==
  ASSUME NEW w \in 0..N, NEW mss \in Nat, NEW seg, Good(seg, w, mss)
  PROVE  /\ seg \in Segs /\ seg.seqno \in Seqs /\ seg.data \in Seq(Nat)
         /\ Len(seg.data) \in Nat /\ seg.fin \in BOOLEAN /\ seg.syn = FALSE
         /\ From(seg) \in Nat /\ DataTo(seg) \in Nat /\ To(seg) \in Nat
         /\ From(seg) <= N /\ DataTo(seg) <= N /\ To(seg) <= N + 1
         /\ DataTo(seg) = From(seg) + Len(seg.data)
         /\ From(seg) < To(seg) /\ From(seg) <= DataTo(seg)
         /\ DataTo(seg) <= To(seg) /\ To(seg) <= DataTo(seg) + 1
         /\ TCP_TCPLEN(seg) = To(seg) - From(seg)
         /\ SegEnd(seg) \in Seqs /\ Pos(SegEnd(seg)) = To(seg)
         /\ From(seg) \in Places /\ To(seg) \in Places
<1>1. /\ seg \in Segs /\ seg.seqno \in Seqs /\ seg.data \in Seq(Nat)
      /\ Len(seg.data) \in Nat /\ seg.fin \in BOOLEAN /\ seg.syn = FALSE
  BY DEF Good, Segs
<1>2. /\ From(seg) \in 0..N /\ DataTo(seg) <= w /\ From(seg) < To(seg)
  BY DEF Good
<1> DEFINE f == From(seg)
           k == Len(seg.data)
           c == Count(seg.fin)
<1>3. c \in 0..1 /\ DataTo(seg) = f + k /\ To(seg) = f + k + c
  BY <1>1 DEF Count, DataTo, To
<1>4. TCP_TCPLEN(seg) = k + c
  BY <1>1 DEF TCP_TCPLEN, Count
<1>5. f \in 0..N /\ k \in Nat /\ f + k <= w /\ N \in Nat /\ f < f + k + c
  BY <1>1, <1>2, <1>3, SpaceFacts
<1> HIDE DEF f, k, c
<1>6. f + k + c <= N + 1 /\ f + k <= N /\ f \in Int /\ k + c \in Int /\ f + (k + c) \in Places
      /\ f \in Places /\ f + k + c = f + (k + c)
  BY <1>3, <1>5 DEF Places
<1>7. SegEnd(seg) \in Seqs /\ Pos(SegEnd(seg)) = f + (k + c)
  <2>1. Pos(seg.seqno) = f
    BY DEF f, From
  <2> QED BY <1>1, <1>4, <1>6, <2>1, PosPlus DEF SegEnd
<1>8. From(seg) = f /\ Len(seg.data) = k
  BY DEF f, k
<1>9. f + k \in Nat /\ f + k + c \in Nat /\ f <= f + k /\ f + k <= f + k + c
      /\ f + k + c <= (f + k) + 1 /\ k + c = (f + k + c) - f /\ f \in Nat /\ f <= N
      /\ f + k + c \in Places
  BY <1>3, <1>5, <1>6
<1> QED BY <1>1, <1>3, <1>4, <1>5, <1>6, <1>7, <1>8, <1>9

\* Later segments start where earlier ones end, or behind.
LEMMA ChainOrder ==
  ASSUME NEW q, NEW lo, NEW hi, NEW w \in 0..N, NEW mss \in Nat,
         Chained(q, lo, hi, w, mss), NEW i \in 1..Len(q), NEW j \in 1..Len(q), i < j
  PROVE  To(q[i]) <= From(q[j])
<1> DEFINE n == Len(q)
           T == {d \in Nat : i + d <= n /\ d # 0 => To(q[i]) <= From(q[i + d])}
<1>1. n \in Nat /\ i \in Nat /\ j \in Nat /\ 1 <= i /\ j <= n
  BY DEF Chained
<1>2. \A k \in 1..n : /\ To(q[k]) \in Nat /\ From(q[k]) \in Nat /\ From(q[k]) < To(q[k])
  BY GoodFacts DEF Chained
<1>3. \A k \in 1..n : k < n => From(q[k + 1]) = To(q[k])
  BY DEF Chained
<1> HIDE DEF n
<1>4. 0 \in T
  OBVIOUS
<1>5. ASSUME NEW d \in T PROVE d + 1 \in T
  <2> SUFFICES ASSUME i + (d + 1) <= n PROVE To(q[i]) <= From(q[i + (d + 1)])
    OBVIOUS
  <2>1. d \in Nat /\ i + d \in 1..n /\ i + d < n /\ i + (d + 1) \in 1..n
        /\ (i + d) + 1 = i + (d + 1) /\ i + d <= n
    BY <1>1
  <2>2. From(q[i + (d + 1)]) = To(q[i + d])
    BY <1>3, <2>1
  <2>3. CASE d = 0
    <3>1. i + d = i
      BY <1>1, <2>3
    <3> QED BY <1>1, <1>2, <2>1, <2>2, <3>1
  <2>4. CASE d # 0
    <3>1. To(q[i]) <= From(q[i + d])
      BY <1>5, <2>1, <2>4
    <3>2. From(q[i + d]) < To(q[i + d]) /\ From(q[i + d]) \in Nat /\ To(q[i + d]) \in Nat
          /\ To(q[i]) \in Nat
      BY <1>1, <1>2, <2>1
    <3> QED BY <2>2, <3>1, <3>2
  <2> QED BY <2>3, <2>4
<1>6. T = Nat
  <2> HIDE DEF T
  <2>1. T \in SUBSET Nat
    BY DEF T
  <2> QED BY <1>4, <1>5, <2>1, SetInduction
<1>7. j - i \in T
  <2>1. j - i \in Nat
    BY <1>1
  <2> HIDE DEF T
  <2> QED BY <1>6, <2>1
<1>8. i + (j - i) = j /\ i + (j - i) <= n /\ j - i # 0
  BY <1>1
<1> QED BY <1>7, <1>8

LEMMA ChainEmpty ==
  ASSUME NEW x, NEW w, NEW mss PROVE Chained(<< >>, x, x, w, mss)
BY DEF Chained

LEMMA ChainSingle ==
  ASSUME NEW seg, NEW w, NEW mss, Good(seg, w, mss)
  PROVE  Chained(<<seg>>, From(seg), To(seg), w, mss)
<1>1. <<seg>> \in Seq(Segs) /\ Len(<<seg>>) = 1 /\ <<seg>>[1] = seg /\ <<seg>> # << >>
  BY DEF Good
<1> QED BY <1>1 DEF Chained

LEMMA ChainConcat ==
  ASSUME NEW q, NEW r, NEW lo, NEW mid, NEW hi, NEW w, NEW mss,
         Chained(q, lo, mid, w, mss), Chained(r, mid, hi, w, mss)
  PROVE  Chained(q \o r, lo, hi, w, mss)
<1> DEFINE c == q \o r
<1>1. /\ q \in Seq(Segs) /\ Len(q) \in Nat
      /\ r \in Seq(Segs) /\ Len(r) \in Nat
  BY DEF Chained
<1>2. CASE q = << >>
  BY <1>1, <1>2 DEF Chained
<1>3. CASE r = << >>
  BY <1>1, <1>3 DEF Chained
<1>4. CASE q # << >> /\ r # << >>
  <2>1. /\ c \in Seq(Segs) /\ Len(c) = Len(q) + Len(r)
        /\ \A i \in 1..(Len(q) + Len(r)) :
             c[i] = IF i <= Len(q) THEN q[i] ELSE r[i - Len(q)]
    BY <1>1, ConcatProperties
  <2>2. Len(q) # 0 /\ Len(r) # 0
    BY <1>1, <1>4, EmptySeq
  <2> HIDE DEF c
  <2>3. ASSUME NEW i \in 1..Len(c) PROVE Good(c[i], w, mss)
    <3>1. CASE i <= Len(q)
      BY <1>1, <2>1, <3>1 DEF Chained
    <3>2. CASE i > Len(q)
      <4>1. i - Len(q) \in 1..Len(r) /\ c[i] = r[i - Len(q)]
        BY <1>1, <2>1, <3>2
      <4> QED BY <4>1 DEF Chained
    <3> QED BY <1>1, <2>1, <3>1, <3>2
  <2>4. ASSUME NEW i \in 1..Len(c), i < Len(c) PROVE From(c[i + 1]) = To(c[i])
    <3>1. CASE i < Len(q)
      <4>1. i \in 1..Len(q) /\ c[i] = q[i] /\ c[i + 1] = q[i + 1]
        BY <1>1, <2>1, <2>4, <3>1
      <4> QED BY <3>1, <4>1 DEF Chained
    <3>2. CASE i = Len(q)
      <4>1. c[i] = q[Len(q)] /\ c[i + 1] = r[1]
        <5>1. i + 1 \in 1..(Len(q) + Len(r)) /\ ~(i + 1 <= Len(q)) /\ (i + 1) - Len(q) = 1
              /\ i \in 1..(Len(q) + Len(r)) /\ i <= Len(q)
          BY <1>1, <2>1, <2>2, <3>2
        <5> QED BY <2>1, <3>2, <5>1
      <4> QED BY <1>4, <4>1 DEF Chained
    <3>3. CASE i > Len(q)
      <4>1. /\ i - Len(q) \in 1..Len(r) /\ i - Len(q) < Len(r)
            /\ (i + 1) - Len(q) = (i - Len(q)) + 1
            /\ i + 1 \in 1..(Len(q) + Len(r)) /\ ~(i + 1 <= Len(q)) /\ ~(i <= Len(q))
        BY <1>1, <2>1, <2>4, <3>3
      <4>2. c[i] = r[i - Len(q)] /\ c[i + 1] = r[(i - Len(q)) + 1]
        BY <2>1, <4>1
      <4> QED BY <4>1, <4>2 DEF Chained
    <3> QED BY <1>1, <2>1, <3>1, <3>2, <3>3
  <2>5. c # << >> /\ c[1] = q[1] /\ c[Len(c)] = r[Len(r)]
    <3>1. Len(c) # 0 /\ 1 \in 1..(Len(q) + Len(r)) /\ 1 <= Len(q)
          /\ Len(c) \in 1..(Len(q) + Len(r)) /\ ~(Len(c) <= Len(q))
          /\ Len(c) - Len(q) = Len(r)
      BY <1>1, <2>1, <2>2
    <3> QED BY <2>1, <3>1
  <2>6. From(c[1]) = lo /\ To(c[Len(c)]) = hi
    BY <1>4, <2>5 DEF Chained
  <2>7. Chained(c, lo, hi, w, mss)
    BY <2>1, <2>3, <2>4, <2>5, <2>6 DEF Chained
  <2> QED BY <2>7 DEF c
<1> QED BY <1>2, <1>3, <1>4

\* The first n segments of a chain end where the rest begins.
Cut(q, lo, n) == IF n = 0 THEN lo ELSE To(q[n])

LEMMA ChainCut ==
  ASSUME NEW q, NEW lo, NEW hi, NEW w, NEW mss, Chained(q, lo, hi, w, mss),
         NEW n \in 0..Len(q)
  PROVE  /\ Chained(SubSeq(q, 1, n), lo, Cut(q, lo, n), w, mss)
         /\ Chained(SubSeq(q, n + 1, Len(q)), Cut(q, lo, n), hi, w, mss)
<1> DEFINE f == SubSeq(q, 1, n)
           r == SubSeq(q, n + 1, Len(q))
<1>1. q \in Seq(Segs) /\ Len(q) \in Nat /\ n \in Nat /\ n <= Len(q)
  BY DEF Chained
<1>2. f \in Seq(Segs) /\ Len(f) = n /\ \A j \in 1..n : f[j] = q[j]
  BY <1>1, FrontFacts
<1>3. /\ r \in Seq(Segs) /\ Len(r) = Len(q) - n
      /\ \A j \in 1..(Len(q) - n) : r[j] = q[n + j]
      /\ r = << >> <=> n = Len(q)
  BY <1>1, SuffixFacts
<1> HIDE DEF f, r
<1>4. Chained(f, lo, Cut(q, lo, n), w, mss)
  <2>1. ASSUME NEW i \in 1..Len(f) PROVE Good(f[i], w, mss)
    BY <1>1, <1>2 DEF Chained
  <2>2. ASSUME NEW i \in 1..Len(f), i < Len(f) PROVE From(f[i + 1]) = To(f[i])
    <3>1. i \in 1..Len(q) /\ i < Len(q) /\ i \in 1..n /\ i + 1 \in 1..n
      BY <1>1, <1>2, <2>2
    <3> QED BY <1>2, <3>1 DEF Chained
  <2>3. CASE n = 0
    <3>1. f = << >>
      BY <1>2, <2>3, EmptySeq
    <3> QED BY <2>3, <3>1 DEF Cut, Chained
  <2>4. CASE n # 0
    <3>1. f # << >> /\ f[1] = q[1] /\ f[Len(f)] = q[n] /\ q # << >>
      <4>1. 1 \in 1..n /\ n \in 1..n /\ Len(q) # 0
        BY <1>1, <2>4
      <4> QED BY <1>2, <2>4, <4>1, EmptySeq
    <3> QED BY <1>2, <2>1, <2>2, <2>4, <3>1 DEF Chained, Cut
  <2> QED BY <2>3, <2>4
<1>5. Chained(r, Cut(q, lo, n), hi, w, mss)
  <2>1. ASSUME NEW i \in 1..Len(r) PROVE Good(r[i], w, mss)
    <3>1. n + i \in 1..Len(q) /\ i \in 1..(Len(q) - n)
      BY <1>1, <1>3
    <3> QED BY <1>3, <3>1 DEF Chained
  <2>2. ASSUME NEW i \in 1..Len(r), i < Len(r) PROVE From(r[i + 1]) = To(r[i])
    <3>1. n + i \in 1..Len(q) /\ n + i < Len(q) /\ n + (i + 1) = (n + i) + 1
          /\ i \in 1..(Len(q) - n) /\ i + 1 \in 1..(Len(q) - n)
      BY <1>1, <1>3, <2>2
    <3>2. r[i] = q[n + i] /\ r[i + 1] = q[(n + i) + 1]
      BY <1>3, <3>1
    <3> QED BY <3>1, <3>2 DEF Chained
  <2>3. CASE n = Len(q)
    <3>1. r = << >>
      BY <1>3, <2>3
    <3>2. Cut(q, lo, n) = hi
      <4>1. q = << >> <=> Len(q) = 0
        BY <1>1, EmptySeq
      <4> QED BY <2>3, <4>1 DEF Cut, Chained
    <3> QED BY <3>1, <3>2 DEF Chained
  <2>4. CASE n # Len(q)
    <3>1. /\ r # << >> /\ r[1] = q[n + 1] /\ r[Len(r)] = q[Len(q)] /\ q # << >>
      <4>1. 1 \in 1..(Len(q) - n) /\ Len(q) - n \in 1..(Len(q) - n)
            /\ n + (Len(q) - n) = Len(q) /\ Len(q) # 0
        BY <1>1, <2>4
      <4> QED BY <1>1, <1>3, <2>4, <4>1, EmptySeq
    <3>2. From(r[1]) = Cut(q, lo, n)
      <4>1. CASE n = 0
        <5>1. n + 1 = 1
          BY <4>1
        <5> QED BY <3>1, <4>1, <5>1 DEF Cut, Chained
      <4>2. CASE n # 0
        <5>1. n \in 1..Len(q) /\ n < Len(q)
          BY <1>1, <2>4, <4>2
        <5> QED BY <3>1, <4>2, <5>1 DEF Cut, Chained
      <4> QED BY <4>1, <4>2
    <3> QED BY <1>3, <2>1, <2>2, <3>1, <3>2 DEF Chained
  <2> QED BY <2>3, <2>4
<1> QED BY <1>4, <1>5 DEF f, r

\* The first segment of a chain, and what follows it.
LEMMA ChainTail ==
  ASSUME NEW q, NEW lo, NEW hi, NEW w, NEW mss, Chained(q, lo, hi, w, mss), q # << >>
  PROVE  /\ Chained(Tail(q), To(q[1]), hi, w, mss)
         /\ Good(q[1], w, mss) /\ From(q[1]) = lo /\ q = <<q[1]>> \o Tail(q)
         /\ Tail(q) \in Seq(Segs) /\ q \in Seq(Segs) /\ Len(q) \in Nat \ {0}
<1>1. q \in Seq(Segs) /\ Len(q) \in Nat /\ Len(q) # 0
  BY EmptySeq DEF Chained
<1>2. 1 \in 0..Len(q) /\ 1 \in 1..Len(q)
  BY <1>1
<1>3. Chained(SubSeq(q, 1 + 1, Len(q)), Cut(q, lo, 1), hi, w, mss)
  BY <1>2, ChainCut
<1>4. SubSeq(q, 1 + 1, Len(q)) = Tail(q)
  BY <1>1
<1>5. Cut(q, lo, 1) = To(q[1])
  BY DEF Cut
<1>6. q = <<q[1]>> \o Tail(q) /\ Tail(q) \in Seq(Segs)
  BY <1>1
<1> QED BY <1>1, <1>2, <1>3, <1>4, <1>5, <1>6 DEF Chained

\* More may be written while a chain stays.
LEMMA ChainWritten ==
  ASSUME NEW q, NEW lo, NEW hi, NEW w \in Nat, NEW v \in Nat, w <= v, NEW mss,
         Chained(q, lo, hi, w, mss)
  PROVE  Chained(q, lo, hi, v, mss)
<1>1. ASSUME NEW i \in 1..Len(q) PROVE Good(q[i], v, mss)
  <2>1. Good(q[i], w, mss)
    BY DEF Chained
  <2>2. DataTo(q[i]) \in Int
    <3>1. q[i] \in Segs /\ From(q[i]) \in 0..N
      BY <2>1 DEF Good
    <3>2. Len(q[i].data) \in Nat
      BY <3>1 DEF Segs
    <3> QED BY <3>1, <3>2 DEF DataTo
  <2> QED BY <2>1, <2>2 DEF Good
<1> QED BY <1>1 DEF Chained

\* A chain goes forward.
LEMMA ChainEnds ==
  ASSUME NEW q, NEW lo \in Int, NEW hi \in Int, NEW w \in 0..N, NEW mss \in Nat,
         Chained(q, lo, hi, w, mss)
  PROVE  /\ lo <= hi /\ (q # << >> => lo < hi)
         /\ \A i \in 1..Len(q) : lo <= From(q[i]) /\ To(q[i]) <= hi
<1>1. ASSUME NEW i \in 1..Len(q) PROVE lo <= From(q[i]) /\ To(q[i]) <= hi
  <2> DEFINE n == Len(q)
  <2>1. q \in Seq(Segs) /\ n \in Nat /\ i \in Nat /\ 1 <= i /\ i <= n
    BY DEF Chained
  <2>2. q # << >> /\ From(q[1]) = lo /\ To(q[n]) = hi
    BY <2>1 DEF Chained
  <2> HIDE DEF n
  <2>3. 1 \in 1..n /\ n \in 1..n
    BY <2>1
  <2>4. \A k \in 1..n : From(q[k]) \in Nat /\ To(q[k]) \in Nat /\ From(q[k]) < To(q[k])
    BY GoodFacts DEF Chained, n
  <2>5. lo <= From(q[i])
    <3>1. CASE i = 1
      BY <2>2, <3>1
    <3>2. CASE i # 1
      <4>1. To(q[1]) <= From(q[i])
        BY <2>1, <2>3, <3>2, ChainOrder DEF n
      <4> QED BY <2>1, <2>2, <2>3, <2>4, <4>1
    <3> QED BY <3>1, <3>2
  <2>6. To(q[i]) <= hi
    <3>1. CASE i = n
      BY <2>2, <3>1
    <3>2. CASE i # n
      <4>1. To(q[i]) <= From(q[n])
        BY <2>1, <2>3, <3>2, ChainOrder DEF n
      <4> QED BY <2>1, <2>2, <2>3, <2>4, <4>1
    <3> QED BY <3>1, <3>2
  <2> QED BY <2>5, <2>6
<1>2. CASE q = << >>
  BY <1>1, <1>2 DEF Chained
<1>3. CASE q # << >>
  <2>1. 1 \in 1..Len(q)
    BY <1>3, ChainTail
  <2>2. Good(q[1], w, mss)
    BY <2>1 DEF Chained
  <2>3. From(q[1]) \in Nat /\ To(q[1]) \in Nat /\ From(q[1]) < To(q[1])
    BY <2>2, GoodFacts
  <2>4. lo <= From(q[1]) /\ To(q[1]) <= hi
    BY <1>1, <2>1
  <2>5. lo < hi
    BY <2>3, <2>4
  <2> QED BY <1>1, <2>5
<1> QED BY <1>2, <1>3

-----------------------------------------------------------------------------
(* Walks over a queue.                                                     *)

LEMMA WalkFacts ==
  ASSUME NEW q, Len(q) \in Nat, NEW s, s \subseteq 1..Len(q)
  PROVE  /\ Walk(q, s) \in 0..Len(q) /\ 1..Walk(q, s) \subseteq s
         /\ Walk(q, s) + 1 \notin s
<1> DEFINE T == {k \in Nat : k + 1 \notin s}
<1>1. Len(q) \in T
  BY DEF T
<1>2. PICK x \in T : \A y \in T : x <= y
  <2> HIDE DEF T
  <2>1. T \in SUBSET Nat
    BY DEF T
  <2> QED BY <1>1, <2>1, LeastNumber
<1>3. x \in Nat /\ x <= Len(q) /\ x + 1 \notin s
  BY <1>1, <1>2
<1>4. ASSUME NEW i \in 1..x PROVE i \in s
  <2>1. i - 1 \in Nat /\ ~(x <= i - 1) /\ (i - 1) + 1 = i
    BY <1>3
  <2>2. i - 1 \notin T
    BY <1>2, <2>1
  <2> QED BY <2>1, <2>2
<1>5. x \in 0..Len(q) /\ 1..x \subseteq s /\ x + 1 \notin s
  BY <1>3, <1>4
<1> QED BY <1>5 DEF Walk

\* What is left of a chain when the segments that end by position x are freed.
FreedTo(q, r, lo, hi, x, w, mss) ==
  \E n \in 0..Len(q) :
    /\ r = SubSeq(q, n + 1, Len(q))
    /\ Chained(r, Cut(q, lo, n), hi, w, mss)
    /\ \A i \in 1..n : To(q[i]) <= x
    /\ r # << >> => r[1] = q[n + 1] /\ n + 1 \in 1..Len(q) /\ x < To(r[1])
    /\ r = << >> => n = Len(q)

LEMMA FreedOk ==
  ASSUME NEW q, NEW lo, NEW hi, NEW w \in 0..N, NEW mss \in Nat,
         Chained(q, lo, hi, w, mss), NEW x \in Int
  PROVE  FreedTo(q, Freed(q, {i \in DOMAIN q : To(q[i]) <= x}), lo, hi, x, w, mss)
<1> DEFINE s == {i \in DOMAIN q : To(q[i]) <= x}
           n == Walk(q, s)
           r == SubSeq(q, n + 1, Len(q))
<1>1. q \in Seq(Segs) /\ Len(q) \in Nat /\ DOMAIN q = 1..Len(q)
  BY DEF Chained
<1>2. \A i \in 1..Len(q) : To(q[i]) \in Nat
  BY GoodFacts DEF Chained
<1>3. n \in 0..Len(q) /\ 1..n \subseteq s /\ n + 1 \notin s
  <2>1. s \subseteq 1..Len(q)
    BY <1>1
  <2> HIDE DEF s
  <2> QED BY <1>1, <2>1, WalkFacts
<1> HIDE DEF n, s
<1>10. n \in 0..Len(q)
  BY <1>3
<1>4. Chained(r, Cut(q, lo, n), hi, w, mss)
  BY <1>10, ChainCut
<1>5. \A i \in 1..n : To(q[i]) <= x
  <2> SUFFICES ASSUME NEW i \in 1..n PROVE To(q[i]) <= x
    OBVIOUS
  <2>1. i \in s
    BY <1>3
  <2> QED BY <2>1 DEF s
<1>6. /\ r \in Seq(Segs) /\ Len(r) = Len(q) - n
      /\ \A j \in 1..(Len(q) - n) : r[j] = q[n + j]
      /\ r = << >> <=> n = Len(q)
  BY <1>1, <1>10, SuffixFacts, ZenonT(40)
<1>7. r # << >> => r[1] = q[n + 1] /\ n + 1 \in 1..Len(q) /\ x < To(r[1])
  <2> SUFFICES ASSUME r # << >> PROVE r[1] = q[n + 1] /\ n + 1 \in 1..Len(q) /\ x < To(r[1])
    OBVIOUS
  <2>1. n # Len(q)
    BY <1>6
  <2>2. n + 1 \in 1..Len(q) /\ 1 \in 1..(Len(q) - n)
    <3> DEFINE l == Len(q)
    <3>1. Len(q) \in Nat
      BY <1>1
    <3>3. n \in Nat /\ n <= l /\ l \in Nat /\ n # l
      BY <3>1, <1>10, <2>1
    <3> HIDE DEF l
    <3>2. n + 1 \in 1..l /\ 1 \in 1..(l - n)
      BY <3>3
    <3> QED BY <3>2 DEF l
  <2>3. r[1] = q[n + 1]
    BY <1>6, <2>2
  <2>4. ~(To(q[n + 1]) <= x)
    BY <1>1, <1>3, <2>2 DEF s
  <2> QED BY <1>2, <2>2, <2>3, <2>4
<1>8. Freed(q, s) = r
  BY DEF Freed, n
<1> HIDE DEF r, s
<1>9. FreedTo(q, r, lo, hi, x, w, mss)
  BY <1>10, <1>4, <1>5, <1>6, <1>7 DEF FreedTo, r
<1> QED BY <1>8, <1>9 DEF s

\* A walk that stops at the head leaves the queue.
LEMMA FreedNone ==
  ASSUME NEW q \in Seq(Segs), NEW s, s \subseteq DOMAIN q, 1 \notin s
  PROVE  Freed(q, s) = q
<1> DEFINE n == Walk(q, s)
<1>1. Len(q) \in Nat /\ DOMAIN q = 1..Len(q)
  OBVIOUS
<1>2. n \in 0..Len(q) /\ 1..n \subseteq s
  BY <1>1, WalkFacts
<1> HIDE DEF n
<1>3. n = 0
  <2>1. CASE n # 0
    <3>1. 1 \in 1..n
      BY <1>1, <1>2, <2>1
    <3> QED BY <1>2, <3>1
  <2> QED BY <2>1
<1>4. SubSeq(q, 1, Len(q)) = q
  OBVIOUS
<1>5. n + 1 = 1
  BY <1>3
<1> QED BY <1>4, <1>5 DEF Freed, n

\* A segment that comes before the head of a queue becomes its head.
LEMMA InsertFront ==
  ASSUME NEW q \in Seq(Segs), NEW seg,
         q # << >> => ~TCP_SEQ_LT(q[1].seqno, seg.seqno)
  PROVE  Insert(q, seg) = <<seg>> \o q
<1> DEFINE s == {i \in DOMAIN q : TCP_SEQ_LT(q[i].seqno, seg.seqno)}
           n == Walk(q, s)
<1>1. Len(q) \in Nat /\ DOMAIN q = 1..Len(q)
  OBVIOUS
<1>2. 1 \notin s
  <2>1. q = << >> => DOMAIN q = {}
    OBVIOUS
  <2> QED BY <2>1
<1>3. n \in 0..Len(q) /\ 1..n \subseteq s
  <2>1. s \subseteq 1..Len(q)
    BY <1>1
  <2> HIDE DEF s
  <2> QED BY <1>1, <2>1, WalkFacts
<1>4. Insert(q, seg) = SubSeq(q, 1, n) \o <<seg>> \o SubSeq(q, n + 1, Len(q))
  BY DEF Insert
<1> HIDE DEF n, s
<1>5. n = 0
  <2>1. CASE n # 0
    <3>1. 1 \in 1..n
      BY <1>1, <1>3, <2>1
    <3> QED BY <1>2, <1>3, <3>1
  <2> QED BY <2>1
<1>6. SubSeq(q, 1, Len(q)) = q /\ SubSeq(q, 1, 0) = << >> /\ 0 + 1 = 1
  BY <1>1
<1>7. << >> \o <<seg>> = <<seg>>
  OBVIOUS
<1> QED BY <1>4, <1>5, <1>6, <1>7

-----------------------------------------------------------------------------
(* The pcb, and one turn of the loop of tcp_output().                      *)

States == {"SYN_SENT", "ESTABLISHED", "FIN_WAIT_1", "GONE"}

Pcbs ==
  [state : States, mss : 1..TCP_MSS, snd_nxt : Seqs, snd_lbb : Seqs, lastack : Seqs,
   snd_wnd : 0..PeerBuf, snd_wl1 : {-1, 1}, snd_wl2 : Seqs, snd_buf : 0..(W - 1),
   snd_queuelen : Int, unsent : Seq(Segs), unacked : Seq(Segs), rtime : BOOLEAN,
   persist : BOOLEAN, nrtx : 0..(W8 - 1), dupacks : 0..(W8 - 1), cwnd : 1..(W - 1),
   ssthresh : 1..(W - 1), infr : BOOLEAN, memerr : BOOLEAN, tf_fin : BOOLEAN]

Wires == [seqno : Seqs, data : Seq(Nat), fin : BOOLEAN, syn : BOOLEAN]

Outs == [pcb : Pcbs, sent : SUBSET Wires]

LEMMA SegTypes ==
  ASSUME NEW seg \in Segs
  PROVE  SegEnd(seg) \in Seqs /\ Wire(seg) \in Wires /\ TCP_TCPLEN(seg) \in Nat
<1>1. /\ seg.seqno \in Seqs /\ seg.data \in Seq(Nat) /\ Len(seg.data) \in Nat
      /\ seg.fin \in BOOLEAN /\ seg.syn \in BOOLEAN
  BY DEF Segs
<1>2. TCP_TCPLEN(seg) \in Nat
  <2>1. Count(seg.fin \/ seg.syn) \in Nat
    BY DEF Count
  <2> QED BY <1>1, <2>1 DEF TCP_TCPLEN
<1> DEFINE n == TCP_TCPLEN(seg)
           x == seg.seqno
<1>3. SegEnd(seg) \in Seqs
  <2>1. n \in Nat /\ x \in Int /\ M \in Nat \ {0}
    BY <1>1, <1>2, SpaceFacts DEF Seqs
  <2> HIDE DEF n, x
  <2>2. (x + n) % M \in 0..(M - 1)
    BY <2>1
  <2> QED BY <2>2 DEF SegEnd, Plus, Seqs, n, x
<1>4. Wire(seg) \in Wires
  BY <1>1 DEF Wire, Wires
<1> QED BY <1>2, <1>3, <1>4

\* Insert keeps the type of a queue.
LEMMA InsertType ==
  ASSUME NEW q \in Seq(Segs), NEW seg \in Segs
  PROVE  Insert(q, seg) \in Seq(Segs)
<1> DEFINE s == {i \in DOMAIN q : TCP_SEQ_LT(q[i].seqno, seg.seqno)}
           n == Walk(q, s)
<1>1. Len(q) \in Nat /\ DOMAIN q = 1..Len(q)
  OBVIOUS
<1>2. n \in 0..Len(q)
  <2>1. s \subseteq 1..Len(q)
    BY <1>1
  <2> HIDE DEF s
  <2> QED BY <1>1, <2>1, WalkFacts
<1>3. Insert(q, seg) = SubSeq(q, 1, n) \o <<seg>> \o SubSeq(q, n + 1, Len(q))
  BY DEF Insert
<1> HIDE DEF n
<1>4. SubSeq(q, 1, n) \in Seq(Segs) /\ SubSeq(q, n + 1, Len(q)) \in Seq(Segs)
  BY <1>2, FrontFacts, SuffixFacts
<1>5. <<seg>> \in Seq(Segs)
  OBVIOUS
<1>6. SubSeq(q, 1, n) \o <<seg>> \in Seq(Segs)
  BY <1>4, <1>5
<1> QED BY <1>3, <1>4, <1>6

\* What a turn of the loop, and nothing else, changes.
Moved(p, q, us, ua, nxt) ==
  /\ q \in Pcbs /\ q.unsent = us /\ q.unacked = ua /\ q.snd_nxt = nxt
  /\ q.state = p.state /\ q.mss = p.mss /\ q.snd_lbb = p.snd_lbb /\ q.lastack = p.lastack
  /\ q.snd_wnd = p.snd_wnd /\ q.snd_wl1 = p.snd_wl1 /\ q.snd_wl2 = p.snd_wl2
  /\ q.snd_buf = p.snd_buf /\ q.snd_queuelen = p.snd_queuelen /\ q.persist = p.persist
  /\ q.nrtx = p.nrtx /\ q.dupacks = p.dupacks /\ q.cwnd = p.cwnd
  /\ q.ssthresh = p.ssthresh /\ q.infr = p.infr /\ q.memerr = p.memerr
  /\ q.tf_fin = p.tf_fin

Move(p, us, ua, nxt) ==
  [p EXCEPT !.unsent = us, !.snd_nxt = nxt, !.unacked = ua, !.rtime = TRUE]

LEMMA MovedOk ==
  ASSUME NEW p \in Pcbs, NEW us \in Seq(Segs), NEW ua \in Seq(Segs), NEW nxt \in Seqs
  PROVE  Moved(p, Move(p, us, ua, nxt), us, ua, nxt) /\ Move(p, us, ua, nxt).rtime
BY DEF Pcbs, Moved, Move

\* Where the loop puts a segment that it sends.
Placed(u, seg) ==
  IF u # <<>> /\ TCP_SEQ_LT(seg.seqno, u[Len(u)].seqno) THEN Insert(u, seg) ELSE Append(u, seg)

Later(x, y) == IF TCP_SEQ_LT(x, y) THEN y ELSE x

LEMMA SendHeadMoves ==
  ASSUME NEW p \in Pcbs, p.unsent # << >>
  PROVE  /\ Moved(p, SendHead(p), Tail(p.unsent), Placed(p.unacked, p.unsent[1]),
                  Later(p.snd_nxt, SegEnd(p.unsent[1])))
         /\ SendHead(p).rtime
         /\ p.unsent[1] \in Segs
<1> DEFINE h  == p.unsent[1]
           us == Tail(p.unsent)
           ua == Placed(p.unacked, h)
           nxt == Later(p.snd_nxt, SegEnd(h))
<1>1. p.unsent \in Seq(Segs) /\ p.unacked \in Seq(Segs) /\ p.snd_nxt \in Seqs
  BY DEF Pcbs
<1>2. h \in Segs /\ us \in Seq(Segs)
  <2>1. Len(p.unsent) \in Nat \ {0}
    BY <1>1, EmptySeq
  <2> DEFINE q == p.unsent
  <2>2. q \in Seq(Segs) /\ Len(q) \in Nat /\ Len(q) # 0
    BY <1>1, <2>1
  <2> HIDE DEF q
  <2>3. q[1] \in Segs /\ Tail(q) \in Seq(Segs)
    BY <2>2
  <2> QED BY <2>3 DEF q
<1>3. nxt \in Seqs
  BY <1>1, <1>2, SegTypes DEF Later
<1>4. ua \in Seq(Segs)
  <2>1. Append(p.unacked, h) \in Seq(Segs) /\ Insert(p.unacked, h) \in Seq(Segs)
    <3> HIDE DEF h
    <3>1. Insert(p.unacked, h) \in Seq(Segs)
      BY <1>1, <1>2, InsertType
    <3>2. Append(p.unacked, h) \in Seq(Segs)
      BY <1>1, <1>2
    <3> QED BY <3>1, <3>2
  <2> QED BY <2>1 DEF Placed
<1>5. SendHead(p) = Move(p, us, ua, nxt)
  BY Zenon DEF SendHead, Placed, Later, Move
<1> HIDE DEF h, us, ua, nxt
<1>6. Moved(p, SendHead(p), us, ua, nxt) /\ SendHead(p).rtime
  BY <1>2, <1>3, <1>4, <1>5, MovedOk
<1> QED BY <1>2, <1>6 DEF h, us, ua, nxt

OneTurn(r) ==
  IF Goes(r.pcb)
  THEN [pcb |-> SendHead(r.pcb), sent |-> r.sent \cup {Wire(r.pcb.unsent[1])}]
  ELSE r

LEMMA OneTurnType ==
  ASSUME NEW r \in Outs PROVE OneTurn(r) \in Outs
<1>1. r.pcb \in Pcbs /\ r.sent \in SUBSET Wires
  BY DEF Outs
<1>2. CASE Goes(r.pcb)
  <2>1. r.pcb.unsent # << >>
    BY <1>2 DEF Goes
  <2>2. SendHead(r.pcb) \in Pcbs /\ r.pcb.unsent[1] \in Segs
    BY <1>1, <2>1, SendHeadMoves DEF Moved
  <2>3. Wire(r.pcb.unsent[1]) \in Wires
    BY <2>2, SegTypes
  <2> QED BY <1>1, <1>2, <2>2, <2>3 DEF OneTurn, Outs
<1>3. CASE ~Goes(r.pcb)
  BY <1>3 DEF OneTurn
<1> QED BY <1>2, <1>3

\* The turns of the loop, one by one.
TurnsRun(p, f) ==
  /\ f \in [0..Len(p.unsent) -> Outs]
  /\ f[0] = [pcb |-> p, sent |-> {}]
  /\ \A i \in 1..Len(p.unsent) : f[i] = OneTurn(f[i - 1])
  /\ Turns(p) = f[Len(p.unsent)]

LEMMA TurnsRuns ==
  ASSUME NEW p \in Pcbs
  PROVE  Len(p.unsent) \in Nat /\ \E f : TurnsRun(p, f)
<1> DEFINE l == Len(p.unsent)
           first == [pcb |-> p, sent |-> {}]
           Sol(f) == f = [i \in 0..l |-> IF i = 0 THEN first ELSE OneTurn(f[i - 1])]
           g == [t \in Outs \X Nat |-> OneTurn(t[1])]
<1>1. l \in Nat
  BY DEF Pcbs
<1>2. first \in Outs
  BY DEF Outs
<1>3. g \in [Outs \X Nat -> Outs]
  BY OneTurnType
<1>4. \E f : Sol(f)
  <2> HIDE DEF g, first, l
  <2>0. StepFunction(Outs, g, first, l)
    BY <1>1, <1>2, <1>3 DEF StepFunction
  <2>a. PICK f : IsRecursion(f, Outs, g, first, l)
    BY <2>0, RecursionExists
  <2>1. /\ f \in [0..l -> Outs] /\ f[0] = first
        /\ \A i \in 1..l : f[i] = g[<<f[i - 1], i>>]
    BY <2>a DEF IsRecursion
  <2>2. ASSUME NEW i \in 1..l PROVE f[i] = OneTurn(f[i - 1])
    <3>1. i - 1 \in 0..l /\ i \in Nat
      BY <1>1
    <3>2. f[i - 1] \in Outs
      BY <2>1, <3>1
    <3>3. g[<<f[i - 1], i>>] = OneTurn(f[i - 1])
      BY <3>1, <3>2 DEF g
    <3> QED BY <2>1, <3>3
  <2>3. \A i \in 0..l : i # 0 => i \in 1..l
    BY <1>1
  <2>4. Sol(f)
    BY <2>1, <2>2, <2>3
  <2> QED BY <2>4
<1> DEFINE run == CHOOSE f : Sol(f)
<1>5. Sol(run)
  <2> HIDE DEF Sol
  <2> QED BY <1>4
<1>6. Turns(p) = run[l]
  BY DEF Turns, OneTurn
<1> HIDE DEF run, first
<1>7. run[0] = first
  BY <1>1, <1>5
<1>8. ASSUME NEW i \in 1..l PROVE run[i] = OneTurn(run[i - 1])
  <2>1. i \in 0..l /\ i # 0
    BY <1>1
  <2> QED BY <1>5, <2>1
<1>9. ASSUME NEW i \in 0..l PROVE run[i] \in Outs
  <2> DEFINE T == {j \in 0..l : run[j] \in Outs}
  <2>1. 0 \in T
    BY <1>1, <1>2, <1>7
  <2>2. ASSUME NEW j \in 0..l, j \in T, j < l PROVE j + 1 \in T
    <3>1. j + 1 \in 1..l /\ (j + 1) - 1 = j /\ j + 1 \in 0..l
      BY <1>1, <2>2
    <3>2. run[j + 1] = OneTurn(run[j])
      BY <1>8, <3>1
    <3>3. run[j] \in Outs
      BY <2>2
    <3>4. run[j + 1] \in Outs
      BY <3>2, <3>3, OneTurnType
    <3> QED BY <3>1, <3>4
  <2> HIDE DEF T
  <2>3. \A j \in 0..l : j \in T
    BY <1>1, <2>1, <2>2, BoundedInduction
  <2> QED BY <2>3 DEF T
<1>10. run \in [0..l -> Outs]
  <2>1. DOMAIN run = 0..l /\ run = [i \in 0..l |-> run[i]]
    BY <1>5
  <2> QED BY <1>9, <2>1
<1>11. TurnsRun(p, run)
  BY <1>6, <1>7, <1>8, <1>10 DEF TurnsRun, first
<1> QED BY <1>1, <1>11

-----------------------------------------------------------------------------
(* A connected pcb.                                                        *)

AckPos(p) == Pos(p.lastack)

NxtPos(p) == Pos(p.snd_nxt)

LbbPos(p) == Pos(p.snd_lbb)

\* The numbers of the pcb are in order, and the last one is what was written.
Marks(p, w) ==
  /\ p \in Pcbs /\ w \in 0..N
  /\ p.state \in {"ESTABLISHED", "FIN_WAIT_1"}
  /\ p.tf_fin <=> p.state = "FIN_WAIT_1"
  /\ p.tf_fin => w = N
  /\ LbbPos(p) = w + Count(p.tf_fin)
  /\ 0 <= AckPos(p) /\ AckPos(p) <= NxtPos(p) /\ NxtPos(p) <= LbbPos(p)

\* unacked is a chain from lo to mid, unsent one from there to snd_lbb; the first
\* byte that is not acknowledged is in the first segment.
Split(p, w, lo, mid) ==
  /\ lo <= AckPos(p) /\ mid <= NxtPos(p)
  /\ Chained(p.unacked, lo, mid, w, p.mss)
  /\ Chained(p.unsent, mid, LbbPos(p), w, p.mss)
  /\ p.unacked # <<>> => AckPos(p) < To(p.unacked[1])
  /\ p.unacked = <<>> /\ p.unsent # <<>> => AckPos(p) < To(p.unsent[1])

Ordered(p, w) == Marks(p, w) /\ \E lo, mid \in 0..(N + 1) : Split(p, w, lo, mid)

\* What is sent and not acknowledged fits in the peer's window.
Fits(p) == \A i \in 1..Len(p.unacked) : DataTo(p.unacked[i]) <= AckPos(p) + p.snd_wnd

\* u32_t arithmetic on numbers in play.
LEMMA ReachIs ==
  ASSUME NEW s \in Seqs, NEW t \in Seqs, Pos(s) \in Places, Pos(t) \in Places,
         NEW k \in Nat, Pos(s) - Pos(t) + k \in 0..(M - 1)
  PROVE  (s - t + k) % M = Pos(s) - Pos(t) + k
<1> DEFINE h == M \div 2
           e == Pos(s) - Pos(t)
           d == s - t + h
           r == d % M
<1>1. Minus(s, t) = e
  BY Compare
<1>2. M \in Nat \ {0} /\ h \in Nat /\ s \in Int /\ t \in Int /\ e \in Int
  BY SpaceFacts, PosForm DEF Seqs
<1>3. r - h = e
  BY <1>1 DEF Minus
<1>a. e + k \in 0..(M - 1)
  OBVIOUS
<1> HIDE DEF h, e
<1>4. d \in Int
  BY <1>2
<1>5. r \in Int
  BY <1>2, <1>4
<1>6. PICK q \in Int : d = q * M + r
  <2> HIDE DEF d
  <2> QED BY <1>2, <1>4, ModForm
<1>7. s - t + k = q * M + (e + k)
  <2> DEFINE z == q * M
  <2>1. z \in Int /\ d = z + r
    BY <1>2, <1>6
  <2> HIDE DEF z, r
  <2>2. s - t + k = z + (e + k)
    BY <1>2, <1>3, <1>5, <2>1
  <2> QED BY <2>2 DEF z
<1>8. (q * M + (e + k)) % M = e + k
  BY <1>2, <1>a, ModUnique
<1> QED BY <1>7, <1>8 DEF e

\* The numbers of a connected pcb are places of the stream.
LEMMA MarkFacts ==
  ASSUME NEW p, NEW w, Marks(p, w)
  PROVE  /\ p \in Pcbs /\ w \in Nat /\ w <= N /\ w \in 0..N /\ N \in Nat
         /\ p.lastack \in Seqs /\ p.snd_nxt \in Seqs /\ p.snd_lbb \in Seqs
         /\ AckPos(p) \in Nat /\ NxtPos(p) \in Nat /\ LbbPos(p) \in Nat
         /\ AckPos(p) <= NxtPos(p) /\ NxtPos(p) <= LbbPos(p) /\ LbbPos(p) <= N + 1
         /\ AckPos(p) \in Places /\ NxtPos(p) \in Places /\ LbbPos(p) \in Places
         /\ p.mss \in Nat \ {0} /\ p.unsent \in Seq(Segs) /\ p.unacked \in Seq(Segs)
         /\ p.snd_wnd \in Nat /\ p.tf_fin \in BOOLEAN /\ p.cwnd \in Nat
<1>1. /\ p \in Pcbs /\ w \in 0..N /\ N \in Nat /\ TCP_MSS \in Nat /\ PeerBuf \in Nat /\ W \in Nat
      /\ (p.tf_fin => w = N) /\ LbbPos(p) = w + Count(p.tf_fin)
      /\ 0 <= AckPos(p) /\ AckPos(p) <= NxtPos(p) /\ NxtPos(p) <= LbbPos(p)
  BY SpaceFacts DEF Marks
<1>2. /\ p.lastack \in Seqs /\ p.snd_nxt \in Seqs /\ p.snd_lbb \in Seqs
      /\ p.mss \in 1..TCP_MSS /\ p.unsent \in Seq(Segs) /\ p.unacked \in Seq(Segs)
      /\ p.snd_wnd \in 0..PeerBuf /\ p.tf_fin \in BOOLEAN /\ p.cwnd \in 1..(W - 1)
  BY <1>1 DEF Pcbs
<1>3. AckPos(p) \in Int /\ NxtPos(p) \in Int /\ LbbPos(p) \in Int
  BY <1>2, PosForm DEF AckPos, NxtPos, LbbPos
<1>4. LbbPos(p) <= N + 1
  BY <1>1, <1>2 DEF Count
<1> DEFINE a == AckPos(p)
           x == NxtPos(p)
           b == LbbPos(p)
<1>5. a \in Int /\ x \in Int /\ b \in Int /\ 0 <= a /\ a <= x /\ x <= b /\ b <= N + 1
  BY <1>1, <1>3, <1>4
<1> HIDE DEF a, x, b
<1>6. a \in Nat /\ x \in Nat /\ b \in Nat /\ a \in Places /\ x \in Places /\ b \in Places
  BY <1>1, <1>5 DEF Places
<1> QED BY <1>1, <1>2, <1>5, <1>6, SMTT(30) DEF a, x, b

\* How far the head of the queues reaches beyond lastack.
LEMMA HeadReach ==
  ASSUME NEW p, NEW w, Marks(p, w), NEW seg, Good(seg, w, p.mss), AckPos(p) < To(seg)
  PROVE  /\ Reach(p, seg) = DataTo(seg) - AckPos(p) /\ AckPos(p) <= DataTo(seg)
<1> DEFINE a == AckPos(p)
           f == From(seg)
           k == Len(seg.data)
<1>1. /\ a \in Nat /\ a <= N + 1 /\ w \in 0..N /\ p.mss \in Nat /\ p.lastack \in Seqs
      /\ N \in Nat /\ 2 * (N + 3) < M /\ M \in Nat
  BY MarkFacts, SpaceFacts
<1>2. /\ seg.seqno \in Seqs /\ f \in Nat /\ k \in Nat /\ DataTo(seg) = f + k
      /\ f + k <= N /\ To(seg) <= (f + k) + 1 /\ To(seg) \in Nat /\ f \in Places
  BY <1>1, GoodFacts
<1>3. a \in Places /\ Pos(p.lastack) = a /\ Pos(seg.seqno) = f
  BY MarkFacts DEF AckPos, From
<1>4. a < To(seg)
  OBVIOUS
<1> HIDE DEF a, f, k
<1>5. f - a + k \in 0..(M - 1) /\ a <= f + k
  BY <1>1, <1>2, <1>4
<1>6. (seg.seqno - p.lastack + k) % M = f - a + k
  BY <1>1, <1>2, <1>3, <1>5, ReachIs
<1>7. Reach(p, seg) = f - a + k
  BY <1>6 DEF Reach, k
<1> QED BY <1>1, <1>2, <1>5, <1>7 DEF a

\* What a segment that is sent says: it is of the stream, not beyond snd_nxt and
\* in the peer's window.
Sendable(seg, p, w) ==
  /\ Good(seg, w, p.mss) /\ To(seg) <= NxtPos(p)
  /\ DataTo(seg) <= AckPos(p) + p.snd_wnd

\* The first unsent segment comes behind those of unacked.
LEMMA HeadLater ==
  ASSUME NEW p, NEW w, Marks(p, w), NEW lo \in Int, NEW mid \in Int, Split(p, w, lo, mid),
         p.unsent # << >>
  PROVE  /\ Placed(p.unacked, p.unsent[1]) = Append(p.unacked, p.unsent[1])
         /\ Good(p.unsent[1], w, p.mss) /\ From(p.unsent[1]) = mid
         /\ AckPos(p) < To(p.unsent[1])
<1> DEFINE h == p.unsent[1]
           u == p.unacked
           l == Len(u)
           x == u[l]
<1>1. /\ w \in 0..N /\ p.mss \in Nat /\ u \in Seq(Segs) /\ l \in Nat
      /\ AckPos(p) \in Nat /\ LbbPos(p) \in Int
  BY MarkFacts
<1>2. Chained(u, lo, mid, w, p.mss) /\ Chained(p.unsent, mid, LbbPos(p), w, p.mss)
      /\ (u # << >> => AckPos(p) < To(u[1])) /\ (u = << >> => AckPos(p) < To(h))
  BY DEF Split
<1>3. Good(h, w, p.mss) /\ From(h) = mid
  BY <1>2, ChainTail
<1>4. h.seqno \in Seqs /\ From(h) \in Places /\ From(h) \in Nat /\ To(h) \in Nat
      /\ From(h) < To(h)
  BY <1>1, <1>3, GoodFacts
<1>5. CASE u = << >>
  BY <1>2, <1>3, <1>5 DEF Placed
<1>6. CASE u # << >>
  <2>1. l \in 1..l /\ 1 \in 1..l
    BY <1>1, <1>6, EmptySeq
  <2>2. Good(x, w, p.mss) /\ To(x) = mid
    BY <1>2, <1>6, <2>1 DEF Chained
  <2>3. x.seqno \in Seqs /\ From(x) \in Places /\ From(x) < To(x) /\ From(x) \in Nat
    BY <1>1, <2>2, GoodFacts
  <2>4. TCP_SEQ_LT(h.seqno, x.seqno) <=> From(h) < From(x)
    <3> HIDE DEF h, x
    <3> QED BY <1>4, <2>3, Compare DEF From
  <2>5. ~TCP_SEQ_LT(h.seqno, x.seqno)
    BY <1>3, <1>4, <2>2, <2>3, <2>4
  <2>6. AckPos(p) < To(u[1]) /\ To(u[1]) <= mid /\ To(u[1]) \in Nat
    <3>1. Good(u[1], w, p.mss)
      BY <1>2, <2>1 DEF Chained
    <3> QED BY <1>1, <1>2, <1>6, <2>1, <3>1, ChainEnds, GoodFacts
  <2>7. AckPos(p) < To(h)
    BY <1>1, <1>3, <1>4, <2>6
  <2> QED BY <1>3, <2>5, <2>7 DEF Placed
<1> QED BY <1>5, <1>6

LEMMA LaterIs ==
  ASSUME NEW x \in Seqs, NEW y \in Seqs, Pos(x) \in Places, Pos(y) \in Places
  PROVE  /\ Later(x, y) \in {x, y} /\ Pos(x) <= Pos(Later(x, y)) /\ Pos(y) <= Pos(Later(x, y))
<1>1. TCP_SEQ_LT(x, y) <=> Pos(x) < Pos(y)
  BY Compare
<1>2. Pos(x) \in Int /\ Pos(y) \in Int
  BY PosForm
<1> QED BY <1>1, <1>2 DEF Later

LEMMA TurnOrdered ==
  ASSUME NEW p, NEW w, Ordered(p, w), Fits(p), Goes(p)
  PROVE  /\ Ordered(SendHead(p), w) /\ Fits(SendHead(p))
         /\ Sendable(p.unsent[1], SendHead(p), w)
         /\ NxtPos(p) <= NxtPos(SendHead(p))
<1> DEFINE h == p.unsent[1]
           q == SendHead(p)
<1>0. Marks(p, w)
  BY DEF Ordered
<1>1. PICK lo \in 0..(N + 1), mid \in 0..(N + 1) : Split(p, w, lo, mid)
  BY DEF Ordered
<1>2. /\ w \in 0..N /\ p.mss \in Nat /\ p.unacked \in Seq(Segs) /\ p.unsent \in Seq(Segs)
      /\ AckPos(p) \in Nat /\ NxtPos(p) \in Nat /\ LbbPos(p) \in Nat /\ p.snd_wnd \in Nat
      /\ p \in Pcbs /\ NxtPos(p) \in Places /\ p.snd_nxt \in Seqs /\ N \in Nat
      /\ AckPos(p) <= NxtPos(p) /\ NxtPos(p) <= LbbPos(p) /\ p.cwnd \in Nat
  BY <1>0, MarkFacts
<1>a. lo \in Int /\ mid \in Int
  BY <1>2
<1>3. p.unsent # << >> /\ Reach(p, h) <= p.snd_wnd
  <2>1. p.unsent # << >> /\ Reach(p, h) <= Least(p.snd_wnd, p.cwnd)
    BY DEF Goes
  <2>2. Least(p.snd_wnd, p.cwnd) <= p.snd_wnd /\ Least(p.snd_wnd, p.cwnd) \in Nat
    BY <1>2 DEF Least
  <2>3. Reach(p, h) \in Int
    <3>1. Good(h, w, p.mss) /\ AckPos(p) < To(h)
      BY <1>0, <1>1, <1>a, <2>1, HeadLater
    <3>2. Reach(p, h) = DataTo(h) - AckPos(p) /\ DataTo(h) \in Nat
      BY <1>0, <1>2, <3>1, HeadReach, GoodFacts
    <3> QED BY <1>2, <3>2
  <2> QED BY <1>2, <2>1, <2>2, <2>3
<1>4. /\ Placed(p.unacked, h) = Append(p.unacked, h) /\ Good(h, w, p.mss)
      /\ From(h) = mid /\ AckPos(p) < To(h)
  BY <1>0, <1>1, <1>a, <1>3, HeadLater
<1>5. DataTo(h) <= AckPos(p) + p.snd_wnd
  <2>1. Reach(p, h) = DataTo(h) - AckPos(p) /\ DataTo(h) \in Nat
    BY <1>0, <1>2, <1>4, HeadReach, GoodFacts
  <2> QED BY <1>2, <1>3, <2>1
<1>6. /\ Moved(p, q, Tail(p.unsent), Append(p.unacked, h), Later(p.snd_nxt, SegEnd(h)))
  BY <1>2, <1>3, <1>4, SendHeadMoves
<1>7. /\ q \in Pcbs /\ q.unsent = Tail(p.unsent) /\ q.unacked = Append(p.unacked, h)
      /\ q.snd_nxt = Later(p.snd_nxt, SegEnd(h)) /\ q.state = p.state /\ q.mss = p.mss
      /\ q.snd_lbb = p.snd_lbb /\ q.lastack = p.lastack /\ q.snd_wnd = p.snd_wnd
      /\ q.tf_fin = p.tf_fin
  BY <1>6 DEF Moved
<1> HIDE DEF q
<1>8. AckPos(q) = AckPos(p) /\ LbbPos(q) = LbbPos(p)
  BY <1>7 DEF AckPos, LbbPos
<1>9. /\ Chained(p.unacked, lo, mid, w, p.mss)
      /\ Chained(p.unsent, mid, LbbPos(p), w, p.mss)
      /\ lo <= AckPos(p) /\ mid <= NxtPos(p)
      /\ p.unacked # <<>> => AckPos(p) < To(p.unacked[1])
  BY <1>1 DEF Split
<1>10. /\ Chained(Tail(p.unsent), To(h), LbbPos(p), w, p.mss)
       /\ Chained(<<h>>, mid, To(h), w, p.mss)
  BY <1>3, <1>4, <1>9, ChainTail, ChainSingle
<1>11. /\ Append(p.unacked, h) = p.unacked \o <<h>> /\ h \in Segs /\ To(h) \in Nat
       /\ To(h) <= N + 1 /\ SegEnd(h) \in Seqs /\ Pos(SegEnd(h)) = To(h) /\ To(h) \in Places
  <2>1. h \in Segs /\ To(h) \in Nat /\ To(h) <= N + 1 /\ SegEnd(h) \in Seqs
        /\ Pos(SegEnd(h)) = To(h) /\ To(h) \in Places
    BY <1>2, <1>4, GoodFacts, ZenonT(40)
  <2> HIDE DEF h
  <2>2. Append(p.unacked, h) = p.unacked \o <<h>>
    BY <1>2, <2>1, SMTT(30)
  <2> QED BY <2>1, <2>2
<1>12. Chained(q.unacked, lo, To(h), w, p.mss)
  BY <1>7, <1>9, <1>10, <1>11, ChainConcat
<1>13. To(h) <= LbbPos(p)
  <2>1. To(h) \in Int /\ LbbPos(p) \in Int /\ w \in 0..N /\ p.mss \in Nat
    BY <1>2, <1>11
  <2>2. Chained(Tail(p.unsent), To(h), LbbPos(p), w, p.mss)
    BY <1>10
  <2> HIDE DEF h
  <2> QED BY <2>1, <2>2, ChainEnds
<1>14. /\ NxtPos(p) <= NxtPos(q) /\ To(h) <= NxtPos(q) /\ NxtPos(q) <= LbbPos(p)
       /\ NxtPos(q) \in Int
  <2> DEFINE z == SegEnd(h)
  <2>1. q.snd_nxt \in {p.snd_nxt, z} /\ Pos(p.snd_nxt) <= Pos(q.snd_nxt)
        /\ Pos(z) <= Pos(q.snd_nxt)
    <3>1. p.snd_nxt \in Seqs /\ z \in Seqs /\ Pos(p.snd_nxt) \in Places /\ Pos(z) \in Places
      BY <1>2, <1>11 DEF NxtPos
    <3> QED BY <1>7, <3>1, LaterIs
  <2>2. NxtPos(q) \in {NxtPos(p), To(h)} /\ NxtPos(p) <= NxtPos(q) /\ To(h) <= NxtPos(q)
    BY <1>11, <2>1 DEF NxtPos
  <2> QED BY <1>2, <1>11, <1>13, <2>2
<1>15. /\ q.unacked # << >>
       /\ q.unacked[1] = IF p.unacked = << >> THEN h ELSE p.unacked[1]
       /\ Len(q.unacked) = Len(p.unacked) + 1
       /\ \A i \in 1..(Len(p.unacked) + 1) :
            q.unacked[i] = IF i = Len(p.unacked) + 1 THEN h ELSE p.unacked[i]
  <2> DEFINE u == p.unacked
             v == Append(u, h)
  <2>1. u \in Seq(Segs) /\ h \in Segs /\ q.unacked = v
    BY <1>2, <1>7, <1>11
  <2> HIDE DEF u, h
  <2>2. /\ v # << >> /\ Len(v) = Len(u) + 1 /\ Len(u) \in Nat
        /\ \A i \in 1..(Len(u) + 1) : v[i] = IF i = Len(u) + 1 THEN h ELSE u[i]
    BY <2>1
  <2>3. v[1] = IF u = << >> THEN h ELSE u[1]
    BY <2>1, <2>2, EmptySeq
  <2> QED BY <2>1, <2>2, <2>3 DEF u
<1>16. Split(q, w, lo, To(h))
  <2>1. AckPos(q) < To(q.unacked[1])
    BY <1>4, <1>8, <1>9, <1>15
  <2>2. Chained(q.unacked, lo, To(h), w, q.mss)
    BY <1>7, <1>12
  <2>3. Chained(q.unsent, To(h), LbbPos(q), w, q.mss)
    BY <1>7, <1>8, <1>10
  <2>4. lo <= AckPos(q) /\ To(h) <= NxtPos(q) /\ q.unacked # << >>
    BY <1>8, <1>9, <1>14, <1>15
  <2> HIDE DEF h
  <2> QED BY <2>1, <2>2, <2>3, <2>4 DEF Split
<1>17. Marks(q, w)
  <2>1. /\ p.state \in {"ESTABLISHED", "FIN_WAIT_1"} /\ (p.tf_fin <=> p.state = "FIN_WAIT_1")
        /\ (p.tf_fin => w = N) /\ LbbPos(p) = w + Count(p.tf_fin)
        /\ 0 <= AckPos(p) /\ AckPos(p) <= NxtPos(p)
    BY <1>0 DEF Marks
  <2>2. AckPos(q) <= NxtPos(q) /\ NxtPos(q) <= LbbPos(q)
    BY <1>2, <1>8, <1>14
  <2> QED BY <1>2, <1>7, <1>8, <2>1, <2>2 DEF Marks
<1>18. Fits(q)
  <2> SUFFICES ASSUME NEW i \in 1..Len(q.unacked)
               PROVE  DataTo(q.unacked[i]) <= AckPos(p) + p.snd_wnd
    BY <1>7, <1>8 DEF Fits
  <2>1. CASE i = Len(p.unacked) + 1
    BY <1>5, <1>15, <2>1
  <2>2. CASE i # Len(p.unacked) + 1
    <3>1. i \in 1..Len(p.unacked)
      BY <1>2, <1>15, <2>2
    <3> QED BY <1>15, <2>2, <3>1 DEF Fits
  <2> QED BY <2>1, <2>2
<1>19. Sendable(h, q, w)
  BY <1>4, <1>5, <1>7, <1>8, <1>14 DEF Sendable
<1>20. To(h) \in 0..(N + 1)
  BY <1>2, <1>11
<1>21. Ordered(q, w)
  BY <1>16, <1>17, <1>20 DEF Ordered
<1> QED BY <1>14, <1>18, <1>19, <1>21 DEF q

-----------------------------------------------------------------------------
(* The number of pbufs on a queue.                                         *)

Summed(q, f) ==
  /\ f \in [0..Len(q) -> Nat] /\ f[0] = 0
  /\ \A i \in 1..Len(q) : f[i] = f[i - 1] + q[i].clen
  /\ Clen(q) = f[Len(q)]

LEMMA ClenSums ==
  ASSUME NEW q \in Seq(Segs)
  PROVE  Len(q) \in Nat /\ \E f : Summed(q, f)
<1> DEFINE l == Len(q)
           Sol(f) == f = [i \in 0..l |-> IF i = 0 THEN 0 ELSE f[i - 1] + q[i].clen]
           g == [t \in Nat \X Nat |-> IF t[2] \in 1..l THEN t[1] + q[t[2]].clen ELSE t[1]]
<1>1. l \in Nat /\ \A i \in 1..l : q[i].clen \in Nat
  <2>1. ASSUME NEW i \in 1..l PROVE q[i].clen \in Nat
    <3>1. q[i] \in Segs
      OBVIOUS
    <3> QED BY <3>1 DEF Segs
  <2> QED BY <2>1
<1>2. g \in [Nat \X Nat -> Nat]
  <2> SUFFICES ASSUME NEW b \in Nat, NEW i \in Nat
               PROVE  (IF i \in 1..l THEN b + q[i].clen ELSE b) \in Nat
    OBVIOUS
  <2>1. CASE i \in 1..l
    <3>1. q[i].clen \in Nat
      BY <1>1, <2>1
    <3> QED BY <2>1, <3>1
  <2> QED BY <2>1
<1>3. \E f : f \in [0..l -> Nat] /\ Sol(f)
  <2> HIDE DEF g, l
  <2>0. StepFunction(Nat, g, 0, l)
    BY <1>1, <1>2 DEF StepFunction
  <2>a. PICK f : IsRecursion(f, Nat, g, 0, l)
    BY <2>0, RecursionExists
  <2>1. /\ f \in [0..l -> Nat] /\ f[0] = 0
        /\ \A i \in 1..l : f[i] = g[<<f[i - 1], i>>]
    BY <2>a DEF IsRecursion
  <2>2. ASSUME NEW i \in 1..l PROVE f[i] = f[i - 1] + q[i].clen
    <3>1. i - 1 \in 0..l /\ i \in Nat
      BY <1>1
    <3>2. f[i - 1] \in Nat
      BY <2>1, <3>1
    <3>3. g[<<f[i - 1], i>>] = f[i - 1] + q[i].clen
      BY <3>1, <3>2 DEF g
    <3> QED BY <2>1, <3>3
  <2>3. \A i \in 0..l : i # 0 => i \in 1..l
    BY <1>1
  <2>4. Sol(f)
    BY <2>1, <2>2, <2>3
  <2> QED BY <2>1, <2>4
<1> DEFINE run == CHOOSE f : Sol(f)
<1>4. Sol(run)
  <2> HIDE DEF Sol
  <2> QED BY <1>3
<1>5. Clen(q) = run[l]
  BY DEF Clen
<1> HIDE DEF run
<1>6. run[0] = 0
  BY <1>1, <1>4
<1>7. ASSUME NEW i \in 1..l PROVE run[i] = run[i - 1] + q[i].clen
  <2>1. i \in 0..l /\ i # 0
    BY <1>1
  <2> QED BY <1>4, <2>1
<1>8. ASSUME NEW i \in 0..l PROVE run[i] \in Nat
  <2> DEFINE T == {j \in 0..l : run[j] \in Nat}
  <2>1. 0 \in T
    BY <1>1, <1>6
  <2>2. ASSUME NEW j \in 0..l, j \in T, j < l PROVE j + 1 \in T
    <3>1. j + 1 \in 1..l /\ (j + 1) - 1 = j /\ j + 1 \in 0..l
      BY <1>1, <2>2
    <3>2. run[j + 1] = run[j] + q[j + 1].clen
      BY <1>7, <3>1
    <3>3. run[j] \in Nat /\ q[j + 1].clen \in Nat
      BY <1>1, <2>2, <3>1
    <3>4. run[j + 1] \in Nat
      BY <3>2, <3>3
    <3> QED BY <3>1, <3>4
  <2> HIDE DEF T
  <2>3. \A j \in 0..l : j \in T
    BY <1>1, <2>1, <2>2, BoundedInduction
  <2> QED BY <2>3 DEF T
<1>9. run \in [0..l -> Nat]
  <2>1. DOMAIN run = 0..l /\ run = [i \in 0..l |-> run[i]]
    BY <1>4
  <2> QED BY <1>8, <2>1
<1>10. Summed(q, run)
  BY <1>5, <1>6, <1>7, <1>9 DEF Summed
<1> QED BY <1>1, <1>10

LEMMA ClenType == ASSUME NEW q \in Seq(Segs) PROVE Clen(q) \in Nat
<1>1. PICK f : Summed(q, f)
  BY ClenSums
<1>2. Len(q) \in 0..Len(q)
  OBVIOUS
<1> QED BY <1>1, <1>2 DEF Summed

LEMMA ClenEmpty == Clen(<< >>) = 0
<1>1. << >> \in Seq(Segs) /\ Len(<< >>) = 0
  OBVIOUS
<1>2. PICK f : Summed(<< >>, f)
  BY <1>1, ClenSums
<1> QED BY <1>1, <1>2 DEF Summed

LEMMA ClenSingle == ASSUME NEW seg \in Segs PROVE Clen(<<seg>>) = seg.clen
<1> DEFINE q == <<seg>>
<1>1. q \in Seq(Segs) /\ Len(q) = 1 /\ q[1] = seg /\ seg.clen \in Nat
  BY DEF Segs
<1> HIDE DEF q
<1>2. PICK f : Summed(q, f)
  BY <1>1, ClenSums
<1>3. f[0] = 0 /\ Clen(q) = f[1] /\ f[1] = f[1 - 1] + q[1].clen
  <2>1. 1 \in 1..Len(q)
    BY <1>1
  <2> QED BY <1>1, <1>2, <2>1 DEF Summed
<1>4. Clen(q) = seg.clen
  BY <1>1, <1>3
<1> QED BY <1>4 DEF q

LEMMA ClenConcat ==
  ASSUME NEW q \in Seq(Segs), NEW r \in Seq(Segs)
  PROVE  q \o r \in Seq(Segs) /\ Clen(q \o r) = Clen(q) + Clen(r)
<1> DEFINE c == q \o r
           m == Len(q)
           n == Len(r)
<1>1. /\ c \in Seq(Segs) /\ Len(c) = m + n /\ m \in Nat /\ n \in Nat
      /\ \A i \in 1..(m + n) : c[i] = IF i <= m THEN q[i] ELSE r[i - m]
  BY ConcatProperties
<1> HIDE DEF c
<1>2. PICK f : Summed(q, f)
  BY ClenSums
<1>3. PICK g : Summed(r, g)
  BY ClenSums
<1>4. PICK h : Summed(c, h)
  BY <1>1, ClenSums
<1> HIDE DEF m, n
<1>5. /\ f \in [0..m -> Nat] /\ f[0] = 0 /\ \A i \in 1..m : f[i] = f[i - 1] + q[i].clen
      /\ Clen(q) = f[m]
  BY <1>2 DEF Summed, m
<1>6. /\ g \in [0..n -> Nat] /\ g[0] = 0 /\ \A i \in 1..n : g[i] = g[i - 1] + r[i].clen
      /\ Clen(r) = g[n]
  BY <1>3 DEF Summed, n
<1>7. /\ h \in [0..(m + n) -> Nat] /\ h[0] = 0
      /\ \A i \in 1..(m + n) : h[i] = h[i - 1] + c[i].clen
      /\ Clen(c) = h[m + n]
  BY <1>1, <1>4 DEF Summed
<1>8. h[m] = f[m]
  <2> DEFINE T == {i \in 0..m : h[i] = f[i]}
  <2>1. 0 \in T
    BY <1>1, <1>5, <1>7
  <2>2. ASSUME NEW i \in 0..m, i \in T, i < m PROVE i + 1 \in T
    <3>1. i + 1 \in 1..m /\ i + 1 \in 1..(m + n) /\ (i + 1) - 1 = i /\ i + 1 <= m /\ i + 1 \in 0..m
      BY <1>1, <2>2
    <3>2. f[i + 1] = f[i] + q[i + 1].clen
      BY <1>5, <3>1
    <3>3. h[i + 1] = h[i] + c[i + 1].clen /\ c[i + 1] = q[i + 1]
      BY <1>1, <1>7, <3>1
    <3> QED BY <2>2, <3>1, <3>2, <3>3
  <2> HIDE DEF T
  <2>3. \A i \in 0..m : i \in T
    BY <1>1, <2>1, <2>2, BoundedInduction
  <2>4. m \in 0..m
    BY <1>1
  <2> QED BY <2>3, <2>4 DEF T
<1>9. h[m + n] = f[m] + g[n]
  <2> DEFINE T == {i \in 0..n : h[m + i] = f[m] + g[i]}
  <2>a. f[m] \in Nat /\ \A i \in 0..n : g[i] \in Nat
    BY <1>1, <1>5, <1>6
  <2>1. 0 \in T
    BY <1>1, <1>6, <1>8, <2>a
  <2>2. ASSUME NEW i \in 0..n, i \in T, i < n PROVE i + 1 \in T
    <3>1. /\ i + 1 \in 1..n /\ (i + 1) - 1 = i /\ i + 1 \in 0..n /\ m + (i + 1) \in 1..(m + n)
          /\ (m + (i + 1)) - 1 = m + i /\ ~(m + (i + 1) <= m) /\ (m + (i + 1)) - m = i + 1
          /\ i \in 0..n
      BY <1>1, <2>2
    <3>2. g[i + 1] = g[i] + r[i + 1].clen
      BY <1>6, <3>1
    <3>3. c[m + (i + 1)] = r[i + 1]
      BY <1>1, <3>1
    <3>4. h[m + (i + 1)] = h[m + i] + r[i + 1].clen
      BY <1>7, <3>1, <3>3
    <3>5. r[i + 1].clen \in Nat
      <4>1. r[i + 1] \in Segs
        BY <3>1 DEF n
      <4> QED BY <4>1 DEF Segs
    <3>6. h[m + i] = f[m] + g[i]
      BY <2>2
    <3>7. g[i] \in Nat
      BY <2>a, <3>1
    <3>8. h[m + (i + 1)] = f[m] + g[i + 1]
      BY <2>a, <3>2, <3>4, <3>5, <3>6, <3>7
    <3> QED BY <3>1, <3>8
  <2> HIDE DEF T
  <2>3. \A i \in 0..n : i \in T
    BY <1>1, <2>1, <2>2, BoundedInduction
  <2>4. n \in 0..n
    BY <1>1
  <2> QED BY <2>3, <2>4 DEF T
<1>10. c \in Seq(Segs) /\ Clen(c) = Clen(q) + Clen(r)
  BY <1>1, <1>5, <1>6, <1>7, <1>9
<1> QED BY <1>10 DEF c

LEMMA ClenTail ==
  ASSUME NEW q \in Seq(Segs), q # << >>
  PROVE  /\ q[1] \in Segs /\ Tail(q) \in Seq(Segs) /\ Clen(q) = q[1].clen + Clen(Tail(q))
<1>1. /\ q = <<q[1]>> \o Tail(q) /\ Tail(q) \in Seq(Segs) /\ q[1] \in Segs
      /\ <<q[1]>> \in Seq(Segs)
  OBVIOUS
<1>2. Clen(<<q[1]>> \o Tail(q)) = Clen(<<q[1]>>) + Clen(Tail(q))
  BY <1>1, ClenConcat
<1> QED BY <1>1, <1>2, ClenSingle

LEMMA ClenPlaced ==
  ASSUME NEW q \in Seq(Segs), NEW seg \in Segs
  PROVE  /\ Insert(q, seg) \in Seq(Segs) /\ Clen(Insert(q, seg)) = Clen(q) + seg.clen
         /\ Placed(q, seg) \in Seq(Segs) /\ Clen(Placed(q, seg)) = Clen(q) + seg.clen
<1> DEFINE s == {i \in DOMAIN q : TCP_SEQ_LT(q[i].seqno, seg.seqno)}
           n == Walk(q, s)
           a == SubSeq(q, 1, n)
           b == SubSeq(q, n + 1, Len(q))
           o == <<seg>>
<1>1. Len(q) \in Nat /\ DOMAIN q = 1..Len(q)
  OBVIOUS
<1>2. n \in 0..Len(q)
  <2>1. s \subseteq 1..Len(q)
    BY <1>1
  <2> HIDE DEF s
  <2> QED BY <1>1, <2>1, WalkFacts
<1>3. Insert(q, seg) = a \o o \o b
  BY DEF Insert
<1> HIDE DEF n
<1>4. a \in Seq(Segs) /\ b \in Seq(Segs) /\ o \in Seq(Segs)
  BY <1>2, FrontFacts, SuffixFacts
<1>5. q = a \o b
  <2>1. 1 \in 1..(Len(q) + 1) /\ n \in (1 - 1)..Len(q) /\ Len(q) \in n..Len(q)
    BY <1>1, <1>2
  <2>2. a \o b = SubSeq(q, 1, Len(q))
    BY <2>1, ConcatAdjacentSubSeq
  <2>3. SubSeq(q, 1, Len(q)) = q
    BY SubSeqFull
  <2> QED BY <2>2, <2>3
<1>6. Clen(o) = seg.clen /\ seg.clen \in Nat
  BY ClenSingle DEF Segs
<1> HIDE DEF a, b, o
<1>7. Clen(a) \in Nat /\ Clen(b) \in Nat /\ Clen(q) = Clen(a) + Clen(b)
  BY <1>4, <1>5, ClenConcat, ClenType
<1>8. a \o o \in Seq(Segs) /\ Clen(a \o o) = Clen(a) + Clen(o)
  BY <1>4, ClenConcat
<1>9. a \o o \o b \in Seq(Segs) /\ Clen(a \o o \o b) = Clen(a \o o) + Clen(b)
  BY <1>4, <1>8, ClenConcat
<1>10. Insert(q, seg) \in Seq(Segs) /\ Clen(Insert(q, seg)) = Clen(q) + seg.clen
  <2>1. Clen(a \o o \o b) = Clen(q) + seg.clen
    BY <1>6, <1>7, <1>8, <1>9
  <2> QED BY <1>3, <1>9, <2>1
<1>11. Append(q, seg) = q \o o /\ Append(q, seg) \in Seq(Segs)
  BY DEF o
<1>12. Clen(Append(q, seg)) = Clen(q) + seg.clen
  BY <1>4, <1>6, <1>11, ClenConcat
<1> QED BY <1>10, <1>11, <1>12 DEF Placed

-----------------------------------------------------------------------------
(* The loop of tcp_output().                                               *)

\* A segment of the stream on the wire, when w bytes are written.
GoodWire(m, w) ==
  /\ m \in Wires /\ ~m.syn
  /\ From(m) \in 0..N /\ DataTo(m) <= w
  /\ \A k \in 1..Len(m.data) : m.data[k] = From(m) + k
  /\ m.fin => DataTo(m) = N

SentOk(m, p, w) ==
  /\ GoodWire(m, w) /\ To(m) <= NxtPos(p)
  /\ DataTo(m) <= AckPos(p) + p.snd_wnd

\* The peer may have got the bytes up to e: they were sent, or the first byte
\* was in a probe.
Reached(e, p) ==
  \/ e <= NxtPos(p)
  \/ p.unacked = <<>> /\ p.unsent # <<>> /\ e <= AckPos(p) + 1

Load(p) == Clen(p.unacked) + Clen(p.unsent)

\* What sending leaves alone.
Kept(o, q) ==
  /\ q.state = o.state /\ q.mss = o.mss /\ q.snd_lbb = o.snd_lbb /\ q.lastack = o.lastack
  /\ q.snd_wnd = o.snd_wnd /\ q.snd_wl1 = o.snd_wl1 /\ q.snd_wl2 = o.snd_wl2
  /\ q.snd_buf = o.snd_buf /\ q.snd_queuelen = o.snd_queuelen
  /\ q.cwnd = o.cwnd /\ q.ssthresh = o.ssthresh /\ q.tf_fin = o.tf_fin

\* The pcb r.pcb and the segments r.sent, after turns of the loop that began with
\* the queues of o.
LoopOk(r, o, w) ==
  /\ Ordered(r.pcb, w) /\ Fits(r.pcb) /\ Kept(o, r.pcb)
  /\ NxtPos(o) \in Int /\ NxtPos(o) <= NxtPos(r.pcb)
  /\ \A e \in Int : Reached(e, o) => Reached(e, r.pcb)
  /\ Load(r.pcb) = Load(o)
  /\ r.pcb.unacked # <<>> => r.pcb.rtime
  /\ \A m \in r.sent : SentOk(m, r.pcb, w)

LEMMA SendHeadLoad ==
  ASSUME NEW p \in Pcbs, p.unsent # << >>
  PROVE  Load(SendHead(p)) = Load(p)
<1> DEFINE h == p.unsent[1]
           q == SendHead(p)
           t == Tail(p.unsent)
           u == p.unacked
<1>1. p.unsent \in Seq(Segs) /\ u \in Seq(Segs)
  BY DEF Pcbs
<1>2. q.unsent = t /\ q.unacked = Placed(u, h) /\ h \in Segs
  BY SendHeadMoves DEF Moved
<1>3. t \in Seq(Segs) /\ Clen(p.unsent) = h.clen + Clen(t)
  BY <1>1, ClenTail
<1>4. Clen(Placed(u, h)) = Clen(u) + h.clen
  BY <1>1, <1>2, ClenPlaced
<1>5. Clen(u) \in Nat /\ Clen(t) \in Nat /\ h.clen \in Nat
  BY <1>1, <1>2, <1>3, ClenType DEF Segs
<1>6. Load(q) = Clen(Placed(u, h)) + Clen(t)
  BY <1>2 DEF Load
<1>7. Load(p) = Clen(u) + Clen(p.unsent)
  BY DEF Load
<1> HIDE DEF h, q, t, u
<1>8. Load(q) = Load(p)
  BY <1>3, <1>4, <1>5, <1>6, <1>7
<1> QED BY <1>8 DEF q

LEMMA WireOk ==
  ASSUME NEW seg, NEW p, NEW w \in 0..N, p.mss \in Nat, Sendable(seg, p, w)
  PROVE  SentOk(Wire(seg), p, w)
<1> DEFINE m == Wire(seg)
<1>1. Good(seg, w, p.mss) /\ To(seg) <= NxtPos(p) /\ DataTo(seg) <= AckPos(p) + p.snd_wnd
  BY DEF Sendable
<1>2. seg \in Segs
  BY <1>1 DEF Good
<1>3. m.seqno = seg.seqno /\ m.data = seg.data /\ m.fin = seg.fin /\ m.syn = seg.syn
  BY DEF Wire
<1>4. m \in Wires
  BY <1>2, SegTypes
<1> HIDE DEF m
<1>5. From(m) = From(seg) /\ DataTo(m) = DataTo(seg) /\ To(m) = To(seg)
  BY <1>3 DEF From, DataTo, To
<1>6. /\ ~seg.syn /\ From(seg) \in 0..N /\ DataTo(seg) <= w
      /\ \A k \in 1..Len(seg.data) : seg.data[k] = From(seg) + k
      /\ seg.fin => DataTo(seg) = N
  BY <1>1 DEF Good
<1>7. GoodWire(m, w)
  BY <1>3, <1>4, <1>5, <1>6 DEF GoodWire
<1> QED BY <1>1, <1>5, <1>7 DEF SentOk, m

\* A turn keeps what was reached.
LEMMA TurnReached ==
  ASSUME NEW p, NEW w, Ordered(p, w), Fits(p), Goes(p), NEW e \in Int, Reached(e, p)
  PROVE  Reached(e, SendHead(p))
<1> DEFINE h == p.unsent[1]
           q == SendHead(p)
<1>1. Marks(p, w) /\ Marks(q, w) /\ To(h) <= NxtPos(q) /\ NxtPos(p) <= NxtPos(q)
  BY TurnOrdered DEF Ordered, Sendable
<1>2. NxtPos(p) \in Nat /\ NxtPos(q) \in Nat /\ AckPos(p) \in Nat
  BY <1>1, MarkFacts
<1>3. CASE e <= NxtPos(p)
  BY <1>1, <1>2, <1>3 DEF Reached
<1>4. CASE ~(e <= NxtPos(p))
  <2>1. p.unacked = << >> /\ p.unsent # << >> /\ e <= AckPos(p) + 1
    BY <1>4 DEF Reached
  <2>2. PICK lo \in 0..(N + 1), mid \in 0..(N + 1) : Split(p, w, lo, mid)
    BY DEF Ordered
  <2>3. AckPos(p) < To(h)
    BY <2>1, <2>2 DEF Split
  <2>4. To(h) \in Nat
    <3>1. Good(h, w, p.mss) /\ w \in 0..N /\ p.mss \in Nat
      BY <1>1, TurnOrdered, MarkFacts, <2>1, <2>2, ChainTail DEF Split
    <3> QED BY <3>1, GoodFacts
  <2>5. e <= NxtPos(q)
    <3> HIDE DEF h, q
    <3> QED BY <1>1, <1>2, <2>1, <2>3, <2>4
  <2> QED BY <2>5 DEF Reached
<1> QED BY <1>3, <1>4

LEMMA TurnKeepsLoop ==
  ASSUME NEW o, NEW w, NEW r \in Outs, LoopOk(r, o, w)
  PROVE  LoopOk(OneTurn(r), o, w)
<1>1. CASE ~Goes(r.pcb)
  BY <1>1 DEF OneTurn
<1>2. CASE Goes(r.pcb)
  <2> DEFINE p == r.pcb
             h == p.unsent[1]
             q == SendHead(p)
             t == OneTurn(r)
  <2>1. /\ Ordered(p, w) /\ Fits(p) /\ Kept(o, p)
        /\ NxtPos(o) \in Int /\ NxtPos(o) <= NxtPos(p)
        /\ \A e \in Int : Reached(e, o) => Reached(e, p)
        /\ Load(p) = Load(o)
        /\ \A m \in r.sent : SentOk(m, p, w)
    BY DEF LoopOk
  <2>2. p \in Pcbs /\ p.unsent # << >>
    BY <1>2 DEF Outs, Goes
  <2>3. t.pcb = q /\ t.sent = r.sent \cup {Wire(h)}
    BY <1>2 DEF OneTurn
  <2>4. /\ Ordered(q, w) /\ Fits(q) /\ Sendable(h, q, w) /\ NxtPos(p) <= NxtPos(q)
    BY <1>2, <2>1, TurnOrdered
  <2>5. /\ Moved(p, q, Tail(p.unsent), Placed(p.unacked, h), Later(p.snd_nxt, SegEnd(h)))
        /\ q.rtime
    BY <2>2, SendHeadMoves
  <2>6. Kept(o, q) /\ q.lastack = p.lastack /\ q.snd_wnd = p.snd_wnd
    BY <2>1, <2>5 DEF Moved, Kept
  <2>7. Load(q) = Load(o)
    BY <2>1, <2>2, SendHeadLoad
  <2>8. \A e \in Int : Reached(e, o) => Reached(e, q)
    BY <1>2, <2>1, TurnReached
  <2>9. NxtPos(o) \in Int /\ NxtPos(o) <= NxtPos(q)
    <3>1. NxtPos(p) \in Int /\ NxtPos(q) \in Int
      BY <2>1, <2>4, MarkFacts DEF Ordered
    <3> QED BY <2>1, <2>4, <3>1
  <2>10. \A m \in t.sent : SentOk(m, q, w)
    <3> SUFFICES ASSUME NEW m \in t.sent PROVE SentOk(m, q, w)
      OBVIOUS
    <3>1. CASE m \in r.sent
      <4>1. GoodWire(m, w) /\ To(m) <= NxtPos(p) /\ DataTo(m) <= AckPos(p) + p.snd_wnd
        BY <2>1, <3>1 DEF SentOk
      <4>2. AckPos(q) = AckPos(p)
        BY <2>6 DEF AckPos
      <4>3. To(m) <= NxtPos(q)
        <5>1. NxtPos(p) \in Int /\ NxtPos(q) \in Int
          BY <2>1, <2>4, MarkFacts DEF Ordered
        <5>2. To(m) \in Int
          <6>1. From(m) \in Int /\ Len(m.data) \in Nat /\ Count(m.fin) \in Nat
            BY <4>1, SpaceFacts DEF GoodWire, Wires, Count
          <6> QED BY <6>1 DEF To, DataTo
        <5> QED BY <2>4, <4>1, <5>1, <5>2
      <4> QED BY <2>6, <4>1, <4>2, <4>3 DEF SentOk
    <3>2. CASE m = Wire(h)
      <4>1. Marks(q, w)
        BY <2>4 DEF Ordered
      <4> QED BY <2>4, <3>2, <4>1, MarkFacts, WireOk
    <3> QED BY <2>3, <3>1, <3>2
  <2> HIDE DEF q, t
  <2> QED BY <2>3, <2>4, <2>5, <2>6, <2>7, <2>8, <2>9, <2>10 DEF LoopOk, t
<1> QED BY <1>1, <1>2

\* From a turn on that is right, all are.
LEMMA TurnsFrom ==
  ASSUME NEW p \in Pcbs, NEW o, NEW w, NEW f, TurnsRun(p, f), NEW k \in 0..Len(p.unsent),
         LoopOk(f[k], o, w)
  PROVE  Turns(p) \in Outs /\ LoopOk(Turns(p), o, w)
<1> DEFINE l == Len(p.unsent)
           T == {i \in 0..l : i >= k => LoopOk(f[i], o, w)}
<1>1. l \in Nat /\ k \in 0..l /\ k \in Nat
  BY TurnsRuns
<1>2. /\ f \in [0..l -> Outs] /\ \A i \in 1..l : f[i] = OneTurn(f[i - 1])
      /\ Turns(p) = f[l]
  BY DEF TurnsRun
<1> HIDE DEF l
<1>3. 0 \in T
  <2>1. 0 \in 0..l
    BY <1>1
  <2>2. 0 >= k => k = 0
    BY <1>1
  <2> QED BY <2>1, <2>2
<1>4. ASSUME NEW i \in 0..l, i \in T, i < l PROVE i + 1 \in T
  <2>1. i + 1 \in 1..l /\ (i + 1) - 1 = i /\ i + 1 \in 0..l /\ i \in Nat
    BY <1>1, <1>4
  <2>2. SUFFICES ASSUME i + 1 >= k PROVE LoopOk(f[i + 1], o, w)
    BY <2>1
  <2>3. CASE i + 1 = k
    BY <2>3
  <2>4. CASE i + 1 # k
    <3>1. i >= k
      BY <1>1, <2>1, <2>2, <2>4
    <3>2. LoopOk(f[i], o, w) /\ f[i] \in Outs
      BY <1>2, <1>4, <3>1
    <3>3. f[i + 1] = OneTurn(f[i])
      BY <1>2, <2>1
    <3> QED BY <3>2, <3>3, TurnKeepsLoop
  <2> QED BY <2>3, <2>4
<1>5. \A i \in 0..l : i \in T
  <2> HIDE DEF T
  <2> QED BY <1>1, <1>3, <1>4, BoundedInduction
<1>6. l \in 0..l /\ l >= k
  BY <1>1
<1>7. LoopOk(f[l], o, w) /\ f[l] \in Outs
  BY <1>2, <1>5, <1>6
<1> QED BY <1>2, <1>7

Restful(p) == p.unacked # <<>> => p.rtime

LEMMA TurnsOk ==
  ASSUME NEW p, NEW w, Ordered(p, w), Fits(p), Restful(p)
  PROVE  Turns(p) \in Outs /\ LoopOk(Turns(p), p, w)
<1>1. Marks(p, w)
  BY DEF Ordered
<1>2. p \in Pcbs /\ NxtPos(p) \in Nat
  BY <1>1, MarkFacts
<1>3. PICK f : TurnsRun(p, f)
  BY <1>2, TurnsRuns
<1>4. 0 \in 0..Len(p.unsent)
  BY <1>2, TurnsRuns
<1>5. f[0].pcb = p /\ f[0].sent = {}
  BY <1>3 DEF TurnsRun
<1>6. LoopOk(f[0], p, w)
  BY <1>2, <1>5 DEF LoopOk, Kept, Restful
<1> QED BY <1>2, <1>3, <1>4, <1>6, TurnsFrom

\* What Ordered and Fits depend on.
Alike(o, q) ==
  /\ q.state = o.state /\ q.mss = o.mss /\ q.snd_lbb = o.snd_lbb /\ q.lastack = o.lastack
  /\ q.tf_fin = o.tf_fin /\ q.snd_nxt = o.snd_nxt
  /\ q.unsent = o.unsent /\ q.unacked = o.unacked

LEMMA AlikeOrdered ==
  ASSUME NEW o, NEW q, NEW w, Alike(o, q), q \in Pcbs, Ordered(o, w)
  PROVE  Ordered(q, w)
<1>1. AckPos(q) = AckPos(o) /\ NxtPos(q) = NxtPos(o) /\ LbbPos(q) = LbbPos(o)
  BY DEF Alike, AckPos, NxtPos, LbbPos
<1>2. Marks(q, w)
  BY <1>1 DEF Ordered, Marks, Alike
<1>3. PICK lo \in 0..(N + 1), mid \in 0..(N + 1) : Split(o, w, lo, mid)
  BY DEF Ordered
<1>4. Split(q, w, lo, mid)
  BY <1>1, <1>3 DEF Split, Alike
<1> QED BY <1>2, <1>4 DEF Ordered

LEMMA AlikeLoop ==
  ASSUME NEW o, NEW w, NEW r, NEW t \in Outs, LoopOk(r, o, w), Alike(r.pcb, t.pcb),
         Kept(r.pcb, t.pcb), t.pcb.rtime = r.pcb.rtime, t.sent = r.sent
  PROVE  LoopOk(t, o, w)
<1>1. t.pcb \in Pcbs
  BY DEF Outs
<1>2. Ordered(t.pcb, w)
  BY <1>1, AlikeOrdered DEF LoopOk
<1>3. AckPos(t.pcb) = AckPos(r.pcb) /\ NxtPos(t.pcb) = NxtPos(r.pcb)
  BY DEF Alike, AckPos, NxtPos
<1>4. Fits(t.pcb)
  BY <1>3 DEF LoopOk, Fits, Alike, Kept
<1>5. Kept(o, t.pcb)
  BY DEF LoopOk, Kept
<1>6. \A e \in Int : Reached(e, o) => Reached(e, t.pcb)
  BY <1>3 DEF LoopOk, Reached, Alike
<1>7. Load(t.pcb) = Load(o)
  BY DEF LoopOk, Load, Alike
<1>8. \A m \in t.sent : SentOk(m, t.pcb, w)
  BY <1>3 DEF LoopOk, SentOk, Kept
<1> QED BY <1>2, <1>3, <1>4, <1>5, <1>6, <1>7, <1>8 DEF LoopOk, Alike

\* The end of tcp_output().
LEMMA OutputEnds ==
  ASSUME NEW o, NEW w, NEW p, Turns(p) \in Outs, LoopOk(Turns(p), o, w)
  PROVE  tcp_output(p) \in Outs /\ LoopOk(tcp_output(p), o, w)
<1> DEFINE t == Turns(p)
           b == t.pcb.persist \/ Persists(t.pcb)
           c == [t.pcb EXCEPT !.persist = b, !.memerr = FALSE]
           r == tcp_output(p)
<1>1. t.pcb \in Pcbs /\ t.sent \in SUBSET Wires
  BY DEF Outs
<1>2. b \in BOOLEAN
  <2>1. t.pcb.persist \in BOOLEAN
    BY <1>1 DEF Pcbs
  <2> QED BY <2>1, Zenon
<1>3. r = [pcb |-> c, sent |-> t.sent]
  <2>1. r = [t EXCEPT !.pcb.persist = b, !.pcb.memerr = FALSE]
    BY Zenon DEF tcp_output
  <2>2. t \in Outs
    OBVIOUS
  <2> HIDE DEF b, t, r
  <2> QED BY <1>1, <1>2, <2>1, <2>2 DEF Outs, Pcbs
<1> HIDE DEF b, t
<1>4. c \in Pcbs /\ Alike(t.pcb, c) /\ Kept(t.pcb, c) /\ c.rtime = t.pcb.rtime
  BY <1>1, <1>2 DEF Pcbs, Alike, Kept
<1> HIDE DEF c, r
<1>5. r \in Outs /\ r.pcb = c /\ r.sent = t.sent
  BY <1>1, <1>3, <1>4 DEF Outs
<1>6. LoopOk(r, o, w)
  BY <1>4, <1>5, AlikeLoop DEF t
<1> QED BY <1>5, <1>6 DEF r

LEMMA OutputOk ==
  ASSUME NEW p, NEW w, Ordered(p, w), Fits(p), Restful(p)
  PROVE  tcp_output(p) \in Outs /\ LoopOk(tcp_output(p), p, w)
BY TurnsOk, OutputEnds

\* What a fast retransmit leaves: the head of unacked before those of unsent.
Swap(o) == [o EXCEPT !.unacked = Tail(o.unacked), !.unsent = <<o.unacked[1]>> \o o.unsent]

LEMMA SwapType ==
  ASSUME NEW o \in Pcbs, o.unacked # << >>
  PROVE  LET p == Swap(o)
         IN  /\ p \in Pcbs /\ p.unacked = Tail(o.unacked)
             /\ p.unsent = <<o.unacked[1]>> \o o.unsent /\ Kept(o, p)
             /\ p.infr = o.infr /\ p.memerr = o.memerr /\ p.snd_nxt = o.snd_nxt
             /\ p.rtime = o.rtime
<1> DEFINE h == o.unacked[1]
           ua == Tail(o.unacked)
           us == <<h>> \o o.unsent
<1>1. o.unacked \in Seq(Segs) /\ o.unsent \in Seq(Segs)
  BY DEF Pcbs
<1>2. h \in Segs /\ ua \in Seq(Segs)
  BY <1>1, ClenTail
<1>3. us \in Seq(Segs)
  <2> HIDE DEF h
  <2> QED BY <1>1, <1>2
<1>4. Swap(o) = [o EXCEPT !.unacked = ua, !.unsent = us]
  BY DEF Swap
<1> HIDE DEF h, ua, us
<1>5. LET p == [o EXCEPT !.unacked = ua, !.unsent = us]
      IN  /\ p \in Pcbs /\ p.unacked = ua
          /\ p.unsent = us /\ Kept(o, p)
          /\ p.infr = o.infr /\ p.memerr = o.memerr /\ p.snd_nxt = o.snd_nxt
          /\ p.rtime = o.rtime
  BY <1>2, <1>3 DEF Pcbs, Kept
<1> QED BY <1>4, <1>5 DEF h, ua, us

\* Sending that head puts the segment back where it was.
LEMMA SwapBack ==
  ASSUME NEW o, NEW w, Ordered(o, w), Fits(o), o.unacked # << >>, o.infr, o.mss <= o.cwnd
  PROVE  LET p == Swap(o)
             q == SendHead(p)
         IN  /\ p \in Pcbs /\ p.unsent # << >> /\ Goes(p) /\ q \in Pcbs /\ Alike(o, q)
             /\ Kept(o, q) /\ q.rtime /\ p.unsent[1] = o.unacked[1]
             /\ Sendable(o.unacked[1], o, w)
<1> DEFINE h == o.unacked[1]
           p == Swap(o)
           q == SendHead(p)
           u == o.unacked
           t == Tail(u)
<1>0. Marks(o, w)
  BY DEF Ordered
<1>1. PICK lo \in 0..(N + 1), mid \in 0..(N + 1) : Split(o, w, lo, mid)
  BY DEF Ordered
<1>2. /\ w \in 0..N /\ o.mss \in Nat /\ u \in Seq(Segs) /\ o.unsent \in Seq(Segs)
      /\ AckPos(o) \in Nat /\ NxtPos(o) \in Nat /\ o.snd_wnd \in Nat /\ o \in Pcbs
      /\ NxtPos(o) \in Places /\ o.snd_nxt \in Seqs /\ N \in Nat /\ o.cwnd \in Nat
      /\ lo \in Int /\ mid \in Int
  BY <1>0, MarkFacts
<1>3. /\ Chained(u, lo, mid, w, o.mss) /\ lo <= AckPos(o) /\ mid <= NxtPos(o)
      /\ AckPos(o) < To(h)
  BY <1>1 DEF Split
<1>4. /\ Chained(t, To(h), mid, w, o.mss) /\ Good(h, w, o.mss) /\ From(h) = lo
      /\ u = <<h>> \o t /\ t \in Seq(Segs) /\ Len(u) \in Nat \ {0}
  BY <1>3, ChainTail
<1>5. /\ h \in Segs /\ h.seqno \in Seqs /\ Len(h.data) \in Nat /\ From(h) \in Nat
      /\ DataTo(h) \in Nat /\ DataTo(h) = From(h) + Len(h.data) /\ To(h) \in Nat
      /\ SegEnd(h) \in Seqs /\ Pos(SegEnd(h)) = To(h) /\ From(h) \in Places
      /\ To(h) \in Places /\ From(h) < To(h)
  <2>1. Good(h, w, o.mss) /\ w \in 0..N /\ o.mss \in Nat
    BY <1>2, <1>4
  <2> HIDE DEF h
  <2> QED BY <2>1, GoodFacts
<1>6. Len(h.data) <= o.mss
  BY <1>4 DEF Good
<1>7. /\ p \in Pcbs /\ p.unacked = t /\ p.unsent = <<h>> \o o.unsent /\ Kept(o, p)
      /\ p.infr = o.infr /\ p.snd_nxt = o.snd_nxt
  BY ONLY <1>2, SwapType, o.unacked # << >> DEF p, t, u, h
<1> HIDE DEF p
<1>8. p.unsent # << >> /\ p.unsent[1] = h /\ Tail(p.unsent) = o.unsent
  <2> DEFINE us == o.unsent
             v == <<h>> \o us
  <2>1. us \in Seq(Segs) /\ h \in Segs
    BY <1>2, <1>5
  <2> HIDE DEF h, us
  <2>2. v # << >> /\ v[1] = h /\ Tail(v) = us
    BY <2>1
  <2> QED BY <1>7, <2>2 DEF us
<1>9. Reach(p, h) = DataTo(h) - AckPos(o)
  <2>1. p.lastack = o.lastack
    BY <1>7 DEF Kept
  <2>2. Reach(o, h) = DataTo(h) - AckPos(o)
    BY <1>0, <1>3, <1>4, HeadReach
  <2> QED BY <2>1, <2>2 DEF Reach
<1>10. DataTo(h) <= AckPos(o) + o.snd_wnd
  <2>1. 1 \in 1..Len(u)
    BY <1>4
  <2> QED BY <2>1 DEF Fits
<1>11. Goes(p)
  <2>1. p.snd_wnd = o.snd_wnd /\ p.cwnd = o.cwnd
    BY <1>7 DEF Kept
  <2>2. DataTo(h) - AckPos(o) <= o.snd_wnd /\ DataTo(h) - AckPos(o) <= o.cwnd
    <3> DEFINE d == DataTo(h)
               k == Len(h.data)
               a == AckPos(o)
    <3>1. d \in Nat /\ d = lo + k /\ k \in Nat /\ a \in Nat /\ lo <= a /\ k <= o.mss
          /\ o.mss \in Nat /\ o.cwnd \in Nat /\ o.snd_wnd \in Nat /\ d <= a + o.snd_wnd
          /\ o.mss <= o.cwnd /\ lo \in Int
      BY <1>2, <1>3, <1>4, <1>5, <1>6, <1>10
    <3> HIDE DEF d, k, a
    <3>2. d - a <= o.snd_wnd /\ d - a <= o.cwnd
      BY <3>1
    <3> QED BY <3>2 DEF d, a
  <2>3. Reach(p, h) <= Least(p.snd_wnd, p.cwnd)
    BY <1>9, <2>1, <2>2 DEF Least
  <2>4. tcp_do_output_nagle(p)
    BY <1>7 DEF tcp_do_output_nagle
  <2> QED BY <1>8, <2>3, <2>4 DEF Goes
<1>12. To(h) <= NxtPos(o)
  <2>1. To(h) <= mid
    <3>1. To(h) \in Int
      BY <1>5
    <3>2. Chained(t, To(h), mid, w, o.mss)
      BY <1>4
    <3> HIDE DEF h, t
    <3> QED BY <1>2, <3>1, <3>2, ChainEnds
  <2> QED BY <1>2, <1>3, <1>5, <2>1
<1>13. Later(o.snd_nxt, SegEnd(h)) = o.snd_nxt
  <2> DEFINE z == SegEnd(h)
  <2>1. z \in Seqs /\ Pos(z) \in Places /\ Pos(o.snd_nxt) \in Places /\ Pos(z) <= Pos(o.snd_nxt)
        /\ Pos(z) \in Int /\ Pos(o.snd_nxt) \in Int
    BY <1>2, <1>5, <1>12 DEF NxtPos
  <2> HIDE DEF z
  <2>2. ~TCP_SEQ_LT(o.snd_nxt, z)
    BY <1>2, <2>1, Compare
  <2> QED BY <2>2 DEF Later, z
<1>14. Placed(t, h) = u
  <2>1. CASE t = << >>
    <3> HIDE DEF h
    <3>1. Append(<< >>, h) = <<h>> \o << >>
      BY <1>5
    <3> QED BY <1>4, <2>1, <3>1 DEF Placed
  <2>2. CASE t # << >>
    <3> DEFINE l == Len(t)
    <3>1. l \in Nat /\ l # 0 /\ 1 \in 1..l /\ l \in 1..l
      BY <1>4, <2>2, EmptySeq, SMTT(30)
    <3>2. ASSUME NEW i \in 1..l PROVE TCP_SEQ_LT(h.seqno, t[i].seqno) /\ ~TCP_SEQ_LT(t[i].seqno, h.seqno)
      <4>1. Good(t[i], w, o.mss)
        BY <1>4 DEF Chained
      <4>2. t[i].seqno \in Seqs /\ From(t[i]) \in Places /\ From(t[i]) \in Nat
        BY <1>2, <4>1, GoodFacts
      <4>3. To(h) <= From(t[i])
        <5>1. To(h) \in Int
          BY <1>5
        <5>2. Chained(t, To(h), mid, w, o.mss)
          BY <1>4
        <5> HIDE DEF h, t
        <5> QED BY <1>2, <5>1, <5>2, ChainEnds
      <4>4. From(h) < From(t[i])
        BY <1>5, <4>2, <4>3
      <4> HIDE DEF h, t
      <4> QED BY <1>5, <4>2, <4>4, Compare DEF From
    <3>3. Placed(t, h) = Insert(t, h)
      BY <2>2, <3>1, <3>2 DEF Placed
    <3>4. Insert(t, h) = <<h>> \o t
      BY <1>4, <3>1, <3>2, InsertFront
    <3> QED BY <1>4, <3>3, <3>4
  <2> QED BY <2>1, <2>2
<1>15. Moved(p, q, o.unsent, u, o.snd_nxt) /\ q.rtime
  BY <1>7, <1>8, <1>13, <1>14, SendHeadMoves
<1>16. q \in Pcbs /\ Alike(o, q) /\ Kept(o, q)
  BY <1>7, <1>15 DEF Moved, Kept, Alike
<1>17. Sendable(h, o, w)
  BY <1>4, <1>10, <1>12 DEF Sendable
<1> QED BY <1>7, <1>8, <1>11, <1>15, <1>16, <1>17 DEF p

LEMMA SwapOutput ==
  ASSUME NEW o, NEW w, Ordered(o, w), Fits(o), o.unacked # << >>, o.infr, o.mss <= o.cwnd
  PROVE  tcp_output(Swap(o)) \in Outs /\ LoopOk(tcp_output(Swap(o)), o, w)
<1> DEFINE p == Swap(o)
           q == SendHead(p)
           h == o.unacked[1]
<1>1. /\ p \in Pcbs /\ p.unsent # << >> /\ Goes(p) /\ q \in Pcbs /\ Alike(o, q)
      /\ Kept(o, q) /\ q.rtime /\ p.unsent[1] = h /\ Sendable(h, o, w)
  BY SwapBack
<1>2. PICK f : TurnsRun(p, f)
  BY <1>1, TurnsRuns
<1>3. 1 \in 0..Len(p.unsent) /\ 1 \in 1..Len(p.unsent)
  <2>1. p.unsent \in Seq(Segs)
    BY <1>1 DEF Pcbs
  <2> QED BY <1>1, <2>1, EmptySeq
<1>4. f[1] = OneTurn(f[1 - 1]) /\ f[0] = [pcb |-> p, sent |-> {}] /\ f[1] \in Outs
  BY <1>2, <1>3 DEF TurnsRun
<1> HIDE DEF p, q, h
<1>5. f[1].pcb = q /\ f[1].sent = {Wire(h)}
  BY <1>1, <1>4 DEF OneTurn, q
<1>6. Marks(o, w)
  BY DEF Ordered
<1>7. /\ Ordered(q, w) /\ AckPos(q) = AckPos(o) /\ NxtPos(q) = NxtPos(o)
  BY <1>1, AlikeOrdered DEF Alike, AckPos, NxtPos
<1>8. Fits(q)
  BY <1>1, <1>7 DEF Fits, Alike, Kept
<1>9. SentOk(Wire(h), q, w)
  <2>1. SentOk(Wire(h), o, w)
    BY <1>1, <1>6, MarkFacts, WireOk
  <2> QED BY <1>1, <1>7, <2>1 DEF SentOk, Kept
<1>10. NxtPos(o) \in Nat
  BY <1>6, MarkFacts
<1>11. \A e \in Int : Reached(e, o) => Reached(e, q)
  BY <1>1, <1>7 DEF Reached, Alike
<1>12. Load(q) = Load(o)
  BY <1>1 DEF Load, Alike
<1>13. LoopOk(f[1], o, w)
  BY <1>1, <1>5, <1>7, <1>8, <1>9, <1>10, <1>11, <1>12 DEF LoopOk
<1>14. Turns(p) \in Outs /\ LoopOk(Turns(p), o, w)
  BY <1>1, <1>2, <1>3, <1>13, TurnsFrom
<1> QED BY <1>14, OutputEnds DEF p

-----------------------------------------------------------------------------
(* The inductive invariant, of a pcb p, w bytes written, the segments S and *)
(* A under way, and the peer q.                                            *)

Peers == [got : Seq(Nat), unread : 0..PeerBuf, fin : BOOLEAN]

Answers == [ackno : Seqs, wnd : 0..PeerBuf, syn : BOOLEAN]

PeerPos(q) == Len(q.got) + Count(q.fin)

\* Up to where the peer has room.
PeerEdge(q) == PeerPos(q) + PeerBuf - q.unread

DataEdge(q) == Len(q.got) + PeerBuf - q.unread

\* What the peer has got is a prefix of what was written.
PeerOk(q, w) ==
  /\ q \in Peers /\ Len(q.got) <= w /\ q.unread <= Len(q.got)
  /\ \A i \in 1..Len(q.got) : q.got[i] = i
  /\ q.fin => Len(q.got) = N

Edge(a) == Pos(a.ackno) + a.wnd

\* An acknowledgement is of something the peer has got, and its window does not
\* retreat.
AnswersOk(A, q) ==
  /\ \A a \in A :
       /\ a \in Answers /\ 0 <= Pos(a.ackno) /\ Pos(a.ackno) <= PeerPos(q)
       /\ PeerBuf <= Edge(a) /\ Edge(a) <= PeerEdge(q)
  /\ \A a, b \in A : Pos(a.ackno) < Pos(b.ackno) => Edge(a) <= Edge(b)

SynSeg == [seqno |-> Plus(ISS, -1), data |-> <<>>, clen |-> 1, fin |-> FALSE, syn |-> TRUE]

NetOk(S, q, w) ==
  \A m \in S : \/ m = Wire(SynSeg)
               \/ GoodWire(m, w) /\ (Len(m.data) > 1 => DataTo(m) <= DataEdge(q))

WlPos(p) == Pos(p.snd_wl2)

WndEdge(p) == WlPos(p) + p.snd_wnd

\* The window is the peer's, as of some time since lastack.
Window(p, A, q) ==
  /\ AckPos(p) <= WlPos(p) /\ WlPos(p) <= PeerPos(q) /\ WndEdge(p) <= PeerEdge(q)
  /\ p.snd_wl1 = -1 => WlPos(p) = 0 /\ p.snd_wnd = PeerBuf
  /\ \A a \in A : WlPos(p) < Pos(a.ackno) => WndEdge(p) <= Edge(a)

Ctl(p) == p.mss <= p.cwnd /\ p.mss <= p.ssthresh /\ Restful(p)

Acct(p) ==
  /\ p.snd_queuelen = Load(p) /\ Load(p) <= TCP_SND_QUEUELEN
  /\ p.snd_buf = (TCP_SND_BUF - (LbbPos(p) - AckPos(p))) % W
  /\ p.state = "ESTABLISHED" => LbbPos(p) - AckPos(p) <= TCP_SND_BUF

Live(p, w, A, q) ==
  /\ Ordered(p, w) /\ Fits(p) /\ Window(p, A, q) /\ Reached(PeerPos(q), p)
  /\ Ctl(p) /\ Acct(p)

NetReached(S, p) == \A m \in S : ~m.syn => Reached(To(m), p)

LEMMA PeerFacts ==
  ASSUME NEW q, NEW w \in 0..N, PeerOk(q, w)
  PROVE  /\ q.got \in Seq(Nat) /\ Len(q.got) \in Nat /\ q.unread \in Nat /\ q.fin \in BOOLEAN
         /\ PeerPos(q) \in Nat /\ PeerPos(q) <= N + 1 /\ PeerPos(q) \in Places
         /\ PeerEdge(q) \in Nat /\ DataEdge(q) \in Nat /\ PeerBuf \in Nat /\ N \in Nat
         /\ q.unread <= PeerBuf /\ Len(q.got) <= N
         /\ PeerEdge(q) = PeerPos(q) + (PeerBuf - q.unread)
         /\ DataEdge(q) = Len(q.got) + (PeerBuf - q.unread)
         /\ (q.fin => PeerPos(q) = Len(q.got) + 1) /\ (~q.fin => PeerPos(q) = Len(q.got))
<1>1. /\ q \in Peers /\ Len(q.got) <= w /\ q.unread <= Len(q.got) /\ PeerBuf \in Nat
      /\ N \in Nat /\ (q.fin => Len(q.got) = N)
  BY SpaceFacts DEF PeerOk
<1>2. q.got \in Seq(Nat) /\ Len(q.got) \in Nat /\ q.unread \in 0..PeerBuf /\ q.fin \in BOOLEAN
  BY <1>1 DEF Peers
<1> DEFINE g == Len(q.got)
           c == Count(q.fin)
<1>3. c \in 0..1 /\ (q.fin => c = 1) /\ (~q.fin => c = 0)
  BY <1>2 DEF Count
<1>4. PeerPos(q) = g + c /\ PeerEdge(q) = g + c + PeerBuf - q.unread
      /\ DataEdge(q) = g + PeerBuf - q.unread
  BY DEF PeerPos, PeerEdge, DataEdge
<1>5. g \in Nat /\ g <= w /\ w \in 0..N /\ q.unread \in Nat /\ q.unread <= PeerBuf
  BY <1>1, <1>2
<1> HIDE DEF g, c
<1>6. /\ g + c \in Nat /\ g + c <= N + 1 /\ g + c \in Places /\ g + c + PeerBuf - q.unread \in Nat
      /\ g + PeerBuf - q.unread \in Nat /\ g <= N
      /\ g + c + PeerBuf - q.unread = (g + c) + (PeerBuf - q.unread)
      /\ g + PeerBuf - q.unread = g + (PeerBuf - q.unread)
  BY <1>1, <1>3, <1>5 DEF Places
<1>7. (q.fin => g + c = g + 1) /\ (~q.fin => g + c = g)
  BY <1>3, <1>5
<1> QED BY <1>1, <1>2, <1>4, <1>5, <1>6, <1>7 DEF g

LEMMA WireFacts ==
  ASSUME NEW m, NEW w \in 0..N, GoodWire(m, w)
  PROVE  /\ m \in Wires /\ m.seqno \in Seqs /\ m.data \in Seq(Nat) /\ Len(m.data) \in Nat
         /\ m.fin \in BOOLEAN /\ ~m.syn /\ From(m) \in Nat /\ DataTo(m) \in Nat /\ To(m) \in Nat
         /\ From(m) <= N /\ From(m) \in Places /\ DataTo(m) = From(m) + Len(m.data)
         /\ DataTo(m) <= w /\ DataTo(m) <= N /\ To(m) <= N + 1
         /\ (m.fin => To(m) = DataTo(m) + 1) /\ (~m.fin => To(m) = DataTo(m))
<1>1. m \in Wires /\ ~m.syn /\ From(m) \in 0..N /\ DataTo(m) <= w /\ N \in Nat
  BY SpaceFacts DEF GoodWire
<1>2. m.seqno \in Seqs /\ m.data \in Seq(Nat) /\ Len(m.data) \in Nat /\ m.fin \in BOOLEAN
  BY <1>1 DEF Wires
<1> DEFINE f == From(m)
           k == Len(m.data)
           c == Count(m.fin)
<1>3. c \in 0..1 /\ (m.fin => c = 1) /\ (~m.fin => c = 0)
  BY <1>2 DEF Count
<1>4. DataTo(m) = f + k /\ To(m) = f + k + c
  BY DEF DataTo, To
<1>5. f \in 0..N /\ k \in Nat /\ f + k <= w
  BY <1>1, <1>2, <1>4
<1> HIDE DEF f, k, c
<1>6. /\ f \in Nat /\ f + k \in Nat /\ f + k + c \in Nat /\ f <= N /\ f \in Places
      /\ f + k <= N /\ f + k + c <= N + 1
  BY <1>1, <1>3, <1>5 DEF Places
<1>7. (m.fin => f + k + c = (f + k) + 1) /\ (~m.fin => f + k + c = f + k)
  BY <1>3, <1>5
<1> QED BY <1>1, <1>2, <1>4, <1>5, <1>6, <1>7 DEF f, k

LEMMA WindowFacts ==
  ASSUME NEW p \in Pcbs, NEW A, NEW q, NEW w \in 0..N, PeerOk(q, w), Window(p, A, q)
  PROVE  /\ p.snd_wl2 \in Seqs /\ WlPos(p) \in Int /\ p.snd_wnd \in Nat /\ p.snd_wnd <= PeerBuf
         /\ WndEdge(p) \in Int /\ WndEdge(p) = WlPos(p) + p.snd_wnd
         /\ AckPos(p) <= WlPos(p) /\ WlPos(p) <= PeerPos(q) /\ WndEdge(p) <= PeerEdge(q)
         /\ p.snd_wl1 \in {-1, 1}
<1>1. p.snd_wl2 \in Seqs /\ p.snd_wnd \in 0..PeerBuf /\ p.snd_wl1 \in {-1, 1} /\ PeerBuf \in Nat
  BY SpaceFacts DEF Pcbs
<1>2. WlPos(p) \in Int
  BY <1>1, PosForm DEF WlPos
<1> QED BY <1>1, <1>2 DEF WndEdge, Window

\* What is sent keeps the invariant.
LEMMA LoopLive ==
  ASSUME NEW o, NEW w, NEW A, NEW q, NEW r, PeerOk(q, w), Live(o, w, A, q), LoopOk(r, o, w)
  PROVE  Live(r.pcb, w, A, q)
<1> DEFINE p == r.pcb
<1>1. /\ Ordered(p, w) /\ Fits(p) /\ Kept(o, p) /\ Load(p) = Load(o) /\ Restful(p)
      /\ \A e \in Int : Reached(e, o) => Reached(e, p)
  BY DEF LoopOk, Restful
<1>2. Window(o, A, q) /\ Reached(PeerPos(q), o) /\ Ctl(o) /\ Acct(o) /\ Marks(o, w)
  BY DEF Live, Ordered
<1>3. AckPos(p) = AckPos(o) /\ LbbPos(p) = LbbPos(o) /\ WlPos(p) = WlPos(o)
  BY <1>1 DEF Kept, AckPos, LbbPos, WlPos
<1>4. Window(p, A, q)
  <2>1. WndEdge(p) = WndEdge(o) /\ p.snd_wl1 = o.snd_wl1 /\ p.snd_wnd = o.snd_wnd
    BY <1>1, <1>3 DEF Kept, WndEdge
  <2> QED BY <1>2, <1>3, <2>1 DEF Window
<1>5. Reached(PeerPos(q), p)
  <2>1. PeerPos(q) \in Int
    BY <1>2, MarkFacts, PeerFacts
  <2> QED BY <1>1, <1>2, <2>1
<1>6. Ctl(p)
  BY <1>1, <1>2 DEF Ctl, Kept
<1>7. Acct(p)
  BY <1>1, <1>2, <1>3 DEF Acct, Kept
<1> QED BY <1>1, <1>4, <1>5, <1>6, <1>7 DEF Live

LEMMA LoopNet ==
  ASSUME NEW o, NEW w, NEW A, NEW q, NEW r, PeerOk(q, w), Live(o, w, A, q), LoopOk(r, o, w),
         NEW S, NetOk(S, q, w), NetReached(S, o)
  PROVE  NetOk(S \cup r.sent, q, w) /\ NetReached(S \cup r.sent, r.pcb)
<1> DEFINE p == r.pcb
<1>1. Live(p, w, A, q)
  BY LoopLive
<1>2. Marks(p, w) /\ Window(p, A, q) /\ \A e \in Int : Reached(e, o) => Reached(e, p)
  BY <1>1 DEF Live, Ordered, LoopOk
<1>3. p \in Pcbs /\ w \in 0..N /\ AckPos(p) \in Nat /\ NxtPos(p) \in Nat
  BY <1>2, MarkFacts
<1>4. ASSUME NEW m \in r.sent
      PROVE  /\ GoodWire(m, w) /\ DataTo(m) <= DataEdge(q) /\ Reached(To(m), p)
  <2>1. GoodWire(m, w) /\ To(m) <= NxtPos(p) /\ DataTo(m) <= AckPos(p) + p.snd_wnd
    BY DEF LoopOk, SentOk
  <2>2. DataTo(m) \in Nat /\ DataTo(m) <= N
    BY <1>3, <2>1, WireFacts
  <2>3. /\ WlPos(p) \in Int /\ p.snd_wnd \in Nat /\ WndEdge(p) = WlPos(p) + p.snd_wnd
        /\ AckPos(p) <= WlPos(p) /\ WndEdge(p) <= PeerEdge(q)
    BY <1>2, <1>3, WindowFacts
  <2>4. /\ Len(q.got) \in Nat /\ q.unread \in Nat /\ q.fin \in BOOLEAN /\ PeerPos(q) \in Nat
        /\ q.unread <= PeerBuf /\ PeerBuf \in Nat
        /\ PeerEdge(q) = PeerPos(q) + (PeerBuf - q.unread)
        /\ DataEdge(q) = Len(q.got) + (PeerBuf - q.unread)
        /\ ~q.fin => PeerPos(q) = Len(q.got)
    BY <1>3, PeerFacts
  <2>5. q.fin => Len(q.got) = N
    BY DEF PeerOk
  <2>6. DataTo(m) <= DataEdge(q)
    <3> DEFINE d == DataTo(m)
               z == PeerBuf - q.unread
               g == Len(q.got)
               a == AckPos(p)
               l == WlPos(p)
    <3>0. z \in Nat
      BY <2>4
    <3>1. d \in Nat /\ d <= N /\ z \in Nat /\ g \in Nat /\ DataEdge(q) = g + z /\ N \in Nat
          /\ d <= a + p.snd_wnd /\ a <= l /\ a \in Nat /\ l \in Int /\ p.snd_wnd \in Nat
      <4> HIDE DEF z
      <4>1. DataEdge(q) = g + z
        BY <2>4 DEF z
      <4> QED BY <1>3, <2>1, <2>2, <2>3, <2>4, <3>0, <4>1, SpaceFacts
    <3>2. CASE q.fin
      <4>1. g = N
        BY <2>5, <3>2
      <4> HIDE DEF d, z, g
      <4>2. d <= g + z
        BY <3>1, <4>1
      <4> QED BY <3>1, <4>2 DEF d
    <3>3. CASE ~q.fin
      <4>1. l + p.snd_wnd <= g + z
        BY <2>3, <2>4, <3>3
      <4> HIDE DEF d, z, g, a, l
      <4>2. d <= g + z
        BY <3>1, <4>1
      <4> QED BY <3>1, <4>2 DEF d
    <3> QED BY <3>2, <3>3
  <2>7. Reached(To(m), p)
    BY <2>1 DEF Reached
  <2> QED BY <2>1, <2>6, <2>7
<1>5. NetOk(S \cup r.sent, q, w)
  BY <1>4 DEF NetOk
<1>6. ASSUME NEW m \in S, ~m.syn PROVE Reached(To(m), p)
  <2>1. m = Wire(SynSeg) \/ GoodWire(m, w)
    BY DEF NetOk
  <2>2. GoodWire(m, w)
    BY <1>6, <2>1 DEF Wire, SynSeg
  <2>3. To(m) \in Int
    BY <1>3, <2>2, WireFacts
  <2> QED BY <1>2, <1>6, <2>3 DEF NetReached
<1> QED BY <1>4, <1>5, <1>6 DEF NetReached

LEMMA CarryIn ==
  ASSUME NEW S, NEW T, NEW R \in Carry(S, T)
  PROVE  R \subseteq S \cup T
BY DEF Carry

LEMMA NetSubset ==
  ASSUME NEW S, NEW R, R \subseteq S, NEW q, NEW w, NEW p
  PROVE  /\ NetOk(S, q, w) => NetOk(R, q, w)
         /\ NetReached(S, p) => NetReached(R, p)
BY DEF NetOk, NetReached

LEMMA AnswersSubset ==
  ASSUME NEW A, NEW B, B \subseteq A, NEW q, NEW p, NEW w
  PROVE  /\ AnswersOk(A, q) => AnswersOk(B, q)
         /\ Live(p, w, A, q) => Live(p, w, B, q)
<1>1. AnswersOk(A, q) => AnswersOk(B, q)
  BY DEF AnswersOk
<1>2. Window(p, A, q) => Window(p, B, q)
  BY DEF Window
<1> QED BY <1>1, <1>2 DEF Live

-----------------------------------------------------------------------------
(* tcp_receive().                                                          *)

\* What an acknowledgement does to the window: x is its position.
Widened(p, v, x) ==
  /\ v \in Pcbs /\ Alike(p, v)
  /\ v.cwnd = p.cwnd /\ v.ssthresh = p.ssthresh /\ v.rtime = p.rtime /\ v.infr = p.infr
  /\ v.snd_buf = p.snd_buf /\ v.snd_queuelen = p.snd_queuelen
  /\ x <= WlPos(v)
  /\ x <= AckPos(p) => p.snd_wnd <= v.snd_wnd
  /\ AckPos(p) < x => AckPos(p) + p.snd_wnd <= x + v.snd_wnd

\* The test of snd_wl1 and snd_wl2.
Newer(p, a) ==
  \/ p.snd_wl1 < 1
  \/ TCP_SEQ_LT(p.snd_wl2, a.ackno)
  \/ p.snd_wl2 = a.ackno /\ a.wnd > p.snd_wnd

LEMMA AnswerFacts ==
  ASSUME NEW A, NEW q, NEW w \in 0..N, PeerOk(q, w), AnswersOk(A, q), NEW a \in A
  PROVE  /\ a.ackno \in Seqs /\ a.wnd \in Nat /\ a.wnd <= PeerBuf /\ a.syn \in BOOLEAN
         /\ Pos(a.ackno) \in Nat /\ Pos(a.ackno) <= PeerPos(q) /\ Pos(a.ackno) \in Places
         /\ Pos(a.ackno) <= N + 1
         /\ Edge(a) = Pos(a.ackno) + a.wnd /\ PeerBuf <= Edge(a) /\ Edge(a) <= PeerEdge(q)
<1>1. /\ a \in Answers /\ 0 <= Pos(a.ackno) /\ Pos(a.ackno) <= PeerPos(q)
      /\ PeerBuf <= Edge(a) /\ Edge(a) <= PeerEdge(q) /\ PeerBuf \in Nat
  BY SpaceFacts DEF AnswersOk
<1>2. a.ackno \in Seqs /\ a.wnd \in 0..PeerBuf /\ a.syn \in BOOLEAN
  BY <1>1 DEF Answers
<1> DEFINE x == Pos(a.ackno)
<1>3. x \in Int /\ PeerPos(q) \in Nat /\ PeerPos(q) <= N + 1 /\ N \in Nat
  BY <1>2, PosForm, PeerFacts
<1>a. 0 <= x /\ x <= PeerPos(q)
  BY <1>1
<1> HIDE DEF x
<1>4. x \in Nat /\ x <= N + 1 /\ x \in Places
  BY <1>a, <1>3 DEF Places
<1> QED BY <1>1, <1>2, <1>4 DEF x, Edge

LEMMA SndWndType ==
  ASSUME NEW p \in Pcbs, NEW a, a.ackno \in Seqs, a.wnd \in 0..PeerBuf
  PROVE  LET v == SndWnd(p, a)
         IN  /\ v \in Pcbs /\ Alike(p, v)
             /\ v.cwnd = p.cwnd /\ v.ssthresh = p.ssthresh /\ v.rtime = p.rtime
             /\ v.infr = p.infr /\ v.snd_buf = p.snd_buf /\ v.snd_queuelen = p.snd_queuelen
             /\ Newer(p, a) => v.snd_wnd = a.wnd /\ v.snd_wl1 = 1 /\ v.snd_wl2 = a.ackno
             /\ ~Newer(p, a) => v = p
<1> DEFINE b == p.persist /\ a.wnd = 0
           u == [p EXCEPT !.snd_wnd = a.wnd, !.snd_wl1 = 1, !.snd_wl2 = a.ackno, !.persist = b]
<1>1. SndWnd(p, a) = IF Newer(p, a) THEN u ELSE p
  BY Zenon DEF SndWnd, Newer
<1>2. b \in BOOLEAN
  BY Zenon
<1> HIDE DEF b
<1>3. /\ u \in Pcbs /\ Alike(p, u)
      /\ u.cwnd = p.cwnd /\ u.ssthresh = p.ssthresh /\ u.rtime = p.rtime
      /\ u.infr = p.infr /\ u.snd_buf = p.snd_buf /\ u.snd_queuelen = p.snd_queuelen
      /\ u.snd_wnd = a.wnd /\ u.snd_wl1 = 1 /\ u.snd_wl2 = a.ackno
  BY <1>2 DEF Pcbs, Alike
<1> HIDE DEF u
<1> QED BY <1>1, <1>3 DEF Alike

LEMMA SndWndOk ==
  ASSUME NEW p, NEW w, NEW A, NEW q, PeerOk(q, w), AnswersOk(A, q), Marks(p, w),
         Window(p, A, q), NEW a \in A
  PROVE  LET v == SndWnd(p, a)
         IN  Widened(p, v, Pos(a.ackno)) /\ Window(v, A, q)
<1> DEFINE v == SndWnd(p, a)
           x == Pos(a.ackno)
           e == Edge(a)
           l == WlPos(p)
           a0 == AckPos(p)
           n == p.snd_wnd
           m == a.wnd
<1>1. p \in Pcbs /\ w \in 0..N /\ a0 \in Nat
  BY MarkFacts
<1>2. /\ a.ackno \in Seqs /\ m \in Nat /\ x \in Nat /\ x <= PeerPos(q) /\ e = x + m
      /\ PeerBuf <= e /\ e <= PeerEdge(q) /\ PeerBuf \in Nat /\ m \in 0..PeerBuf /\ x \in Places
  <2>1. /\ a.ackno \in Seqs /\ m \in Nat /\ x \in Nat /\ x <= PeerPos(q) /\ e = x + m
        /\ PeerBuf <= e /\ e <= PeerEdge(q) /\ m <= PeerBuf /\ x \in Places /\ PeerBuf \in Nat
    BY <1>1, AnswerFacts, SpaceFacts
  <2> QED BY <2>1
<1>3. /\ p.snd_wl2 \in Seqs /\ l \in Int /\ n \in Nat /\ WndEdge(p) = l + n /\ a0 <= l
      /\ l <= PeerPos(q) /\ p.snd_wl1 \in {-1, 1}
  BY <1>1, WindowFacts
<1>4. /\ v \in Pcbs /\ Alike(p, v)
      /\ v.cwnd = p.cwnd /\ v.ssthresh = p.ssthresh /\ v.rtime = p.rtime
      /\ v.infr = p.infr /\ v.snd_buf = p.snd_buf /\ v.snd_queuelen = p.snd_queuelen
      /\ Newer(p, a) => v.snd_wnd = m /\ v.snd_wl1 = 1 /\ v.snd_wl2 = a.ackno
      /\ ~Newer(p, a) => v = p
  BY <1>1, <1>2, SndWndType
<1> HIDE DEF v
<1>5. (p.snd_wl1 = -1 => l = 0 /\ n = PeerBuf) /\ (l < x => l + n <= e)
  BY <1>3 DEF Window
<1>6. l \in Places
  BY <1>1, <1>3, PeerFacts DEF Places
<1>7. (TCP_SEQ_LT(p.snd_wl2, a.ackno) <=> l < x) /\ (p.snd_wl2 = a.ackno <=> l = x)
  BY <1>2, <1>3, <1>6, Compare DEF WlPos
<1>8. CASE Newer(p, a)
  <2>1. \/ l = 0 /\ n = PeerBuf
        \/ l < x
        \/ l = x /\ n < m
    BY <1>2, <1>3, <1>5, <1>7, <1>8 DEF Newer
  <2>2. WlPos(v) = x /\ WndEdge(v) = e /\ v.snd_wnd = m /\ v.snd_wl1 = 1 /\ AckPos(v) = a0
    BY <1>2, <1>4, <1>8 DEF WlPos, WndEdge, Alike, AckPos
  <2>3. a0 <= x /\ (x <= a0 => n <= m) /\ (a0 < x => a0 + n <= x + m)
    <3> HIDE DEF x, e, l, a0, n, m
    <3>1. CASE l = 0 /\ n = PeerBuf
      BY <1>1, <1>2, <1>3, <3>1
    <3>2. CASE l < x
      BY <1>1, <1>2, <1>3, <1>5, <3>2
    <3>3. CASE l = x /\ n < m
      BY <1>1, <1>2, <1>3, <3>3
    <3> QED BY <2>1, <3>1, <3>2, <3>3
  <2>4. Widened(p, v, x)
    <3>1. x <= WlPos(v) /\ (x <= a0 => n <= v.snd_wnd) /\ (a0 < x => a0 + n <= x + v.snd_wnd)
      BY <1>2, <2>2, <2>3
    <3> QED BY <1>4, <3>1 DEF Widened
  <2>5. \A b \in A : WlPos(v) < Pos(b.ackno) => WndEdge(v) <= Edge(b)
    BY <2>2 DEF AnswersOk
  <2>6. Window(v, A, q)
    BY <1>2, <2>2, <2>3, <2>5 DEF Window
  <2> QED BY <2>4, <2>6 DEF v
<1>9. CASE ~Newer(p, a)
  <2>1. v = p /\ x <= l
    BY <1>2, <1>3, <1>4, <1>7, <1>9 DEF Newer
  <2>2. (x <= a0 => n <= n) /\ (a0 < x => a0 + n <= x + n)
    BY <1>1, <1>2, <1>3
  <2>3. Widened(p, v, x)
    BY <1>4, <2>1, <2>2 DEF Widened
  <2> QED BY <2>1, <2>3 DEF v
<1> QED BY <1>8, <1>9

\* A change of congestion control, and of nothing else that matters.
Tuned(p, r) ==
  /\ r \in Pcbs /\ Alike(p, r)
  /\ r.snd_wnd = p.snd_wnd /\ r.snd_wl1 = p.snd_wl1 /\ r.snd_wl2 = p.snd_wl2
  /\ r.snd_buf = p.snd_buf /\ r.snd_queuelen = p.snd_queuelen /\ r.rtime = p.rtime
  /\ r.mss <= r.cwnd /\ r.mss <= r.ssthresh

LEMMA TunedLive ==
  ASSUME NEW p, NEW r, NEW w, NEW A, NEW q, Tuned(p, r), Live(p, w, A, q)
  PROVE  Live(r, w, A, q) /\ \A e : Reached(e, p) => Reached(e, r)
<1>1. r \in Pcbs /\ Alike(p, r)
  BY DEF Tuned
<1>2. /\ Ordered(p, w) /\ Fits(p) /\ Window(p, A, q) /\ Reached(PeerPos(q), p)
      /\ Ctl(p) /\ Acct(p)
  BY DEF Live
<1>3. Ordered(r, w)
  BY <1>1, <1>2, AlikeOrdered
<1>4. /\ AckPos(r) = AckPos(p) /\ NxtPos(r) = NxtPos(p) /\ LbbPos(r) = LbbPos(p)
      /\ WlPos(r) = WlPos(p) /\ WndEdge(r) = WndEdge(p)
  BY DEF Tuned, Alike, AckPos, NxtPos, LbbPos, WlPos, WndEdge
<1>5. Fits(r)
  BY <1>2, <1>4 DEF Fits, Tuned, Alike
<1>6. Window(r, A, q)
  BY <1>2, <1>4 DEF Window, Tuned
<1>7. \A e : Reached(e, p) => Reached(e, r)
  BY <1>1, <1>4 DEF Reached, Alike
<1>8. Ctl(r)
  BY <1>1, <1>2 DEF Ctl, Tuned, Alike, Restful
<1>9. Acct(r)
  <2>1. Load(r) = Load(p)
    BY <1>1 DEF Load, Alike
  <2> QED BY <1>1, <1>2, <1>4, <2>1 DEF Acct, Tuned, Alike
<1>10. Live(r, w, A, q)
  BY <1>2, <1>3, <1>5, <1>6, <1>7, <1>8, <1>9 DEF Live
<1> QED BY <1>7, <1>10

LEMMA WiderOk ==
  ASSUME NEW c \in 1..(W - 1), NEW n \in Int
  PROVE  Wider(c, n) \in 1..(W - 1) /\ c <= Wider(c, n)
<1>1. W \in Nat /\ W > 0
  BY SpaceFacts
<1>2. (c + n) % W \in 0..(W - 1)
  BY <1>1
<1> DEFINE d == (c + n) % W
<1>3. d \in 0..(W - 1)
  BY <1>2
<1> HIDE DEF d
<1>4. (IF d > c THEN d ELSE c) \in 1..(W - 1) /\ c <= (IF d > c THEN d ELSE c)
  BY <1>1, <1>3
<1> QED BY <1>4 DEF Wider, d

LEMMA RateFacts ==
  ASSUME NEW p \in Pcbs
  PROVE  /\ p.mss \in Nat \ {0} /\ 10 * p.mss < W /\ p.cwnd \in 1..(W - 1)
         /\ p.ssthresh \in 1..(W - 1) /\ p.snd_wnd \in Nat /\ p.snd_wnd < W
         /\ (p.dupacks + 1) % W8 \in 0..(W8 - 1) /\ (p.nrtx + 1) % W8 \in 0..(W8 - 1)
<1>1. /\ p.mss \in 1..TCP_MSS /\ p.cwnd \in 1..(W - 1) /\ p.ssthresh \in 1..(W - 1)
      /\ p.snd_wnd \in 0..PeerBuf /\ p.dupacks \in 0..(W8 - 1) /\ p.nrtx \in 0..(W8 - 1)
  BY DEF Pcbs
<1>2. /\ TCP_MSS \in Nat \ {0} /\ W \in Nat /\ 10 * TCP_MSS < W /\ W8 \in Nat \ {0}
      /\ PeerBuf \in Nat /\ PeerBuf < W
  BY SpaceFacts
<1>3. p.mss \in Nat \ {0} /\ 10 * p.mss < W /\ p.snd_wnd \in Nat /\ p.snd_wnd < W
  BY <1>1, <1>2
<1>4. (p.dupacks + 1) % W8 \in 0..(W8 - 1) /\ (p.nrtx + 1) % W8 \in 0..(W8 - 1)
  BY <1>1, <1>2
<1> QED BY <1>1, <1>3, <1>4

\* The threshold and the window after a loss: no u16_t overflows.
LEMMA HalvedOk ==
  ASSUME NEW p \in Pcbs, NEW least \in {1, 2}
  PROVE  LET th == AtLeast(Least(p.cwnd, p.snd_wnd) \div 2, least * p.mss, 2 * p.mss)
         IN  /\ th \in 1..(W - 1) /\ p.mss <= th
             /\ (th + 3 * p.mss) % W \in 1..(W - 1) /\ p.mss <= (th + 3 * p.mss) % W
<1> DEFINE m == p.mss
           k == Least(p.cwnd, p.snd_wnd)
           h == k \div 2
           th == AtLeast(h, least * m, 2 * m)
<1>1. m \in Nat \ {0} /\ 10 * m < W /\ W \in Nat
  BY RateFacts, SpaceFacts
<1>2. k \in Nat /\ k < W
  BY RateFacts, SpaceFacts DEF Least
<1> HIDE DEF k
<1>3. h \in Nat /\ 2 * h <= k
  BY <1>2
<1> HIDE DEF h, m
<1>4. least * m = m \/ least * m = 2 * m
  BY <1>1
<1>5. th \in Nat /\ m <= th /\ (th = h \/ th = 2 * m)
  <2> DEFINE z == least * m
  <2>1. z \in Nat /\ m <= z
    BY <1>1, <1>4
  <2> HIDE DEF z
  <2>2. AtLeast(h, z, 2 * m) \in Nat /\ m <= AtLeast(h, z, 2 * m)
        /\ (AtLeast(h, z, 2 * m) = h \/ AtLeast(h, z, 2 * m) = 2 * m)
    BY <1>1, <1>3, <2>1 DEF AtLeast
  <2> QED BY <2>2 DEF z
<1> HIDE DEF th
<1>6. th + 3 * m \in 1..(W - 1) /\ th \in 1..(W - 1) /\ m <= th + 3 * m
  BY <1>1, <1>2, <1>3, <1>5
<1>7. (th + 3 * m) % W = th + 3 * m
  BY <1>1, <1>6
<1> QED BY <1>5, <1>6, <1>7 DEF th, h, k, m

\* What a duplicate does: it tunes congestion control, and the third one puts
\* the first segment of unacked back on unsent.
Retuned(v, r) ==
  \/ Tuned(v, r)
  \/ \E o : Tuned(v, o) /\ o.unacked # <<>> /\ o.infr = TRUE /\ r = Swap(o)

\* The head of unacked goes before the head of unsent.
LEMMA HeadBefore ==
  ASSUME NEW p, NEW w, Ordered(p, w), p.unacked # << >>
  PROVE  Insert(p.unsent, p.unacked[1]) = <<p.unacked[1]>> \o p.unsent
<1>1. PICK lo \in 0..(N + 1), mid \in 0..(N + 1) : Split(p, w, lo, mid)
  BY DEF Ordered
<1>2. /\ p.unsent \in Seq(Segs) /\ w \in 0..N /\ p.mss \in Nat /\ N \in Nat
  BY MarkFacts DEF Ordered
<1>a. lo \in Int /\ mid \in Int
  BY <1>2
<1>3. Chained(p.unacked, lo, mid, w, p.mss) /\ Chained(p.unsent, mid, LbbPos(p), w, p.mss)
  BY <1>1 DEF Split
<1> DEFINE h == p.unacked[1]
           g == p.unsent[1]
<1>4. Good(h, w, p.mss) /\ From(h) = lo
  BY <1>3, ChainTail
<1>5. lo <= mid
  BY <1>2, <1>3, <1>a, ChainEnds
<1>6. ASSUME p.unsent # << >> PROVE ~TCP_SEQ_LT(g.seqno, h.seqno)
  <2>1. Good(g, w, p.mss) /\ From(g) = mid
    BY <1>3, <1>6, ChainTail
  <2> HIDE DEF g, h
  <2>2. /\ h.seqno \in Seqs /\ From(h) \in Places /\ g.seqno \in Seqs /\ From(g) \in Places
    BY <1>2, <1>4, <2>1, GoodFacts
  <2>3. TCP_SEQ_LT(g.seqno, h.seqno) <=> From(g) < From(h)
    BY <2>2, Compare DEF From
  <2> QED BY <1>4, <1>5, <1>a, <2>1, <2>3
<1> HIDE DEF h
<1> QED BY <1>2, <1>6, InsertFront DEF g, h

LEMMA DupAckOk ==
  ASSUME NEW v, NEW w, Ordered(v, w), Ctl(v), NEW a, NEW edge
  PROVE  Retuned(v, DupAck(v, a, edge))
<1> DEFINE d == (v.dupacks + 1) % W8
           q == [v EXCEPT !.dupacks = d]
           b == Plus(v.snd_wl2, v.snd_wnd) = edge /\ v.rtime /\ v.lastack = a.ackno
           c == [q EXCEPT !.cwnd = Wider(@, v.mss)]
<1>1. v \in Pcbs /\ v.mss <= v.cwnd /\ v.mss <= v.ssthresh
  BY MarkFacts DEF Ordered, Ctl
<1>2. /\ v.mss \in Nat \ {0} /\ v.cwnd \in 1..(W - 1) /\ d \in 0..(W8 - 1)
      /\ (v.nrtx + 1) % W8 \in 0..(W8 - 1) /\ W \in Nat /\ W8 \in Nat \ {0}
  BY <1>1, RateFacts, SpaceFacts
<1>3. DupAck(v, a, edge) = IF b THEN IF d > 3 THEN c ELSE IF d = 3 THEN tcp_rexmit_fast(q) ELSE q
                           ELSE [v EXCEPT !.dupacks = 0]
  BY Zenon DEF DupAck
<1> HIDE DEF b, d
<1>4. Tuned(v, q) /\ q.infr = v.infr /\ q.cwnd = v.cwnd /\ q.snd_wnd = v.snd_wnd
      /\ q.nrtx = v.nrtx /\ q \in Pcbs
  BY <1>1, <1>2 DEF Tuned, Alike, Pcbs
<1>5. Tuned(v, [v EXCEPT !.dupacks = 0])
  <2>1. 0 \in 0..(W8 - 1)
    BY <1>2
  <2> QED BY <1>1, <2>1 DEF Tuned, Alike, Pcbs
<1>6. Tuned(v, c)
  <2> DEFINE n == Wider(v.cwnd, v.mss)
  <2>1. n \in 1..(W - 1) /\ v.cwnd <= n
    BY <1>2, WiderOk
  <2> HIDE DEF n
  <2>2. v.mss <= n
    BY <1>1, <1>2, <2>1
  <2>3. c = [q EXCEPT !.cwnd = n]
    BY <1>1 DEF n, Pcbs
  <2> HIDE DEF c
  <2> QED BY <1>1, <1>2, <2>1, <2>2, <2>3 DEF Tuned, Alike, Pcbs
<1>7. ASSUME q.unacked # << >>, ~q.infr PROVE Retuned(v, tcp_rexmit_fast(q))
  <2> DEFINE th == AtLeast(Least(v.cwnd, v.snd_wnd) \div 2, 2 * v.mss, 2 * v.mss)
             e == (th + 3 * v.mss) % W
             k == (v.nrtx + 1) % W8
             o == [q EXCEPT !.nrtx = k, !.ssthresh = th, !.cwnd = e, !.infr = TRUE]
  <2>1. th \in 1..(W - 1) /\ v.mss <= th /\ e \in 1..(W - 1) /\ v.mss <= e
    BY <1>1, HalvedOk
  <2>2. k \in 0..(W8 - 1)
    BY <1>2
  <2>3. q.mss = v.mss /\ q.unacked = v.unacked /\ q.unsent = v.unsent
    BY <1>4 DEF Tuned, Alike
  <2>4. Insert(q.unsent, q.unacked[1]) = <<q.unacked[1]>> \o q.unsent
    BY <1>7, <2>3, HeadBefore
  <2>5. tcp_rexmit(q) = [q EXCEPT !.unacked = Tail(@), !.unsent = Insert(@, q.unacked[1]),
                                  !.nrtx = (@ + 1) % W8]
    BY <1>7 DEF tcp_rexmit
  <2>6. tcp_rexmit_fast(q) = [tcp_rexmit(q) EXCEPT !.ssthresh = th, !.cwnd = e, !.infr = TRUE]
    BY <1>4, <1>7, <2>3 DEF tcp_rexmit_fast
  <2> HIDE DEF th, e, k
  <2>7. Tuned(v, o) /\ o.unacked = q.unacked /\ o.infr = TRUE
    BY <1>1, <1>4, <2>1, <2>2 DEF Tuned, Alike, Pcbs
  <2>8. tcp_rexmit(q) = [q EXCEPT !.unacked = Tail(q.unacked), !.nrtx = k,
                                  !.unsent = <<q.unacked[1]>> \o q.unsent]
    BY <1>4, <2>4, <2>5 DEF k, Pcbs
  <2>9. tcp_rexmit_fast(q) = Swap(o)
    <3> DEFINE ua == Tail(q.unacked)
               us == <<q.unacked[1]>> \o q.unsent
    <3>1. Swap(o) = [o EXCEPT !.unacked = ua, !.unsent = us]
      BY <1>4 DEF Swap, Pcbs
    <3>2. tcp_rexmit_fast(q) = [[q EXCEPT !.unacked = ua, !.nrtx = k, !.unsent = us]
                                  EXCEPT !.ssthresh = th, !.cwnd = e, !.infr = TRUE]
      BY <2>6, <2>8
    <3> HIDE DEF ua, us, q
    <3> QED BY <1>4, <3>1, <3>2 DEF Pcbs
  <2> QED BY <1>7, <2>7, <2>9 DEF Retuned
<1>8. q.unacked = << >> \/ q.infr => tcp_rexmit_fast(q) = q
  BY DEF tcp_rexmit_fast
<1> HIDE DEF q, c
<1> QED BY <1>3, <1>4, <1>5, <1>6, <1>7, <1>8 DEF Retuned

\* What is left of a queue is part of it.
Within(r, q) == \A i \in 1..Len(r) : \E j \in 1..Len(q) : r[i] = q[j]

LEMMA SuffixPart ==
  ASSUME NEW q \in Seq(Segs), NEW n \in 0..Len(q), NEW r, r = SubSeq(q, n + 1, Len(q))
  PROVE  /\ r \in Seq(Segs) /\ Clen(r) \in Nat /\ Clen(q) \in Nat /\ Clen(r) <= Clen(q)
         /\ Within(r, q)
<1> DEFINE f == SubSeq(q, 1, n)
<1>1. f \in Seq(Segs) /\ Len(f) = n /\ \A j \in 1..n : f[j] = q[j]
  BY FrontFacts
<1>2. /\ r \in Seq(Segs) /\ Len(r) = Len(q) - n
      /\ \A j \in 1..(Len(q) - n) : r[j] = q[n + j]
  BY SuffixFacts
<1>3. Len(q) \in Nat /\ n \in Nat /\ n <= Len(q)
  OBVIOUS
<1> HIDE DEF f
<1>4. f \o r = q
  <2>0. f \in Seq(Segs) /\ r \in Seq(Segs)
    BY <1>1, <1>2
  <2>1. f \o r \in Seq(Segs) /\ Len(f \o r) = Len(f) + Len(r)
        /\ \A i \in 1..(Len(f) + Len(r)) : (f \o r)[i] = IF i <= Len(f) THEN f[i] ELSE r[i - Len(f)]
    BY <2>0, ConcatProperties
  <2>2. Len(f \o r) = Len(q)
    <3>1. Len(f) = n /\ Len(r) = Len(q) - n /\ Len(f \o r) = Len(f) + Len(r)
      BY <1>1, <1>2, <2>1
    <3>2. n + (Len(q) - n) = Len(q)
      BY <1>3
    <3> QED BY ONLY <3>1, <3>2
  <2>3. ASSUME NEW i \in 1..Len(q) PROVE (f \o r)[i] = q[i]
    <3>1. (f \o r)[i] = IF i <= n THEN f[i] ELSE r[i - n]
      BY <1>1, <1>2, <1>3, <2>1
    <3>2. CASE i <= n
      BY <1>1, <3>1, <3>2
    <3>3. CASE ~(i <= n)
      <4>1. i - n \in 1..(Len(q) - n) /\ n + (i - n) = i
        BY <1>3, <3>3
      <4> QED BY <1>2, <3>1, <3>3, <4>1
    <3> QED BY <3>2, <3>3
  <2> QED BY <2>1, <2>2, <2>3, SeqEqual
<1>5. Clen(q) = Clen(f) + Clen(r)
  BY <1>1, <1>2, <1>4, ClenConcat, ZenonT(40)
<1>6. Clen(r) \in Nat /\ Clen(q) \in Nat /\ Clen(f) \in Nat
  BY <1>1, <1>2, ClenType
<1>7. ASSUME NEW i \in 1..Len(r) PROVE \E j \in 1..Len(q) : r[i] = q[j]
  <2>1. i \in 1..(Len(q) - n) /\ n + i \in 1..Len(q)
    BY <1>2, <1>3
  <2> QED BY <1>2, <2>1
<1> QED BY <1>2, <1>5, <1>6, <1>7 DEF Within

\* Where the segments that end by position x end.
LEMMA CutBelow ==
  ASSUME NEW q, NEW lo \in 0..(N + 1), NEW hi, NEW w \in 0..N, NEW mss \in Nat,
         Chained(q, lo, hi, w, mss), NEW n \in 0..Len(q), NEW x \in Int, lo <= x,
         \A i \in 1..n : To(q[i]) <= x
  PROVE  Cut(q, lo, n) \in 0..(N + 1) /\ Cut(q, lo, n) <= x
<1>1. CASE n = 0
  BY <1>1 DEF Cut
<1>2. CASE n # 0
  <2>1. Len(q) \in Nat /\ N \in Nat
    BY SpaceFacts DEF Chained
  <2>2. n \in 1..Len(q) /\ n \in 1..n
    BY <1>2, <2>1
  <2>3. Good(q[n], w, mss)
    BY <2>2 DEF Chained
  <2>4. To(q[n]) \in Nat /\ To(q[n]) <= N + 1
    BY <2>3, GoodFacts
  <2>5. To(q[n]) <= x
    BY <2>2
  <2> QED BY <1>2, <2>1, <2>4, <2>5 DEF Cut
<1> QED BY <1>1, <1>2

\* The queues after everything up to x is acknowledged.
AckedTo(left, rest, hi, x, nxt, w, mss) ==
  \E lo, mid \in 0..(N + 1) :
    /\ lo <= x /\ mid <= nxt
    /\ Chained(left, lo, mid, w, mss) /\ Chained(rest, mid, hi, w, mss)
    /\ left # <<>> => x < To(left[1])
    /\ left = <<>> /\ rest # <<>> => x < To(rest[1])

LEMMA QueuesAcked ==
  ASSUME NEW ua, NEW us, NEW left, NEW rest, NEW lo \in 0..(N + 1), NEW mid \in 0..(N + 1),
         NEW hi \in Int, NEW x \in Int, NEW nxt \in Int, NEW w \in 0..N, NEW mss \in Nat,
         lo <= x, mid <= nxt, x <= nxt,
         Chained(ua, lo, mid, w, mss), Chained(us, mid, hi, w, mss),
         FreedTo(ua, left, lo, mid, x, w, mss), FreedTo(us, rest, mid, hi, x, w, mss)
  PROVE  AckedTo(left, rest, hi, x, nxt, w, mss)
<1>0. N \in Nat /\ ua \in Seq(Segs) /\ us \in Seq(Segs) /\ Len(ua) \in Nat /\ Len(us) \in Nat
  BY SpaceFacts DEF Chained
<1>1. PICK n \in 0..Len(ua) :
        /\ Chained(left, Cut(ua, lo, n), mid, w, mss)
        /\ \A i \in 1..n : To(ua[i]) <= x
        /\ left # << >> => left[1] = ua[n + 1] /\ n + 1 \in 1..Len(ua) /\ x < To(left[1])
  BY DEF FreedTo
<1>2. PICK k \in 0..Len(us) :
        /\ Chained(rest, Cut(us, mid, k), hi, w, mss)
        /\ \A i \in 1..k : To(us[i]) <= x
        /\ rest # << >> => x < To(rest[1])
  BY DEF FreedTo
<1> DEFINE c == Cut(ua, lo, n)
           d == Cut(us, mid, k)
<1>3. c \in 0..(N + 1) /\ c <= x
  BY <1>1, CutBelow
<1>a. ASSUME mid <= x PROVE d \in 0..(N + 1) /\ d <= x
  BY <1>2, <1>a, CutBelow
<1>b. Chained(left, c, mid, w, mss) /\ Chained(rest, d, hi, w, mss)
  BY <1>1, <1>2
<1>4. CASE left # << >>
  <2>1. k = 0
    <3> SUFFICES ASSUME k # 0 PROVE FALSE
      OBVIOUS
    <3>1. 1 \in 1..k /\ us # << >> /\ 1 \in 1..Len(us)
      BY <1>0
    <3>2. From(us[1]) = mid /\ Good(us[1], w, mss)
      BY <3>1, ChainTail
    <3>3. To(us[1]) <= x /\ To(us[1]) \in Nat /\ mid < To(us[1])
      BY <1>2, <3>1, <3>2, GoodFacts
    <3>4. x < To(left[1]) /\ To(left[1]) <= mid /\ To(left[1]) \in Nat
      <4>1. left[1] = ua[n + 1] /\ n + 1 \in 1..Len(ua) /\ x < To(left[1])
        BY <1>1, <1>4
      <4>2. lo \in Int /\ mid \in Int
        BY <1>0
      <4>3. To(ua[n + 1]) <= mid
        BY <4>1, <4>2, ChainEnds
      <4>4. Good(ua[n + 1], w, mss)
        BY <4>1 DEF Chained
      <4> QED BY <4>1, <4>3, <4>4, GoodFacts
    <3> QED BY <1>0, <3>3, <3>4
  <2>2. d = mid
    BY <2>1 DEF Cut
  <2> HIDE DEF c, d
  <2> QED BY <1>1, <1>3, <1>4, <1>b, <2>2 DEF AckedTo
<1>5. CASE left = << >>
  <2>1. c = mid
    BY <1>5, <1>b DEF Chained
  <2>2. d \in 0..(N + 1) /\ d <= x
    BY <1>3, <1>a, <2>1
  <2>3. d <= nxt /\ Chained(left, d, d, w, mss)
    BY <1>0, <1>5, <2>2, ChainEmpty
  <2> HIDE DEF c, d
  <2> QED BY <1>2, <1>5, <1>b, <2>2, <2>3 DEF AckedTo
<1> QED BY <1>4, <1>5

\* When nothing on unsent is acknowledged, nothing changes.
LEMMA FreeNothing ==
  ASSUME NEW r \in Pcbs PROVE FreeAcked(r, r.unacked, r.unsent) = r
<1> DEFINE n == r.snd_queuelen - (Clen(r.unacked) - Clen(r.unacked))
                  - (Clen(r.unsent) - Clen(r.unsent))
<1>1. r.snd_queuelen \in Int /\ r.unacked \in Seq(Segs) /\ r.unsent \in Seq(Segs)
  BY DEF Pcbs
<1>2. Clen(r.unacked) \in Nat /\ Clen(r.unsent) \in Nat
  BY <1>1, ClenType
<1>3. n = r.snd_queuelen
  BY <1>1, <1>2
<1>4. FreeAcked(r, r.unacked, r.unsent)
      = [r EXCEPT !.unacked = r.unacked, !.unsent = r.unsent, !.snd_queuelen = n]
  BY DEF FreeAcked, Pcbs
<1> HIDE DEF n
<1> QED BY <1>3, <1>4 DEF Pcbs

LEMMA UnsentStays ==
  ASSUME NEW r \in Pcbs, NEW a, a.ackno \in Seqs, Pos(a.ackno) \in Places,
         Pos(r.snd_nxt) \in Places, NEW w \in 0..N, NEW mss \in Nat,
         r.unsent # << >> =>
           /\ Good(r.unsent[1], w, mss)
           /\ Pos(a.ackno) < To(r.unsent[1]) \/ NxtPos(r) < Pos(a.ackno)
  PROVE  FreeAcked(r, r.unacked, Unsent(r, a)) = r
<1> DEFINE s == {i \in DOMAIN r.unsent : TCP_SEQ_BETWEEN(a.ackno, SegEnd(r.unsent[i]), r.snd_nxt)}
           h == r.unsent[1]
<1>1. r.unsent \in Seq(Segs) /\ r.snd_nxt \in Seqs
  BY DEF Pcbs
<1>2. 1 \notin s
  <2> SUFFICES ASSUME 1 \in s PROVE FALSE
    OBVIOUS
  <2>1. r.unsent # << >> /\ TCP_SEQ_BETWEEN(a.ackno, SegEnd(h), r.snd_nxt)
    BY <1>1
  <2>2. Good(h, w, mss) /\ (Pos(a.ackno) < To(h) \/ NxtPos(r) < Pos(a.ackno))
    BY <2>1
  <2> HIDE DEF h, s
  <2>3. SegEnd(h) \in Seqs /\ Pos(SegEnd(h)) = To(h) /\ To(h) \in Places /\ To(h) \in Nat
    BY <2>2, GoodFacts
  <2>4. To(h) <= Pos(a.ackno) /\ Pos(a.ackno) <= NxtPos(r)
    BY <1>1, <2>1, <2>3, CompareBetween DEF NxtPos
  <2>5. Pos(a.ackno) \in Int /\ NxtPos(r) \in Int
    BY <1>1, PosForm DEF NxtPos
  <2> QED BY <2>2, <2>3, <2>4, <2>5
<1>3. s \subseteq DOMAIN r.unsent
  OBVIOUS
<1>4. Unsent(r, a) = Freed(r.unsent, s)
  BY DEF Unsent
<1> HIDE DEF s
<1>5. Unsent(r, a) = r.unsent
  BY <1>1, <1>2, <1>3, <1>4, FreedNone
<1> QED BY <1>5, FreeNothing

\* What a new acknowledgement leaves of the pcb.
AckedPcb(v, z, ackno, left, rest) ==
  /\ z \in Pcbs /\ z.unacked = left /\ z.unsent = rest /\ z.lastack = ackno
  /\ z.state = v.state /\ z.mss = v.mss /\ z.snd_lbb = v.snd_lbb /\ z.snd_nxt = v.snd_nxt
  /\ z.snd_wnd = v.snd_wnd /\ z.snd_wl1 = v.snd_wl1 /\ z.snd_wl2 = v.snd_wl2
  /\ z.tf_fin = v.tf_fin /\ z.rtime = (left # <<>>)
  /\ z.mss <= z.cwnd /\ z.mss <= z.ssthresh
  /\ z.snd_buf = (v.snd_buf + Minus(ackno, v.lastack)) % W
  /\ z.snd_queuelen = v.snd_queuelen - (Clen(v.unacked) - Clen(left))
                                     - (Clen(v.unsent) - Clen(rest))

LEMMA GrownOk ==
  ASSUME NEW p \in Pcbs, p.mss <= p.cwnd
  PROVE  Grown(p) \in 1..(W - 1) /\ p.mss <= Grown(p)
<1> DEFINE c == p.cwnd
           m == p.mss
<1>1. m \in Nat \ {0} /\ m \in Int /\ c \in 1..(W - 1) /\ W \in Nat /\ m <= c
  BY RateFacts, SpaceFacts
<1>2. (m * m) \div c \in Int
  <2>1. m * m \in Int /\ c \in Nat \ {0}
    BY <1>1
  <2> DEFINE k == m * m
  <2>2. k \in Int
    BY <2>1
  <2> HIDE DEF k, c
  <2>3. k \div c \in Int
    BY <2>1, <2>2
  <2> QED BY <2>3 DEF k
<1>3. Grown(p) = Wider(c, m) \/ Grown(p) = Wider(c, (m * m) \div c)
  BY DEF Grown
<1> DEFINE d == (m * m) \div c
<1>4. d \in Int /\ (Grown(p) = Wider(c, m) \/ Grown(p) = Wider(c, d))
  BY <1>2, <1>3
<1> HIDE DEF c, m, d
<1>5. Wider(c, m) \in 1..(W - 1) /\ c <= Wider(c, m) /\ Wider(c, d) \in 1..(W - 1) /\ c <= Wider(c, d)
  BY <1>1, <1>4, WiderOk
<1>6. Grown(p) \in 1..(W - 1) /\ c <= Grown(p)
  BY <1>4, <1>5
<1>7. m <= Grown(p)
  BY <1>1, <1>6
<1> QED BY <1>6, <1>7 DEF m

\* The part of unacked that a new acknowledgement leaves.
LeftOf(p, a) == Freed(p.unacked, {i \in DOMAIN p.unacked :
                                    TCP_SEQ_LEQ(SegEnd(p.unacked[i]), a.ackno)})

LEMMA NewAckType ==
  ASSUME NEW v \in Pcbs, NEW a, a.ackno \in Seqs, v.mss <= v.cwnd, v.mss <= v.ssthresh,
         LeftOf(v, a) \in Seq(Segs), Minus(a.ackno, v.lastack) \in Int
  PROVE  LET n == NewAck(v, a)
         IN  /\ n.unacked = LeftOf(v, a) /\ n.unsent = v.unsent /\ n.snd_nxt = v.snd_nxt
             /\ \A rest \in Seq(Segs) :
                  AckedPcb(v, FreeAcked(n, n.unacked, rest), a.ackno, LeftOf(v, a), rest)
<1> DEFINE k == Minus(a.ackno, v.lastack)
           c == IF v.infr THEN v.ssthresh ELSE v.cwnd
           b == (v.snd_buf + k) % W
           q == [v EXCEPT !.cwnd = c, !.infr = FALSE, !.nrtx = 0, !.dupacks = 0,
                          !.snd_buf = b, !.lastack = a.ackno]
           left == LeftOf(v, a)
           t == left # << >>
           m == v.snd_queuelen - (Clen(v.unacked) - Clen(left))
                  - (Clen(v.unsent) - Clen(v.unsent))
           g == Grown(q)
           n == [v EXCEPT !.cwnd = g, !.infr = FALSE, !.nrtx = 0, !.dupacks = 0,
                          !.snd_buf = b, !.lastack = a.ackno, !.unacked = left,
                          !.snd_queuelen = m, !.rtime = t]
<1>1. /\ v.snd_queuelen \in Int /\ v.unacked \in Seq(Segs) /\ v.unsent \in Seq(Segs)
      /\ v.snd_buf \in 0..(W - 1) /\ v.infr \in BOOLEAN
  BY DEF Pcbs
<1>2. W \in Nat /\ W > 0 /\ W8 \in Nat \ {0} /\ 0 \in 0..(W8 - 1)
  BY SpaceFacts
<1>3. b \in 0..(W - 1)
  <2>1. v.snd_buf + k \in Int
    BY <1>1, <1>2
  <2> DEFINE y == v.snd_buf + k
  <2> HIDE DEF y
  <2>2. y % W \in 0..(W - 1)
    BY <1>2, <2>1 DEF y
  <2> QED BY <2>2 DEF y
<1>4. c \in 1..(W - 1) /\ v.mss <= c
  BY RateFacts
<1>5. Clen(left) \in Nat /\ Clen(v.unacked) \in Nat /\ Clen(v.unsent) \in Nat
  BY <1>1, ClenType
<1>6. m \in Int /\ m = v.snd_queuelen - (Clen(v.unacked) - Clen(left))
  BY <1>1, <1>5
<1>7. t \in BOOLEAN
  BY Zenon
<1>8. NewAck(v, a) = [FreeAcked(q, left, q.unsent) EXCEPT !.cwnd = g, !.rtime = t]
  BY DEF NewAck, LeftOf, Pcbs
<1> HIDE DEF k, c, b, left, t, m
<1>9. q \in Pcbs /\ q.mss = v.mss /\ q.cwnd = c /\ q.unacked = v.unacked /\ q.unsent = v.unsent
      /\ q.snd_queuelen = v.snd_queuelen
  BY <1>2, <1>3, <1>4 DEF Pcbs
<1>10. g \in 1..(W - 1) /\ v.mss <= g
  BY <1>4, <1>9, GrownOk
<1> HIDE DEF g
<1>11. FreeAcked(q, left, q.unsent) = [q EXCEPT !.unacked = left, !.unsent = v.unsent, !.snd_queuelen = m]
  BY <1>9 DEF FreeAcked, m, Pcbs
<1>12. NewAck(v, a) = n
  <2> DEFINE y == [q EXCEPT !.unacked = left, !.unsent = v.unsent, !.snd_queuelen = m,
                            !.cwnd = g, !.rtime = t]
  <2>1. NewAck(v, a) = y
    <3>1. NewAck(v, a) = [[q EXCEPT !.unacked = left, !.unsent = v.unsent, !.snd_queuelen = m]
                            EXCEPT !.cwnd = g, !.rtime = t]
      BY <1>8, <1>11
    <3> HIDE DEF q
    <3> QED BY <1>9, <3>1 DEF Pcbs
  <2>2. y = n
    BY ZenonT(40) DEF Pcbs
  <2> QED BY <2>1, <2>2
<1>13. n \in Pcbs /\ n.unacked = left /\ n.unsent = v.unsent /\ n.snd_nxt = v.snd_nxt
  BY <1>2, <1>3, <1>6, <1>7, <1>10, ZenonT(40) DEF Pcbs, left
<1>14. ASSUME NEW rest \in Seq(Segs)
       PROVE  AckedPcb(v, FreeAcked(n, n.unacked, rest), a.ackno, left, rest)
  <2> DEFINE j == m - (Clen(left) - Clen(left)) - (Clen(v.unsent) - Clen(rest))
             z == [n EXCEPT !.unacked = left, !.unsent = rest, !.snd_queuelen = j]
  <2>1. Clen(rest) \in Nat
    BY ClenType
  <2>2. j \in Int /\ j = v.snd_queuelen - (Clen(v.unacked) - Clen(left)) - (Clen(v.unsent) - Clen(rest))
    BY <1>1, <1>5, <1>6, <2>1
  <2>3. FreeAcked(n, n.unacked, rest) = z
    BY <1>13 DEF FreeAcked, Pcbs
  <2> HIDE DEF j
  <2>4. AckedPcb(v, z, a.ackno, left, rest)
    <3>1. /\ z \in Pcbs /\ z.unacked = left /\ z.unsent = rest /\ z.lastack = a.ackno
          /\ z.state = v.state /\ z.mss = v.mss /\ z.snd_lbb = v.snd_lbb /\ z.snd_nxt = v.snd_nxt
          /\ z.snd_wnd = v.snd_wnd /\ z.snd_wl1 = v.snd_wl1 /\ z.snd_wl2 = v.snd_wl2
          /\ z.tf_fin = v.tf_fin /\ z.rtime = t /\ z.cwnd = g /\ z.ssthresh = v.ssthresh
          /\ z.snd_buf = b /\ z.snd_queuelen = j
      BY <1>13, <2>2, ZenonT(40) DEF Pcbs, left
    <3> HIDE DEF z
    <3> QED BY <1>10, <2>2, <3>1 DEF AckedPcb, t, b, k
  <2> QED BY <2>3, <2>4
<1> QED BY <1>12, <1>13, <1>14 DEF left

LEMMA ModAdd ==
  ASSUME NEW m \in Nat \ {0}, NEW y \in Int, NEW k \in Int
  PROVE  ((y % m) + k) % m = (y + k) % m
<1> DEFINE a == y % m
           b == (y + k) % m
<1>0. y + k \in Int
  OBVIOUS
<1>1. a \in 0..(m - 1) /\ b \in 0..(m - 1)
  BY <1>0, ModForm
<1>2. PICK i \in Int : y = i * m + a
  BY ModForm
<1>3. PICK j \in Int : y + k = j * m + b
  BY <1>0, ModForm
<1> HIDE DEF a, b
<1>4. a + k = (j - i) * m + b
  <2>1. i * m \in Int /\ j * m \in Int /\ (j - i) * m = j * m - i * m
    OBVIOUS
  <2> QED BY <1>1, <1>2, <1>3, <2>1
<1>5. (a + k) % m = b
  <2>1. j - i \in Int
    OBVIOUS
  <2> QED BY <1>1, <1>4, <2>1, ModUnique
<1> QED BY <1>5 DEF a, b

\* The queues after a new acknowledgement, by positions.
LEMMA NewAckFrees ==
  ASSUME NEW v, NEW w, Ordered(v, w), NEW a, a.ackno \in Seqs, Pos(a.ackno) \in Places,
         AckPos(v) < Pos(a.ackno), Pos(a.ackno) <= NxtPos(v)
  PROVE  /\ AckedTo(LeftOf(v, a), Unsent(v, a), LbbPos(v), Pos(a.ackno), NxtPos(v), w, v.mss)
         /\ LeftOf(v, a) \in Seq(Segs) /\ Unsent(v, a) \in Seq(Segs)
         /\ Clen(LeftOf(v, a)) \in Nat /\ Clen(Unsent(v, a)) \in Nat
         /\ Clen(LeftOf(v, a)) <= Clen(v.unacked) /\ Clen(Unsent(v, a)) <= Clen(v.unsent)
         /\ Within(LeftOf(v, a), v.unacked)
<1> DEFINE x == Pos(a.ackno)
           ua == v.unacked
           us == v.unsent
           left == LeftOf(v, a)
           rest == Unsent(v, a)
<1>1. PICK lo \in 0..(N + 1), mid \in 0..(N + 1) : Split(v, w, lo, mid)
  BY DEF Ordered
<1>2. /\ v \in Pcbs /\ w \in 0..N /\ N \in Nat /\ v.mss \in Nat /\ AckPos(v) \in Nat
      /\ NxtPos(v) \in Nat /\ LbbPos(v) \in Nat /\ v.snd_nxt \in Seqs /\ NxtPos(v) \in Places
      /\ ua \in Seq(Segs) /\ us \in Seq(Segs)
  BY MarkFacts DEF Ordered
<1>3. /\ lo <= AckPos(v) /\ mid <= NxtPos(v) /\ Chained(ua, lo, mid, w, v.mss)
      /\ Chained(us, mid, LbbPos(v), w, v.mss)
  BY <1>1 DEF Split
<1>4. x \in Int
  BY PosForm
<1>5. DOMAIN ua = 1..Len(ua) /\ DOMAIN us = 1..Len(us)
  BY <1>2
<1>6. left = Freed(ua, {i \in DOMAIN ua : To(ua[i]) <= x})
  <2>1. ASSUME NEW i \in DOMAIN ua PROVE TCP_SEQ_LEQ(SegEnd(ua[i]), a.ackno) <=> To(ua[i]) <= x
    <3>1. Good(ua[i], w, v.mss)
      BY <1>3, <1>5 DEF Chained
    <3>2. SegEnd(ua[i]) \in Seqs /\ Pos(SegEnd(ua[i])) = To(ua[i]) /\ To(ua[i]) \in Places
      BY <1>2, <3>1, GoodFacts
    <3> QED BY <3>2, Compare
  <2>2. {i \in DOMAIN ua : TCP_SEQ_LEQ(SegEnd(ua[i]), a.ackno)} = {i \in DOMAIN ua : To(ua[i]) <= x}
    BY <2>1
  <2> QED BY <2>2 DEF LeftOf
<1>7. rest = Freed(us, {i \in DOMAIN us : To(us[i]) <= x})
  <2>1. ASSUME NEW i \in DOMAIN us
        PROVE  TCP_SEQ_BETWEEN(a.ackno, SegEnd(us[i]), v.snd_nxt) <=> To(us[i]) <= x
    <3>1. Good(us[i], w, v.mss)
      BY <1>3, <1>5 DEF Chained
    <3>2. SegEnd(us[i]) \in Seqs /\ Pos(SegEnd(us[i])) = To(us[i]) /\ To(us[i]) \in Places
      BY <1>2, <3>1, GoodFacts
    <3>3. TCP_SEQ_BETWEEN(a.ackno, SegEnd(us[i]), v.snd_nxt)
            <=> To(us[i]) <= x /\ x <= NxtPos(v)
      BY <1>2, <3>2, CompareBetween DEF NxtPos
    <3> QED BY <3>3
  <2>2. {i \in DOMAIN us : TCP_SEQ_BETWEEN(a.ackno, SegEnd(us[i]), v.snd_nxt)}
          = {i \in DOMAIN us : To(us[i]) <= x}
    BY <2>1
  <2> QED BY <2>2 DEF Unsent
<1>8. FreedTo(ua, left, lo, mid, x, w, v.mss)
  BY <1>2, <1>3, <1>4, <1>6, FreedOk
<1>9. FreedTo(us, rest, mid, LbbPos(v), x, w, v.mss)
  BY <1>2, <1>3, <1>4, <1>7, FreedOk
<1>a. lo <= x /\ x <= NxtPos(v) /\ NxtPos(v) \in Int /\ LbbPos(v) \in Int
  BY <1>2, <1>3, <1>4
<1> HIDE DEF x, left, rest
<1>10. AckedTo(left, rest, LbbPos(v), x, NxtPos(v), w, v.mss)
  <2> DEFINE hi == LbbPos(v)
             nxt == NxtPos(v)
             mss == v.mss
  <2>1. /\ lo \in 0..(N + 1) /\ mid \in 0..(N + 1) /\ hi \in Int /\ x \in Int /\ nxt \in Int
        /\ w \in 0..N /\ mss \in Nat /\ lo <= x /\ mid <= nxt /\ x <= nxt
        /\ Chained(ua, lo, mid, w, mss) /\ Chained(us, mid, hi, w, mss)
        /\ FreedTo(ua, left, lo, mid, x, w, mss) /\ FreedTo(us, rest, mid, hi, x, w, mss)
    BY <1>2, <1>3, <1>4, <1>8, <1>9, <1>a
  <2> HIDE DEF ua, us, hi, nxt, mss
  <2>2. AckedTo(left, rest, hi, x, nxt, w, mss)
    BY ONLY <2>1, QueuesAcked
  <2> QED BY <2>2 DEF hi, nxt, mss
<1>11. PICK n \in 0..Len(ua) : left = SubSeq(ua, n + 1, Len(ua))
  BY <1>8 DEF FreedTo
<1>12. PICK k \in 0..Len(us) : rest = SubSeq(us, k + 1, Len(us))
  BY <1>9 DEF FreedTo
<1>13. /\ left \in Seq(Segs) /\ Clen(left) \in Nat /\ Clen(left) <= Clen(ua)
       /\ Within(left, ua)
  BY <1>2, <1>11, SuffixPart
<1>14. rest \in Seq(Segs) /\ Clen(rest) \in Nat /\ Clen(rest) <= Clen(us)
  BY <1>2, <1>12, SuffixPart
<1> QED BY <1>10, <1>13, <1>14 DEF x, left, rest

LEMMA NewAckLive ==
  ASSUME NEW p, NEW w, NEW A, NEW q, NEW v, NEW a, PeerOk(q, w), Live(p, w, A, q),
         a.ackno \in Seqs, Pos(a.ackno) \in Places,
         Widened(p, v, Pos(a.ackno)), Window(v, A, q),
         AckPos(p) < Pos(a.ackno), Pos(a.ackno) <= NxtPos(p)
  PROVE  LET n == NewAck(v, a)
             z == FreeAcked(n, n.unacked, Unsent(n, a))
         IN  Live(z, w, A, q) /\ \A e \in Int : Reached(e, p) => Reached(e, z)
<1> DEFINE x == Pos(a.ackno)
           n == NewAck(v, a)
           z == FreeAcked(n, n.unacked, Unsent(n, a))
           left == LeftOf(v, a)
           rest == Unsent(v, a)
<1>1. /\ Ordered(p, w) /\ Fits(p) /\ Window(p, A, q) /\ Reached(PeerPos(q), p)
      /\ Ctl(p) /\ Acct(p)
  BY DEF Live
<1>2. /\ p \in Pcbs /\ w \in 0..N /\ N \in Nat /\ AckPos(p) \in Nat /\ NxtPos(p) \in Nat
      /\ LbbPos(p) \in Nat /\ p.lastack \in Seqs /\ AckPos(p) \in Places /\ p.snd_wnd \in Nat
  BY <1>1, MarkFacts DEF Ordered
<1>3. /\ v \in Pcbs /\ Alike(p, v) /\ v.cwnd = p.cwnd /\ v.ssthresh = p.ssthresh
      /\ v.snd_buf = p.snd_buf /\ v.snd_queuelen = p.snd_queuelen /\ x <= WlPos(v)
      /\ AckPos(p) + p.snd_wnd <= x + v.snd_wnd
  BY DEF Widened
<1>4. /\ AckPos(v) = AckPos(p) /\ NxtPos(v) = NxtPos(p) /\ LbbPos(v) = LbbPos(p)
      /\ v.mss = p.mss /\ v.unacked = p.unacked /\ v.unsent = p.unsent /\ v.lastack = p.lastack
  BY <1>3 DEF Alike, AckPos, NxtPos, LbbPos
<1>5. Ordered(v, w)
  BY <1>1, <1>3, AlikeOrdered
<1>6. /\ AckedTo(left, rest, LbbPos(v), x, NxtPos(v), w, v.mss)
      /\ left \in Seq(Segs) /\ rest \in Seq(Segs)
      /\ Clen(left) \in Nat /\ Clen(rest) \in Nat
      /\ Clen(left) <= Clen(v.unacked) /\ Clen(rest) <= Clen(v.unsent)
      /\ Within(left, v.unacked)
  BY <1>4, <1>5, NewAckFrees
<1>7. v.mss <= v.cwnd /\ v.mss <= v.ssthresh
  BY <1>1, <1>3, <1>4 DEF Ctl
<1>8. Minus(a.ackno, v.lastack) = x - AckPos(p) /\ x \in Int
  BY <1>2, <1>4, Compare, PosForm DEF AckPos
<1>9. /\ n.unacked = left /\ n.unsent = v.unsent /\ n.snd_nxt = v.snd_nxt
      /\ \A r \in Seq(Segs) : AckedPcb(v, FreeAcked(n, n.unacked, r), a.ackno, left, r)
  <2>1. Minus(a.ackno, v.lastack) \in Int
    BY <1>2, <1>8
  <2> QED BY <1>3, <1>6, <1>7, <2>1, NewAckType
<1>10. Unsent(n, a) = rest
  BY <1>9 DEF Unsent
<1>11. AckedPcb(v, z, a.ackno, left, rest)
  BY <1>6, <1>9, <1>10
<1> HIDE DEF n, z, left, rest
<1>12. /\ z \in Pcbs /\ z.unacked = left /\ z.unsent = rest /\ AckPos(z) = x
       /\ z.state = v.state /\ z.mss = v.mss /\ LbbPos(z) = LbbPos(p) /\ NxtPos(z) = NxtPos(p)
       /\ z.snd_wnd = v.snd_wnd /\ z.snd_wl1 = v.snd_wl1 /\ z.snd_wl2 = v.snd_wl2
       /\ z.tf_fin = v.tf_fin
  BY <1>4, <1>11 DEF AckedPcb, AckPos, LbbPos, NxtPos
<1>13. Ordered(z, w)
  <2>1. Marks(v, w)
    BY <1>5 DEF Ordered
  <2>2. x <= NxtPos(z) /\ 0 <= x
    BY <1>2, <1>8, <1>12
  <2>3. Marks(z, w)
    BY <1>4, <1>12, <2>1, <2>2 DEF Marks
  <2>4. \E lo, mid \in 0..(N + 1) : Split(z, w, lo, mid)
    BY <1>4, <1>6, <1>12 DEF AckedTo, Split
  <2> QED BY <2>3, <2>4 DEF Ordered
<1>14. Fits(z)
  <2> SUFFICES ASSUME NEW i \in 1..Len(left) PROVE DataTo(left[i]) <= x + v.snd_wnd
    BY <1>12 DEF Fits
  <2>1. PICK j \in 1..Len(p.unacked) : left[i] = p.unacked[j]
    BY <1>4, <1>6 DEF Within
  <2>2. DataTo(left[i]) <= AckPos(p) + p.snd_wnd
    BY <1>1, <2>1 DEF Fits
  <2>3. PICK lo \in 0..(N + 1), mid \in 0..(N + 1) : Split(p, w, lo, mid)
    BY <1>1 DEF Ordered
  <2>4. Good(left[i], w, p.mss)
    BY <2>1, <2>3 DEF Split, Chained
  <2>5. DataTo(left[i]) \in Nat
    <3>1. p.mss \in Nat
      BY <1>1, MarkFacts DEF Ordered
    <3> QED BY <1>2, <2>4, <3>1, GoodFacts
  <2>6. v.snd_wnd \in Nat
    BY <1>3, RateFacts
  <2> HIDE DEF x
  <2> QED BY <1>2, <1>3, <1>8, <2>2, <2>5, <2>6
<1>15. Window(z, A, q)
  <2>1. WlPos(z) = WlPos(v) /\ WndEdge(z) = WndEdge(v)
    BY <1>12 DEF WlPos, WndEdge
  <2> QED BY <1>3, <1>12, <2>1 DEF Window
<1>16. ASSUME NEW e \in Int, Reached(e, p) PROVE Reached(e, z)
  <2>1. e <= NxtPos(p) \/ e <= AckPos(p) + 1
    BY <1>16 DEF Reached
  <2>2. e <= NxtPos(p)
    BY <1>2, <1>8, <2>1
  <2> QED BY <1>12, <2>2 DEF Reached
<1>17. Reached(PeerPos(q), z)
  <2>1. PeerPos(q) \in Int
    BY <1>2, PeerFacts
  <2> QED BY <1>1, <1>16, <2>1
<1>18. Ctl(z)
  BY <1>11, <1>12 DEF AckedPcb, Ctl, Restful
<1>19. Acct(z)
  <2> DEFINE u == Clen(v.unacked)
             s == Clen(v.unsent)
             cl == Clen(left)
             cr == Clen(rest)
             d == LbbPos(p)
             k == AckPos(p)
  <2>1. u \in Nat /\ s \in Nat
    <3>1. v.unacked \in Seq(Segs) /\ v.unsent \in Seq(Segs)
      BY <1>3 DEF Pcbs
    <3> QED BY <3>1, ClenType
  <2>2. Load(z) = cl + cr /\ Load(p) = u + s
    BY <1>4, <1>12 DEF Load
  <2>3. z.snd_queuelen = p.snd_queuelen - (u - cl) - (s - cr)
    BY <1>3, <1>11 DEF AckedPcb
  <2>4. /\ p.snd_queuelen = Load(p) /\ Load(p) <= TCP_SND_QUEUELEN
        /\ p.snd_buf = (TCP_SND_BUF - (d - k)) % W
        /\ p.state = "ESTABLISHED" => d - k <= TCP_SND_BUF
    BY <1>1 DEF Acct
  <2>5. TCP_SND_QUEUELEN \in Nat /\ TCP_SND_BUF \in Nat /\ W \in Nat \ {0}
    BY SendConstants
  <2>6. cl \in Nat /\ cr \in Nat /\ cl <= u /\ cr <= s
    BY <1>6
  <2>7. z.snd_queuelen = Load(z) /\ Load(z) <= TCP_SND_QUEUELEN
    <3> HIDE DEF u, s, cl, cr
    <3> QED BY <2>1, <2>2, <2>3, <2>4, <2>5, <2>6
  <2>8. z.snd_buf = (TCP_SND_BUF - (d - x)) % W
    <3> DEFINE y == TCP_SND_BUF - (d - k)
               j == x - k
    <3>1. y \in Int /\ j \in Int /\ y + j = TCP_SND_BUF - (d - x)
      BY <1>2, <1>8, <2>5
    <3>2. z.snd_buf = (p.snd_buf + j) % W
      BY <1>3, <1>8, <1>11 DEF AckedPcb
    <3>3. p.snd_buf = y % W
      BY <2>4
    <3> HIDE DEF y, j
    <3>4. z.snd_buf = (y + j) % W
      BY <2>5, <3>1, <3>2, <3>3, ModAdd
    <3> QED BY <3>1, <3>4
  <2>9. z.state = "ESTABLISHED" => d - x <= TCP_SND_BUF
    <3>1. z.state = p.state
      BY <1>3, <1>12 DEF Alike
    <3> HIDE DEF d, k, x
    <3>2. d \in Nat /\ k \in Nat /\ k < x
      BY <1>2 DEF d, k, x
    <3> QED BY <1>8, <2>4, <2>5, <3>1, <3>2
  <2> QED BY <1>12, <2>7, <2>8, <2>9 DEF Acct
<1>20. Live(z, w, A, q)
  BY <1>13, <1>14, <1>15, <1>17, <1>18, <1>19 DEF Live
<1> QED BY <1>16, <1>20 DEF z, n

\* A window update alone keeps the invariant.
LEMMA WidenedLive ==
  ASSUME NEW p, NEW v, NEW x, NEW w, NEW A, NEW q, Live(p, w, A, q), Widened(p, v, x),
         Window(v, A, q), p.unacked # << >> => x <= AckPos(p)
  PROVE  Live(v, w, A, q) /\ \A e : Reached(e, p) => Reached(e, v)
<1>1. /\ Ordered(p, w) /\ Fits(p) /\ Reached(PeerPos(q), p) /\ Ctl(p) /\ Acct(p)
  BY DEF Live
<1>2. v \in Pcbs /\ Alike(p, v)
  BY DEF Widened
<1>3. Ordered(v, w)
  BY <1>1, <1>2, AlikeOrdered
<1>4. AckPos(v) = AckPos(p) /\ NxtPos(v) = NxtPos(p) /\ LbbPos(v) = LbbPos(p)
      /\ v.unacked = p.unacked /\ v.unsent = p.unsent /\ v.state = p.state /\ v.mss = p.mss
  BY <1>2 DEF Alike, AckPos, NxtPos, LbbPos
<1>5. Fits(v)
  <2> SUFFICES ASSUME NEW i \in 1..Len(p.unacked)
               PROVE  DataTo(p.unacked[i]) <= AckPos(p) + v.snd_wnd
    BY <1>4 DEF Fits
  <2>1. /\ p \in Pcbs /\ w \in 0..N /\ p.mss \in Nat /\ AckPos(p) \in Nat
        /\ p.unacked \in Seq(Segs) /\ p.snd_wnd \in Nat
    BY <1>1, MarkFacts DEF Ordered
  <2>2. p.unacked # << >>
    BY <2>1
  <2>3. p.snd_wnd <= v.snd_wnd
    BY <2>2 DEF Widened
  <2>4. DataTo(p.unacked[i]) <= AckPos(p) + p.snd_wnd
    BY <1>1 DEF Fits
  <2>5. PICK lo \in 0..(N + 1), mid \in 0..(N + 1) : Split(p, w, lo, mid)
    BY <1>1 DEF Ordered
  <2>6. Good(p.unacked[i], w, p.mss)
    BY <2>5 DEF Split, Chained
  <2>7. DataTo(p.unacked[i]) \in Nat
    BY <2>1, <2>6, GoodFacts
  <2>8. v.snd_wnd \in Nat
    BY <1>2, RateFacts
  <2> QED BY <2>1, <2>3, <2>4, <2>7, <2>8
<1>6. \A e : Reached(e, p) => Reached(e, v)
  BY <1>4 DEF Reached
<1>7. Ctl(v)
  BY <1>1, <1>4 DEF Ctl, Restful, Widened
<1>8. Acct(v)
  <2>1. Load(v) = Load(p)
    BY <1>4 DEF Load
  <2> QED BY <1>1, <1>4, <2>1 DEF Acct, Widened
<1> QED BY <1>1, <1>3, <1>5, <1>6, <1>7, <1>8 DEF Live

\* What tcp_receive() makes of p is o, or o with the first segment of unacked put
\* back on unsent.
Received(p, o, z, w, A, q) ==
  /\ Live(o, w, A, q) /\ \A e \in Int : Reached(e, p) => Reached(e, o)
  /\ \/ z = o
     \/ z = Swap(o) /\ o.unacked # <<>> /\ o.infr = TRUE

LEMMA OldAckOk ==
  ASSUME NEW p, NEW v, NEW a, NEW edge, NEW w, NEW A, NEW q, PeerOk(q, w), Live(p, w, A, q),
         Widened(p, v, Pos(a.ackno)), Window(v, A, q), a.ackno \in Seqs,
         Pos(a.ackno) \in Places, Pos(a.ackno) <= AckPos(p)
  PROVE  LET r == DupAck(v, a, edge)
         IN  \E o : Received(p, o, FreeAcked(r, r.unacked, Unsent(r, a)), w, A, q)
<1> DEFINE x == Pos(a.ackno)
           r == DupAck(v, a, edge)
<1>0. x \in Int
  BY PosForm
<1>1. Live(v, w, A, q) /\ \A e : Reached(e, p) => Reached(e, v)
  BY WidenedLive
<1>2. AckPos(v) = AckPos(p)
  BY DEF Widened, Alike, AckPos
<1>3. Retuned(v, r)
  BY <1>1, DupAckOk DEF Live
<1>4. ASSUME NEW o, Tuned(v, o)
      PROVE  /\ Live(o, w, A, q) /\ AckPos(o) = AckPos(p) /\ Ordered(o, w) /\ Marks(o, w)
             /\ \A e : Reached(e, p) => Reached(e, o)
             /\ o \in Pcbs /\ w \in 0..N /\ o.mss \in Nat /\ NxtPos(o) \in Places
             /\ o.unacked \in Seq(Segs) /\ AckPos(o) \in Nat
  <2>1. Live(o, w, A, q) /\ \A e : Reached(e, v) => Reached(e, o)
    BY <1>1, <1>4, TunedLive
  <2>2. AckPos(o) = AckPos(p)
    BY <1>2, <1>4 DEF Tuned, Alike, AckPos
  <2>3. Ordered(o, w) /\ Marks(o, w)
    BY <2>1 DEF Live, Ordered
  <2> QED BY <1>1, <2>1, <2>2, <2>3, MarkFacts
<1> HIDE DEF r
<1>5. CASE Tuned(v, r)
  <2>1. /\ Live(r, w, A, q) /\ AckPos(r) = AckPos(p) /\ Ordered(r, w) /\ Marks(r, w)
        /\ \A e : Reached(e, p) => Reached(e, r)
        /\ r \in Pcbs /\ w \in 0..N /\ r.mss \in Nat /\ NxtPos(r) \in Places /\ AckPos(r) \in Nat
    BY <1>4, <1>5
  <2>2. ASSUME r.unsent # << >> PROVE Good(r.unsent[1], w, r.mss) /\ x < To(r.unsent[1])
    <3>1. PICK lo \in 0..(N + 1), mid \in 0..(N + 1) : Split(r, w, lo, mid)
      BY <2>1 DEF Ordered
    <3>2. lo \in Int /\ mid \in Int
      BY SpaceFacts
    <3>3. Good(r.unsent[1], w, r.mss) /\ AckPos(r) < To(r.unsent[1])
      BY <2>1, <2>2, <3>1, <3>2, HeadLater
    <3>4. To(r.unsent[1]) \in Nat
      BY <2>1, <3>3, GoodFacts
    <3> QED BY <1>0, <2>1, <3>3, <3>4
  <2>3. FreeAcked(r, r.unacked, Unsent(r, a)) = r
    BY <2>1, <2>2, UnsentStays DEF NxtPos
  <2>4. Received(p, r, FreeAcked(r, r.unacked, Unsent(r, a)), w, A, q)
    BY <2>1, <2>3 DEF Received
  <2> QED BY <2>4 DEF r
<1>6. CASE \E o : Tuned(v, o) /\ o.unacked # <<>> /\ o.infr = TRUE /\ r = Swap(o)
  <2>0. PICK o : Tuned(v, o) /\ o.unacked # <<>> /\ o.infr = TRUE /\ r = Swap(o)
    BY <1>6
  <2>1. /\ Live(o, w, A, q) /\ AckPos(o) = AckPos(p) /\ Ordered(o, w) /\ Marks(o, w)
        /\ \A e : Reached(e, p) => Reached(e, o)
        /\ o \in Pcbs /\ w \in 0..N /\ o.mss \in Nat /\ NxtPos(o) \in Places
        /\ o.unacked \in Seq(Segs) /\ AckPos(o) \in Nat
    BY <1>4, <2>0
  <2>2. PICK lo \in 0..(N + 1), mid \in 0..(N + 1) : Split(o, w, lo, mid)
    BY <2>1 DEF Ordered
  <2> DEFINE h == o.unacked[1]
  <2>3. Good(h, w, o.mss) /\ AckPos(o) < To(h)
    <3>1. Chained(o.unacked, lo, mid, w, o.mss) /\ AckPos(o) < To(h)
      BY <2>0, <2>2 DEF Split
    <3> QED BY <2>0, <3>1, ChainTail
  <2>4. x < To(h)
    <3>1. To(h) \in Nat
      BY <2>1, <2>3, GoodFacts
    <3> QED BY <1>0, <2>1, <2>3, <3>1
  <2>5. r \in Pcbs /\ r.unsent = <<h>> \o o.unsent /\ r.snd_nxt = o.snd_nxt
    BY <2>0, <2>1, SwapType
  <2>6. h \in Segs /\ o.unsent \in Seq(Segs)
    BY <2>1, <2>3, GoodFacts DEF Pcbs
  <2> HIDE DEF h
  <2>7. r.unsent[1] = h
    BY <2>5, <2>6
  <2>8. FreeAcked(r, r.unacked, Unsent(r, a)) = r
    BY <2>1, <2>3, <2>4, <2>5, <2>7, UnsentStays DEF NxtPos
  <2>9. Received(p, o, FreeAcked(r, r.unacked, Unsent(r, a)), w, A, q)
    BY <2>0, <2>1, <2>8 DEF Received
  <2> QED BY <2>9 DEF r
<1> QED BY <1>3, <1>5, <1>6 DEF Retuned

LEMMA ReceiveOk ==
  ASSUME NEW p, NEW w, NEW A, NEW q, PeerOk(q, w), AnswersOk(A, q), Live(p, w, A, q),
         NEW a \in A
  PROVE  \E o : Received(p, o, tcp_receive(p, a), w, A, q)
<1> DEFINE x == Pos(a.ackno)
           v == SndWnd(p, a)
           edge == Plus(p.snd_wl2, p.snd_wnd)
           n == NewAck(v, a)
<1>1. /\ Ordered(p, w) /\ Marks(p, w) /\ Window(p, A, q) /\ Reached(PeerPos(q), p)
  BY DEF Live, Ordered
<1>2. /\ p \in Pcbs /\ w \in 0..N /\ N \in Nat /\ AckPos(p) \in Nat /\ NxtPos(p) \in Nat
      /\ p.lastack \in Seqs /\ AckPos(p) \in Places /\ p.snd_nxt \in Seqs /\ NxtPos(p) \in Places
      /\ AckPos(p) <= NxtPos(p) /\ p.mss \in Nat /\ NxtPos(p) <= LbbPos(p) /\ LbbPos(p) \in Nat
      /\ LbbPos(p) <= N + 1
  BY <1>1, MarkFacts
<1>3. /\ a.ackno \in Seqs /\ x \in Nat /\ x <= PeerPos(q) /\ x \in Places
      /\ PeerPos(q) \in Nat
  BY <1>2, AnswerFacts, PeerFacts
<1>4. Widened(p, v, x) /\ Window(v, A, q)
  BY <1>1, SndWndOk
<1>5. v \in Pcbs /\ v.lastack = p.lastack /\ v.snd_nxt = p.snd_nxt /\ NxtPos(v) = NxtPos(p)
      /\ v.unsent = p.unsent /\ v.mss = p.mss /\ v.unacked = p.unacked
  BY <1>4 DEF Widened, Alike, NxtPos
<1>6. TCP_SEQ_LEQ(a.ackno, v.lastack) <=> x <= AckPos(p)
  BY <1>2, <1>3, <1>5, Compare DEF AckPos
<1>7. TCP_SEQ_BETWEEN(a.ackno, Plus(v.lastack, 1), v.snd_nxt) <=> AckPos(p) + 1 <= x /\ x <= NxtPos(p)
  <2>1. AckPos(p) + 1 \in Places
    BY <1>2 DEF Places
  <2>2. Plus(p.lastack, 1) \in Seqs /\ Pos(Plus(p.lastack, 1)) = AckPos(p) + 1
    BY <1>2, <2>1, PosPlus DEF AckPos
  <2> QED BY <1>2, <1>3, <1>5, <2>1, <2>2, CompareBetween DEF NxtPos
<1> DEFINE z(r) == FreeAcked(r, r.unacked, Unsent(r, a))
<1>8. tcp_receive(p, a) = IF TCP_SEQ_LEQ(a.ackno, v.lastack) THEN z(DupAck(v, a, edge))
                          ELSE IF TCP_SEQ_BETWEEN(a.ackno, Plus(v.lastack, 1), v.snd_nxt)
                          THEN z(n) ELSE z(v)
  BY DEF tcp_receive
<1> HIDE DEF v, edge
<1>9. CASE x <= AckPos(p)
  <2>1. tcp_receive(p, a) = z(DupAck(v, a, edge))
    BY <1>6, <1>8, <1>9
  <2>2. \E o : Received(p, o, z(DupAck(v, a, edge)), w, A, q)
    BY <1>3, <1>4, <1>9, OldAckOk
  <2> QED BY <2>1, <2>2
<1>10. CASE AckPos(p) < x /\ x <= NxtPos(p)
  <2>1. tcp_receive(p, a) = z(n)
    <3>1. ~(x <= AckPos(p)) /\ AckPos(p) + 1 <= x
      BY <1>2, <1>3, <1>10
    <3> QED BY <1>6, <1>7, <1>8, <1>10, <3>1
  <2>2. Live(z(n), w, A, q) /\ \A e \in Int : Reached(e, p) => Reached(e, z(n))
    BY <1>3, <1>4, <1>10, NewAckLive
  <2>3. Received(p, z(n), z(n), w, A, q)
    BY <2>2 DEF Received
  <2> QED BY <2>1, <2>3
<1>11. CASE NxtPos(p) < x
  <2>1. tcp_receive(p, a) = z(v)
    <3>1. ~(x <= AckPos(p)) /\ ~(x <= NxtPos(p))
      BY <1>2, <1>3, <1>11
    <3> QED BY <1>6, <1>7, <1>8, <3>1
  <2>2. p.unacked = << >>
    <3>1. ~(PeerPos(q) <= NxtPos(p))
      BY <1>2, <1>3, <1>11
    <3> QED BY <1>1, <3>1 DEF Reached
  <2>3. Live(v, w, A, q) /\ \A e : Reached(e, p) => Reached(e, v)
    BY <1>4, <2>2, WidenedLive
  <2>4. ASSUME v.unsent # << >> PROVE Good(v.unsent[1], w, v.mss)
    <3>1. PICK lo \in 0..(N + 1), mid \in 0..(N + 1) : Split(p, w, lo, mid)
      BY <1>1 DEF Ordered
    <3>2. lo \in Int /\ mid \in Int
      BY SpaceFacts
    <3> QED BY <1>1, <1>5, <2>4, <3>1, <3>2, HeadLater
  <2>5. z(v) = v
    BY <1>2, <1>3, <1>5, <1>11, <2>4, UnsentStays DEF NxtPos
  <2>6. Received(p, v, z(v), w, A, q)
    BY <2>3, <2>5 DEF Received
  <2> QED BY <2>1, <2>6
<1>12. x <= AckPos(p) \/ (AckPos(p) < x /\ x <= NxtPos(p)) \/ NxtPos(p) < x
  BY <1>2, <1>3
<1> QED BY <1>9, <1>10, <1>11, <1>12

-----------------------------------------------------------------------------
(* The steps of a connected pcb that send.                                 *)

\* The invariant after t is sent, with S and A under way.
SendOk(t, w, S, A, q) ==
  /\ t \in Outs /\ Live(t.pcb, w, A, q)
  /\ NetOk(S \cup t.sent, q, w) /\ NetReached(S \cup t.sent, t.pcb)

LEMMA OutputLive ==
  ASSUME NEW p, NEW w, NEW S, NEW A, NEW q, PeerOk(q, w), Live(p, w, A, q),
         NetOk(S, q, w), NetReached(S, p)
  PROVE  SendOk(tcp_output(p), w, S, A, q)
<1>1. Ordered(p, w) /\ Fits(p) /\ Restful(p)
  BY DEF Live, Ctl
<1>2. tcp_output(p) \in Outs /\ LoopOk(tcp_output(p), p, w)
  BY <1>1, OutputOk
<1> QED BY <1>2, LoopLive, LoopNet DEF SendOk

\* What was reached stays so.
LEMMA NetStays ==
  ASSUME NEW S, NEW p, NEW o, NEW q, NEW w \in 0..N, NetOk(S, q, w), NetReached(S, p),
         \A e \in Int : Reached(e, p) => Reached(e, o)
  PROVE  NetReached(S, o)
<1>1. ASSUME NEW m \in S, ~m.syn PROVE Reached(To(m), o)
  <2>1. m = Wire(SynSeg) \/ GoodWire(m, w)
    BY DEF NetOk
  <2>2. GoodWire(m, w)
    BY <1>1, <2>1 DEF Wire, SynSeg
  <2>3. To(m) \in Int
    BY <2>2, WireFacts
  <2> QED BY <1>1, <2>3 DEF NetReached
<1> QED BY <1>1 DEF NetReached

LEMMA InputOk ==
  ASSUME NEW p, NEW w, NEW S, NEW A, NEW q, PeerOk(q, w), AnswersOk(A, q), Live(p, w, A, q),
         NetOk(S, q, w), NetReached(S, p), NEW a \in A
  PROVE  SendOk(tcp_output(tcp_receive(p, a)), w, S, A, q)
<1> DEFINE z == tcp_receive(p, a)
<1>1. PICK o : Received(p, o, z, w, A, q)
  BY ReceiveOk
<1>2. Live(o, w, A, q) /\ Ordered(o, w) /\ Fits(o) /\ Restful(o) /\ o.mss <= o.cwnd
  BY <1>1 DEF Received, Live, Ctl
<1>3. w \in 0..N
  BY <1>2, MarkFacts DEF Ordered
<1>4. NetReached(S, o)
  BY <1>1, <1>3, NetStays DEF Received
<1> HIDE DEF z
<1>5. CASE z = o
  BY <1>2, <1>4, <1>5, OutputLive DEF z
<1>6. CASE z = Swap(o) /\ o.unacked # << >> /\ o.infr = TRUE
  <2>1. tcp_output(z) \in Outs /\ LoopOk(tcp_output(z), o, w)
    BY <1>2, <1>6, SwapOutput
  <2> QED BY <1>2, <1>4, <2>1, LoopLive, LoopNet DEF SendOk, z
<1> QED BY <1>1, <1>5, <1>6 DEF Received

LEMMA ConcatHead ==
  ASSUME NEW a \in Seq(Segs), NEW b \in Seq(Segs), a # << >>
  PROVE  (a \o b)[1] = a[1] /\ a \o b # << >> /\ 1 \in 1..Len(a)
<1>1. Len(a) \in Nat \ {0} /\ Len(b) \in Nat
  BY EmptySeq, LenProperties
<1>2. 1 \in 1..Len(a) /\ 1 \in 1..(Len(a) + Len(b)) /\ 1 <= Len(a)
  BY <1>1
<1>3. /\ Len(a \o b) = Len(a) + Len(b)
      /\ \A i \in 1..(Len(a) + Len(b)) : (a \o b)[i] = IF i <= Len(a) THEN a[i] ELSE b[i - Len(a)]
  BY ConcatProperties
<1>4. (a \o b)[1] = a[1]
  BY <1>2, <1>3
<1>5. Len(a \o b) # 0
  BY <1>1, <1>3
<1> QED BY <1>2, <1>4, <1>5, EmptySeq

\* The probe repeats one byte of the stream, which the peer may get.
LEMMA ProbeOk ==
  ASSUME NEW p, NEW w, Ordered(p, w), NEW m \in tcp_zero_window_probe(p)
  PROVE  GoodWire(m, w) /\ Len(m.data) <= 1 /\ ~m.syn /\ Reached(To(m), p)
<1> DEFINE u == p.unacked \o p.unsent
           h == u[1]
           k == Least(1, Len(h.data))
           b == h.fin /\ h.data = << >>
           d == SubSeq(h.data, 1, k)
<1>1. PICK lo \in 0..(N + 1), mid \in 0..(N + 1) : Split(p, w, lo, mid)
  BY DEF Ordered
<1>2. /\ p \in Pcbs /\ w \in 0..N /\ N \in Nat /\ p.mss \in Nat /\ AckPos(p) \in Nat
      /\ NxtPos(p) \in Nat /\ LbbPos(p) \in Nat /\ p.unacked \in Seq(Segs) /\ p.unsent \in Seq(Segs)
  BY MarkFacts DEF Ordered
<1>a. lo \in Int /\ mid \in Int
  BY <1>2
<1>3. u # << >> /\ m = [seqno |-> h.seqno, data |-> d, fin |-> b, syn |-> FALSE]
  BY DEF tcp_zero_window_probe
<1>4. /\ lo <= AckPos(p) /\ mid <= NxtPos(p)
      /\ Chained(p.unacked, lo, mid, w, p.mss) /\ Chained(p.unsent, mid, LbbPos(p), w, p.mss)
  BY <1>1 DEF Split
<1>5. Good(h, w, p.mss) /\ (To(h) <= NxtPos(p) \/ (p.unacked = << >> /\ p.unsent # << >>
                                                  /\ From(h) <= AckPos(p)))
  <2>1. CASE p.unacked # << >>
    <3>1. h = p.unacked[1] /\ 1 \in 1..Len(p.unacked)
      BY <1>2, <2>1, ConcatHead
    <3>2. Good(p.unacked[1], w, p.mss) /\ To(p.unacked[1]) <= mid
      BY <1>2, <1>4, <1>a, <2>1, <3>1, ChainTail, ChainEnds
    <3>3. To(p.unacked[1]) \in Nat
      BY <1>2, <3>2, GoodFacts
    <3> QED BY <1>2, <1>4, <1>a, <3>1, <3>2, <3>3
  <2>2. CASE p.unacked = << >>
    <3>1. u = p.unsent
      BY <1>2, <2>2
    <3>2. h = p.unsent[1] /\ p.unsent # << >>
      BY <1>3, <3>1
    <3>3. Good(p.unsent[1], w, p.mss) /\ From(p.unsent[1]) = mid
      BY <1>4, <3>2, ChainTail
    <3>4. lo = mid
      BY <1>4, <2>2 DEF Chained
    <3> QED BY <1>4, <2>2, <3>2, <3>3, <3>4
  <2> QED BY <2>1, <2>2
<1> HIDE DEF u, h
<1>6. /\ h \in Segs /\ h.seqno \in Seqs /\ h.data \in Seq(Nat) /\ Len(h.data) \in Nat
      /\ h.fin \in BOOLEAN /\ From(h) \in Nat /\ DataTo(h) \in Nat /\ To(h) \in Nat
      /\ From(h) <= N /\ DataTo(h) = From(h) + Len(h.data) /\ From(h) < To(h)
  BY <1>2, <1>5, GoodFacts
<1>7. /\ DataTo(h) <= w /\ (\A i \in 1..Len(h.data) : h.data[i] = From(h) + i)
      /\ (h.fin => DataTo(h) = N) /\ To(h) = DataTo(h) + Count(h.fin)
  BY <1>5 DEF Good, To
<1>8. k \in 0..Len(h.data) /\ k <= 1 /\ (h.data # << >> => k = 1) /\ (k = 0 <=> h.data = << >>)
  <2>1. Len(h.data) = 0 <=> h.data = << >>
    BY <1>6, EmptySeq
  <2> DEFINE l == Len(h.data)
  <2>3. l \in Nat
    BY <1>6
  <2> HIDE DEF l
  <2>4. Least(1, l) \in 0..l /\ Least(1, l) <= 1 /\ (l # 0 => Least(1, l) = 1)
        /\ (Least(1, l) = 0 <=> l = 0)
    BY <2>3 DEF Least
  <2>2. k \in 0..Len(h.data) /\ k <= 1 /\ (Len(h.data) # 0 => k = 1) /\ (k = 0 <=> Len(h.data) = 0)
    BY <2>4 DEF l
  <2> HIDE DEF k
  <2> QED BY <2>1, <2>2
<1>9. d \in Seq(Nat) /\ Len(d) = k /\ \A i \in 1..k : d[i] = h.data[i]
  BY <1>6, <1>8, FrontFacts
<1>10. b \in BOOLEAN
  BY Zenon
<1>b. b => h.fin /\ h.data = << >>
  BY Zenon
<1> HIDE DEF k, b, d
<1>11. m \in Wires /\ m.syn = FALSE /\ m.data = d /\ m.fin = b /\ m.seqno = h.seqno
  BY <1>3, <1>6, <1>9, <1>10 DEF Wires
<1>12. /\ From(m) = From(h) /\ DataTo(m) = From(h) + k /\ To(m) = From(h) + k + Count(b)
  BY <1>9, <1>11 DEF From, DataTo, To
<1>13. k + Count(b) <= 1 /\ k + Count(b) \in Nat
  <2>1. CASE b
    <3>1. h.data = << >>
      BY <1>b, <2>1
    <3>2. k = 0
      BY <1>8, <3>1
    <3> QED BY <2>1, <3>2 DEF Count
  <2>2. CASE ~b
    BY <1>6, <1>8, <2>2 DEF Count
  <2> QED BY <2>1, <2>2
<1>14. GoodWire(m, w)
  <2>1. From(m) \in 0..N /\ DataTo(m) <= w
    BY <1>2, <1>6, <1>7, <1>8, <1>12
  <2>2. \A i \in 1..Len(m.data) : m.data[i] = From(m) + i
    <3> SUFFICES ASSUME NEW i \in 1..k PROVE d[i] = From(h) + i
      BY <1>9, <1>11, <1>12
    <3>1. i \in 1..Len(h.data)
      BY <1>6, <1>8
    <3> QED BY <1>7, <1>9, <3>1
  <2>3. m.fin => DataTo(m) = N
    <3> SUFFICES ASSUME b PROVE DataTo(m) = N
      BY <1>11
    <3>1. h.fin /\ h.data = << >>
      BY <1>b
    <3>2. k = 0 /\ Len(h.data) = 0
      BY <1>8, <3>1
    <3> QED BY <1>6, <1>7, <1>12, <3>1, <3>2
  <2> QED BY <1>11, <2>1, <2>2, <2>3 DEF GoodWire
<1>15. Reached(To(m), p)
  <2> DEFINE c == k + Count(b)
  <2>1. To(m) = From(h) + c
    <3>1. k \in Nat /\ Count(b) \in Nat
      BY <1>6, <1>8 DEF Count
    <3> QED BY <1>6, <1>12, <3>1
  <2> HIDE DEF c
  <2>2. c \in Nat /\ c <= 1
    BY <1>13 DEF c
  <2>3. CASE To(h) <= NxtPos(p)
    <3>1. To(m) <= NxtPos(p)
      BY <1>2, <1>6, <2>1, <2>2, <2>3
    <3> QED BY <3>1 DEF Reached
  <2>4. CASE p.unacked = << >> /\ p.unsent # << >> /\ From(h) <= AckPos(p)
    <3>1. To(m) <= AckPos(p) + 1
      BY <1>2, <1>6, <2>1, <2>2, <2>4
    <3> QED BY <2>4, <3>1 DEF Reached
  <2> QED BY <1>5, <2>3, <2>4
<1>16. Len(m.data) <= 1
  BY <1>8, <1>9, <1>11
<1> QED BY <1>11, <1>14, <1>15, <1>16

LEMMA PersistOk ==
  ASSUME NEW p, NEW w, NEW S, NEW A, NEW q, PeerOk(q, w), Live(p, w, A, q),
         NetOk(S, q, w), NetReached(S, p), NEW o, o = tcp_output(p)
  PROVE  SendOk([o EXCEPT !.sent = @ \cup tcp_zero_window_probe(p)], w, S, A, q)
<1> DEFINE X == tcp_zero_window_probe(p)
           t == [o EXCEPT !.sent = @ \cup X]
           Z == o.sent \cup X
<1>1. Ordered(p, w) /\ Fits(p) /\ Restful(p)
  BY DEF Live, Ctl
<1>2. o \in Outs /\ LoopOk(o, p, w)
  BY <1>1, OutputOk
<1>3. SendOk(o, w, S, A, q)
  BY OutputLive
<1>4. w \in 0..N
  BY <1>1, MarkFacts DEF Ordered
<1>5. ASSUME NEW m \in X
      PROVE  GoodWire(m, w) /\ ~(Len(m.data) > 1) /\ m \in Wires /\ Reached(To(m), o.pcb)
  <2>1. GoodWire(m, w) /\ Len(m.data) <= 1 /\ Reached(To(m), p)
    BY <1>1, ProbeOk
  <2>2. To(m) \in Int /\ Len(m.data) \in Nat /\ m \in Wires
    BY <1>4, <2>1, WireFacts
  <2> QED BY <1>2, <2>1, <2>2 DEF LoopOk
<1> HIDE DEF X
<1>6. t \in Outs /\ t.pcb = o.pcb /\ t.sent = Z
  BY <1>2, <1>5 DEF Outs
<1> HIDE DEF t
<1>7. NetOk(S \cup Z, q, w)
  BY <1>3, <1>5 DEF SendOk, NetOk
<1>8. NetReached(S \cup Z, o.pcb)
  BY <1>3, <1>5 DEF SendOk, NetReached
<1> HIDE DEF Z
<1> QED BY <1>3, <1>6, <1>7, <1>8 DEF SendOk, t, X

\* What the timeout makes of the queues.
Requeued(p, th, k) ==
  [p EXCEPT !.ssthresh = th, !.cwnd = p.mss, !.unsent = p.unacked \o p.unsent,
            !.unacked = <<>>, !.nrtx = k]

LEMMA RequeuedLive ==
  ASSUME NEW p, NEW w, NEW A, NEW q, Live(p, w, A, q), p.unacked # << >>,
         NEW th \in 1..(W - 1), p.mss <= th, NEW k \in 0..(W8 - 1)
  PROVE  /\ Live(Requeued(p, th, k), w, A, q)
         /\ \A e : Reached(e, p) => Reached(e, Requeued(p, th, k))
<1> DEFINE z == Requeued(p, th, k)
           u == p.unacked \o p.unsent
<1>1. /\ Ordered(p, w) /\ Fits(p) /\ Window(p, A, q) /\ Reached(PeerPos(q), p)
      /\ Ctl(p) /\ Acct(p) /\ Marks(p, w)
  BY DEF Live, Ordered
<1>2. /\ p \in Pcbs /\ w \in 0..N /\ N \in Nat /\ p.mss \in Nat \ {0} /\ AckPos(p) \in Nat
      /\ NxtPos(p) \in Nat /\ LbbPos(p) \in Nat /\ p.unacked \in Seq(Segs) /\ p.unsent \in Seq(Segs)
      /\ AckPos(p) <= NxtPos(p)
  BY <1>1, MarkFacts
<1>3. PICK lo \in 0..(N + 1), mid \in 0..(N + 1) : Split(p, w, lo, mid)
  BY <1>1 DEF Ordered
<1>4. /\ lo <= AckPos(p)
      /\ Chained(p.unacked, lo, mid, w, p.mss) /\ Chained(p.unsent, mid, LbbPos(p), w, p.mss)
      /\ AckPos(p) < To(p.unacked[1])
  BY <1>3 DEF Split
<1>5. Chained(u, lo, LbbPos(p), w, p.mss) /\ Chained(<< >>, lo, lo, w, p.mss)
  BY <1>4, ChainConcat, ChainEmpty
<1>6. u \in Seq(Segs) /\ Clen(u) = Clen(p.unacked) + Clen(p.unsent)
  BY <1>2, ClenConcat
<1>7. u[1] = p.unacked[1]
  BY <1>2, ConcatHead
<1>8. p.mss \in 1..(W - 1) /\ << >> \in Seq(Segs)
  <2>1. p.cwnd \in 1..(W - 1) /\ p.mss <= p.cwnd /\ W \in Nat
    BY <1>1, <1>2, RateFacts, SpaceFacts DEF Ctl
  <2>2. p.mss \in 1..(W - 1)
    BY <1>2, <2>1
  <2> QED BY <2>2, EmptySeq
<1> HIDE DEF u
<1>9. /\ z \in Pcbs /\ z.state = p.state /\ z.mss = p.mss /\ z.snd_lbb = p.snd_lbb
      /\ z.lastack = p.lastack /\ z.tf_fin = p.tf_fin /\ z.snd_nxt = p.snd_nxt
      /\ z.unsent = u /\ z.unacked = << >> /\ z.snd_wnd = p.snd_wnd /\ z.snd_wl1 = p.snd_wl1
      /\ z.snd_wl2 = p.snd_wl2 /\ z.snd_buf = p.snd_buf /\ z.snd_queuelen = p.snd_queuelen
      /\ z.cwnd = p.mss /\ z.ssthresh = th
  <2>1. z = [p EXCEPT !.ssthresh = th, !.cwnd = p.mss, !.unsent = u, !.unacked = <<>>, !.nrtx = k]
    BY DEF Requeued, u
  <2> DEFINE e == << >>
             c == p.mss
  <2>2. e \in Seq(Segs) /\ c \in 1..(W - 1) /\ u \in Seq(Segs) /\ p \in Pcbs /\ c = p.mss
        /\ z = [p EXCEPT !.ssthresh = th, !.cwnd = c, !.unsent = u, !.unacked = e, !.nrtx = k]
    BY <1>2, <1>6, <1>8, <2>1
  <2> HIDE DEF e, c, z
  <2>3. /\ z \in Pcbs /\ z.state = p.state /\ z.mss = p.mss /\ z.snd_lbb = p.snd_lbb
        /\ z.lastack = p.lastack /\ z.tf_fin = p.tf_fin /\ z.snd_nxt = p.snd_nxt
        /\ z.unsent = u /\ z.unacked = e /\ z.snd_wnd = p.snd_wnd /\ z.snd_wl1 = p.snd_wl1
        /\ z.snd_wl2 = p.snd_wl2 /\ z.snd_buf = p.snd_buf /\ z.snd_queuelen = p.snd_queuelen
        /\ z.cwnd = c /\ z.ssthresh = th
    BY <2>2 DEF Pcbs
  <2> QED BY <2>2, <2>3 DEF e
<1> HIDE DEF z
<1>10. /\ AckPos(z) = AckPos(p) /\ NxtPos(z) = NxtPos(p) /\ LbbPos(z) = LbbPos(p)
       /\ WlPos(z) = WlPos(p) /\ WndEdge(z) = WndEdge(p)
  BY <1>9 DEF AckPos, NxtPos, LbbPos, WlPos, WndEdge
<1>11. Ordered(z, w)
  <2>1. Marks(z, w)
    BY <1>1, <1>9, <1>10 DEF Marks
  <2>2. lo <= NxtPos(p)
    BY <1>2, <1>4
  <2>3. Split(z, w, lo, lo)
    BY <1>4, <1>5, <1>7, <1>9, <1>10, <2>2 DEF Split
  <2> QED BY <2>1, <2>3 DEF Ordered
<1>12. Fits(z)
  BY <1>9 DEF Fits
<1>13. Window(z, A, q)
  BY <1>1, <1>9, <1>10 DEF Window
<1>14. \A e : Reached(e, p) => Reached(e, z)
  BY <1>10 DEF Reached
<1>15. Ctl(z)
  BY <1>2, <1>9 DEF Ctl, Restful
<1>16. Acct(z)
  <2>1. Load(z) = Load(p)
    <3>1. Clen(p.unacked) \in Nat /\ Clen(p.unsent) \in Nat
      BY <1>2, ClenType
    <3>2. Load(z) = Clen(<< >>) + (Clen(p.unacked) + Clen(p.unsent))
      BY <1>6, <1>9 DEF Load
    <3>3. Load(p) = Clen(p.unacked) + Clen(p.unsent)
      BY DEF Load
    <3> QED BY <3>1, <3>2, <3>3, ClenEmpty
  <2> QED BY <1>1, <1>9, <1>10, <2>1 DEF Acct
<1> QED BY <1>1, <1>11, <1>12, <1>13, <1>14, <1>15, <1>16 DEF Live, z

\* The pcb and the segments of a retransmission timeout, and of the poll after it.
RtoOut(p) ==
  LET th == AtLeast(Least(p.cwnd, p.snd_wnd) \div 2, p.mss, 2 * p.mss)
      o  == tcp_rexmit_rto([p EXCEPT !.ssthresh = th, !.cwnd = p.mss])
      t  == tcp_output(o.pcb)
  IN  [t EXCEPT !.sent = @ \cup o.sent]

\* tcp_rexmit_rto() sends what the timeout makes of the queues.
LEMMA RexmitIs ==
  ASSUME NEW p \in Pcbs, p.unacked # << >>, NEW th
  PROVE  tcp_rexmit_rto([p EXCEPT !.ssthresh = th, !.cwnd = p.mss])
         = tcp_output(Requeued(p, th, (p.nrtx + 1) % W8))
<1> DEFINE k == (p.nrtx + 1) % W8
           z == Requeued(p, th, k)
           y == [p EXCEPT !.ssthresh = th, !.cwnd = p.mss]
<1> HIDE DEF k
<1>1. y.unacked = p.unacked /\ y.unsent = p.unsent /\ y.nrtx = p.nrtx
  BY DEF Pcbs
<1>2. [y EXCEPT !.unsent = y.unacked \o @, !.unacked = <<>>, !.nrtx = (@ + 1) % W8] = z
  <2> DEFINE u == p.unacked \o p.unsent
  <2>1. [y EXCEPT !.unsent = y.unacked \o @, !.unacked = <<>>, !.nrtx = (@ + 1) % W8]
        = [y EXCEPT !.unsent = u, !.unacked = <<>>, !.nrtx = k]
    BY <1>1 DEF k, Pcbs
  <2>2. z = [p EXCEPT !.ssthresh = th, !.cwnd = p.mss, !.unsent = u, !.unacked = <<>>, !.nrtx = k]
    BY DEF Requeued
  <2> HIDE DEF u, z
  <2> QED BY <2>1, <2>2 DEF Pcbs
<1> HIDE DEF y, z
<1>3. tcp_rexmit_rto(y) = tcp_output(z)
  BY <1>1, <1>2 DEF tcp_rexmit_rto
<1> QED BY <1>3 DEF y, z, k

LEMMA RtoOk ==
  ASSUME NEW p, NEW w, NEW S, NEW A, NEW q, PeerOk(q, w), Live(p, w, A, q),
         NetOk(S, q, w), NetReached(S, p), p.unacked # << >>
  PROVE  SendOk(RtoOut(p), w, S, A, q)
<1> DEFINE th == AtLeast(Least(p.cwnd, p.snd_wnd) \div 2, p.mss, 2 * p.mss)
           k == (p.nrtx + 1) % W8
           z == Requeued(p, th, k)
           o == tcp_output(z)
           t == tcp_output(o.pcb)
           Z == t.sent \cup o.sent
           r == [t EXCEPT !.sent = Z]
<1>1. p \in Pcbs
  BY MarkFacts DEF Live, Ordered
<1>2. th \in 1..(W - 1) /\ p.mss <= th
  <2>1. 1 * p.mss = p.mss
    BY <1>1, RateFacts
  <2>2. AtLeast(Least(p.cwnd, p.snd_wnd) \div 2, 1 * p.mss, 2 * p.mss) \in 1..(W - 1)
        /\ p.mss <= AtLeast(Least(p.cwnd, p.snd_wnd) \div 2, 1 * p.mss, 2 * p.mss)
    BY <1>1, HalvedOk
  <2> QED BY <2>1, <2>2
<1>3. k \in 0..(W8 - 1)
  BY <1>1, RateFacts
<1> HIDE DEF th, k
<1>4. Live(z, w, A, q) /\ \A e : Reached(e, p) => Reached(e, z)
  BY <1>2, <1>3, RequeuedLive
<1>5. NetReached(S, z)
  BY <1>4 DEF NetReached
<1>6. tcp_rexmit_rto([p EXCEPT !.ssthresh = th, !.cwnd = p.mss]) = o
  BY <1>1, RexmitIs DEF k
<1> HIDE DEF z
<1>7. SendOk(o, w, S, A, q)
  BY <1>4, <1>5, OutputLive
<1> HIDE DEF o
<1>8. SendOk(t, w, S \cup o.sent, A, q)
  BY <1>7, OutputLive DEF SendOk
<1>9. t \in Outs /\ o \in Outs
  BY <1>7, <1>8 DEF SendOk
<1> HIDE DEF t
<1>10. RtoOut(p) = r
  BY <1>6, <1>9 DEF RtoOut, th, t, Outs
<1>11. r \in Outs /\ r.pcb = t.pcb /\ r.sent = Z
  BY <1>9 DEF Outs
<1>12. (S \cup o.sent) \cup t.sent = S \cup Z
  OBVIOUS
<1> HIDE DEF r, Z
<1> QED BY <1>8, <1>10, <1>11, <1>12 DEF SendOk

-----------------------------------------------------------------------------
(* tcp_enqueue().                                                          *)

LEMMA TimesMono ==
  ASSUME NEW a \in Nat, NEW b \in Nat, NEW m \in Nat, a <= b
  PROVE  a * m \in Nat /\ b * m \in Nat /\ a * m <= b * m
<1> DEFINE d == b - a
<1>1. d \in Nat /\ b = a + d
  OBVIOUS
<1> HIDE DEF d
<1>2. b * m = a * m + d * m /\ d * m \in Nat /\ a * m \in Nat
  BY <1>1
<1> QED BY <1>2

\* Where the pieces of n bytes end that hold m bytes each, but for the last one.
PieceOk(i, k, n, m) ==
  /\ (i - 1) * m \in Nat /\ Least(i * m, n) \in Nat
  /\ (i - 1) * m < Least(i * m, n) /\ Least(i * m, n) <= n
  /\ Least(i * m, n) <= (i - 1) * m + m
  /\ i < k => Least(i * m, n) = i * m
  /\ i = k => Least(i * m, n) = n

LEMMA Pieces ==
  ASSUME NEW n \in Nat \ {0}, NEW m \in Nat \ {0}
  PROVE  LET k == (n + m - 1) \div m
         IN  k \in Nat \ {0} /\ \A i \in 1..k : PieceOk(i, k, n, m)
<1> DEFINE k == (n + m - 1) \div m
           x == n + m - 1
<1>1. x \in Nat /\ x >= m
  OBVIOUS
<1> HIDE DEF x
<1>2. PICK r \in 0..(m - 1) : x = (x \div m) * m + r
  <2>1. x = (x \div m) * m + (x % m) /\ x % m \in 0..(m - 1)
    BY <1>1
  <2> QED BY <2>1
<1>3. k \in Int /\ x = k * m + r
  BY <1>1, <1>2 DEF x
<1> HIDE DEF k
<1>4. k \in Nat \ {0}
  <2> SUFFICES ASSUME k <= 0 PROVE FALSE
    BY <1>3
  <2>1. k * m <= 0 /\ k * m \in Int
    <3> DEFINE j == -k
    <3>1. j \in Nat /\ k = -j
      BY <1>3
    <3> HIDE DEF j
    <3>2. j * m \in Nat /\ (-j) * m = -(j * m)
      BY <3>1
    <3> QED BY <3>1, <3>2
  <2> QED BY <1>1, <1>3, <2>1
<1>5. (k - 1) * m = k * m - m /\ k * m \in Nat
  BY <1>4
<1> DEFINE z == k * m
<1>6. z \in Nat /\ n + m - 1 = z + r /\ (k - 1) * m = z - m
  BY <1>3, <1>5 DEF x
<1> HIDE DEF z
<1>7. z - m < n /\ n <= z
  BY <1>6
<1>8. ASSUME NEW i \in 1..k PROVE PieceOk(i, k, n, m)
  <2>1. i \in Nat /\ i - 1 \in Nat /\ i - 1 <= k - 1 /\ k - 1 \in Nat
    BY <1>4
  <2> DEFINE y == (i - 1) * m
  <2>2. y \in Nat /\ y <= (k - 1) * m
    BY <2>1, TimesMono
  <2>3. i * m = y + m
    BY <2>1
  <2> HIDE DEF y
  <2>4. y < n
    BY <1>6, <1>7, <2>2
  <2>5. i < k => y + m <= (k - 1) * m
    <3> SUFFICES ASSUME i < k PROVE i * m <= (k - 1) * m
      BY <2>3
    <3>1. i \in Nat /\ i <= k - 1
      BY <1>4, <2>1
    <3> QED BY <2>1, <3>1, TimesMono
  <2>6. i < k => y + m < n
    BY <1>6, <1>7, <2>2, <2>5
  <2>7. i = k => y + m = z
    BY <1>6, <2>3 DEF z
  <2>8. /\ Least(y + m, n) \in Nat /\ y < Least(y + m, n) /\ Least(y + m, n) <= n
        /\ Least(y + m, n) <= y + m /\ (i < k => Least(y + m, n) = y + m)
        /\ (i = k => Least(y + m, n) = n)
    BY <1>6, <1>7, <2>2, <2>4, <2>6, <2>7 DEF Least
  <2> QED BY <2>2, <2>3, <2>8 DEF PieceOk, y
<1> QED BY <1>4, <1>8 DEF k

\* New segments: they are a chain, and each has a pbuf.
NewOk(qs, lo, hi, w, mss) ==
  Chained(qs, lo, hi, w, mss) /\ qs # <<>> /\ \A i \in 1..Len(qs) : qs[i].clen >= 1

\* A function on 1..n is a sequence.
LEMMA FunSeq ==
  ASSUME NEW S, NEW n \in Nat, NEW f, f \in [1..n -> S]
  PROVE  f \in Seq(S) /\ Len(f) = n
OBVIOUS

\* The bytes from position w on.
Bytes(w, n) == [i \in 1..n |-> w + i]

PartOk(d, w, y, b) ==
  d \in Seq(Nat) /\ Len(d) = b - y /\ \A j \in 1..Len(d) : d[j] = w + y + j

LEMMA BytesPart ==
  ASSUME NEW w \in Nat, NEW n \in Nat, NEW y \in Nat, NEW b \in Nat, y < b, b <= n
  PROVE  PartOk(SubSeq(Bytes(w, n), y + 1, b), w, y, b)
<1> DEFINE s == Bytes(w, n)
           d == SubSeq(s, y + 1, b)
<1>1. \A i \in 1..n : s[i] = w + i /\ s[i] \in Nat
  BY DEF Bytes
<1>2. ASSUME NEW i \in (y + 1)..b PROVE i \in 1..n
  OBVIOUS
<1>3. \A i \in (y + 1)..b : s[i] \in Nat
  BY <1>1, <1>2
<1> HIDE DEF s
<1>4. y + 1 \in Int /\ b \in Int /\ y + 1 <= b
  OBVIOUS
<1>5. /\ d \in Seq(Nat)
      /\ Len(d) = IF y + 1 <= b THEN b - (y + 1) + 1 ELSE 0
      /\ \A i \in 1..(b - (y + 1) + 1) : d[i] = s[(y + 1) + i - 1]
  BY <1>3, <1>4, SubSeqProperties
<1> HIDE DEF d
<1>6. Len(d) = b - y /\ b - (y + 1) + 1 = b - y
  BY <1>4, <1>5
<1>7. ASSUME NEW j \in 1..Len(d) PROVE d[j] = w + y + j
  <2>1. j \in 1..(b - (y + 1) + 1) /\ (y + 1) + j - 1 = y + j /\ y + j \in 1..n
    BY <1>6
  <2>2. d[j] = s[y + j]
    BY <1>5, <2>1
  <2>3. s[y + j] = w + (y + j)
    BY <1>1, <2>1
  <2> QED BY <2>1, <2>2, <2>3
<1>8. PartOk(d, w, y, b)
  BY <1>5, <1>6, <1>7 DEF PartOk
<1> QED BY <1>8 DEF d, s

LEMMA BytesFacts ==
  ASSUME NEW w \in Nat, NEW n \in Nat
  PROVE  Bytes(w, n) \in Seq(Nat) /\ Len(Bytes(w, n)) = n
<1>1. Bytes(w, n) \in [1..n -> Nat]
  BY DEF Bytes
<1> HIDE DEF Bytes
<1> QED BY <1>1, FunSeq

\* The i-th new segment of a write.
Piece(p, data, i) ==
  [seqno |-> Plus(p.snd_lbb, (i - 1) * p.mss),
   data  |-> SubSeq(data, (i - 1) * p.mss + 1, Least(i * p.mss, Len(data))),
   clen  |-> IF Copy \/ FALSE THEN 1 ELSE 2, fin |-> FALSE, syn |-> FALSE]

LEMMA PieceGood ==
  ASSUME NEW p \in Pcbs, NEW w \in 0..N, NEW n \in Nat \ {0}, w + n <= N, LbbPos(p) = w,
         NEW i \in Nat, NEW k \in Nat, PieceOk(i, k, n, p.mss)
  PROVE  LET g == Piece(p, Bytes(w, n), i)
         IN  /\ Good(g, w + n, p.mss) /\ g.clen >= 1
             /\ From(g) = w + (i - 1) * p.mss /\ To(g) = w + Least(i * p.mss, n)
<1> DEFINE m == p.mss
           y == (i - 1) * m
           b == Least(i * m, n)
           d == SubSeq(Bytes(w, n), y + 1, b)
           s == Plus(p.snd_lbb, y)
           c == IF Copy \/ FALSE THEN 1 ELSE 2
           g == Piece(p, Bytes(w, n), i)
<1>1. /\ y \in Nat /\ b \in Nat /\ y < b /\ b <= n /\ b <= y + m
  BY DEF PieceOk
<1>2. w \in Nat /\ N \in Nat /\ p.snd_lbb \in Seqs /\ m \in Nat \ {0} /\ n \in Nat
  <2>1. p.snd_lbb \in Seqs
    BY DEF Pcbs
  <2> QED BY <2>1, SpaceFacts, RateFacts
<1> HIDE DEF m, y, b
<1>a. PartOk(d, w, y, b)
  BY <1>1, <1>2, BytesPart
<1> HIDE DEF d
<1>3. d \in Seq(Nat) /\ Len(d) = b - y /\ \A j \in 1..Len(d) : d[j] = w + y + j
  BY <1>a DEF PartOk
<1>4. w + y \in Places /\ y \in Int
  BY <1>1, <1>2 DEF Places
<1>5. s \in Seqs /\ Pos(s) = w + y
  BY <1>2, <1>4, PosPlus DEF LbbPos
<1>6. c \in Nat /\ c >= 1
  OBVIOUS
<1>7. g = [seqno |-> s, data |-> d, clen |-> c, fin |-> FALSE, syn |-> FALSE]
  BY <1>2, BytesFacts DEF Piece, y, b, m, d
<1> HIDE DEF d, s, c, g
<1>8. g \in Segs /\ g.seqno = s /\ g.data = d /\ g.fin = FALSE /\ g.syn = FALSE /\ g.clen = c
  BY <1>3, <1>5, <1>6, <1>7 DEF Segs
<1>9. From(g) = w + y /\ DataTo(g) = w + y + Len(d) /\ To(g) = w + y + Len(d) + 0
  BY <1>5, <1>8 DEF From, DataTo, To, Count
<1>10. w + y + (b - y) = w + b /\ w + b + 0 = w + b
  BY <1>1, <1>2
<1>11. From(g) = w + y /\ DataTo(g) = w + b /\ To(g) = w + b
  BY <1>3, <1>9, <1>10
<1>12. w + y \in 0..N /\ b - y <= m /\ w + b <= w + n /\ w + y < w + b
  BY <1>1, <1>2
<1>13. Good(g, w + n, m)
  BY <1>3, <1>8, <1>11, <1>12 DEF Good
<1> QED BY <1>6, <1>8, <1>11, <1>13 DEF g, m, y, b

LEMMA WriteSegs ==
  ASSUME NEW p \in Pcbs, NEW w \in 0..N, NEW n \in Nat \ {0}, w + n <= N, LbbPos(p) = w
  PROVE  NewOk(NewSegs(p, Bytes(w, n), FALSE), w, w + n, w + n, p.mss)
<1> DEFINE m == p.mss
           k == (n + m - 1) \div m
           g(i) == Piece(p, Bytes(w, n), i)
           qs == [i \in 1..k |-> g(i)]
<1>1. m \in Nat \ {0} /\ w \in Nat /\ n \in Nat
  BY RateFacts, SpaceFacts
<1>2. k \in Nat \ {0} /\ \A i \in 1..k : PieceOk(i, k, n, m)
  BY <1>1, Pieces
<1>3. NewSegs(p, Bytes(w, n), FALSE) = qs
  <2>1. Len(Bytes(w, n)) = n
    BY <1>1, BytesFacts
  <2> QED BY <2>1 DEF NewSegs, Piece
<1> HIDE DEF k
<1>4. ASSUME NEW i \in 1..k
      PROVE  /\ Good(g(i), w + n, m) /\ g(i).clen >= 1
             /\ From(g(i)) = w + (i - 1) * m /\ To(g(i)) = w + Least(i * m, n)
             /\ PieceOk(i, k, n, m) /\ g(i) \in Segs
  <2>1. i \in Nat /\ PieceOk(i, k, n, p.mss) /\ k \in Nat
    BY <1>2
  <2>2. /\ Good(g(i), w + n, m) /\ g(i).clen >= 1
        /\ From(g(i)) = w + (i - 1) * m /\ To(g(i)) = w + Least(i * m, n)
    BY <2>1, PieceGood
  <2> QED BY <2>1, <2>2 DEF Good
<1>5. qs \in Seq(Segs) /\ Len(qs) = k /\ \A i \in 1..k : qs[i] = g(i)
  <2>1. qs \in [1..k -> Segs]
    BY <1>4
  <2>2. \A i \in 1..k : qs[i] = g(i)
    OBVIOUS
  <2> HIDE DEF qs
  <2>3. qs \in Seq(Segs) /\ Len(qs) = k
    BY <1>2, <2>1, FunSeq
  <2> QED BY <2>2, <2>3
<1> HIDE DEF qs, g, m
<1>6. qs # << >> /\ 1 \in 1..k /\ k \in 1..k
  <2>1. Len(qs) # 0
    BY <1>2, <1>5
  <2> QED BY <1>2, <2>1, EmptySeq
<1>7. ASSUME NEW i \in 1..k, i < k PROVE From(qs[i + 1]) = To(qs[i])
  <2>1. i + 1 \in 1..k /\ (i + 1) - 1 = i
    BY <1>2, <1>7
  <2>2. From(qs[i + 1]) = w + ((i + 1) - 1) * m
    BY <1>4, <1>5, <2>1
  <2>3. To(qs[i]) = w + i * m
    BY <1>4, <1>5, <1>7 DEF PieceOk
  <2> QED BY <2>1, <2>2, <2>3
<1>8. From(qs[1]) = w /\ To(qs[k]) = w + n
  <2>1. From(qs[1]) = w + (1 - 1) * m
    BY <1>4, <1>5, <1>6
  <2>2. To(qs[k]) = w + Least(k * m, n) /\ Least(k * m, n) = n
    BY <1>4, <1>5, <1>6 DEF PieceOk
  <2>3. w + (1 - 1) * m = w
    BY <1>1
  <2> QED BY <2>1, <2>2, <2>3
<1>9. Chained(qs, w, w + n, w + n, m)
  BY <1>4, <1>5, <1>6, <1>7, <1>8 DEF Chained
<1>10. NewOk(qs, w, w + n, w + n, m)
  BY <1>4, <1>5, <1>6, <1>9 DEF NewOk
<1> QED BY <1>3, <1>10 DEF m

LEMMA FinSegs ==
  ASSUME NEW p \in Pcbs, LbbPos(p) = N
  PROVE  /\ NewOk(NewSegs(p, << >>, TRUE), N, N + 1, N, p.mss)
<1> DEFINE g == [seqno |-> p.snd_lbb, data |-> << >>, clen |-> 1, fin |-> TRUE, syn |-> FALSE]
           qs == NewSegs(p, << >>, TRUE)
<1>1. N \in Nat /\ p.snd_lbb \in Seqs /\ p.mss \in Nat \ {0} /\ << >> \in Seq(Nat)
      /\ M \in Nat \ {0} /\ p.snd_lbb \in 0..(M - 1)
  BY SpaceFacts, RateFacts, EmptySeq DEF Pcbs, Seqs
<1>2. qs = <<g>>
  <2>1. SubSeq(<< >>, (1 - 1) * p.mss + 1, Least(1 * p.mss, Len(<< >>))) = << >>
    <3>1. (1 - 1) * p.mss + 1 = 1 /\ Least(1 * p.mss, Len(<< >>)) = 0
      BY <1>1 DEF Least
    <3>2. SubSeq(<< >>, 1, 0) = << >>
      BY SubSeqEmpty
    <3> QED BY <3>1, <3>2
  <2>2. Plus(p.snd_lbb, (1 - 1) * p.mss) = p.snd_lbb
    <3>1. (1 - 1) * p.mss = 0
      BY <1>1
    <3>2. (p.snd_lbb + 0) % M = p.snd_lbb
      BY <1>1
    <3> QED BY <3>1, <3>2 DEF Plus
  <2> DEFINE e(i) == [seqno |-> Plus(p.snd_lbb, (i - 1) * p.mss),
                 data  |-> SubSeq(<< >>, (i - 1) * p.mss + 1, Least(i * p.mss, Len(<< >>))),
                 clen  |-> IF Copy \/ TRUE THEN 1 ELSE 2,
                 fin |-> TRUE, syn |-> FALSE]
  <2>3. qs = [i \in 1..1 |-> e(i)]
    BY DEF NewSegs
  <2>4. e(1) = g
    BY <2>1, <2>2
  <2> HIDE DEF e, qs
  <2>5. qs[1] = g /\ qs = [i \in 1..1 |-> qs[1]]
    BY <2>3, <2>4
  <2>6. g \in Segs
    BY <1>1 DEF Segs
  <2> HIDE DEF g
  <2>7. qs \in [1..1 -> Segs]
    BY <2>5, <2>6
  <2>8. qs \in Seq(Segs) /\ Len(qs) = 1
    BY <2>7, FunSeq
  <2>9. <<g>> \in Seq(Segs) /\ Len(<<g>>) = 1 /\ <<g>>[1] = g
    BY <2>6
  <2> QED BY <2>5, <2>8, <2>9, SeqEqual
<1>3. g \in Segs /\ g.data = << >> /\ g.fin = TRUE /\ g.syn = FALSE /\ g.seqno = p.snd_lbb
      /\ g.clen = 1
  BY <1>1 DEF Segs
<1> HIDE DEF g, qs
<1>4. From(g) = N /\ DataTo(g) = N /\ To(g) = N + 1
  BY <1>1, <1>3 DEF From, DataTo, To, Count, LbbPos
<1>5. Good(g, N, p.mss)
  BY <1>1, <1>3, <1>4 DEF Good
<1>6. Chained(<<g>>, N, N + 1, N, p.mss)
  BY <1>4, <1>5, ChainSingle
<1>7. Len(<<g>>) = 1 /\ <<g>>[1] = g /\ <<g>> # << >>
  OBVIOUS
<1>8. ASSUME NEW i \in 1..Len(qs) PROVE qs[i].clen >= 1
  <2>1. i = 1
    BY <1>2, <1>7
  <2> QED BY <1>2, <1>3, <1>7, <2>1
<1> QED BY <1>2, <1>6, <1>7, <1>8 DEF NewOk, qs

\* The unsent queue after tcp_enqueue(), with d more pbufs.
Extended(us, z, mid, hi, w, mss, d) ==
  /\ Chained(z, mid, hi, w, mss) /\ z # <<>>
  /\ Clen(z) = Clen(us) + d /\ d \in Nat
  /\ us # <<>> => To(us[1]) <= To(z[1])

LEMMA AppendExtends ==
  ASSUME NEW us, NEW qs, NEW mid, NEW x, NEW hi, NEW w \in 0..N, NEW mss \in Nat,
         Chained(us, mid, x, w, mss), NewOk(qs, x, hi, w, mss)
  PROVE  Extended(us, us \o qs, mid, hi, w, mss, Clen(qs)) /\ Clen(qs) \in Nat
<1>1. us \in Seq(Segs) /\ qs \in Seq(Segs) /\ Chained(qs, x, hi, w, mss) /\ qs # << >>
  BY DEF NewOk, Chained
<1>2. Chained(us \o qs, mid, hi, w, mss)
  BY <1>1, ChainConcat
<1>3. us \o qs \in Seq(Segs) /\ Clen(us \o qs) = Clen(us) + Clen(qs)
  BY <1>1, ClenConcat
<1>4. us = << >> => us \o qs = qs
  BY <1>1
<1>5. us # << >> => us \o qs # << >> /\ (us \o qs)[1] = us[1] /\ Good(us[1], w, mss)
  BY <1>1, ConcatHead, ChainTail
<1>6. us # << >> => To(us[1]) \in Nat
  BY <1>5, GoodFacts
<1>7. Clen(qs) \in Nat
  BY <1>1, ClenType
<1> QED BY <1>1, <1>2, <1>3, <1>4, <1>5, <1>6, <1>7 DEF Extended

\* A segment with another one behind it.
Merged(u, g, kept) == [u EXCEPT !.data = @ \o g.data, !.fin = g.fin, !.clen = @ + kept]

LEMMA MergedGood ==
  ASSUME NEW u, NEW g, NEW kept \in Nat, NEW w \in 0..N, NEW mss \in Nat, Good(u, w, mss),
         Good(g, w, mss), ~u.fin, To(u) = From(g), Len(u.data) + Len(g.data) <= mss
  PROVE  LET m == Merged(u, g, kept)
         IN  /\ Good(m, w, mss) /\ From(m) = From(u) /\ To(m) = To(g)
             /\ m \in Segs /\ m.clen = u.clen + kept
<1> DEFINE d == u.data \o g.data
           c == u.clen + kept
           m == Merged(u, g, kept)
<1>1. /\ u \in Segs /\ u.seqno \in Seqs /\ u.data \in Seq(Nat) /\ Len(u.data) \in Nat
      /\ From(u) \in Nat /\ DataTo(u) = From(u) + Len(u.data) /\ u.syn = FALSE
      /\ From(u) <= N /\ DataTo(u) \in Nat /\ From(u) < To(u) /\ To(u) \in Nat
  BY GoodFacts
<1>2. /\ g \in Segs /\ g.data \in Seq(Nat) /\ Len(g.data) \in Nat /\ g.fin \in BOOLEAN
      /\ From(g) \in Nat /\ DataTo(g) = From(g) + Len(g.data) /\ From(g) < To(g)
      /\ To(g) \in Nat /\ DataTo(g) \in Nat
  BY GoodFacts
<1>3. u.clen \in Nat /\ c \in Nat
  BY <1>1 DEF Segs
<1>4. /\ d \in Seq(Nat) /\ Len(d) = Len(u.data) + Len(g.data)
      /\ \A i \in 1..(Len(u.data) + Len(g.data)) :
           d[i] = IF i <= Len(u.data) THEN u.data[i] ELSE g.data[i - Len(u.data)]
  BY <1>1, <1>2, ConcatProperties
<1>5. To(u) = From(u) + Len(u.data)
  BY <1>1 DEF To, Count
<1> HIDE DEF d, c
<1>6. /\ m \in Segs /\ m.seqno = u.seqno /\ m.data = d /\ m.fin = g.fin /\ m.syn = FALSE
      /\ m.clen = c
  <2>1. m = [u EXCEPT !.data = d, !.fin = g.fin, !.clen = c]
    BY <1>1 DEF Merged, d, c, Segs
  <2> HIDE DEF m
  <2> QED BY <1>1, <1>2, <1>3, <1>4, <2>1 DEF Segs
<1> HIDE DEF m
<1> DEFINE lu == Len(u.data)
           lg == Len(g.data)
           f == From(u)
<1>7. From(m) = f /\ DataTo(m) = f + Len(d) /\ To(m) = f + Len(d) + Count(g.fin)
      /\ To(g) = From(g) + lg + Count(g.fin) /\ Count(g.fin) \in Nat
  BY <1>2, <1>6 DEF From, DataTo, To, Count
<1>8. lu \in Nat /\ lg \in Nat /\ f \in Nat /\ Len(d) = lu + lg /\ From(g) = f + lu
      /\ DataTo(g) = From(g) + lg
  BY <1>1, <1>2, <1>4, <1>5
<1>9. DataTo(m) = DataTo(g) /\ To(m) = To(g)
  <2> HIDE DEF lu, lg, f
  <2> QED BY <1>7, <1>8
<1>10. ASSUME NEW k \in 1..Len(d) PROVE d[k] = f + k
  <2>1. k \in 1..(lu + lg)
    BY <1>8
  <2>2. d[k] = IF k <= lu THEN u.data[k] ELSE g.data[k - lu]
    BY <1>4, <2>1
  <2>3. CASE k <= lu
    <3>1. k \in 1..Len(u.data)
      BY <1>8, <2>1, <2>3
    <3> QED BY <2>2, <2>3, <3>1 DEF Good
  <2>4. CASE ~(k <= lu)
    <3>1. k - lu \in 1..Len(g.data)
      <4>1. lu \in Nat /\ lg \in Nat /\ k \in 1..(lu + lg) /\ ~(k <= lu)
        BY <1>8, <2>1, <2>4
      <4> HIDE DEF lu, lg
      <4>2. k - lu \in 1..lg
        BY ONLY <4>1
      <4> QED BY <4>2 DEF lg
    <3>2. g.data[k - lu] = From(g) + (k - lu)
      BY <3>1 DEF Good
    <3>3. From(g) + (k - lu) = f + k
      BY <1>8
    <3> QED BY <2>2, <2>4, <3>2, <3>3
  <2> QED BY <2>3, <2>4
<1>11. f \in 0..N /\ f < To(g)
  BY <1>1, <1>2, SpaceFacts
<1>12. DataTo(g) <= w /\ (g.fin => DataTo(g) = N)
  BY DEF Good
<1>13. Good(m, w, mss)
  BY <1>4, <1>6, <1>7, <1>9, <1>10, <1>11, <1>12 DEF Good
<1> QED BY <1>6, <1>7, <1>9, <1>13 DEF m, c

\* The last unsent segment, and what comes before it.
LEMMA ChainLast ==
  ASSUME NEW q, NEW lo, NEW hi, NEW w, NEW mss, Chained(q, lo, hi, w, mss), q # << >>
  PROVE  LET u == q[Len(q)]
             f == SubSeq(q, 1, Len(q) - 1)
         IN  /\ Good(u, w, mss) /\ To(u) = hi /\ Chained(f, lo, From(u), w, mss)
             /\ f \in Seq(Segs) /\ Clen(q) = Clen(f) + u.clen
             /\ f = << >> => q[1] = u
             /\ f # << >> => q[1] = f[1]
<1> DEFINE n == Len(q)
           u == q[n]
           f == SubSeq(q, 1, n - 1)
<1>1. q \in Seq(Segs) /\ n \in Nat \ {0}
  BY EmptySeq DEF Chained
<1>2. n - 1 \in 0..Len(q) /\ n \in 1..Len(q) /\ (n - 1) + 1 = n
  BY <1>1
<1>3. Good(u, w, mss) /\ To(u) = hi
  BY <1>2 DEF Chained
<1>4. u \in Segs
  BY <1>3 DEF Good
<1>5. /\ f \in Seq(Segs) /\ Len(f) = n - 1 /\ \A j \in 1..(n - 1) : f[j] = q[j]
  BY <1>1, <1>2, FrontFacts
<1>6. Chained(f, lo, Cut(q, lo, n - 1), w, mss)
  BY <1>2, ChainCut
<1>7. Cut(q, lo, n - 1) = From(u)
  <2>1. CASE n = 1
    BY <2>1 DEF Cut, Chained
  <2>2. CASE n # 1
    <3>1. n - 1 \in 1..Len(q) /\ n - 1 < Len(q) /\ n - 1 # 0
      <4>1. n \in Nat \ {0} /\ n # 1
        BY <1>1, <2>2
      <4> HIDE DEF n
      <4>2. n - 1 \in 1..n /\ n - 1 < n /\ n - 1 # 0
        BY ONLY <4>1
      <4> QED BY <4>2 DEF n
    <3>2. From(q[(n - 1) + 1]) = To(q[n - 1])
      BY <3>1 DEF Chained
    <3> QED BY <1>2, <3>1, <3>2 DEF Cut
  <2> QED BY <2>1, <2>2
<1> HIDE DEF f
<1>8. f \o <<u>> = q
  <2>0. <<u>> \in Seq(Segs) /\ Len(<<u>>) = 1 /\ <<u>>[1] = u
    BY <1>4
  <2> HIDE DEF u
  <2>1. f \o <<u>> \in Seq(Segs) /\ Len(f \o <<u>>) = Len(f) + Len(<<u>>)
        /\ \A i \in 1..(Len(f) + Len(<<u>>)) :
             (f \o <<u>>)[i] = IF i <= Len(f) THEN f[i] ELSE <<u>>[i - Len(f)]
    BY <1>5, <2>0, ConcatProperties
  <2>2. Len(f \o <<u>>) = n /\ Len(f) + Len(<<u>>) = n
    BY <1>1, <1>5, <2>0, <2>1
  <2>3. ASSUME NEW i \in 1..n PROVE (f \o <<u>>)[i] = q[i]
    <3>1. (f \o <<u>>)[i] = IF i <= n - 1 THEN f[i] ELSE <<u>>[i - (n - 1)]
      BY <1>5, <2>1, <2>2
    <3>2. CASE i <= n - 1
      BY <1>1, <1>5, <3>1, <3>2
    <3>3. CASE ~(i <= n - 1)
      <4>1. i = n /\ i - (n - 1) = 1
        BY <1>1, <3>3
      <4> QED BY <2>0, <3>1, <3>3, <4>1 DEF u
    <3> QED BY <3>2, <3>3
  <2> QED BY <1>1, <2>1, <2>2, <2>3, SeqEqual
<1>9. Clen(q) = Clen(f) + u.clen
  <2>1. <<u>> \in Seq(Segs) /\ Clen(<<u>>) = u.clen
    BY <1>4, ClenSingle
  <2> HIDE DEF u
  <2> QED BY <1>5, <1>8, <2>1, ClenConcat
<1>10. f = << >> => q[1] = u
  <2> SUFFICES ASSUME f = << >> PROVE n = 1
    OBVIOUS
  <2>1. n - 1 = 0
    BY <1>5
  <2> QED BY <1>1, <2>1
<1>11. f # << >> => q[1] = f[1]
  <2> SUFFICES ASSUME f # << >> PROVE q[1] = f[1]
    OBVIOUS
  <2>1. n - 1 \in Nat \ {0}
    BY <1>5, EmptySeq
  <2>2. 1 \in 1..(n - 1)
    BY <2>1
  <2> QED BY <1>5, <2>2
<1> QED BY <1>3, <1>5, <1>6, <1>7, <1>9, <1>10, <1>11 DEF f

LEMMA JoinExtends ==
  ASSUME NEW us, NEW qs, NEW mid, NEW x, NEW hi, NEW w \in 0..N, NEW mss \in Nat,
         Chained(us, mid, x, w, mss), NewOk(qs, x, hi, w, mss), us # << >>,
         ~us[Len(us)].fin, Len(us[Len(us)].data) + Len(qs[1].data) <= mss,
         NEW kept \in {0, 1}
  PROVE  /\ Extended(us, SubSeq(us, 1, Len(us) - 1) \o <<Merged(us[Len(us)], qs[1], kept)>> \o Tail(qs),
                     mid, hi, w, mss, kept + Clen(Tail(qs)))
         /\ Clen(qs) \in Nat /\ kept + Clen(Tail(qs)) <= Clen(qs)
<1> DEFINE u == us[Len(us)]
           f == SubSeq(us, 1, Len(us) - 1)
           g == qs[1]
           t == Tail(qs)
           m == Merged(u, g, kept)
<1>0. qs \in Seq(Segs) /\ Chained(qs, x, hi, w, mss) /\ qs # << >> /\ us \in Seq(Segs)
      /\ kept \in Nat
  BY DEF NewOk, Chained
<1>1. /\ Good(u, w, mss) /\ To(u) = x /\ Chained(f, mid, From(u), w, mss)
      /\ f \in Seq(Segs) /\ Clen(us) = Clen(f) + u.clen
      /\ f = << >> => us[1] = u
      /\ f # << >> => us[1] = f[1]
  BY ChainLast
<1>2. /\ Chained(t, To(g), hi, w, mss) /\ Good(g, w, mss) /\ From(g) = x /\ t \in Seq(Segs)
      /\ Len(qs) \in Nat \ {0}
  BY <1>0, ChainTail
<1>3. Clen(qs) = g.clen + Clen(t) /\ g \in Segs
  BY <1>0, ClenTail
<1>4. g.clen >= 1
  <2>1. 1 \in 1..Len(qs)
    BY <1>2
  <2> QED BY <2>1 DEF NewOk
<1>5. ~u.fin /\ Len(u.data) + Len(g.data) <= mss
  OBVIOUS
<1> HIDE DEF u, f, g, t
<1>6. /\ Good(m, w, mss) /\ From(m) = From(u) /\ To(m) = To(g) /\ m \in Segs
      /\ m.clen = u.clen + kept
  <2>1. To(u) = From(g)
    BY <1>1, <1>2
  <2>2. /\ kept \in Nat /\ w \in 0..N /\ mss \in Nat /\ Good(u, w, mss) /\ Good(g, w, mss)
        /\ ~u.fin /\ To(u) = From(g) /\ Len(u.data) + Len(g.data) <= mss
    BY <1>0, <1>1, <1>2, <1>5, <2>1
  <2> QED BY ONLY <2>2, MergedGood, ZenonT(40)
<1> HIDE DEF m
<1>7. Chained(<<m>>, From(u), To(g), w, mss) /\ <<m>> \in Seq(Segs)
      /\ Clen(<<m>>) = u.clen + kept
  BY <1>6, ChainSingle, ClenSingle
<1> DEFINE s == <<m>>
           a == f \o s
           z == a \o t
<1>8. Chained(s, From(u), To(g), w, mss) /\ s \in Seq(Segs) /\ Clen(s) = u.clen + kept
      /\ s # << >> /\ s[1] = m
  BY <1>7
<1> HIDE DEF s
<1>9. Chained(a, mid, To(g), w, mss) /\ a \in Seq(Segs) /\ Clen(a) = Clen(f) + Clen(s)
  BY <1>1, <1>8, ChainConcat, ClenConcat
<1>10. a # << >> /\ (f = << >> => a[1] = m) /\ (f # << >> => a[1] = f[1])
  <2>1. f = << >> => a = s
    BY <1>8
  <2>2. f # << >> => a # << >> /\ a[1] = f[1]
    BY <1>1, <1>8, ConcatHead
  <2> QED BY <1>8, <2>1, <2>2
<1> HIDE DEF a
<1>11. Chained(z, mid, hi, w, mss) /\ Clen(z) = Clen(a) + Clen(t)
  BY <1>2, <1>9, ChainConcat, ClenConcat
<1>12. z # << >> /\ z[1] = a[1]
  BY <1>2, <1>9, <1>10, ConcatHead
<1>13. Clen(f) \in Nat /\ Clen(t) \in Nat /\ u.clen \in Nat /\ g.clen \in Nat
  <2>1. u \in Segs
    BY <1>1 DEF Good
  <2> QED BY <1>1, <1>2, <1>3, <2>1, ClenType DEF Segs
<1> HIDE DEF z
<1>14. Clen(z) = Clen(us) + (kept + Clen(t)) /\ kept + Clen(t) \in Nat
  <2> DEFINE cf == Clen(f)
             ct == Clen(t)
             cu == u.clen
             cs == Clen(s)
             ca == Clen(a)
  <2>1. cf \in Nat /\ ct \in Nat /\ cu \in Nat /\ kept \in Nat /\ cs = cu + kept /\ ca = cf + cs
        /\ Clen(us) = cf + cu /\ Clen(z) = ca + ct
    BY <1>0, <1>1, <1>8, <1>9, <1>11, <1>13
  <2> HIDE DEF cf, ct, cu, cs, ca
  <2>2. Clen(z) = Clen(us) + (kept + ct) /\ kept + ct \in Nat
    BY ONLY <2>1
  <2> QED BY <2>2 DEF ct
<1>15. Clen(qs) \in Nat /\ kept + Clen(t) <= Clen(qs)
  BY <1>3, <1>4, <1>13
<1>16. To(us[1]) <= To(z[1])
  <2>1. CASE f = << >>
    <3>1. us[1] = u /\ z[1] = m
      BY <1>1, <1>10, <1>12, <2>1
    <3>2. To(u) = From(g) /\ To(m) = To(g)
      BY <1>1, <1>2, <1>6
    <3>3. From(g) < To(g) /\ From(g) \in Nat /\ To(g) \in Nat
      BY <1>2, GoodFacts
    <3> QED BY <3>1, <3>2, <3>3
  <2>2. CASE f # << >>
    <3>1. us[1] = z[1]
      BY <1>1, <1>10, <1>12, <2>2
    <3>2. Good(us[1], w, mss)
      BY ChainTail
    <3>3. To(us[1]) \in Nat
      BY <3>2, GoodFacts
    <3> QED BY <3>1, <3>3
  <2> QED BY <2>1, <2>2
<1>17. Extended(us, z, mid, hi, w, mss, kept + Clen(t))
  BY <1>11, <1>12, <1>14, <1>16 DEF Extended
<1> QED BY <1>15, <1>17 DEF z, a, s, m, u, f, g, t

\* The pcb after z is on unsent, with d more pbufs and size more bytes.
Longer(p, z, d, size, f) ==
  [p EXCEPT !.unsent = z, !.snd_queuelen = @ + d, !.snd_lbb = Plus(@, size),
            !.snd_buf = (@ - size) % W, !.tf_fin = f,
            !.state = IF f THEN "FIN_WAIT_1" ELSE "ESTABLISHED"]

LEMMA LongerLive ==
  ASSUME NEW p, NEW w, NEW A, NEW q, Live(p, w, A, q), PeerOk(q, w),
         p.state = "ESTABLISHED", NEW f \in BOOLEAN, NEW v \in 0..N, w <= v,
         f => v = N, NEW size \in Nat, w + size = v + Count(f),
         NEW lo \in 0..(N + 1), NEW mid \in 0..(N + 1), Split(p, w, lo, mid), NEW z, NEW d,
         Extended(p.unsent, z, mid, v + Count(f), v, p.mss, d),
         p.snd_queuelen + d <= TCP_SND_QUEUELEN, ~f => size <= p.snd_buf
  PROVE  /\ Live(Longer(p, z, d, size, f), v, A, q)
         /\ \A e : Reached(e, p) => Reached(e, Longer(p, z, d, size, f))
<1> DEFINE r == Longer(p, z, d, size, f)
<1>1. /\ Ordered(p, w) /\ Fits(p) /\ Window(p, A, q) /\ Reached(PeerPos(q), p)
      /\ Ctl(p) /\ Acct(p) /\ Marks(p, w)
  BY DEF Live, Ordered
<1>2. /\ p \in Pcbs /\ w \in 0..N /\ w \in Nat /\ N \in Nat /\ p.mss \in Nat /\ AckPos(p) \in Nat
      /\ NxtPos(p) \in Nat /\ LbbPos(p) \in Nat /\ p.unacked \in Seq(Segs) /\ p.unsent \in Seq(Segs)
      /\ AckPos(p) <= NxtPos(p) /\ NxtPos(p) <= LbbPos(p) /\ p.snd_lbb \in Seqs
  BY <1>1, MarkFacts
<1>3. LbbPos(p) = w
  BY <1>1, <1>2 DEF Marks, Count
<1>4. /\ lo <= AckPos(p) /\ mid <= NxtPos(p)
      /\ Chained(p.unacked, lo, mid, w, p.mss) /\ Chained(p.unsent, mid, LbbPos(p), w, p.mss)
      /\ p.unacked # << >> => AckPos(p) < To(p.unacked[1])
      /\ p.unacked = << >> /\ p.unsent # << >> => AckPos(p) < To(p.unsent[1])
  BY DEF Split
<1>5. /\ Chained(z, mid, v + Count(f), v, p.mss) /\ z # << >> /\ z \in Seq(Segs)
      /\ Clen(z) = Clen(p.unsent) + d /\ d \in Nat
      /\ p.unsent # << >> => To(p.unsent[1]) <= To(z[1])
  BY DEF Extended, Chained
<1>6. Count(f) \in Nat /\ v + Count(f) <= N + 1 /\ v \in Nat
  BY <1>2 DEF Count
<1>7. Plus(p.snd_lbb, size) \in Seqs /\ Pos(Plus(p.snd_lbb, size)) = v + Count(f)
  <2>1. Pos(p.snd_lbb) + size = v + Count(f)
    BY <1>3 DEF LbbPos
  <2>2. v + Count(f) \in Places /\ size \in Int
    BY <1>2, <1>6, SMTT(30) DEF Places
  <2> QED BY <1>2, <2>1, <2>2, PosPlus
<1> DEFINE l == Plus(p.snd_lbb, size)
           b == (p.snd_buf - size) % W
           c == p.snd_queuelen + d
           s == IF f THEN "FIN_WAIT_1" ELSE "ESTABLISHED"
<1>8. b \in 0..(W - 1) /\ W \in Nat \ {0} /\ p.snd_buf \in 0..(W - 1)
  <2>1. p.snd_buf \in 0..(W - 1) /\ W \in Nat \ {0}
    BY <1>2, SpaceFacts DEF Pcbs
  <2>2. p.snd_buf - size \in Int
    BY <2>1
  <2> QED BY <2>1, <2>2, ModForm
<1>9. c \in Int /\ s \in States /\ s \in {"ESTABLISHED", "FIN_WAIT_1"} /\ (f <=> s = "FIN_WAIT_1")
      /\ (s = "ESTABLISHED" <=> ~f) /\ l \in Seqs /\ p.snd_queuelen \in Int
  <2>1. p.snd_queuelen \in Int
    BY <1>2 DEF Pcbs
  <2> QED BY <1>5, <1>7, <2>1 DEF States
<1> HIDE DEF l, b, c, s
<1>10. /\ r \in Pcbs /\ r.unsent = z /\ r.snd_queuelen = c /\ r.snd_lbb = l /\ r.snd_buf = b
       /\ r.tf_fin = f /\ r.state = s /\ r.mss = p.mss /\ r.lastack = p.lastack
       /\ r.snd_nxt = p.snd_nxt /\ r.unacked = p.unacked /\ r.snd_wnd = p.snd_wnd
       /\ r.snd_wl1 = p.snd_wl1 /\ r.snd_wl2 = p.snd_wl2 /\ r.cwnd = p.cwnd
       /\ r.ssthresh = p.ssthresh /\ r.rtime = p.rtime
  <2>1. r = [p EXCEPT !.unsent = z, !.snd_queuelen = c, !.snd_lbb = l, !.snd_buf = b,
                      !.tf_fin = f, !.state = s]
    BY <1>2 DEF Longer, c, l, b, s, Pcbs
  <2> HIDE DEF r
  <2> QED BY <1>2, <1>5, <1>8, <1>9, <2>1 DEF Pcbs
<1> HIDE DEF r
<1>11. /\ AckPos(r) = AckPos(p) /\ NxtPos(r) = NxtPos(p) /\ LbbPos(r) = v + Count(f)
       /\ WlPos(r) = WlPos(p) /\ WndEdge(r) = WndEdge(p)
  BY <1>7, <1>10 DEF AckPos, NxtPos, LbbPos, WlPos, WndEdge, l
<1>12. Marks(r, v)
  <2>1. NxtPos(p) <= v + Count(f)
    BY <1>2, <1>3, <1>6
  <2> QED BY <1>1, <1>9, <1>10, <1>11, <2>1 DEF Marks
<1>13. Chained(p.unacked, lo, mid, v, p.mss)
  BY <1>2, <1>4, <1>6, ChainWritten
<1>14. ASSUME p.unacked = << >> PROVE AckPos(p) < To(z[1])
  <2>1. Good(z[1], v, p.mss) /\ From(z[1]) = mid
    BY <1>5, ChainTail
  <2>2. From(z[1]) < To(z[1]) /\ To(z[1]) \in Nat
    BY <1>2, <2>1, GoodFacts
  <2>3. CASE p.unsent = << >>
    <3>1. mid = LbbPos(p)
      BY <1>4, <2>3 DEF Chained
    <3>2. AckPos(p) <= mid
      BY <1>2, <3>1
    <3> QED BY <1>2, <2>1, <2>2, <3>1, <3>2
  <2>4. CASE p.unsent # << >>
    <3>1. AckPos(p) < To(p.unsent[1]) /\ To(p.unsent[1]) <= To(z[1])
      BY <1>4, <1>5, <1>14, <2>4
    <3>2. Good(p.unsent[1], w, p.mss)
      BY <1>4, <2>4, ChainTail
    <3>3. To(p.unsent[1]) \in Nat
      BY <1>2, <3>2, GoodFacts
    <3> QED BY <1>2, <2>2, <3>1, <3>3
  <2> QED BY <2>3, <2>4
<1>15. Ordered(r, v)
  <2>1. Split(r, v, lo, mid)
    BY <1>4, <1>5, <1>10, <1>11, <1>13, <1>14 DEF Split
  <2> QED BY <1>12, <2>1 DEF Ordered
<1>16. Fits(r)
  BY <1>1, <1>10, <1>11 DEF Fits
<1>17. Window(r, A, q)
  BY <1>1, <1>10, <1>11 DEF Window
<1>18. \A e : Reached(e, p) => Reached(e, r)
  BY <1>5, <1>10, <1>11 DEF Reached
<1>19. Ctl(r)
  BY <1>1, <1>10 DEF Ctl, Restful
<1>20. Acct(r)
  <2> DEFINE ua == Clen(p.unacked)
             us == Clen(p.unsent)
             a == AckPos(p)
             k == Count(f)
             y == TCP_SND_BUF - (w - a)
  <2>1. ua \in Nat /\ us \in Nat
    BY <1>2, ClenType
  <2>2. Load(p) = ua + us /\ Load(r) = ua + (us + d)
    BY <1>5, <1>10 DEF Load
  <2>3. /\ p.snd_queuelen = Load(p) /\ p.snd_buf = y % W /\ w - a <= TCP_SND_BUF
    BY <1>1, <1>3 DEF Acct
  <2>4. TCP_SND_BUF \in 1..(W - 1) /\ TCP_SND_BUF \in Int
    BY <1>8, SendConstants
  <2>5. a \in Nat /\ k \in Nat /\ y \in Int /\ d \in Nat /\ a <= w
    BY <1>2, <1>3, <1>5, <1>6, <2>4, SMTT(30)
  <2>6. r.snd_queuelen = Load(r) /\ Load(r) <= TCP_SND_QUEUELEN
    <3>1. r.snd_queuelen = p.snd_queuelen + d /\ p.snd_queuelen + d <= TCP_SND_QUEUELEN
      BY <1>10 DEF c
    <3> HIDE DEF ua, us
    <3>2. p.snd_queuelen + d = ua + (us + d)
      BY <2>1, <2>2, <2>3, <2>5
    <3> QED BY <2>2, <3>1, <3>2
  <2>7. r.snd_buf = (TCP_SND_BUF - ((v + k) - a)) % W
    <3>1. r.snd_buf = (p.snd_buf + (-size)) % W
      <4>1. p.snd_buf - size = p.snd_buf + (-size)
        BY <1>8
      <4> QED BY <1>10, <4>1 DEF b
    <3>2. y + (-size) = TCP_SND_BUF - ((v + k) - a)
      <4>1. /\ TCP_SND_BUF \in Int /\ w \in Nat /\ a \in Nat /\ size \in Nat /\ v \in Nat
            /\ k \in Nat /\ w + size = v + k
        BY <1>2, <1>6, <2>4, <2>5
      <4> HIDE DEF a, k
      <4> QED BY ONLY <4>1
    <3> HIDE DEF y, a, k
    <3>3. -size \in Int
      OBVIOUS
    <3>4. ((y % W) + (-size)) % W = (y + (-size)) % W
      BY <1>8, <2>5, <3>3, ModAdd
    <3> QED BY <2>3, <3>1, <3>2, <3>4
  <2>8. r.state = "ESTABLISHED" => (v + k) - a <= TCP_SND_BUF
    <3> SUFFICES ASSUME ~f PROVE (v + k) - a <= TCP_SND_BUF
      BY <1>9, <1>10
    <3>1. v + k = w + size /\ size <= p.snd_buf
      OBVIOUS
    <3> HIDE DEF k, a
    <3>2. y \in 0..(W - 1)
      <4>1. /\ W \in Nat \ {0} /\ TCP_SND_BUF \in 1..(W - 1) /\ w \in Nat /\ a \in Nat /\ a <= w
            /\ w - a <= TCP_SND_BUF
        BY <1>2, <1>8, <2>3, <2>4, <2>5
      <4> QED BY ONLY <4>1
    <3> HIDE DEF y
    <3>3. y % W = y
      BY <1>8, <3>2
    <3>4. p.snd_buf = y
      BY <2>3, <3>3
    <3> QED BY <1>2, <2>4, <2>5, <3>1, <3>4 DEF y
  <2> QED BY <1>11, <2>6, <2>7, <2>8 DEF Acct
<1> QED BY <1>1, <1>15, <1>16, <1>17, <1>18, <1>19, <1>20 DEF Live, r

\* The queue that tcp_enqueue() leaves, and what it adds to snd_queuelen.
EnqueuedTo(p, data, f, z, d) ==
  LET size == Len(data) + Count(f)
  IN  Enqueued(p, data, f)
        = [p EXCEPT !.unsent = z, !.snd_queuelen = @ + d, !.snd_lbb = Plus(@, size),
                    !.snd_buf = (@ - size) % W, !.tf_fin = @ \/ f]

LEMMA EnqueuedIs ==
  ASSUME NEW p \in Pcbs, NEW data, NEW f \in BOOLEAN, NEW mid, NEW x, NEW hi, NEW v \in 0..N,
         Chained(p.unsent, mid, x, v, p.mss), NewOk(NewSegs(p, data, f), x, hi, v, p.mss)
  PROVE  \E z, d :
           /\ EnqueuedTo(p, data, f, z, d)
           /\ Extended(p.unsent, z, mid, hi, v, p.mss, d)
           /\ Clen(NewSegs(p, data, f)) \in Nat /\ d <= Clen(NewSegs(p, data, f))
<1> DEFINE qs == NewSegs(p, data, f)
           us == p.unsent
           size == Len(data) + Count(f)
           fill(r) == [r EXCEPT !.snd_lbb = Plus(@, size), !.snd_buf = (@ - size) % W,
                                !.tf_fin = @ \/ f]
<1>1. p.mss \in Nat /\ us \in Seq(Segs) /\ p.snd_queuelen \in Int
  <2>1. us \in Seq(Segs) /\ p.snd_queuelen \in Int
    BY DEF Pcbs
  <2> QED BY <2>1, RateFacts
<1>2. CASE Joins(p, qs)
  <2> DEFINE u == us[Len(us)]
             kept == IF qs[1].fin THEN 0 ELSE 1
             t == Clen(Tail(qs))
             m == Merged(u, qs[1], kept)
             z == SubSeq(us, 1, Len(us) - 1) \o <<m>> \o Tail(qs)
             c == p.snd_queuelen + kept + t
  <2>1. us # << >> /\ ~u.fin /\ Len(u.data) + Len(qs[1].data) <= p.mss
    BY <1>2 DEF Joins
  <2>2. Enqueued(p, data, f) = fill(Coalesce(p, qs))
    BY <1>2 DEF Enqueued
  <2>3. Coalesce(p, qs) = [p EXCEPT !.unsent = z, !.snd_queuelen = c]
    BY DEF Coalesce, Merged, Pcbs
  <2>4. kept \in {0, 1}
    OBVIOUS
  <2> HIDE DEF kept, qs
  <2>5. /\ Extended(us, z, mid, hi, v, p.mss, kept + t)
        /\ Clen(qs) \in Nat /\ kept + t <= Clen(qs)
    BY <1>1, <2>1, <2>4, JoinExtends DEF qs
  <2>6. t \in Nat
    <3>1. qs \in Seq(Segs) /\ qs # << >>
      BY DEF NewOk, Chained, qs
    <3>2. Tail(qs) \in Seq(Segs)
      BY <3>1, ClenTail
    <3> QED BY <3>2, ClenType
  <2> HIDE DEF z, t
  <2>7. c = p.snd_queuelen + (kept + t)
    BY <1>1, <2>4, <2>6
  <2> DEFINE d == kept + t
  <2>8. c = p.snd_queuelen + d
    BY <2>7
  <2> HIDE DEF c, d
  <2>9. EnqueuedTo(p, data, f, z, d)
    <3>1. fill(Coalesce(p, qs)) = [p EXCEPT !.unsent = z, !.snd_queuelen = c,
             !.snd_lbb = Plus(@, size), !.snd_buf = (@ - size) % W, !.tf_fin = @ \/ f]
      <4> HIDE DEF size
      <4> QED BY <2>3 DEF Pcbs
    <3>2. [p EXCEPT !.unsent = z, !.snd_queuelen = c,
             !.snd_lbb = Plus(@, size), !.snd_buf = (@ - size) % W, !.tf_fin = @ \/ f]
          = [p EXCEPT !.unsent = z, !.snd_queuelen = @ + d,
             !.snd_lbb = Plus(@, size), !.snd_buf = (@ - size) % W, !.tf_fin = @ \/ f]
      <4> HIDE DEF size
      <4> QED BY <2>8 DEF Pcbs
    <3> QED BY <2>2, <3>1, <3>2 DEF EnqueuedTo
  <2> QED BY <2>5, <2>9 DEF d, qs
<1>3. CASE ~Joins(p, qs)
  <2> DEFINE z == us \o qs
             d == Clen(qs)
  <2>1. Extended(us, z, mid, hi, v, p.mss, d) /\ d \in Nat
    BY <1>1, AppendExtends
  <2>2. Enqueued(p, data, f) = fill([p EXCEPT !.unsent = @ \o qs, !.snd_queuelen = @ + Clen(qs)])
    BY <1>3 DEF Enqueued
  <2>3. [p EXCEPT !.unsent = @ \o qs, !.snd_queuelen = @ + Clen(qs)]
          = [p EXCEPT !.unsent = z, !.snd_queuelen = @ + d]
    BY DEF Pcbs
  <2> HIDE DEF z, d, qs
  <2>4. fill([p EXCEPT !.unsent = z, !.snd_queuelen = @ + d])
          = [p EXCEPT !.unsent = z, !.snd_queuelen = @ + d, !.snd_lbb = Plus(@, size),
                      !.snd_buf = (@ - size) % W, !.tf_fin = @ \/ f]
    <3> HIDE DEF size
    <3> QED BY DEF Pcbs
  <2>5. EnqueuedTo(p, data, f, z, d)
    BY <2>2, <2>3, <2>4 DEF EnqueuedTo
  <2>6. d <= Clen(qs) /\ Clen(qs) \in Nat
    BY <2>1 DEF d
  <2> QED BY <2>1, <2>5, <2>6 DEF qs
<1> QED BY <1>2, <1>3

\* A segment of the stream stays one when more is written.
LEMMA WrittenOk ==
  ASSUME NEW w \in 0..N, NEW v \in 0..N, w <= v, NEW q, NEW S
  PROVE  /\ PeerOk(q, w) => PeerOk(q, v)
         /\ NetOk(S, q, w) => NetOk(S, q, v)
<1>1. w \in Nat /\ v \in Nat
  BY SpaceFacts
<1>2. ASSUME PeerOk(q, w) PROVE PeerOk(q, v)
  <2>1. Len(q.got) \in Nat
    BY <1>2, PeerFacts
  <2> QED BY <1>1, <1>2, <2>1 DEF PeerOk
<1>3. ASSUME NEW m, GoodWire(m, w) PROVE GoodWire(m, v)
  <2>1. DataTo(m) \in Nat
    BY <1>3, WireFacts
  <2> QED BY <1>1, <1>3, <2>1 DEF GoodWire
<1>4. ASSUME NetOk(S, q, w) PROVE NetOk(S, q, v)
  BY <1>3, <1>4 DEF NetOk
<1> QED BY <1>2, <1>4

\* The invariant after a step that sends nothing.
StillOk(r, w, S, A, q) ==
  Live(r, w, A, q) /\ PeerOk(q, w) /\ NetOk(S, q, w) /\ NetReached(S, r)

LEMMA WriteOk ==
  ASSUME NEW p, NEW w, NEW S, NEW A, NEW q, StillOk(p, w, S, A, q), p.state = "ESTABLISHED",
         NEW n \in Nat \ {0}, w + n <= N, Room(p, Bytes(w, n), FALSE)
  PROVE  StillOk(Enqueued(p, Bytes(w, n), FALSE), w + n, S, A, q)
<1> DEFINE data == Bytes(w, n)
           v == w + n
           qs == NewSegs(p, data, FALSE)
<1>0. Live(p, w, A, q) /\ PeerOk(q, w) /\ NetOk(S, q, w) /\ NetReached(S, p)
  BY DEF StillOk
<1>1. Ordered(p, w) /\ Marks(p, w) /\ p.tf_fin = FALSE /\ Acct(p)
  <2>1. Ordered(p, w) /\ Marks(p, w) /\ Acct(p)
    BY <1>0 DEF Live, Ordered
  <2>2. p.tf_fin \in BOOLEAN
    BY <2>1, MarkFacts
  <2> QED BY <2>1, <2>2 DEF Marks
<1>2. p \in Pcbs /\ w \in 0..N /\ w \in Nat /\ N \in Nat /\ p.mss \in Nat
  BY <1>1, MarkFacts
<1>3. LbbPos(p) = w
  BY <1>1, <1>2 DEF Marks, Count
<1>4. v \in 0..N /\ v \in Nat /\ w <= v /\ v + Count(FALSE) = v /\ w + n = v + Count(FALSE)
      /\ n \in Nat
  BY <1>2 DEF Count
<1>5. NewOk(qs, w, v, v, p.mss)
  BY <1>2, <1>3, WriteSegs
<1>6. Len(data) = n /\ Len(data) + Count(FALSE) = n
  BY <1>2, BytesFacts DEF Count
<1> HIDE DEF data
<1>7. PICK lo \in 0..(N + 1), mid \in 0..(N + 1) : Split(p, w, lo, mid)
  BY <1>1 DEF Ordered
<1>8. Chained(p.unsent, mid, w, v, p.mss)
  <2>1. Chained(p.unsent, mid, w, w, p.mss)
    BY <1>3, <1>7 DEF Split
  <2> QED BY <1>2, <1>4, <2>1, ChainWritten
<1>9. PICK z, d :
        /\ EnqueuedTo(p, data, FALSE, z, d)
        /\ Extended(p.unsent, z, mid, v, v, p.mss, d)
        /\ Clen(qs) \in Nat /\ d <= Clen(qs)
  <2> HIDE DEF v
  <2> QED BY <1>2, <1>4, <1>5, <1>8, EnqueuedIs
<1>10. Room(p, data, FALSE)
  BY DEF data
<1>11. p.snd_queuelen + d <= TCP_SND_QUEUELEN /\ n <= p.snd_buf
  <2>1. p.snd_queuelen + Clen(qs) <= TCP_SND_QUEUELEN /\ Len(data) <= p.snd_buf
    BY <1>10 DEF Room
  <2>2. p.snd_queuelen \in Int /\ d \in Nat /\ TCP_SND_QUEUELEN \in Nat
    BY <1>2, <1>9, SendConstants DEF Pcbs, Extended
  <2> HIDE DEF qs
  <2> QED BY <1>6, <1>9, <2>1, <2>2
<1>12. Enqueued(p, data, FALSE) = Longer(p, z, d, n, FALSE)
  <2>1. Enqueued(p, data, FALSE)
        = [p EXCEPT !.unsent = z, !.snd_queuelen = @ + d, !.snd_lbb = Plus(@, n),
                    !.snd_buf = (@ - n) % W, !.tf_fin = @ \/ FALSE]
    BY <1>6, <1>9 DEF EnqueuedTo
  <2> DEFINE c == p.snd_queuelen + d
             l == Plus(p.snd_lbb, n)
             b == (p.snd_buf - n) % W
  <2>2. Enqueued(p, data, FALSE)
        = [p EXCEPT !.unsent = z, !.snd_queuelen = c, !.snd_lbb = l, !.snd_buf = b, !.tf_fin = FALSE]
    BY <1>1, <1>2, <2>1 DEF Pcbs
  <2>3. Longer(p, z, d, n, FALSE)
        = [p EXCEPT !.unsent = z, !.snd_queuelen = c, !.snd_lbb = l, !.snd_buf = b,
                    !.tf_fin = FALSE, !.state = "ESTABLISHED"]
    BY <1>2 DEF Longer, Pcbs
  <2> HIDE DEF c, l, b
  <2> DEFINE s == p.state
             x == [p EXCEPT !.unsent = z, !.snd_queuelen = c, !.snd_lbb = l, !.snd_buf = b,
                            !.tf_fin = FALSE]
             y == [p EXCEPT !.unsent = z, !.snd_queuelen = c, !.snd_lbb = l, !.snd_buf = b,
                            !.tf_fin = FALSE, !.state = s]
  <2>4. x = y
    BY ONLY <1>2 DEF Pcbs
  <2>5. s = "ESTABLISHED"
    OBVIOUS
  <2> QED BY ONLY <2>2, <2>3, <2>4, <2>5
<1>13. /\ Live(Longer(p, z, d, n, FALSE), v, A, q)
       /\ \A e : Reached(e, p) => Reached(e, Longer(p, z, d, n, FALSE))
  <2>1. Extended(p.unsent, z, mid, v + Count(FALSE), v, p.mss, d)
    BY <1>4, <1>9
  <2> HIDE DEF v
  <2> QED BY <1>0, <1>4, <1>7, <1>11, <2>1, LongerLive
<1>14. NetReached(S, Longer(p, z, d, n, FALSE))
  BY <1>0, <1>13 DEF NetReached
<1>15. PeerOk(q, v) /\ NetOk(S, q, v)
  BY <1>0, <1>2, <1>4, WrittenOk
<1> QED BY <1>12, <1>13, <1>14, <1>15 DEF StillOk, data

LEMMA CloseOk ==
  ASSUME NEW p, NEW w, NEW S, NEW A, NEW q, StillOk(p, w, S, A, q), p.state = "ESTABLISHED",
         w = N, Room(p, << >>, TRUE)
  PROVE  StillOk([Enqueued(p, << >>, TRUE) EXCEPT !.state = "FIN_WAIT_1"], w, S, A, q)
<1> DEFINE qs == NewSegs(p, << >>, TRUE)
           r == [Enqueued(p, << >>, TRUE) EXCEPT !.state = "FIN_WAIT_1"]
<1>0. Live(p, w, A, q) /\ PeerOk(q, w) /\ NetOk(S, q, w) /\ NetReached(S, p)
  BY DEF StillOk
<1>1. Ordered(p, w) /\ Marks(p, w) /\ p.tf_fin = FALSE
  <2>1. Ordered(p, w) /\ Marks(p, w)
    BY <1>0 DEF Live, Ordered
  <2>2. p.tf_fin \in BOOLEAN
    BY <2>1, MarkFacts
  <2> QED BY <2>1, <2>2 DEF Marks
<1>2. p \in Pcbs /\ N \in Nat /\ p.mss \in Nat /\ N \in 0..N
  BY <1>1, MarkFacts
<1>3. LbbPos(p) = N
  BY <1>1, <1>2 DEF Marks, Count
<1>4. Count(TRUE) = 1 /\ N + 1 = N + Count(TRUE) /\ 1 \in Nat /\ N <= N
  BY <1>2 DEF Count
<1>5. NewOk(qs, N, N + 1, N, p.mss)
  BY <1>2, <1>3, FinSegs
<1>7. PICK lo \in 0..(N + 1), mid \in 0..(N + 1) : Split(p, N, lo, mid)
  BY <1>1 DEF Ordered
<1>8. Chained(p.unsent, mid, N, N, p.mss)
  BY <1>3, <1>7 DEF Split
<1> DEFINE hi == N + 1
<1>a. NewOk(NewSegs(p, << >>, TRUE), N, hi, N, p.mss)
  BY <1>5
<1> HIDE DEF hi
<1>9. PICK z, d :
        /\ EnqueuedTo(p, << >>, TRUE, z, d)
        /\ Extended(p.unsent, z, mid, hi, N, p.mss, d)
        /\ Clen(qs) \in Nat /\ d <= Clen(qs)
  BY <1>2, <1>8, <1>a, EnqueuedIs
<1>11. p.snd_queuelen + d <= TCP_SND_QUEUELEN
  <2>1. p.snd_queuelen + Clen(qs) <= TCP_SND_QUEUELEN
    BY DEF Room
  <2>2. p.snd_queuelen \in Int /\ d \in Nat /\ TCP_SND_QUEUELEN \in Nat
    BY <1>2, <1>9, SendConstants DEF Pcbs, Extended
  <2> HIDE DEF qs
  <2> QED BY <1>9, <2>1, <2>2
<1>12. r = Longer(p, z, d, 1, TRUE)
  <2>0. Len(<< >>) = 0
    OBVIOUS
  <2>a. 0 + 1 = 1
    OBVIOUS
  <2>1. Len(<< >>) + Count(TRUE) = 1
    BY ONLY <1>4, <2>0, <2>a, Zenon
  <2>2. Enqueued(p, << >>, TRUE)
        = [p EXCEPT !.unsent = z, !.snd_queuelen = @ + d, !.snd_lbb = Plus(@, 1),
                    !.snd_buf = (@ - 1) % W, !.tf_fin = @ \/ TRUE]
    BY <1>9, <2>1 DEF EnqueuedTo
  <2>3. r = [[p EXCEPT !.unsent = z, !.snd_queuelen = @ + d, !.snd_lbb = Plus(@, 1),
                    !.snd_buf = (@ - 1) % W, !.tf_fin = @ \/ TRUE] EXCEPT !.state = "FIN_WAIT_1"]
    BY <2>2
  <2> HIDE DEF r
  <2> QED BY <1>1, <1>2, <2>3 DEF Longer, Pcbs
<1>13. /\ Live(Longer(p, z, d, 1, TRUE), N, A, q)
       /\ \A e : Reached(e, p) => Reached(e, Longer(p, z, d, 1, TRUE))
  <2>1. Extended(p.unsent, z, mid, N + Count(TRUE), N, p.mss, d)
    BY <1>4, <1>9 DEF hi
  <2> QED BY <1>0, <1>2, <1>4, <1>7, <1>11, <2>1, LongerLive
<1>14. NetReached(S, Longer(p, z, d, 1, TRUE))
  BY <1>0, <1>13 DEF NetReached
<1> HIDE DEF r
<1> QED BY <1>0, <1>12, <1>13, <1>14 DEF StillOk, r

LEMMA FailOk ==
  ASSUME NEW p, NEW w, NEW S, NEW A, NEW q, StillOk(p, w, S, A, q)
  PROVE  StillOk(EnqueueFails(p), w, S, A, q)
<1> DEFINE r == EnqueueFails(p)
<1>0. Live(p, w, A, q) /\ PeerOk(q, w) /\ NetOk(S, q, w) /\ NetReached(S, p)
  BY DEF StillOk
<1>1. p \in Pcbs /\ p.mss <= p.cwnd /\ p.mss <= p.ssthresh
  BY <1>0, MarkFacts DEF Live, Ordered, Ctl
<1>2. Tuned(p, r)
  BY <1>1 DEF EnqueueFails, Tuned, Alike, Pcbs
<1>3. Live(r, w, A, q) /\ \A e : Reached(e, p) => Reached(e, r)
  BY <1>0, <1>2, TunedLive
<1>4. NetReached(S, r)
  BY <1>0, <1>3 DEF NetReached
<1> QED BY <1>0, <1>3, <1>4 DEF StillOk

-----------------------------------------------------------------------------
(* The peer.                                                               *)

\* The peer, with q, has come to r by taking from m.
Took(q, r, m, w) ==
  /\ PeerOk(r, w)
  /\ PeerPos(q) <= PeerPos(r) /\ PeerEdge(q) <= PeerEdge(r) /\ DataEdge(q) <= DataEdge(r)
  /\ PeerPos(r) = PeerPos(q) \/ PeerPos(r) <= To(m)

\* The part of a segment that continues what the peer has.
NewPart(new, m, g) ==
  /\ new \in Seq(Nat)
  /\ \A i \in 1..Len(new) : new[i] = g + i
  /\ Len(new) = 0 \/ g + Len(new) = DataTo(m)
  /\ From(m) <= g /\ g <= DataTo(m) => g + Len(new) = DataTo(m)

LEMMA NewPartOk ==
  ASSUME NEW w \in 0..N, NEW m, GoodWire(m, w), NEW g \in Nat, NEW off, off = g - From(m)
  PROVE  NewPart(IF off < 0 THEN <<>> ELSE SubSeq(m.data, off + 1, Len(m.data)), m, g)
<1> DEFINE l == Len(m.data)
           f == From(m)
           s == SubSeq(m.data, off + 1, l)
<1>1. m.data \in Seq(Nat) /\ l \in Nat /\ f \in Nat /\ DataTo(m) = f + l
  BY WireFacts
<1>2. \A k \in 1..l : m.data[k] = f + k
  BY DEF GoodWire
<1>3. off = g - f
  OBVIOUS
<1>4. << >> \in Seq(Nat) /\ Len(<< >>) = 0
  BY EmptySeq
<1> HIDE DEF l, f
<1>5. CASE off < 0
  <2>1. ~(f <= g)
    BY <1>1, <1>3, <1>5
  <2>2. NewPart(<< >>, m, g)
    BY <1>4, <2>1 DEF NewPart, f
  <2> QED BY <1>5, <2>2
<1>6. CASE ~(off < 0) /\ off <= l
  <2>1. off + 1 \in 1..(l + 1) /\ l \in (off + 1 - 1)..l /\ off \in Nat
    BY <1>1, <1>3, <1>6
  <2>2. s \in Seq(Nat) /\ Len(s) = (IF off + 1 <= l THEN l - (off + 1) + 1 ELSE 0)
        /\ \A i \in 1..(l - (off + 1) + 1) : s[i] = m.data[off + 1 + i - 1]
    <3> DEFINE d == m.data
    <3>1. \A i \in (off + 1)..l : d[i] \in Nat
      <4>1. \A i \in 1..l : d[i] \in Nat
        BY <1>1, ElementOfSeq DEF l
      <4>2. (off + 1)..l \subseteq 1..l
        BY <1>1, <2>1
      <4> QED BY <4>1, <4>2
    <3>2. off + 1 \in Int /\ l \in Int
      BY <1>1, <2>1
    <3> HIDE DEF d
    <3>3. s \in Seq(Nat) /\ Len(s) = (IF off + 1 <= l THEN l - (off + 1) + 1 ELSE 0)
          /\ \A i \in 1..(l - (off + 1) + 1) : s[i] = d[off + 1 + i - 1]
      <4>1. s = SubSeq(d, off + 1, l)
        BY DEF d, l
      <4> HIDE DEF s
      <4> DEFINE k == off + 1
      <4>2. k \in Int /\ l \in Int /\ (\A i \in k..l : d[i] \in Nat) /\ s = SubSeq(d, k, l)
        BY <3>1, <3>2, <4>1
      <4> HIDE DEF k
      <4>3. s \in Seq(Nat) /\ Len(s) = (IF k <= l THEN l - k + 1 ELSE 0)
            /\ \A i \in 1..(l - k + 1) : s[i] = d[k + i - 1]
        BY <4>2, SubSeqProperties
      <4> QED BY <4>3 DEF k
    <3> QED BY <3>3 DEF d
  <2> HIDE DEF s
  <2>3. Len(s) = l - off /\ l - off \in Nat /\ l - (off + 1) + 1 = l - off
    BY <1>1, <1>6, <2>1, <2>2, SMTT(30)
  <2>4. ASSUME NEW i \in 1..(l - off) PROVE s[i] = g + i
    <3>1. s[i] = m.data[off + 1 + i - 1]
      BY <2>2, <2>3
    <3>2. off + 1 + i - 1 = off + i /\ off + i \in 1..l /\ f + (off + i) = g + i
      <4>0. l \in Nat /\ off \in Nat /\ f \in Nat
        BY <1>1, <2>1
      <4>1. i \in Nat /\ 1 <= i /\ i <= l - off
        BY ONLY <4>0, i \in 1..(l - off)
      <4> QED BY ONLY <1>3, <4>0, <4>1, g \in Nat
    <3>3. m.data[off + i] = f + (off + i)
      BY <1>2, <3>2
    <3> QED BY <3>1, <3>2, <3>3
  <2>5. g + (l - off) = f + l
    BY <1>1, <1>3
  <2>6. NewPart(s, m, g)
    BY <1>1, <2>2, <2>3, <2>4, <2>5 DEF NewPart
  <2> QED BY <1>6, <2>6 DEF s, l
<1>7. CASE ~(off < 0) /\ ~(off <= l)
  <2>1. s = << >>
    BY <1>1, <1>3, <1>7, SubSeqEmpty
  <2>2. ~(g <= f + l)
    BY <1>1, <1>3, <1>7
  <2>3. NewPart(<< >>, m, g)
    BY <1>1, <1>4, <2>2 DEF NewPart
  <2> QED BY <1>7, <2>1, <2>3 DEF l
<1> QED BY <1>5, <1>6, <1>7

\* The beginning of it that fits in the room.
LEMMA FirstPart ==
  ASSUME NEW new \in Seq(Nat), NEW g \in Nat, \A i \in 1..Len(new) : new[i] = g + i,
         NEW room \in Nat
  PROVE  LET took == SubSeq(new, 1, Least(Len(new), room))
         IN  /\ took \in Seq(Nat) /\ Len(took) \in Nat /\ Len(took) <= Len(new)
             /\ Len(took) <= room
             /\ \A i \in 1..Len(took) : took[i] = g + i
<1> DEFINE n == Least(Len(new), room)
           took == SubSeq(new, 1, n)
<1>1. Len(new) \in Nat /\ n \in Nat /\ n <= Len(new) /\ n <= room
  BY DEF Least
<1> HIDE DEF n
<1>2. \A i \in 1..Len(new) : new[i] \in Nat
  BY ElementOfSeq
<1>3. \A i \in 1..n : new[i] \in Nat /\ new[i] = g + i
  <2>1. 1..n \subseteq 1..Len(new)
    BY <1>1
  <2> QED BY <1>2, <2>1
<1>4. took \in Seq(Nat) /\ Len(took) = (IF 1 <= n THEN n - 1 + 1 ELSE 0)
      /\ \A i \in 1..(n - 1 + 1) : took[i] = new[1 + i - 1]
  <2>1. 1 \in Int /\ n \in Int
    BY <1>1
  <2> QED BY <1>3, <2>1, SubSeqProperties
<1> HIDE DEF took
<1>5. Len(took) = n /\ n - 1 + 1 = n
  BY <1>1, <1>4
<1>6. ASSUME NEW i \in 1..n PROVE took[i] = g + i
  <2>1. took[i] = new[1 + i - 1] /\ 1 + i - 1 = i
    BY <1>1, <1>4, <1>5
  <2> QED BY <1>3, <2>1
<1> QED BY <1>1, <1>4, <1>5, <1>6 DEF n, took

LEMMA PeerTakesOk ==
  ASSUME NEW w \in 0..N, NEW q, PeerOk(q, w), NEW m, GoodWire(m, w)
  PROVE  Took(q, PeerTakes(q, m), m, w)
<1> DEFINE r == PeerTakes(q, m)
           g == Len(q.got)
           u == q.unread
           room == PeerBuf - u
           off == Minus(Plus(ISS, Len(q.got)), m.seqno)
           new == IF off < 0 THEN <<>> ELSE SubSeq(m.data, off + 1, Len(m.data))
           took == SubSeq(new, 1, Least(Len(new), room))
           fin == m.fin /\ off >= 0 /\ off <= Len(m.data) /\ took = new
<1>1. /\ q \in Peers /\ q.got \in Seq(Nat) /\ g \in Nat /\ u \in Nat /\ q.fin \in BOOLEAN
      /\ g <= N /\ u <= PeerBuf /\ PeerBuf \in Nat /\ N \in Nat
      /\ PeerPos(q) \in Nat /\ PeerEdge(q) \in Nat /\ DataEdge(q) \in Nat
      /\ PeerEdge(q) = PeerPos(q) + (PeerBuf - u) /\ DataEdge(q) = g + (PeerBuf - u)
      /\ (~q.fin => PeerPos(q) = g)
  BY PeerFacts DEF PeerOk
<1>2. /\ m \in Wires /\ m.seqno \in Seqs /\ m.fin \in BOOLEAN /\ Len(m.data) \in Nat
      /\ From(m) \in Nat /\ From(m) \in Places /\ DataTo(m) \in Nat /\ To(m) \in Nat
      /\ DataTo(m) = From(m) + Len(m.data) /\ DataTo(m) <= w
      /\ (m.fin => To(m) = DataTo(m) + 1) /\ (~m.fin => To(m) = DataTo(m))
  BY WireFacts
<1>a. /\ g <= w /\ u <= g /\ (\A i \in 1..g : q.got[i] = i)
      /\ (m.fin => DataTo(m) = N)
  BY DEF PeerOk, GoodWire
<1>3. CASE q.fin
  <2>1. r = q
    BY <1>3 DEF PeerTakes
  <2> QED BY <1>1, <2>1 DEF Took
<1>4. CASE ~q.fin
  <2>1. off = g - From(m)
    <3>1. Pos(ISS) + g = g /\ g \in Places
      BY <1>1, PosIss DEF Places
    <3>2. Plus(ISS, g) \in Seqs /\ Pos(Plus(ISS, g)) = g
      BY <1>1, <3>1, PosIss, PosPlus
    <3> QED BY <1>2, <3>1, <3>2, Compare DEF From
  <2>2. r = [q EXCEPT !.got = @ \o took, !.unread = @ + Len(took), !.fin = fin]
    BY <1>4, Zenon DEF PeerTakes
  <2>3. NewPart(new, m, g)
    BY <1>1, <2>1, NewPartOk
  <2> HIDE DEF new
  <2>4. room \in Nat /\ u + room = PeerBuf
    BY <1>1, SMTT(30)
  <2> HIDE DEF room
  <2>5. /\ took \in Seq(Nat) /\ Len(took) \in Nat /\ Len(took) <= Len(new)
        /\ Len(took) <= room /\ \A i \in 1..Len(took) : took[i] = g + i
    BY <1>1, <2>3, <2>4, FirstPart, ZenonT(40) DEF NewPart
  <2>6. fin \in BOOLEAN
    <3>1. m.fin \in BOOLEAN
      BY <1>2
    <3> QED BY <3>1, Zenon
  <2> DEFINE t == Len(took)
  <2>7. fin => m.fin /\ g + t = DataTo(m)
    <3> HIDE DEF took
    <3> SUFFICES ASSUME fin PROVE m.fin /\ g + t = DataTo(m)
      OBVIOUS
    <3>1. m.fin /\ off >= 0 /\ off <= Len(m.data) /\ took = new
      BY Zenon
    <3>2. From(m) <= g /\ g <= DataTo(m)
      <4> DEFINE f == From(m)
                 l == Len(m.data)
      <4>1. off >= 0 /\ off <= l /\ off = g - f /\ f \in Nat /\ l \in Nat /\ g \in Nat
        BY <1>1, <1>2, <2>1, <3>1
      <4> HIDE DEF off, f, l, g
      <4>2. f <= g /\ g <= f + l
        BY ONLY <4>1
      <4> QED BY <1>2, <4>2 DEF f, l
    <3> QED BY <2>3, <3>1, <3>2 DEF NewPart
  <2> HIDE DEF took, fin, off
  <2>8. t = 0 \/ g + t <= DataTo(m)
    <3>1. Len(new) = 0 \/ g + Len(new) = DataTo(m)
      BY <2>3 DEF NewPart
    <3>2. Len(new) \in Nat
      BY <2>3 DEF NewPart
    <3> QED BY <1>1, <1>2, <2>5, <3>1, <3>2
  <2>9. /\ q.got \o took \in Seq(Nat) /\ Len(q.got \o took) = g + t
        /\ \A i \in 1..(g + t) : (q.got \o took)[i] = i
    <3>1. q.got \o took \in Seq(Nat) /\ Len(q.got \o took) = g + t
          /\ \A i \in 1..(g + t) : (q.got \o took)[i] = IF i <= g THEN q.got[i] ELSE took[i - g]
      BY <1>1, <2>5, ConcatProperties, SMTT(30)
    <3>2. ASSUME NEW i \in 1..(g + t)
          PROVE  (IF i <= g THEN q.got[i] ELSE took[i - g]) = i
      <4> HIDE DEF g, t
      <4>0. g \in Nat /\ t \in Nat
        BY <1>1, <2>5 DEF t
      <4>1. CASE i <= g
        <5>1. i \in 1..g
          BY <4>0, <4>1
        <5> QED BY <1>a, <4>1, <5>1
      <4>2. CASE ~(i <= g)
        <5>1. i - g \in 1..t /\ g + (i - g) = i
          BY <4>0, <4>2
        <5>2. took[i - g] = g + (i - g)
          BY <2>5, <5>1 DEF t
        <5> QED BY <4>2, <5>1, <5>2
      <4> QED BY <4>1, <4>2
    <3> HIDE DEF g, t
    <3> QED BY <3>1, <3>2
  <2>10. /\ r \in Peers /\ r.got = q.got \o took /\ r.unread = u + t /\ r.fin = fin
    <3> DEFINE k == q.got \o took
               v == u + t
    <3>1. v \in 0..PeerBuf
      <4>1. u \in Nat /\ t \in Nat /\ t <= room /\ room \in Nat /\ u + room = PeerBuf
            /\ PeerBuf \in Nat
        BY <1>1, <2>4, <2>5
      <4> HIDE DEF t, u
      <4> QED BY ONLY <4>1
    <3>2. r = [q EXCEPT !.got = k, !.unread = v, !.fin = fin]
      <4> HIDE DEF r
      <4> QED BY <1>1, <2>2 DEF Peers
    <3>3. k \in Seq(Nat)
      BY <2>9
    <3> HIDE DEF k, v, r
    <3>4. r \in Peers /\ r.got = k /\ r.unread = v /\ r.fin = fin
      BY <1>1, <2>6, <3>1, <3>2, <3>3 DEF Peers
    <3> QED BY <3>4 DEF k, v
  <2> HIDE DEF r
  <2>11. Len(r.got) = g + t
    BY <2>9, <2>10
  <2>12. PeerOk(r, w)
    <3>1. g + t <= w /\ u + t <= g + t
      <4> HIDE DEF g, u, t
      <4>1. g \in Nat /\ u \in Nat /\ t \in Nat /\ w \in Nat
        BY <1>1, <2>5, SpaceFacts DEF t
      <4> QED BY <1>2, <1>a, <2>8, <4>1
    <3>2. r.fin => g + t = N
      BY <1>a, <2>7, <2>10
    <3> QED BY <2>9, <2>10, <2>11, <3>1, <3>2 DEF PeerOk
  <2>13. /\ PeerPos(r) \in Nat /\ PeerEdge(r) = PeerPos(r) + (PeerBuf - r.unread)
         /\ DataEdge(r) = Len(r.got) + (PeerBuf - r.unread)
         /\ (r.fin => PeerPos(r) = Len(r.got) + 1) /\ (~r.fin => PeerPos(r) = Len(r.got))
    BY <2>12, PeerFacts
  <2>14. CASE r.fin
    <3>1. PeerPos(r) = g + t + 1 /\ PeerPos(r) = To(m)
      BY <1>2, <2>7, <2>10, <2>11, <2>13, <2>14
    <3>2. PeerPos(q) = g
      BY <1>1, <1>4
    <3> HIDE DEF g, u, t
    <3>3. /\ PeerPos(q) <= PeerPos(r) /\ PeerEdge(q) <= PeerEdge(r) /\ DataEdge(q) <= DataEdge(r)
      <4>1. g \in Nat /\ t \in Nat /\ u \in Nat /\ PeerBuf \in Nat
        BY <1>1, <2>5 DEF t
      <4>2. /\ PeerEdge(q) = g + (PeerBuf - u) /\ DataEdge(q) = g + (PeerBuf - u)
            /\ PeerEdge(r) = (g + t + 1) + (PeerBuf - (u + t))
            /\ DataEdge(r) = (g + t) + (PeerBuf - (u + t))
        BY <1>1, <2>10, <2>11, <2>13, <3>1, <3>2, Zenon
      <4> QED BY ONLY <3>1, <3>2, <4>1, <4>2
    <3>4. PeerPos(r) <= To(m)
      BY <1>2, <3>1
    <3>5. Took(q, r, m, w)
      BY <2>12, <3>3, <3>4 DEF Took
    <3> QED BY <3>5 DEF r
  <2>15. CASE ~r.fin
    <3>1. PeerPos(r) = g + t /\ DataTo(m) <= To(m)
      BY <1>2, <2>11, <2>13, <2>15
    <3>2. PeerPos(q) = g
      BY <1>1, <1>4
    <3> HIDE DEF g, u, t
    <3>4. g \in Nat /\ t \in Nat /\ u \in Nat /\ PeerBuf \in Nat
      BY <1>1, <2>5 DEF t
    <3>3. /\ PeerPos(q) <= PeerPos(r) /\ PeerEdge(q) <= PeerEdge(r) /\ DataEdge(q) <= DataEdge(r)
      <4>2. /\ PeerEdge(q) = g + (PeerBuf - u) /\ DataEdge(q) = g + (PeerBuf - u)
            /\ PeerEdge(r) = (g + t) + (PeerBuf - (u + t))
            /\ DataEdge(r) = (g + t) + (PeerBuf - (u + t))
        BY <1>1, <2>10, <2>11, <2>13, <3>1, <3>2, Zenon
      <4> QED BY ONLY <3>1, <3>2, <3>4, <4>2
    <3>5. PeerPos(r) = PeerPos(q) \/ PeerPos(r) <= To(m)
      BY <1>2, <2>8, <3>1, <3>2, <3>4
    <3>6. Took(q, r, m, w)
      BY <2>12, <3>3, <3>5 DEF Took
    <3> QED BY <3>6 DEF r
  <2> QED BY <2>14, <2>15 DEF r
<1> QED BY <1>3, <1>4

\* What the peer's progress keeps.
Grows(q, r) ==
  PeerPos(q) <= PeerPos(r) /\ PeerEdge(q) <= PeerEdge(r) /\ DataEdge(q) <= DataEdge(r)

LEMMA NetGrows ==
  ASSUME NEW w \in 0..N, NEW q, NEW r, PeerOk(q, w), PeerOk(r, w), Grows(q, r),
         NEW S, NetOk(S, q, w)
  PROVE  NetOk(S, r, w)
<1>1. DataEdge(q) \in Nat /\ DataEdge(r) \in Nat /\ DataEdge(q) <= DataEdge(r)
  BY PeerFacts DEF Grows
<1>2. ASSUME NEW m \in S
      PROVE  m = Wire(SynSeg) \/ (GoodWire(m, w) /\ (Len(m.data) > 1 => DataTo(m) <= DataEdge(r)))
  <2>1. \/ m = Wire(SynSeg)
        \/ (GoodWire(m, w) /\ (Len(m.data) > 1 => DataTo(m) <= DataEdge(q)))
    BY DEF NetOk
  <2>2. ASSUME GoodWire(m, w) PROVE DataTo(m) \in Nat
    BY <2>2, WireFacts
  <2> QED BY <1>1, <2>1, <2>2
<1> QED BY <1>2 DEF NetOk

\* b is what the peer, with r, answers.
Answer(b, r) ==
  /\ b \in Answers
  /\ \/ Pos(b.ackno) = PeerPos(r) /\ Edge(b) = PeerEdge(r)
     \/ Pos(b.ackno) = 0 /\ Edge(b) = PeerBuf

LEMMA AnswersGrow ==
  ASSUME NEW w \in 0..N, NEW q, NEW r, PeerOk(q, w), PeerOk(r, w), Grows(q, r),
         NEW A, AnswersOk(A, q), NEW b, Answer(b, r)
  PROVE  AnswersOk(A \cup {b}, r)
<1>1. /\ PeerPos(q) \in Nat /\ PeerPos(r) \in Nat /\ PeerEdge(q) \in Nat /\ PeerEdge(r) \in Nat
      /\ PeerPos(q) <= PeerPos(r) /\ PeerEdge(q) <= PeerEdge(r) /\ PeerBuf \in Nat
  BY PeerFacts DEF Grows
<1>2. PeerBuf <= PeerEdge(r)
  <2>1. /\ r.unread <= Len(r.got) /\ Len(r.got) \in Nat /\ r.unread \in Nat
        /\ PeerEdge(r) = PeerPos(r) + (PeerBuf - r.unread)
        /\ (r.fin => PeerPos(r) = Len(r.got) + 1) /\ (~r.fin => PeerPos(r) = Len(r.got))
    BY PeerFacts DEF PeerOk
  <2>2. Len(r.got) <= PeerPos(r)
    BY <2>1
  <2> QED BY <1>1, <2>1, <2>2
<1>3. ASSUME NEW a \in A
      PROVE  /\ a \in Answers /\ Pos(a.ackno) \in Nat /\ Pos(a.ackno) <= PeerPos(r)
             /\ Edge(a) \in Nat /\ PeerBuf <= Edge(a) /\ Edge(a) <= PeerEdge(r)
  <2>1. /\ a \in Answers /\ Pos(a.ackno) \in Nat /\ Pos(a.ackno) <= PeerPos(q) /\ a.wnd \in Nat
        /\ Edge(a) = Pos(a.ackno) + a.wnd /\ PeerBuf <= Edge(a) /\ Edge(a) <= PeerEdge(q)
    BY AnswerFacts DEF AnswersOk
  <2> QED BY <1>1, <2>1
<1>4. /\ b \in Answers /\ Pos(b.ackno) \in Nat /\ Pos(b.ackno) <= PeerPos(r)
      /\ Edge(b) \in Nat /\ PeerBuf <= Edge(b) /\ Edge(b) <= PeerEdge(r)
  BY <1>1, <1>2 DEF Answer
<1>5. ASSUME NEW a \in A
      PROVE  /\ Pos(a.ackno) < Pos(b.ackno) => Edge(a) <= Edge(b)
             /\ Pos(b.ackno) < Pos(a.ackno) => Edge(b) <= Edge(a)
  <2>1. CASE Pos(b.ackno) = PeerPos(r) /\ Edge(b) = PeerEdge(r)
    BY <1>1, <1>3, <2>1
  <2>2. CASE Pos(b.ackno) = 0 /\ Edge(b) = PeerBuf
    BY <1>1, <1>3, <2>2
  <2> QED BY <2>1, <2>2 DEF Answer
<1>6. \A a, c \in A : Pos(a.ackno) < Pos(c.ackno) => Edge(a) <= Edge(c)
  BY DEF AnswersOk
<1>7. ASSUME NEW a \in A \cup {b}
      PROVE  /\ a \in Answers /\ 0 <= Pos(a.ackno) /\ Pos(a.ackno) <= PeerPos(r)
             /\ PeerBuf <= Edge(a) /\ Edge(a) <= PeerEdge(r)
  <2>1. CASE a \in A
    BY <1>3, <2>1
  <2>2. CASE a = b
    BY <1>4, <2>2
  <2> QED BY <2>1, <2>2
<1>8. ASSUME NEW a \in A \cup {b}, NEW c \in A \cup {b}, Pos(a.ackno) < Pos(c.ackno)
      PROVE  Edge(a) <= Edge(c)
  <2>1. CASE a \in A /\ c \in A
    BY <1>6, <1>8, <2>1
  <2>2. CASE a \in A /\ c = b
    BY <1>5, <1>8, <2>2
  <2>3. CASE a = b /\ c \in A
    BY <1>5, <1>8, <2>3
  <2>4. CASE a = b /\ c = b
    BY <1>4, <1>8, <2>4
  <2> QED BY <2>1, <2>2, <2>3, <2>4
<1> QED BY <1>7, <1>8 DEF AnswersOk

LEMMA LiveGrows ==
  ASSUME NEW w \in 0..N, NEW q, NEW r, PeerOk(q, w), PeerOk(r, w), Grows(q, r),
         NEW A, NEW p, Live(p, w, A, q), Reached(PeerPos(r), p), NEW b, Answer(b, r)
  PROVE  Live(p, w, A \cup {b}, r)
<1>1. /\ PeerPos(q) \in Nat /\ PeerPos(r) \in Nat /\ PeerEdge(q) \in Nat /\ PeerEdge(r) \in Nat
      /\ PeerPos(q) <= PeerPos(r) /\ PeerEdge(q) <= PeerEdge(r) /\ PeerBuf \in Nat
  BY PeerFacts DEF Grows
<1>2. p \in Pcbs /\ AckPos(p) \in Nat /\ Window(p, A, q)
  BY MarkFacts DEF Live, Ordered
<1>3. /\ WlPos(p) \in Int /\ WndEdge(p) \in Int /\ AckPos(p) <= WlPos(p)
      /\ WlPos(p) <= PeerPos(q) /\ WndEdge(p) <= PeerEdge(q)
  BY <1>2, WindowFacts
<1>4. WlPos(p) <= PeerPos(r) /\ WndEdge(p) <= PeerEdge(r)
  BY <1>1, <1>3
<1>5. WlPos(p) < Pos(b.ackno) => WndEdge(p) <= Edge(b)
  <2>1. CASE Pos(b.ackno) = PeerPos(r) /\ Edge(b) = PeerEdge(r)
    BY <1>4, <2>1
  <2>2. CASE Pos(b.ackno) = 0 /\ Edge(b) = PeerBuf
    BY <1>2, <1>3, <2>2
  <2> QED BY <2>1, <2>2 DEF Answer
<1>6. Window(p, A \cup {b}, r)
  BY <1>2, <1>3, <1>4, <1>5 DEF Window
<1> QED BY <1>6 DEF Live

LEMMA PeerAnswers ==
  ASSUME NEW w \in 0..N, NEW r, PeerOk(r, w)
  PROVE  Answer(PeerAck(r), r) /\ Answer(PeerSynAck, r)
<1>1. /\ Len(r.got) \in Nat /\ r.unread \in Nat /\ r.unread <= PeerBuf /\ PeerBuf \in Nat
      /\ PeerPos(r) \in Nat /\ PeerPos(r) \in Places
      /\ PeerEdge(r) = PeerPos(r) + (PeerBuf - r.unread)
  BY PeerFacts
<1> DEFINE x == PeerPos(r)
           y == PeerBuf - r.unread
<1>2. PeerAck(r) = [ackno |-> Plus(ISS, x), wnd |-> y, syn |-> FALSE]
  BY DEF PeerAck, PeerPos
<1>3. y \in 0..PeerBuf
  BY <1>1
<1>4. Plus(ISS, x) \in Seqs /\ Pos(Plus(ISS, x)) = x
  <2> HIDE DEF x
  <2>1. Pos(ISS) + x = x /\ x \in Int
    BY <1>1, PosIss DEF x
  <2>2. Pos(ISS) + x \in Places
    BY <1>1, <2>1 DEF x
  <2> QED BY <2>1, <2>2, PosIss, PosPlus
<1>5. Answer(PeerAck(r), r)
  <2> DEFINE k == Plus(ISS, x)
             b == [ackno |-> k, wnd |-> y, syn |-> FALSE]
  <2>1. k \in Seqs /\ Pos(k) = PeerPos(r) /\ PeerEdge(r) = PeerPos(r) + y /\ PeerAck(r) = b
    BY <1>1, <1>2, <1>4
  <2> HIDE DEF k, y
  <2> QED BY <1>3, <2>1 DEF Answer, Answers, Edge
<1>6. Answer(PeerSynAck, r)
  BY <1>1, PosIss DEF Answer, Answers, Edge, PeerSynAck
<1> QED BY <1>5, <1>6

\* Reached is closed downwards.
LEMMA ReachedBelow ==
  ASSUME NEW p, NxtPos(p) \in Int, AckPos(p) \in Int, NEW e \in Int, NEW f \in Int, f <= e,
         Reached(e, p)
  PROVE  Reached(f, p)
BY DEF Reached

\* The peer reads: it has room again.
LEMMA ReadsOk ==
  ASSUME NEW w \in 0..N, NEW q, PeerOk(q, w)
  PROVE  LET r == [q EXCEPT !.unread = 0]
         IN  PeerOk(r, w) /\ Grows(q, r) /\ PeerPos(r) = PeerPos(q)
<1> DEFINE r == [q EXCEPT !.unread = 0]
<1>1. /\ q \in Peers /\ Len(q.got) \in Nat /\ q.unread \in Nat /\ PeerBuf \in Nat
      /\ q.unread <= PeerBuf /\ PeerPos(q) \in Nat
      /\ PeerEdge(q) = PeerPos(q) + (PeerBuf - q.unread)
      /\ DataEdge(q) = Len(q.got) + (PeerBuf - q.unread)
  BY PeerFacts DEF PeerOk
<1>2. r \in Peers /\ r.got = q.got /\ r.fin = q.fin /\ r.unread = 0
  BY <1>1 DEF Peers
<1> HIDE DEF r
<1>3. PeerOk(r, w)
  BY <1>1, <1>2 DEF PeerOk
<1>4. PeerPos(r) = PeerPos(q)
  BY <1>2 DEF PeerPos
<1>5. /\ PeerEdge(r) = PeerPos(r) + (PeerBuf - r.unread)
      /\ DataEdge(r) = Len(r.got) + (PeerBuf - r.unread)
  BY <1>3, PeerFacts
<1>6. Grows(q, r)
  <2>1. /\ PeerEdge(r) = PeerPos(q) + (PeerBuf - 0) /\ DataEdge(r) = Len(q.got) + (PeerBuf - 0)
    BY <1>2, <1>4, <1>5
  <2>2. PeerEdge(q) <= PeerEdge(r) /\ DataEdge(q) <= DataEdge(r)
    BY <1>1, <2>1
  <2> QED BY <1>1, <1>4, <2>2 DEF Grows
<1> QED BY <1>3, <1>4, <1>6 DEF r

-----------------------------------------------------------------------------
(* Before the connection: the SYN.                                         *)

SynPcb(p) ==
  /\ p \in Pcbs /\ p.state = "SYN_SENT" /\ p.unacked = <<SynSeg>> /\ p.unsent = <<>>
  /\ p.lastack = Plus(ISS, -1) /\ p.snd_nxt = ISS /\ p.snd_lbb = ISS /\ p.snd_wl2 = ISS
  /\ p.snd_wl1 = -1 /\ p.snd_wnd = PeerBuf /\ p.rtime = TRUE /\ p.persist = FALSE
  /\ p.tf_fin = FALSE /\ p.snd_queuelen = 1 /\ p.snd_buf = TCP_SND_BUF - 1

SynOk(p, w, S, A, q) ==
  /\ SynPcb(p) /\ w = 0 /\ q.got = <<>> /\ q.fin = FALSE
  /\ A \subseteq {PeerSynAck} /\ S \subseteq {Wire(SynSeg)}

LEMMA SynFacts ==
  /\ Plus(ISS, -1) \in Seqs /\ Pos(Plus(ISS, -1)) = -1
  /\ SynSeg \in Segs /\ SynSeg.syn = TRUE /\ SynSeg.fin = FALSE /\ SynSeg.data = << >>
  /\ SynSeg.clen = 1 /\ SynSeg.seqno = Plus(ISS, -1) /\ Len(SynSeg.data) = 0
  /\ SegEnd(SynSeg) = ISS /\ Wire(SynSeg) \in Wires /\ Wire(SynSeg).syn = TRUE
  /\ PeerSynAck.ackno = ISS /\ PeerSynAck.wnd = PeerBuf
<1>1. Plus(ISS, -1) \in Seqs /\ Pos(Plus(ISS, -1)) = -1
  <2>1. Pos(ISS) + (-1) = -1 /\ -1 \in Places /\ -1 \in Int
    BY PosIss, SpaceFacts DEF Places
  <2> QED BY <2>1, PosIss, PosPlus
<1> DEFINE x == Plus(ISS, -1)
<1>2. SynSeg = [seqno |-> x, data |-> << >>, clen |-> 1, fin |-> FALSE, syn |-> TRUE]
  BY DEF SynSeg
<1>3. << >> \in Seq(Nat) /\ Len(<< >>) = 0
  BY EmptySeq
<1>4. /\ SynSeg \in Segs /\ SynSeg.syn = TRUE /\ SynSeg.fin = FALSE /\ SynSeg.data = << >>
      /\ SynSeg.clen = 1 /\ SynSeg.seqno = x
  <2> HIDE DEF x
  <2> QED BY <1>1, <1>2, <1>3 DEF Segs, x
<1>5. SegEnd(SynSeg) = ISS
  <2>1. TCP_TCPLEN(SynSeg) = 1
    BY <1>3, <1>4 DEF TCP_TCPLEN, Count
  <2>2. Plus(x, 1) \in Seqs /\ Pos(Plus(x, 1)) = 0
    <3>1. Pos(x) + 1 = 0 /\ 0 \in Places
      BY <1>1, SpaceFacts DEF Places
    <3> HIDE DEF x
    <3> QED BY <1>1, <3>1, PosPlus DEF x
  <2>3. Plus(x, 1) = ISS
    <3>1. 0 \in Places
      BY SpaceFacts DEF Places
    <3> QED BY <2>2, <3>1, PosIss, Compare
  <2> QED BY <1>4, <2>1, <2>3 DEF SegEnd
<1>6. Wire(SynSeg) \in Wires /\ Wire(SynSeg).syn = TRUE
  BY <1>4, SegTypes DEF Wire
<1>7. PeerSynAck.ackno = ISS /\ PeerSynAck.wnd = PeerBuf
  BY DEF PeerSynAck
<1> QED BY <1>1, <1>3, <1>4, <1>5, <1>6, <1>7

\* The loop with nothing to send, and with one segment.
LEMMA TurnsFew ==
  ASSUME NEW p \in Pcbs
  PROVE  /\ p.unsent = << >> => Turns(p) = [pcb |-> p, sent |-> {}]
         /\ Len(p.unsent) = 1 => Turns(p) = OneTurn([pcb |-> p, sent |-> {}])
<1>1. PICK f : TurnsRun(p, f)
  BY TurnsRuns
<1>2. /\ f[0] = [pcb |-> p, sent |-> {}] /\ Turns(p) = f[Len(p.unsent)]
      /\ \A i \in 1..Len(p.unsent) : f[i] = OneTurn(f[i - 1])
  BY <1>1 DEF TurnsRun
<1>3. ASSUME p.unsent = << >> PROVE Turns(p) = [pcb |-> p, sent |-> {}]
  <2>1. Len(p.unsent) = 0
    BY <1>3
  <2> QED BY <1>2, <2>1
<1>4. ASSUME Len(p.unsent) = 1 PROVE Turns(p) = OneTurn([pcb |-> p, sent |-> {}])
  <2>1. 1 \in 1..Len(p.unsent) /\ 1 - 1 = 0
    BY <1>4
  <2>2. f[1] = OneTurn(f[1 - 1])
    BY <1>2, <2>1
  <2> QED BY <1>2, <1>4, <2>1, <2>2
<1> QED BY <1>3, <1>4

\* tcp_output() has nothing to send.
LEMMA SynOutput ==
  ASSUME NEW p, SynPcb(p)
  PROVE  LET o == tcp_output(p) IN o \in Outs /\ SynPcb(o.pcb) /\ o.sent = {}
<1> DEFINE o == tcp_output(p)
           r == [p EXCEPT !.persist = FALSE, !.memerr = FALSE]
           t == [pcb |-> p, sent |-> {}]
<1>1. p \in Pcbs /\ p.unsent = << >> /\ p.persist = FALSE
  BY DEF SynPcb
<1>2. Turns(p) = t
  BY <1>1, TurnsFew
<1>3. t.pcb = p /\ t.sent = {}
  OBVIOUS
<1>4. (p.persist \/ Persists(p)) = FALSE
  BY <1>1 DEF Persists
<1>5. o = [t EXCEPT !.pcb.persist = @ \/ Persists(t.pcb), !.pcb.memerr = FALSE]
  BY <1>2 DEF tcp_output
<1>6. o = [t EXCEPT !.pcb.persist = FALSE, !.pcb.memerr = FALSE]
  BY <1>3, <1>4, <1>5
<1>7. o = [pcb |-> r, sent |-> {}]
  <2> HIDE DEF o
  <2> QED BY <1>1, <1>6 DEF Pcbs
<1>8. r \in Pcbs /\ SynPcb(r)
  BY <1>1 DEF SynPcb, Pcbs
<1> HIDE DEF r, o
<1>9. o \in Outs /\ o.pcb = r /\ o.sent = {}
  BY <1>7, <1>8 DEF Outs
<1> QED BY <1>8, <1>9 DEF o

\* The SYN waits on unsent, after a timeout.
SynWaits(y) ==
  /\ y \in Pcbs /\ y.state = "SYN_SENT" /\ y.unsent = <<SynSeg>> /\ y.unacked = <<>>
  /\ y.lastack = Plus(ISS, -1) /\ y.snd_nxt = ISS /\ y.snd_lbb = ISS /\ y.snd_wl2 = ISS
  /\ y.snd_wl1 = -1 /\ y.snd_wnd = PeerBuf /\ y.persist = FALSE
  /\ y.tf_fin = FALSE /\ y.snd_queuelen = 1 /\ y.snd_buf = TCP_SND_BUF - 1

\* It goes out again, whatever the window.
LEMMA SynGoes ==
  ASSUME NEW y, SynWaits(y)
  PROVE  Goes(y) /\ SendHead(y) \in Pcbs /\ SynPcb(SendHead(y))
<1>1. /\ y \in Pcbs /\ y.unsent = <<SynSeg>> /\ y.unacked = <<>>
      /\ y.lastack = Plus(ISS, -1) /\ y.snd_nxt = ISS
  BY DEF SynWaits
<1>2. y.unsent[1] = SynSeg /\ Tail(y.unsent) = << >> /\ y.unsent # << >>
  BY <1>1
<1>3. /\ SynSeg \in Segs /\ SynSeg.seqno = Plus(ISS, -1) /\ Len(SynSeg.data) = 0
      /\ SegEnd(SynSeg) = ISS /\ Plus(ISS, -1) \in Seqs
  BY SynFacts
<1>4. Goes(y)
  <2>1. Reach(y, SynSeg) = 0
    <3> DEFINE x == Plus(ISS, -1)
    <3>1. x \in Int /\ M \in Nat \ {0}
      BY <1>3, SpaceFacts DEF Seqs
    <3>2. Reach(y, SynSeg) = (x - x + 0) % M
      BY <1>1, <1>3 DEF Reach
    <3> HIDE DEF x
    <3>3. x - x + 0 = 0 /\ 0 % M = 0
      BY <3>1
    <3> QED BY <3>2, <3>3
  <2>2. y.snd_wnd \in Nat /\ y.cwnd \in Nat
    BY <1>1, RateFacts, SpaceFacts
  <2>3. 0 <= Least(y.snd_wnd, y.cwnd)
    BY <2>2 DEF Least
  <2>4. tcp_do_output_nagle(y)
    BY <1>1 DEF tcp_do_output_nagle
  <2> QED BY <1>2, <2>1, <2>3, <2>4 DEF Goes
<1>5. ~TCP_SEQ_LT(ISS, ISS)
  <2>1. 0 \in Places
    BY SpaceFacts DEF Places
  <2> QED BY <2>1, PosIss, Compare
<1>6. SendHead(y) = [y EXCEPT !.unsent = <<>>, !.snd_nxt = ISS, !.unacked = <<SynSeg>>,
                              !.rtime = TRUE]
  <2>1. Append(<< >>, SynSeg) = <<SynSeg>>
    OBVIOUS
  <2>2. Later(ISS, SegEnd(SynSeg)) = ISS
    BY <1>3, <1>5 DEF Later
  <2>3. Placed(<< >>, SynSeg) = <<SynSeg>>
    BY <2>1 DEF Placed
  <2> DEFINE e == Tail(y.unsent)
             n == IF TCP_SEQ_LT(y.snd_nxt, SegEnd(y.unsent[1])) THEN SegEnd(y.unsent[1]) ELSE y.snd_nxt
             v == IF y.unacked # <<>> /\ TCP_SEQ_LT(y.unsent[1].seqno, y.unacked[Len(y.unacked)].seqno)
                  THEN Insert(y.unacked, y.unsent[1]) ELSE Append(y.unacked, y.unsent[1])
  <2>4. SendHead(y) = [y EXCEPT !.unsent = e, !.snd_nxt = n, !.unacked = v, !.rtime = TRUE]
    BY <1>1 DEF SendHead, Pcbs
  <2>5. n = ISS
    BY <1>1, <1>2, <1>3, <1>5
  <2>6. v = <<SynSeg>>
    BY <1>1, <1>2, <2>1
  <2> HIDE DEF e, n, v
  <2> QED BY <1>2, <2>4, <2>5, <2>6 DEF e
<1>7. SynPcb(SendHead(y))
  <2> DEFINE e == << >>
             u == <<SynSeg>>
             i == ISS
             z == [y EXCEPT !.unsent = e, !.snd_nxt = i, !.unacked = u, !.rtime = TRUE]
  <2>1. e \in Seq(Segs) /\ u \in Seq(Segs) /\ i \in Seqs /\ SendHead(y) = z
    BY <1>3, <1>6, PosIss
  <2> HIDE DEF e, u, i
  <2>2. /\ z \in Pcbs /\ z.unsent = e /\ z.unacked = u /\ z.snd_nxt = i /\ z.rtime = TRUE
        /\ z.state = y.state /\ z.lastack = y.lastack /\ z.snd_lbb = y.snd_lbb
        /\ z.snd_wl2 = y.snd_wl2 /\ z.snd_wl1 = y.snd_wl1 /\ z.snd_wnd = y.snd_wnd
        /\ z.persist = y.persist /\ z.tf_fin = y.tf_fin /\ z.snd_queuelen = y.snd_queuelen
        /\ z.snd_buf = y.snd_buf
    BY <1>1, <2>1 DEF Pcbs
  <2> HIDE DEF z
  <2>3. SynPcb(z)
    BY <2>2 DEF SynPcb, SynWaits, e, u, i
  <2> QED BY <2>1, <2>3
<1> QED BY <1>4, <1>7 DEF SynPcb

LEMMA SynAgain ==
  ASSUME NEW y, SynWaits(y)
  PROVE  LET o == tcp_output(y) IN o \in Outs /\ SynPcb(o.pcb) /\ o.sent = {Wire(SynSeg)}
<1> DEFINE o == tcp_output(y)
           h == SendHead(y)
           s == {Wire(SynSeg)}
           t == [pcb |-> h, sent |-> s]
           r == [h EXCEPT !.persist = FALSE, !.memerr = FALSE]
<1>1. y \in Pcbs /\ y.unsent = <<SynSeg>>
  BY DEF SynWaits
<1>2. Goes(y) /\ h \in Pcbs /\ SynPcb(h)
  BY SynGoes
<1>3. Turns(y) = t
  <2>1. Len(y.unsent) = 1 /\ y.unsent[1] = SynSeg
    BY <1>1
  <2>2. Turns(y) = OneTurn([pcb |-> y, sent |-> {}])
    BY <1>1, <2>1, TurnsFew
  <2>3. OneTurn([pcb |-> y, sent |-> {}]) = [pcb |-> h, sent |-> {} \cup {Wire(y.unsent[1])}]
    BY <1>2 DEF OneTurn
  <2> QED BY <2>1, <2>2, <2>3
<1> HIDE DEF h, s
<1>4. t.pcb = h /\ t.sent = s
  OBVIOUS
<1>5. h.unsent = << >> /\ h.persist = FALSE
  BY <1>2 DEF SynPcb
<1>6. (h.persist \/ Persists(h)) = FALSE
  BY <1>5 DEF Persists
<1>7. o = [t EXCEPT !.pcb.persist = @ \/ Persists(t.pcb), !.pcb.memerr = FALSE]
  BY <1>3 DEF tcp_output
<1>8. o = [t EXCEPT !.pcb.persist = FALSE, !.pcb.memerr = FALSE]
  BY <1>4, <1>6, <1>7
<1>9. o = [pcb |-> r, sent |-> s]
  <2> HIDE DEF o
  <2> QED BY <1>2, <1>8 DEF Pcbs
<1>10. r \in Pcbs /\ SynPcb(r)
  BY <1>2 DEF SynPcb, Pcbs
<1>11. s \in SUBSET Wires
  BY SynFacts DEF s
<1> HIDE DEF r, o
<1>12. o \in Outs /\ o.pcb = r /\ o.sent = s
  BY <1>9, <1>10, <1>11 DEF Outs
<1> QED BY <1>10, <1>12 DEF o, s

LEMMA SynRto ==
  ASSUME NEW p, SynPcb(p)
  PROVE  LET o == RtoOut(p) IN o \in Outs /\ SynPcb(o.pcb) /\ o.sent = {Wire(SynSeg)}
<1> DEFINE th == AtLeast(Least(p.cwnd, p.snd_wnd) \div 2, p.mss, 2 * p.mss)
           k == (p.nrtx + 1) % W8
           z == Requeued(p, th, k)
           o == tcp_output(z)
           t == tcp_output(o.pcb)
           Z == t.sent \cup o.sent
           r == [t EXCEPT !.sent = Z]
<1>1. p \in Pcbs /\ p.unacked = <<SynSeg>> /\ p.unsent = << >> /\ p.unacked # << >>
  BY DEF SynPcb
<1>2. th \in 1..(W - 1) /\ p.mss <= th
  <2>1. 1 * p.mss = p.mss
    BY <1>1, RateFacts
  <2>2. AtLeast(Least(p.cwnd, p.snd_wnd) \div 2, 1 * p.mss, 2 * p.mss) \in 1..(W - 1)
        /\ p.mss <= AtLeast(Least(p.cwnd, p.snd_wnd) \div 2, 1 * p.mss, 2 * p.mss)
    BY <1>1, HalvedOk
  <2> QED BY <2>1, <2>2
<1>3. k \in 0..(W8 - 1)
  BY <1>1, RateFacts
<1> HIDE DEF th, k
<1>4. SynWaits(z)
  <2> DEFINE u == p.unacked \o p.unsent
             e == << >>
             c == p.mss
  <2>1. u = <<SynSeg>> /\ u \in Seq(Segs) /\ e \in Seq(Segs)
    BY <1>1, SynFacts
  <2>2. c \in 1..(W - 1)
    <3>1. c \in Nat \ {0} /\ 10 * c < W /\ W \in Nat
      BY <1>1, RateFacts, SpaceFacts
    <3> HIDE DEF c
    <3> QED BY <3>1
  <2>3. z = [p EXCEPT !.ssthresh = th, !.cwnd = c, !.unsent = u, !.unacked = e, !.nrtx = k]
    BY DEF Requeued
  <2> HIDE DEF u, e, c, z
  <2>4. /\ z \in Pcbs /\ z.unsent = u /\ z.unacked = e /\ z.snd_nxt = p.snd_nxt
        /\ z.state = p.state /\ z.lastack = p.lastack /\ z.snd_lbb = p.snd_lbb
        /\ z.snd_wl2 = p.snd_wl2 /\ z.snd_wl1 = p.snd_wl1 /\ z.snd_wnd = p.snd_wnd
        /\ z.persist = p.persist /\ z.tf_fin = p.tf_fin /\ z.snd_queuelen = p.snd_queuelen
        /\ z.snd_buf = p.snd_buf
    BY <1>1, <1>2, <1>3, <2>1, <2>2, <2>3 DEF Pcbs
  <2> QED BY <2>1, <2>4 DEF SynPcb, SynWaits, e
<1>6. tcp_rexmit_rto([p EXCEPT !.ssthresh = th, !.cwnd = p.mss]) = o
  BY <1>1, RexmitIs DEF k
<1> HIDE DEF z
<1>7. o \in Outs /\ SynPcb(o.pcb) /\ o.sent = {Wire(SynSeg)}
  BY <1>4, SynAgain
<1> HIDE DEF o
<1>8. t \in Outs /\ SynPcb(t.pcb) /\ t.sent = {}
  BY <1>7, SynOutput
<1> HIDE DEF t
<1>9. RtoOut(p) = r
  BY <1>6, <1>7, <1>8 DEF RtoOut, th, t, Outs
<1>10. Z = {Wire(SynSeg)} /\ Z \in SUBSET Wires
  BY <1>7, <1>8 DEF Outs
<1> HIDE DEF Z
<1>11. r \in Outs /\ r.pcb = t.pcb /\ r.sent = Z
  BY <1>8, <1>10 DEF Outs
<1> HIDE DEF r
<1> QED BY <1>8, <1>9, <1>10, <1>11

\* The handshake ends: the pcb is connected.
LEMMA SynAckedOk ==
  ASSUME NEW p, NEW w, NEW S, NEW A, NEW q, SynOk(p, w, S, A, q), PeerOk(q, w), w \in 0..N,
         NEW a \in A
  PROVE  StillOk(SynAcked(p, a), w, S, A, q)
<1> DEFINE m == tcp_parseopt
           e == Tail(p.unacked)
           b == (p.snd_buf + 1) % W
           c == IF p.cwnd = 1 THEN 2 * m ELSE m
           th == 10 * m
           l == p.snd_queuelen - 1
           z == SynAcked(p, a)
<1>1. /\ p \in Pcbs /\ p.unacked = <<SynSeg>> /\ p.unsent = <<>>
      /\ p.snd_nxt = ISS /\ p.snd_lbb = ISS /\ p.snd_wl2 = ISS
      /\ p.tf_fin = FALSE /\ p.snd_queuelen = 1 /\ p.snd_buf = TCP_SND_BUF - 1
      /\ w = 0 /\ q.got = <<>> /\ q.fin = FALSE
      /\ A \subseteq {PeerSynAck} /\ S \subseteq {Wire(SynSeg)}
  BY DEF SynOk, SynPcb
<1>2. a.ackno = ISS /\ a.wnd = PeerBuf
  BY <1>1, SynFacts
<1>3. m \in 1..TCP_MSS /\ m \in Nat \ {0} /\ 10 * m < W
  <2>1. PeerMss \in Nat /\ TCP_MSS \in Nat \ {0} /\ W \in Nat /\ 10 * TCP_MSS < W
    BY SendConstants
  <2>2. m \in 1..TCP_MSS
    BY <2>1 DEF tcp_parseopt
  <2> HIDE DEF m
  <2> QED BY <2>1, <2>2
<1> HIDE DEF m
<1>4. c \in 1..(W - 1) /\ th \in 1..(W - 1) /\ m <= c /\ m <= th
  BY <1>3, SpaceFacts
<1>5. TCP_SND_BUF \in 1..(W - 1) /\ W \in Nat /\ PeerBuf \in Nat
  BY SendConstants, SpaceFacts
<1>6. b = TCP_SND_BUF /\ b \in 0..(W - 1)
  <2>1. TCP_SND_BUF - 1 + 1 = TCP_SND_BUF /\ TCP_SND_BUF % W = TCP_SND_BUF
    BY <1>5
  <2> QED BY <1>1, <1>5, <2>1
<1>7. e = << >> /\ e \in Seq(Segs) /\ l = 0
  BY <1>1
<1> DEFINE n == IF e # <<>> THEN 0 ELSE p.nrtx
           rt == e # <<>>
           v == a.wnd
           x == a.ackno
<1>8. n \in 0..(W8 - 1) /\ rt = FALSE
  BY <1>1, <1>7 DEF Pcbs
<1>9. v \in 0..PeerBuf /\ x \in Seqs
  BY <1>2, <1>5, PosIss
<1>10. z = [p EXCEPT !.state = "ESTABLISHED", !.snd_buf = b, !.lastack = x,
                !.snd_wnd = v, !.snd_wl1 = -1, !.mss = m, !.ssthresh = th,
                !.cwnd = c, !.snd_queuelen = l, !.unacked = e, !.rtime = rt, !.nrtx = n]
  BY <1>1 DEF SynAcked, Pcbs, m
<1> HIDE DEF b, c, th, e, n, rt, v, x, l, z
<1>11. /\ z \in Pcbs /\ z.state = "ESTABLISHED" /\ z.snd_buf = b /\ z.lastack = x
       /\ z.snd_wnd = v /\ z.snd_wl1 = -1 /\ z.mss = m /\ z.ssthresh = th /\ z.cwnd = c
       /\ z.snd_queuelen = l /\ z.unacked = e /\ z.unsent = p.unsent /\ z.snd_nxt = p.snd_nxt
       /\ z.snd_lbb = p.snd_lbb /\ z.snd_wl2 = p.snd_wl2 /\ z.tf_fin = p.tf_fin
  <2>a. rt \in BOOLEAN
    BY <1>8, Zenon
  <2>b. "ESTABLISHED" \in States
    BY DEF States
  <2>c. l \in Int /\ -1 \in {-1, 1}
    BY <1>7
  <2>1. l \in Int /\ rt \in BOOLEAN /\ -1 \in {-1, 1} /\ "ESTABLISHED" \in States
    BY <2>a, <2>b, <2>c, Zenon
  <2> DEFINE st == "ESTABLISHED"
             mi == -1
  <2>2. st \in States /\ mi \in {-1, 1} /\ m \in 1..TCP_MSS
        /\ z = [p EXCEPT !.state = st, !.snd_buf = b, !.lastack = x,
                !.snd_wnd = v, !.snd_wl1 = mi, !.mss = m, !.ssthresh = th,
                !.cwnd = c, !.snd_queuelen = l, !.unacked = e, !.rtime = rt, !.nrtx = n]
    BY <1>3, <1>10, <2>1
  <2> HIDE DEF st, mi
  <2>3. /\ z \in Pcbs /\ z.state = st /\ z.snd_buf = b /\ z.lastack = x
       /\ z.snd_wnd = v /\ z.snd_wl1 = mi /\ z.mss = m /\ z.ssthresh = th /\ z.cwnd = c
       /\ z.snd_queuelen = l /\ z.unacked = e /\ z.unsent = p.unsent /\ z.snd_nxt = p.snd_nxt
       /\ z.snd_lbb = p.snd_lbb /\ z.snd_wl2 = p.snd_wl2 /\ z.tf_fin = p.tf_fin
    BY <1>1, <1>4, <1>6, <1>7, <1>8, <1>9, <2>1, <2>2, ZenonT(40) DEF Pcbs
  <2> QED BY <2>3 DEF st, mi
<1>12. AckPos(z) = 0 /\ NxtPos(z) = 0 /\ LbbPos(z) = 0 /\ WlPos(z) = 0 /\ z.snd_wnd = PeerBuf
       /\ WndEdge(z) = PeerBuf /\ z.unacked = << >> /\ z.unsent = << >>
  <2>1. AckPos(z) = 0 /\ NxtPos(z) = 0 /\ LbbPos(z) = 0 /\ WlPos(z) = 0
    BY <1>1, <1>2, <1>11, PosIss DEF AckPos, NxtPos, LbbPos, WlPos, x
  <2>2. z.snd_wnd = PeerBuf
    BY <1>2, <1>11 DEF v
  <2>3. WndEdge(z) = PeerBuf
    BY <1>5, <2>1, <2>2 DEF WndEdge
  <2> QED BY <1>1, <1>7, <1>11, <2>1, <2>2, <2>3
<1>13. Ordered(z, w)
  <2>1. Marks(z, w)
    <3>1. Count(FALSE) = 0
      BY DEF Count
    <3>2. z.tf_fin = FALSE
      BY <1>1, <1>11, Zenon
    <3>3. z.tf_fin <=> z.state = "FIN_WAIT_1"
      <4>1. "ESTABLISHED" # "FIN_WAIT_1"
        OBVIOUS
      <4> QED BY <1>11, <3>2, <4>1, Zenon
    <3>4. Count(z.tf_fin) = 0
      BY <3>1, <3>2, Zenon
    <3>5. LbbPos(z) = w + Count(z.tf_fin)
      BY <1>1, <1>12, <3>4
    <3>6. 0 <= AckPos(z) /\ AckPos(z) <= NxtPos(z) /\ NxtPos(z) <= LbbPos(z)
      BY <1>12
    <3>7. z.state \in {"ESTABLISHED", "FIN_WAIT_1"} /\ (z.tf_fin => w = N)
      BY <1>11, <3>2
    <3> QED BY <1>11, <3>3, <3>5, <3>6, <3>7 DEF Marks
  <2>2. 0 \in 0..(N + 1)
    BY SpaceFacts
  <2>3. Chained(<< >>, 0, 0, w, z.mss)
    BY ChainEmpty
  <2>4. Split(z, w, 0, 0)
    BY <1>12, <2>3 DEF Split
  <2> QED BY <2>1, <2>2, <2>4 DEF Ordered
<1>14. Fits(z)
  BY <1>12 DEF Fits
<1>15. PeerPos(q) = 0 /\ PeerEdge(q) = PeerBuf
  <2>1. PeerPos(q) = Len(q.got) /\ q.unread <= Len(q.got) /\ q.unread \in Nat
        /\ PeerEdge(q) = PeerPos(q) + (PeerBuf - q.unread)
    BY <1>1, PeerFacts DEF PeerOk
  <2>2. Len(q.got) = 0
    BY <1>1
  <2> QED BY <1>5, <2>1, <2>2
<1>16. Window(z, A, q)
  <2>1. \A f \in A : Pos(f.ackno) = 0
    BY <1>1, SynFacts, PosIss
  <2> QED BY <1>5, <1>12, <1>15, <2>1 DEF Window
<1>17. Reached(PeerPos(q), z)
  BY <1>12, <1>15 DEF Reached
<1>18. Ctl(z)
  BY <1>4, <1>11, <1>12 DEF Ctl, Restful
<1>19. Acct(z)
  <2>1. Load(z) = 0
    BY <1>12, ClenEmpty DEF Load
  <2>2. (TCP_SND_BUF - (0 - 0)) % W = TCP_SND_BUF
    BY <1>5
  <2>3. TCP_SND_QUEUELEN \in Nat
    BY SendConstants
  <2> QED BY <1>5, <1>6, <1>7, <1>11, <1>12, <2>1, <2>2, <2>3 DEF Acct
<1>20. Live(z, w, A, q)
  BY <1>13, <1>14, <1>16, <1>17, <1>18, <1>19 DEF Live
<1>21. NetOk(S, q, w) /\ NetReached(S, z)
  BY <1>1, SynFacts DEF NetOk, NetReached
<1> QED BY <1>20, <1>21 DEF StillOk, z

-----------------------------------------------------------------------------
(* The inductive invariant.                                                *)

Connected(p) == p.state \in {"ESTABLISHED", "FIN_WAIT_1"}

Sound(p, w, S, A, q) ==
  /\ p \in Pcbs /\ w \in 0..N
  /\ PeerOk(q, w) /\ AnswersOk(A, q) /\ NetOk(S, q, w)
  /\ p.state = "SYN_SENT" => SynOk(p, w, S, A, q)
  /\ Connected(p) => Live(p, w, A, q) /\ NetReached(S, p)

SendInv == Sound(pcb, written, net, acks, peer)

LEMMA LiveState ==
  ASSUME NEW p, NEW w, NEW A, NEW q, Live(p, w, A, q)
  PROVE  p \in Pcbs /\ w \in 0..N /\ Connected(p) /\ p.state # "SYN_SENT"
<1>1. Marks(p, w)
  BY DEF Live, Ordered
<1>2. p \in Pcbs /\ w \in 0..N /\ p.state \in {"ESTABLISHED", "FIN_WAIT_1"}
  BY <1>1 DEF Marks
<1>3. p.state # "SYN_SENT"
  BY <1>2
<1> QED BY <1>2, <1>3 DEF Connected

LEMMA StillSound ==
  ASSUME NEW p, NEW w, NEW S, NEW A, NEW q, StillOk(p, w, S, A, q), AnswersOk(A, q)
  PROVE  Sound(p, w, S, A, q)
<1>1. Live(p, w, A, q) /\ PeerOk(q, w) /\ NetOk(S, q, w) /\ NetReached(S, p)
  BY DEF StillOk
<1> QED BY <1>1, LiveState DEF Sound

LEMMA SoundStill ==
  ASSUME NEW p, NEW w, NEW S, NEW A, NEW q, Sound(p, w, S, A, q), Connected(p)
  PROVE  StillOk(p, w, S, A, q)
BY DEF Sound, StillOk

LEMMA SentSound ==
  ASSUME NEW o, NEW w, NEW S, NEW A, NEW q, SendOk(o, w, S, A, q), PeerOk(q, w),
         AnswersOk(A, q), NEW R \in Carry(S, o.sent), NEW B \in SUBSET A
  PROVE  Sound(o.pcb, w, R, B, q)
<1>1. Live(o.pcb, w, A, q) /\ NetOk(S \cup o.sent, q, w) /\ NetReached(S \cup o.sent, o.pcb)
  BY DEF SendOk
<1>2. NetOk(R, q, w) /\ NetReached(R, o.pcb)
  BY <1>1, CarryIn, NetSubset
<1>3. Live(o.pcb, w, B, q) /\ AnswersOk(B, q)
  BY <1>1, AnswersSubset
<1>4. StillOk(o.pcb, w, R, B, q)
  BY <1>1, <1>2, <1>3 DEF StillOk
<1> QED BY <1>3, <1>4, StillSound

LEMMA SynSound ==
  ASSUME NEW p, NEW w, NEW S, NEW A, NEW q, Sound(p, w, S, A, q), p.state = "SYN_SENT",
         NEW o \in Outs, SynPcb(o.pcb), o.sent \subseteq {Wire(SynSeg)},
         NEW R \in Carry(S, o.sent)
  PROVE  Sound(o.pcb, w, R, A, q)
<1>1. SynOk(p, w, S, A, q) /\ w \in 0..N /\ PeerOk(q, w) /\ AnswersOk(A, q)
  BY DEF Sound
<1>2. R \subseteq {Wire(SynSeg)}
  BY <1>1, CarryIn DEF SynOk
<1>3. SynOk(o.pcb, w, R, A, q) /\ NetOk(R, q, w)
  BY <1>1, <1>2 DEF SynOk, NetOk
<1>4. o.pcb \in Pcbs /\ ~Connected(o.pcb)
  BY DEF SynPcb, Connected
<1> QED BY <1>1, <1>3, <1>4 DEF Sound

LEMMA InitSound == Init => SendInv
<1> SUFFICES ASSUME Init PROVE SendInv
  OBVIOUS
<1> DEFINE us == <<>>
           ua == <<SynSeg>>
           la == Plus(ISS, -1)
           sb == TCP_SND_BUF - 1
           th == 10 * TCP_MSS
           mi == -1
           st == "SYN_SENT"
<1>1. pcb = [state |-> st, mss |-> TCP_MSS, snd_nxt |-> ISS, snd_lbb |-> ISS,
             lastack |-> la, snd_wnd |-> PeerBuf, snd_wl1 |-> mi,
             snd_wl2 |-> ISS, snd_buf |-> sb, snd_queuelen |-> 1,
             unsent |-> us, unacked |-> ua, rtime |-> TRUE, persist |-> FALSE,
             nrtx |-> 0, dupacks |-> 0, cwnd |-> 1, ssthresh |-> th,
             infr |-> FALSE, memerr |-> FALSE, tf_fin |-> FALSE]
  BY DEF Init, SynSeg
<1>2. net = {Wire(SynSeg)} /\ acks = {} /\ written = 0
      /\ peer = [got |-> <<>>, unread |-> 0, fin |-> FALSE]
  BY DEF Init, SynSeg
<1>3. /\ TCP_MSS \in 1..TCP_MSS /\ ISS \in Seqs /\ la \in Seqs /\ PeerBuf \in 0..PeerBuf
      /\ mi \in {-1, 1} /\ st \in States /\ 1 \in Int
  <2>1. TCP_MSS \in 1..TCP_MSS /\ PeerBuf \in 0..PeerBuf
    BY SpaceFacts
  <2>2. st \in States
    BY DEF States
  <2> QED BY <2>1, <2>2, SynFacts, PosIss
<1>4. /\ sb \in 0..(W - 1) /\ th \in 1..(W - 1) /\ 1 \in 1..(W - 1) /\ 0 \in 0..(W8 - 1)
  <2>1. /\ TCP_SND_BUF \in 1..(W - 1) /\ W \in Nat /\ TCP_MSS \in Nat \ {0} /\ 10 * TCP_MSS < W
        /\ W8 \in Nat \ {0}
    BY SendConstants
  <2> QED BY <2>1
<1>5. us \in Seq(Segs) /\ ua \in Seq(Segs)
  BY SynFacts
<1> HIDE DEF us, ua, la, sb, th, mi, st
<1>6. /\ pcb \in Pcbs /\ pcb.state = st /\ pcb.unacked = ua /\ pcb.unsent = us
      /\ pcb.lastack = la /\ pcb.snd_nxt = ISS /\ pcb.snd_lbb = ISS /\ pcb.snd_wl2 = ISS
      /\ pcb.snd_wl1 = mi /\ pcb.snd_wnd = PeerBuf /\ pcb.rtime = TRUE /\ pcb.persist = FALSE
      /\ pcb.tf_fin = FALSE /\ pcb.snd_queuelen = 1 /\ pcb.snd_buf = sb
  BY <1>1, <1>3, <1>4, <1>5 DEF Pcbs
<1>7. SynPcb(pcb) /\ ~Connected(pcb)
  BY <1>6 DEF SynPcb, Connected, us, ua, la, sb, mi, st
<1>8. /\ peer \in Peers /\ peer.got = <<>> /\ peer.fin = FALSE /\ peer.unread = 0
  BY <1>2, SpaceFacts DEF Peers
<1>9. SynOk(pcb, written, net, acks, peer)
  BY <1>2, <1>7, <1>8 DEF SynOk
<1>10. PeerOk(peer, written) /\ written \in 0..N
  <2>1. Len(peer.got) = 0
    BY <1>8
  <2>2. written \in 0..N
    BY <1>2, SpaceFacts
  <2> QED BY <1>2, <1>8, <2>1, <2>2 DEF PeerOk
<1>11. AnswersOk(acks, peer) /\ NetOk(net, peer, written)
  BY <1>2 DEF AnswersOk, NetOk
<1> QED BY <1>6, <1>7, <1>9, <1>10, <1>11 DEF Sound, SendInv

LEMMA SoundFacts ==
  ASSUME NEW p, NEW w, NEW S, NEW A, NEW q, Sound(p, w, S, A, q)
  PROVE  /\ p \in Pcbs /\ w \in 0..N /\ w \in Nat /\ N \in Nat
         /\ PeerOk(q, w) /\ AnswersOk(A, q) /\ NetOk(S, q, w)
         /\ p.state = "SYN_SENT" \/ p.state = "GONE" \/ Connected(p)
<1>1. p \in Pcbs /\ w \in 0..N /\ PeerOk(q, w) /\ AnswersOk(A, q) /\ NetOk(S, q, w)
  BY DEF Sound
<1>2. p.state \in States
  BY <1>1 DEF Pcbs
<1> QED BY <1>1, <1>2, SpaceFacts DEF States, Connected

\* What tcp_output() sends, in any state but GONE.
LEMMA OutputSound ==
  ASSUME NEW p, NEW w, NEW S, NEW A, NEW q, Sound(p, w, S, A, q), p.state # "GONE",
         NEW R \in Carry(S, tcp_output(p).sent)
  PROVE  Sound(tcp_output(p).pcb, w, R, A, q)
<1> DEFINE o == tcp_output(p)
<1>1. CASE p.state = "SYN_SENT"
  <2>1. SynPcb(p)
    BY <1>1 DEF Sound, SynOk
  <2>2. o \in Outs /\ SynPcb(o.pcb) /\ o.sent = {}
    BY <2>1, SynOutput
  <2> HIDE DEF o
  <2>3. R \in Carry(S, o.sent) /\ o.sent \subseteq {Wire(SynSeg)}
    BY <2>2 DEF o
  <2>4. Sound(o.pcb, w, R, A, q)
    BY <1>1, <2>2, <2>3, SynSound
  <2> QED BY <2>4 DEF o
<1>2. CASE Connected(p)
  <2>1. Live(p, w, A, q) /\ PeerOk(q, w) /\ NetOk(S, q, w) /\ NetReached(S, p) /\ AnswersOk(A, q)
    BY <1>2 DEF Sound
  <2>2. SendOk(o, w, S, A, q)
    BY <2>1, OutputLive
  <2> HIDE DEF o
  <2>3. R \in Carry(S, o.sent) /\ A \in SUBSET A
    BY DEF o
  <2>4. Sound(o.pcb, w, R, A, q)
    BY <2>1, <2>2, <2>3, SentSound
  <2> QED BY <2>4 DEF o
<1> QED BY <1>1, <1>2, SoundFacts

LEMMA WriteStep ==
  ASSUME SendInv, NEW n \in 1..Chunk, NEW mem \in BOOLEAN, tcp_write(n, mem)
  PROVE  SendInv'
<1> DEFINE data == [i \in 1..n |-> written + i]
<1>1. /\ pcb.state = "ESTABLISHED" /\ written + n <= N
      /\ \/ Room(pcb, data, FALSE) /\ pcb' = Enqueued(pcb, data, FALSE) /\ written' = written + n
         \/ pcb' = EnqueueFails(pcb) /\ written' = written
      /\ net' = net /\ acks' = acks /\ peer' = peer
  BY DEF tcp_write
<1>2. data = Bytes(written, n) /\ n \in Nat \ {0}
  BY SendConstants DEF Bytes
<1>3. StillOk(pcb, written, net, acks, peer) /\ AnswersOk(acks, peer)
  <2>1. Connected(pcb)
    BY <1>1 DEF Connected
  <2> QED BY <2>1, SoundStill, SoundFacts DEF SendInv
<1> HIDE DEF data
<1>4. CASE Room(pcb, data, FALSE) /\ pcb' = Enqueued(pcb, data, FALSE) /\ written' = written + n
  <2>1. StillOk(Enqueued(pcb, Bytes(written, n), FALSE), written + n, net, acks, peer)
    BY <1>1, <1>2, <1>3, <1>4, WriteOk
  <2>2. Sound(Enqueued(pcb, Bytes(written, n), FALSE), written + n, net, acks, peer)
    BY <1>3, <2>1, StillSound
  <2> QED BY <1>1, <1>2, <1>4, <2>2 DEF SendInv
<1>5. CASE pcb' = EnqueueFails(pcb) /\ written' = written
  <2>1. StillOk(EnqueueFails(pcb), written, net, acks, peer)
    BY <1>3, FailOk
  <2>2. Sound(EnqueueFails(pcb), written, net, acks, peer)
    BY <1>3, <2>1, StillSound
  <2> QED BY <1>1, <1>5, <2>2 DEF SendInv
<1> QED BY <1>1, <1>4, <1>5

LEMMA OutputStep == ASSUME SendInv, CallOutput PROVE SendInv'
<1>1. /\ pcb.state # "GONE" /\ pcb' = tcp_output(pcb).pcb
      /\ net' \in Carry(net, tcp_output(pcb).sent)
      /\ written' = written /\ acks' = acks /\ peer' = peer
  BY DEF CallOutput, Alive, Emit
<1>2. Sound(tcp_output(pcb).pcb, written, net', acks, peer)
  BY <1>1, OutputSound DEF SendInv
<1> QED BY <1>1, <1>2 DEF SendInv

LEMMA CloseStep ==
  ASSUME SendInv, NEW mem \in BOOLEAN, tcp_close(mem)
  PROVE  SendInv'
<1> DEFINE p == [Enqueued(pcb, <<>>, TRUE) EXCEPT !.state = "FIN_WAIT_1"]
<1>1. /\ pcb.state = "ESTABLISHED" /\ written = N
      /\ \/ Room(pcb, <<>>, TRUE) /\ pcb' = tcp_output(p).pcb /\ net' \in Carry(net, tcp_output(p).sent)
         \/ pcb' = EnqueueFails(pcb) /\ net' = net
      /\ written' = written /\ acks' = acks /\ peer' = peer
  BY DEF tcp_close, Emit
<1>2. StillOk(pcb, written, net, acks, peer) /\ AnswersOk(acks, peer)
  <2>1. Connected(pcb)
    BY <1>1 DEF Connected
  <2> QED BY <2>1, SoundStill, SoundFacts DEF SendInv
<1>3. CASE Room(pcb, <<>>, TRUE) /\ pcb' = tcp_output(p).pcb /\ net' \in Carry(net, tcp_output(p).sent)
  <2>1. StillOk(p, written, net, acks, peer)
    BY <1>1, <1>2, <1>3, CloseOk
  <2> HIDE DEF p
  <2>2. Sound(p, written, net, acks, peer) /\ p.state # "GONE"
    <3>1. Sound(p, written, net, acks, peer)
      BY <1>2, <2>1, StillSound
    <3>2. p.state # "GONE"
      BY <2>1, LiveState DEF StillOk, Connected
    <3> QED BY <3>1, <3>2
  <2>3. Sound(tcp_output(p).pcb, written, net', acks, peer)
    BY <1>3, <2>2, OutputSound
  <2> QED BY <1>1, <1>3, <2>3 DEF SendInv
<1>4. CASE pcb' = EnqueueFails(pcb) /\ net' = net
  <2>1. StillOk(EnqueueFails(pcb), written, net, acks, peer)
    BY <1>2, FailOk
  <2>2. Sound(EnqueueFails(pcb), written, net, acks, peer)
    BY <1>2, <2>1, StillSound
  <2> QED BY <1>1, <1>4, <2>2 DEF SendInv
<1> QED BY <1>1, <1>3, <1>4

LEMMA InputStep ==
  ASSUME SendInv, NEW a \in acks, NEW again, tcp_input(a, again)
  PROVE  SendInv'
<1> DEFINE p == IF pcb.state = "SYN_SENT" THEN SynAcked(pcb, a)
                ELSE IF a.syn THEN pcb ELSE tcp_receive(pcb, a)
           o == tcp_output(p)
<1>1. /\ pcb.state # "GONE" /\ acks' \in SUBSET acks
      /\ pcb' = o.pcb /\ net' \in Carry(net, o.sent) /\ written' = written /\ peer' = peer
  BY DEF tcp_input, Alive, Emit
<1>2. /\ written \in 0..N /\ PeerOk(peer, written) /\ AnswersOk(acks, peer)
      /\ NetOk(net, peer, written) /\ (pcb.state = "SYN_SENT" \/ Connected(pcb))
  BY <1>1, SoundFacts DEF SendInv
<1>3. SendOk(o, written, net, acks, peer)
  <2>1. CASE pcb.state = "SYN_SENT"
    <3>1. SynOk(pcb, written, net, acks, peer)
      BY <2>1 DEF SendInv, Sound
    <3>2. StillOk(SynAcked(pcb, a), written, net, acks, peer)
      BY <1>2, <3>1, SynAckedOk
    <3>3. p = SynAcked(pcb, a)
      BY <2>1
    <3> QED BY <1>2, <3>2, <3>3, OutputLive DEF StillOk
  <2>2. CASE Connected(pcb)
    <3>1. Live(pcb, written, acks, peer) /\ NetReached(net, pcb)
      BY <2>2 DEF SendInv, Sound
    <3>2. pcb.state # "SYN_SENT"
      BY <3>1, LiveState
    <3>3. CASE a.syn
      <4>1. p = pcb
        BY <3>2, <3>3
      <4> QED BY <1>2, <3>1, <4>1, OutputLive
    <3>4. CASE ~a.syn
      <4>1. p = tcp_receive(pcb, a)
        BY <3>2, <3>4
      <4> QED BY <1>2, <3>1, <4>1, InputOk
    <3> QED BY <3>3, <3>4
  <2> QED BY <1>2, <2>1, <2>2
<1> HIDE DEF o
<1>4. Sound(o.pcb, written, net', acks', peer)
  BY <1>1, <1>2, <1>3, SentSound
<1> QED BY <1>1, <1>4 DEF SendInv

LEMMA GiveUpStep == ASSUME SendInv, GiveUp PROVE SendInv'
<1> DEFINE e == <<>>
           s == "GONE"
           r == [pcb EXCEPT !.unsent = e, !.unacked = e, !.rtime = FALSE, !.state = s,
                            !.snd_queuelen = 0]
<1>1. /\ pcb' = [tcp_pcb_purge(pcb) EXCEPT !.state = "GONE", !.snd_queuelen = 0]
      /\ written' = written /\ net' = net /\ acks' = acks /\ peer' = peer
  BY DEF GiveUp
<1>2. /\ pcb \in Pcbs /\ written \in 0..N /\ PeerOk(peer, written) /\ AnswersOk(acks, peer)
      /\ NetOk(net, peer, written)
  BY SoundFacts DEF SendInv
<1>3. pcb' = r
  BY <1>1, <1>2 DEF tcp_pcb_purge, Pcbs
<1>4. e \in Seq(Segs) /\ s \in States /\ 0 \in Int
  BY DEF States
<1> HIDE DEF e, s
<1>5. r \in Pcbs /\ r.state = s
  BY <1>2, <1>4 DEF Pcbs
<1> HIDE DEF r
<1>6. r.state # "SYN_SENT" /\ ~Connected(r)
  BY <1>5 DEF s, Connected
<1> QED BY <1>1, <1>2, <1>3, <1>5, <1>6 DEF SendInv, Sound

LEMMA PersistStep == ASSUME SendInv, PersistExpires PROVE SendInv'
<1> DEFINE o == tcp_output(pcb)
           t == [o EXCEPT !.sent = @ \cup tcp_zero_window_probe(pcb)]
<1>1. /\ pcb.state # "GONE" /\ pcb.persist /\ pcb' = t.pcb /\ net' \in Carry(net, t.sent)
      /\ written' = written /\ acks' = acks /\ peer' = peer
  BY DEF PersistExpires, MayTick, Alive, Emit
<1>2. /\ PeerOk(peer, written) /\ AnswersOk(acks, peer) /\ NetOk(net, peer, written)
      /\ (pcb.state = "SYN_SENT" \/ Connected(pcb))
  BY <1>1, SoundFacts DEF SendInv
<1>3. Connected(pcb)
  <2>1. pcb.state = "SYN_SENT" => pcb.persist = FALSE
    BY DEF SendInv, Sound, SynOk, SynPcb
  <2> QED BY <1>1, <1>2, <2>1
<1>4. Live(pcb, written, acks, peer) /\ NetReached(net, pcb)
  BY <1>3 DEF SendInv, Sound
<1>5. SendOk(t, written, net, acks, peer)
  BY <1>2, <1>4, PersistOk
<1> HIDE DEF t
<1>6. Sound(t.pcb, written, net', acks, peer)
  BY <1>1, <1>2, <1>5, SentSound
<1> QED BY <1>1, <1>6 DEF SendInv

LEMMA RtoStep == ASSUME SendInv, RtoExpires PROVE SendInv'
<1> DEFINE t == RtoOut(pcb)
<1>1. /\ pcb.state # "GONE" /\ pcb.unacked # <<>> /\ pcb' = t.pcb /\ net' \in Carry(net, t.sent)
      /\ written' = written /\ acks' = acks /\ peer' = peer
  BY DEF RtoExpires, MayTick, Alive, Emit, RtoOut
<1>2. /\ PeerOk(peer, written) /\ AnswersOk(acks, peer) /\ NetOk(net, peer, written)
      /\ (pcb.state = "SYN_SENT" \/ Connected(pcb))
  BY <1>1, SoundFacts DEF SendInv
<1>3. CASE pcb.state = "SYN_SENT"
  <2>1. SynPcb(pcb)
    BY <1>3 DEF SendInv, Sound, SynOk
  <2>2. t \in Outs /\ SynPcb(t.pcb) /\ t.sent = {Wire(SynSeg)}
    BY <2>1, SynRto
  <2> HIDE DEF t
  <2>3. Sound(t.pcb, written, net', acks, peer)
    BY <1>1, <1>3, <2>2, SynSound DEF SendInv
  <2> QED BY <1>1, <2>3 DEF SendInv
<1>4. CASE Connected(pcb)
  <2>1. Live(pcb, written, acks, peer) /\ NetReached(net, pcb)
    BY <1>4 DEF SendInv, Sound
  <2>2. SendOk(t, written, net, acks, peer)
    BY <1>1, <1>2, <2>1, RtoOk
  <2> HIDE DEF t
  <2>3. Sound(t.pcb, written, net', acks, peer)
    BY <1>1, <1>2, <2>2, SentSound
  <2> QED BY <1>1, <2>3 DEF SendInv
<1> QED BY <1>2, <1>3, <1>4

\* The peer comes from q to r and answers with b.
LEMMA PeerSound ==
  ASSUME NEW p, NEW w, NEW S, NEW A, NEW q, NEW r, NEW b, Sound(p, w, S, A, q),
         PeerOk(r, w), Grows(q, r), Answer(b, r), p.state # "SYN_SENT",
         Connected(p) => Reached(PeerPos(r), p),
         NEW R \in SUBSET S, NEW B \in SUBSET (A \cup {b})
  PROVE  Sound(p, w, R, B, r)
<1>1. p \in Pcbs /\ w \in 0..N /\ PeerOk(q, w) /\ AnswersOk(A, q) /\ NetOk(S, q, w)
  BY DEF Sound
<1>2. AnswersOk(B, r)
  <2>1. AnswersOk(A \cup {b}, r)
    BY <1>1, AnswersGrow
  <2> QED BY <2>1, AnswersSubset
<1>3. NetOk(R, r, w)
  <2>1. NetOk(S, r, w)
    BY <1>1, NetGrows
  <2> QED BY <2>1, NetSubset
<1>4. ASSUME Connected(p) PROVE Live(p, w, B, r) /\ NetReached(R, p)
  <2>1. Live(p, w, A, q) /\ NetReached(S, p)
    BY <1>4 DEF Sound
  <2>2. Live(p, w, A \cup {b}, r)
    BY <1>1, <1>4, <2>1, LiveGrows
  <2>3. Live(p, w, B, r)
    BY <2>2, AnswersSubset
  <2> QED BY <2>1, <2>3, NetSubset
<1> QED BY <1>1, <1>2, <1>3, <1>4 DEF Sound

LEMMA SynPeerSound ==
  ASSUME NEW p, NEW w, NEW S, NEW A, NEW q, Sound(p, w, S, A, q), p.state = "SYN_SENT",
         NEW R \in SUBSET S, NEW B \in SUBSET (A \cup {PeerSynAck})
  PROVE  Sound(p, w, R, B, q)
<1>1. /\ p \in Pcbs /\ w \in 0..N /\ PeerOk(q, w) /\ AnswersOk(A, q) /\ NetOk(S, q, w)
      /\ SynOk(p, w, S, A, q)
  BY DEF Sound
<1>2. SynOk(p, w, R, B, q)
  BY <1>1 DEF SynOk
<1>3. AnswersOk(B, q)
  <2>1. Grows(q, q) /\ Answer(PeerSynAck, q)
    BY <1>1, PeerFacts, PeerAnswers DEF Grows
  <2>2. AnswersOk(A \cup {PeerSynAck}, q)
    BY <1>1, <2>1, AnswersGrow
  <2> QED BY <2>2, AnswersSubset
<1>4. NetOk(R, q, w)
  BY <1>1, NetSubset
<1>5. ~Connected(p)
  BY DEF Connected
<1> QED BY <1>1, <1>2, <1>3, <1>4, <1>5 DEF Sound

LEMMA PeerInputStep ==
  ASSUME SendInv, NEW m \in net, PeerInput(m)
  PROVE  SendInv'
<1> DEFINE r == IF m.syn THEN peer ELSE PeerTakes(peer, m)
           b == IF m.syn THEN PeerSynAck ELSE PeerAck(r)
<1>1. /\ net' \in SUBSET net /\ peer' = r /\ acks' \in Carry(acks, {b})
      /\ pcb' = pcb /\ written' = written
  BY DEF PeerInput
<1>2. acks' \in SUBSET (acks \cup {b})
  BY <1>1, CarryIn
<1>3. /\ pcb \in Pcbs /\ written \in 0..N /\ PeerOk(peer, written) /\ NetOk(net, peer, written)
  BY SoundFacts DEF SendInv
<1>4. m = Wire(SynSeg) \/ GoodWire(m, written)
  BY <1>3 DEF NetOk
<1>5. CASE m = Wire(SynSeg)
  <2>1. r = peer /\ b = PeerSynAck
    BY <1>5, SynFacts
  <2> HIDE DEF r, b
  <2>2. Grows(peer, peer) /\ Answer(PeerSynAck, peer)
    BY <1>3, PeerFacts, PeerAnswers DEF Grows
  <2>3. CASE pcb.state = "SYN_SENT"
    <3>1. Sound(pcb, written, net', acks', peer)
      BY <1>1, <1>2, <2>1, <2>3, SynPeerSound DEF SendInv
    <3> QED BY <1>1, <2>1, <3>1 DEF SendInv
  <2>4. CASE pcb.state # "SYN_SENT"
    <3>1. Connected(pcb) => Reached(PeerPos(peer), pcb)
      BY DEF SendInv, Sound, Live
    <3>2. Sound(pcb, written, net', acks', peer)
      BY <1>1, <1>2, <1>3, <2>1, <2>2, <2>4, <3>1, PeerSound DEF SendInv
    <3> QED BY <1>1, <2>1, <3>2 DEF SendInv
  <2> QED BY <2>3, <2>4
<1>6. CASE GoodWire(m, written)
  <2>1. ~m.syn /\ To(m) \in Nat
    BY <1>3, <1>6, WireFacts
  <2>2. r = PeerTakes(peer, m) /\ b = PeerAck(r)
    BY <2>1
  <2>3. Took(peer, r, m, written)
    BY <1>3, <1>6, <2>2, PeerTakesOk
  <2> HIDE DEF r, b
  <2>4. PeerOk(r, written) /\ Grows(peer, r)
    BY <2>3 DEF Took, Grows
  <2>5. Answer(b, r)
    BY <1>3, <2>2, <2>4, PeerAnswers
  <2>6. pcb.state # "SYN_SENT"
    <3>1. pcb.state = "SYN_SENT" => net \subseteq {Wire(SynSeg)}
      BY DEF SendInv, Sound, SynOk
    <3> QED BY <2>1, <3>1, SynFacts
  <2>7. ASSUME Connected(pcb) PROVE Reached(PeerPos(r), pcb)
    <3>1. Live(pcb, written, acks, peer) /\ NetReached(net, pcb)
      BY <2>7 DEF SendInv, Sound
    <3>2. CASE PeerPos(r) = PeerPos(peer)
      BY <3>1, <3>2 DEF Live
    <3>3. CASE PeerPos(r) <= To(m)
      <4>1. Reached(To(m), pcb)
        BY <2>1, <3>1 DEF NetReached
      <4>2. NxtPos(pcb) \in Int /\ AckPos(pcb) \in Int
        BY <3>1, MarkFacts DEF Live, Ordered
      <4>3. PeerPos(r) \in Int
        BY <1>3, <2>4, PeerFacts
      <4> QED BY <2>1, <3>3, <4>1, <4>2, <4>3, ReachedBelow
    <3> QED BY <2>3, <3>2, <3>3 DEF Took
  <2>8. Sound(pcb, written, net', acks', r)
    BY <1>1, <1>2, <2>4, <2>5, <2>6, <2>7, PeerSound DEF SendInv
  <2> QED BY <1>1, <2>8 DEF SendInv
<1> QED BY <1>4, <1>5, <1>6

LEMMA PeerReadsStep == ASSUME SendInv, PeerReads PROVE SendInv'
<1> DEFINE r == [peer EXCEPT !.unread = 0]
           b == PeerAck(r)
<1>1. /\ peer.unread > 0 /\ peer' = r /\ acks' \in Carry(acks, {b})
      /\ pcb' = pcb /\ written' = written /\ net' = net
  BY DEF PeerReads
<1>2. acks' \in SUBSET (acks \cup {b})
  BY <1>1, CarryIn
<1>3. written \in 0..N /\ PeerOk(peer, written)
  BY SoundFacts DEF SendInv
<1>4. PeerOk(r, written) /\ Grows(peer, r) /\ PeerPos(r) = PeerPos(peer)
  BY <1>3, ReadsOk
<1>5. Answer(b, r)
  BY <1>3, <1>4, PeerAnswers
<1> HIDE DEF r, b
<1>6. pcb.state # "SYN_SENT"
  <2>1. pcb.state = "SYN_SENT" => peer.got = <<>>
    BY DEF SendInv, Sound, SynOk
  <2>2. peer.unread <= Len(peer.got) /\ peer.unread \in Nat
    BY <1>3, PeerFacts DEF PeerOk
  <2>3. peer.got = <<>> => Len(peer.got) = 0
    OBVIOUS
  <2> QED BY <1>1, <2>1, <2>2, <2>3
<1>7. Connected(pcb) => Reached(PeerPos(r), pcb)
  BY <1>4 DEF SendInv, Sound, Live
<1>8. Sound(pcb, written, net, acks', r)
  <2>1. net \in SUBSET net
    OBVIOUS
  <2> QED BY <1>2, <1>4, <1>5, <1>6, <1>7, <2>1, PeerSound DEF SendInv
<1> QED BY <1>1, <1>8 DEF SendInv

LEMMA LoseStep == ASSUME SendInv, Lose PROVE SendInv'
<1>1. net' \in SUBSET net /\ acks' \in SUBSET acks /\ pcb' = pcb /\ written' = written /\ peer' = peer
  BY DEF Lose
<1>2. /\ pcb \in Pcbs /\ written \in 0..N /\ PeerOk(peer, written) /\ AnswersOk(acks, peer)
      /\ NetOk(net, peer, written)
  BY SoundFacts DEF SendInv
<1>3. AnswersOk(acks', peer) /\ NetOk(net', peer, written)
  BY <1>1, <1>2, AnswersSubset, NetSubset
<1>4. pcb.state = "SYN_SENT" => SynOk(pcb, written, net', acks', peer)
  BY <1>1 DEF SendInv, Sound, SynOk
<1>5. ASSUME Connected(pcb) PROVE Live(pcb, written, acks', peer) /\ NetReached(net', pcb)
  <2>1. Live(pcb, written, acks, peer) /\ NetReached(net, pcb)
    BY <1>5 DEF SendInv, Sound
  <2> QED BY <1>1, <2>1, AnswersSubset, NetSubset
<1>6. Sound(pcb, written, net', acks', peer)
  BY <1>2, <1>3, <1>4, <1>5 DEF Sound
<1> QED BY <1>1, <1>6 DEF SendInv

-----------------------------------------------------------------------------
(* The properties.                                                         *)

LEMMA NotOverrun == SendInv => PeerNotOverrun
<1> SUFFICES ASSUME SendInv, NEW m \in net, Len(m.data) > 1
             PROVE  Minus(Plus(m.seqno, Len(m.data)), ISS) <= Len(peer.got) + PeerBuf - peer.unread
  BY DEF PeerNotOverrun
<1>1. written \in 0..N /\ NetOk(net, peer, written)
  BY SoundFacts DEF SendInv
<1>2. m # Wire(SynSeg)
  <2>1. Wire(SynSeg).data = << >>
    BY SynFacts DEF Wire
  <2>2. Len(<< >>) = 0
    OBVIOUS
  <2> QED BY <2>1, <2>2
<1>3. GoodWire(m, written) /\ DataTo(m) <= DataEdge(peer)
  BY <1>1, <1>2 DEF NetOk
<1>4. /\ m.seqno \in Seqs /\ Len(m.data) \in Nat /\ From(m) \in Nat
      /\ DataTo(m) = From(m) + Len(m.data) /\ DataTo(m) <= N /\ N \in Nat
  BY <1>1, <1>3, WireFacts, SpaceFacts
<1>5. Pos(m.seqno) + Len(m.data) \in Places /\ Len(m.data) \in Int
  BY <1>4 DEF Places, From
<1>6. Pos(Plus(m.seqno, Len(m.data))) = DataTo(m)
  BY <1>4, <1>5, PosPlus DEF From
<1> QED BY <1>3, <1>6 DEF Pos, DataEdge

LEMMA Armed == SendInv => TimerArmed
<1> SUFFICES ASSUME SendInv, Alive, Queued # <<>>
             PROVE  \/ pcb.persist
                    \/ pcb.unacked # <<>> /\ pcb.rtime
                    \/ Goes(pcb) \/ Persists(pcb)
  BY DEF TimerArmed
<1>1. CASE pcb.state = "SYN_SENT"
  <2>1. pcb.unacked = <<SynSeg>> /\ pcb.rtime = TRUE
    BY <1>1 DEF SendInv, Sound, SynOk, SynPcb
  <2>2. <<SynSeg>> # <<>>
    OBVIOUS
  <2> QED BY <2>1, <2>2
<1>2. CASE Connected(pcb)
  <2>1. Live(pcb, written, acks, peer)
    BY <1>2 DEF SendInv, Sound
  <2>2. Ordered(pcb, written) /\ Marks(pcb, written) /\ Ctl(pcb)
    BY <2>1 DEF Live, Ordered
  <2>3. CASE pcb.unacked # <<>>
    BY <2>2, <2>3 DEF Ctl, Restful
  <2>4. CASE pcb.unacked = <<>>
    <3> DEFINE h == pcb.unsent[1]
    <3>1. /\ pcb \in Pcbs /\ pcb.unsent \in Seq(Segs) /\ written \in 0..N /\ pcb.mss \in Nat
          /\ AckPos(pcb) \in Nat /\ pcb.cwnd \in Nat /\ pcb.snd_wnd \in Nat
      BY <2>2, MarkFacts
    <3>2. pcb.unsent # <<>>
      <4>1. <<>> \o pcb.unsent = pcb.unsent
        BY <3>1
      <4> QED BY <2>4, <4>1 DEF Queued
    <3>3. PICK lo \in 0..(N + 1), mid \in 0..(N + 1) : Split(pcb, written, lo, mid)
      BY <2>2 DEF Ordered
    <3>4. lo = mid /\ lo <= AckPos(pcb) /\ AckPos(pcb) < To(h)
      BY <2>4, <3>2, <3>3 DEF Split, Chained
    <3>5. Good(h, written, pcb.mss) /\ From(h) = mid
      <4>1. 1 \in 1..Len(pcb.unsent)
        BY <3>1, <3>2
      <4> QED BY <3>2, <3>3, <4>1 DEF Split, Chained
    <3> HIDE DEF h
    <3>6. Reach(pcb, h) = DataTo(h) - AckPos(pcb)
      BY <2>2, <3>4, <3>5, HeadReach
    <3>7. /\ DataTo(h) = From(h) + Len(h.data) /\ Len(h.data) \in Nat /\ Len(h.data) <= pcb.mss
          /\ From(h) \in Nat
      BY <3>1, <3>5, GoodFacts DEF Good
    <3>8. Reach(pcb, h) \in Int /\ Reach(pcb, h) <= pcb.mss
      <4> DEFINE k == Len(h.data)
                 a == AckPos(pcb)
                 f == From(h)
      <4>1. /\ a \in Nat /\ f \in Nat /\ k \in Nat /\ k <= pcb.mss /\ pcb.mss \in Nat /\ f <= a
            /\ Reach(pcb, h) = (f + k) - a
        BY <3>1, <3>4, <3>5, <3>6, <3>7
      <4> HIDE DEF k, a, f
      <4> QED BY ONLY <4>1
    <3>9. Reach(pcb, h) <= pcb.cwnd
      <4>1. pcb.mss <= pcb.cwnd
        BY <2>2 DEF Ctl
      <4> QED BY <3>1, <3>8, <4>1
    <3>10. CASE Reach(pcb, h) > pcb.snd_wnd
      BY <3>2, <3>10 DEF Persists, h
    <3>11. CASE ~(Reach(pcb, h) > pcb.snd_wnd)
      <4>1. Reach(pcb, h) <= Least(pcb.snd_wnd, pcb.cwnd)
        BY <3>1, <3>8, <3>9, <3>11 DEF Least
      <4>2. tcp_do_output_nagle(pcb)
        BY <2>4 DEF tcp_do_output_nagle
      <4> QED BY <3>2, <4>1, <4>2 DEF Goes, h
    <3> QED BY <3>10, <3>11
  <2> QED BY <2>3, <2>4
<1> QED BY <1>1, <1>2, SoundFacts DEF SendInv, Alive

LEMMA QueuedChain ==
  ASSUME SendInv, Connected(pcb)
  PROVE  /\ Marks(pcb, written)
         /\ \E lo \in 0..(N + 1) :
              lo <= AckPos(pcb) /\ Chained(Queued, lo, LbbPos(pcb), written, pcb.mss)
         /\ \E lo, mid \in 0..(N + 1) : /\ Chained(pcb.unacked, lo, mid, written, pcb.mss)
                                        /\ Chained(pcb.unsent, mid, LbbPos(pcb), written, pcb.mss)
<1>1. Ordered(pcb, written)
  BY DEF SendInv, Sound, Live
<1>2. PICK lo \in 0..(N + 1), mid \in 0..(N + 1) : Split(pcb, written, lo, mid)
  BY <1>1 DEF Ordered
<1>3. /\ Chained(pcb.unacked, lo, mid, written, pcb.mss) /\ lo <= AckPos(pcb)
      /\ Chained(pcb.unsent, mid, LbbPos(pcb), written, pcb.mss)
  BY <1>2 DEF Split
<1>4. Chained(Queued, lo, LbbPos(pcb), written, pcb.mss)
  BY <1>3, ChainConcat DEF Queued
<1>5. Marks(pcb, written)
  BY <1>1 DEF Ordered
<1> QED BY <1>3, <1>4, <1>5

LEMMA Accounted == SendInv => SendAccounts
<1> SUFFICES ASSUME SendInv PROVE SendAccounts
  OBVIOUS
<1>1. pcb \in Pcbs /\ written \in 0..N /\ PeerOk(peer, written)
  BY SoundFacts DEF SendInv
<1>2. TypeOK
  <2>1. /\ pcb.state \in States /\ pcb.snd_nxt \in Seqs /\ pcb.snd_lbb \in Seqs
        /\ pcb.lastack \in Seqs /\ pcb.snd_wl2 \in Seqs /\ pcb.snd_buf \in 0..(W - 1)
        /\ pcb.cwnd \in 1..(W - 1) /\ pcb.ssthresh \in 1..(W - 1) /\ pcb.snd_wnd \in 0..PeerBuf
        /\ pcb.nrtx \in 0..(W8 - 1) /\ pcb.dupacks \in 0..(W8 - 1)
    BY <1>1 DEF Pcbs
  <2>2. peer.unread \in 0..PeerBuf
    BY <1>1 DEF PeerOk, Peers
  <2>3. PeerBuf \in Nat /\ PeerBuf < W /\ W \in Nat
    BY SpaceFacts
  <2>4. pcb.cwnd \in 0..(W - 1) /\ pcb.ssthresh \in 0..(W - 1) /\ pcb.snd_wnd \in 0..(W - 1)
    BY <2>1, <2>3
  <2> QED BY <1>1, <2>1, <2>2, <2>4 DEF TypeOK, States, Seqs
<1>3. CASE pcb.state = "GONE"
  BY <1>2, <1>3 DEF SendAccounts, Alive
<1>4. CASE pcb.state = "SYN_SENT"
  <2>1. /\ pcb.unacked = <<SynSeg>> /\ pcb.unsent = << >> /\ pcb.snd_lbb = ISS
        /\ pcb.lastack = Plus(ISS, -1) /\ pcb.snd_queuelen = 1 /\ pcb.snd_buf = TCP_SND_BUF - 1
    BY <1>4 DEF SendInv, Sound, SynOk, SynPcb
  <2>2. Clen(Queued) = 1
    <3>1. Queued = <<SynSeg>>
      BY <2>1, SynFacts DEF Queued
    <3> QED BY <3>1, SynFacts, ClenSingle
  <2>3. Minus(pcb.snd_lbb, pcb.lastack) = 1
    <3>1. -1 \in Places /\ 0 \in Places
      BY SpaceFacts DEF Places
    <3>2. Minus(ISS, Plus(ISS, -1)) = 0 - (-1)
      BY <3>1, SynFacts, PosIss, Compare
    <3> QED BY <2>1, <3>2
  <2>4. (TCP_SND_BUF - 1) % W = TCP_SND_BUF - 1 /\ 1 <= TCP_SND_QUEUELEN
    <3>1. TCP_SND_BUF \in 1..(W - 1) /\ W \in Nat /\ TCP_SND_QUEUELEN \in Nat \ {0}
      BY SendConstants
    <3> QED BY <3>1
  <2>5. pcb.state # "ESTABLISHED"
    BY <1>4
  <2> QED BY <1>2, <2>1, <2>2, <2>3, <2>4, <2>5 DEF SendAccounts
<1>5. CASE Connected(pcb)
  <2>1. Acct(pcb)
    BY <1>5 DEF SendInv, Sound, Live
  <2>2. Marks(pcb, written)
    BY <1>5, QueuedChain
  <2>3. /\ pcb.snd_lbb \in Seqs /\ pcb.lastack \in Seqs /\ LbbPos(pcb) \in Nat
        /\ AckPos(pcb) \in Nat /\ AckPos(pcb) <= LbbPos(pcb)
        /\ LbbPos(pcb) \in Places /\ AckPos(pcb) \in Places
        /\ pcb.unacked \in Seq(Segs) /\ pcb.unsent \in Seq(Segs)
    BY <2>2, MarkFacts
  <2>4. Clen(Queued) = Load(pcb)
    BY <2>3, ClenConcat DEF Queued, Load
  <2>5. Minus(pcb.snd_lbb, pcb.lastack) = LbbPos(pcb) - AckPos(pcb)
    BY <2>3, Compare DEF LbbPos, AckPos
  <2>6. pcb.state = "ESTABLISHED" => pcb.snd_buf <= TCP_SND_BUF
    <3> DEFINE d == LbbPos(pcb) - AckPos(pcb)
    <3>1. d \in Nat /\ TCP_SND_BUF \in 1..(W - 1) /\ W \in Nat
      BY <2>3, SendConstants
    <3>2. pcb.snd_buf = (TCP_SND_BUF - d) % W /\ (pcb.state = "ESTABLISHED" => d <= TCP_SND_BUF)
      BY <2>1 DEF Acct
    <3> HIDE DEF d
    <3>3. d <= TCP_SND_BUF => (TCP_SND_BUF - d) % W = TCP_SND_BUF - d
      BY <3>1
    <3>4. d <= TCP_SND_BUF => pcb.snd_buf <= TCP_SND_BUF
      BY <3>1, <3>2, <3>3
    <3> QED BY <3>2, <3>4
  <2> QED BY <1>2, <2>1, <2>4, <2>5, <2>6 DEF SendAccounts, Acct
<1> QED BY <1>3, <1>4, <1>5, SoundFacts DEF SendInv

\* A chain leaves no gap.
LEMMA ChainCovers ==
  ASSUME NEW q, NEW lo \in Int, NEW hi \in Int, NEW w \in 0..N, NEW mss \in Nat,
         Chained(q, lo, hi, w, mss), NEW x \in Int, lo <= x, x < hi
  PROVE  \E i \in 1..Len(q) : From(q[i]) <= x /\ x < To(q[i])
<1> DEFINE n == Len(q)
           s == {i \in 1..n : To(q[i]) <= x}
           k == Walk(q, s)
<1>1. q \in Seq(Segs) /\ n \in Nat
  BY DEF Chained
<1>2. \A i \in 1..n : To(q[i]) \in Nat /\ From(q[i]) \in Nat
  BY GoodFacts DEF Chained
<1>3. s \subseteq 1..n
  OBVIOUS
<1>4. k \in 0..n /\ 1..k \subseteq s /\ k + 1 \notin s
  <2> HIDE DEF s
  <2> QED BY <1>1, <1>3, WalkFacts
<1>5. q # << >> /\ n # 0
  <2>1. q # << >>
    BY DEF Chained
  <2> QED BY <1>1, <2>1, EmptySeq
<1>6. From(q[1]) = lo /\ To(q[n]) = hi
  BY <1>5 DEF Chained
<1>7. \A i \in 1..n : i < n => From(q[i + 1]) = To(q[i])
  BY DEF Chained
<1>8. \A i \in s : i \in 1..n /\ To(q[i]) <= x
  OBVIOUS
<1>9. \A i \in 1..n : i \notin s => ~(To(q[i]) <= x)
  OBVIOUS
<1> HIDE DEF k, s, n
<1>10. k # n
  <2>1. n \in 1..n
    BY <1>1, <1>5
  <2>2. ASSUME k = n PROVE FALSE
    <3>1. To(q[n]) <= x
      BY <1>4, <1>8, <2>1, <2>2
    <3> QED BY <1>6, <3>1
  <2> QED BY <2>2
<1>11. k + 1 \in 1..n
  BY <1>1, <1>4, <1>10
<1>12. x < To(q[k + 1])
  BY <1>2, <1>4, <1>9, <1>11
<1>13. From(q[k + 1]) <= x
  <2>1. CASE k = 0
    BY <1>6, <2>1
  <2>2. CASE k # 0
    <3>1. k \in 1..n /\ k < n /\ k \in 1..k
      BY <1>1, <1>4, <1>10, <2>2
    <3>2. To(q[k]) <= x
      BY <1>4, <1>8, <3>1
    <3> QED BY <1>7, <3>1, <3>2
  <2> QED BY <2>1, <2>2
<1> QED BY <1>11, <1>12, <1>13 DEF n

\* The offsets that a segment holds.
LEMMA SpanIs ==
  ASSUME Marks(pcb, written), NEW seg, Good(seg, written, pcb.mss)
  PROVE  \A d \in Int : d \in Span(seg) <=> From(seg) <= AckPos(pcb) + d /\ AckPos(pcb) + d < To(seg)
<1> DEFINE a == AckPos(pcb)
           f == From(seg)
           t == To(seg)
<1>1. /\ written \in 0..N /\ pcb.mss \in Nat /\ pcb.lastack \in Seqs /\ a \in Nat /\ a \in Places
  BY MarkFacts
<1>2. /\ seg.seqno \in Seqs /\ f \in Nat /\ t \in Nat /\ f < t /\ f \in Places
      /\ TCP_TCPLEN(seg) = t - f
  BY <1>1, GoodFacts
<1>3. Minus(seg.seqno, pcb.lastack) = f - a
  BY <1>1, <1>2, Compare DEF From, AckPos
<1>4. Span(seg) = {(f - a) + k : k \in 0..((t - f) - 1)}
  BY <1>2, <1>3 DEF Span
<1> HIDE DEF a, f, t
<1>5. ASSUME NEW d \in Int
      PROVE  d \in {(f - a) + k : k \in 0..((t - f) - 1)} <=> f <= a + d /\ a + d < t
  <2>1. ASSUME d \in {(f - a) + k : k \in 0..((t - f) - 1)} PROVE f <= a + d /\ a + d < t
    <3>1. PICK k \in 0..((t - f) - 1) : d = (f - a) + k
      BY <2>1
    <3> QED BY <1>1, <1>2, <3>1
  <2>2. ASSUME f <= a + d, a + d < t PROVE d \in {(f - a) + k : k \in 0..((t - f) - 1)}
    <3>1. (a + d) - f \in 0..((t - f) - 1) /\ d = (f - a) + ((a + d) - f)
      BY <1>1, <1>2, <2>2
    <3> QED BY <3>1
  <2> QED BY <2>1, <2>2
<1> QED BY <1>4, <1>5 DEF a, f, t

\* A segment holds only offsets.
LEMMA SpanInt ==
  ASSUME Marks(pcb, written), NEW seg, Good(seg, written, pcb.mss), NEW d \in Span(seg)
  PROVE  d \in Int
<1>1. /\ written \in 0..N /\ pcb.mss \in Nat /\ pcb.lastack \in Seqs /\ AckPos(pcb) \in Nat
      /\ AckPos(pcb) \in Places
  BY MarkFacts
<1>2. /\ seg.seqno \in Seqs /\ From(seg) \in Nat /\ To(seg) \in Nat /\ From(seg) \in Places
      /\ TCP_TCPLEN(seg) = To(seg) - From(seg)
  BY <1>1, GoodFacts
<1>3. Minus(seg.seqno, pcb.lastack) = From(seg) - AckPos(pcb)
  BY <1>1, <1>2, Compare DEF From, AckPos
<1>4. PICK k \in 0..(TCP_TCPLEN(seg) - 1) : d = Minus(seg.seqno, pcb.lastack) + k
  BY DEF Span
<1> QED BY <1>1, <1>2, <1>3, <1>4

LEMMA ChainAscends ==
  ASSUME NEW q, NEW lo, NEW hi, NEW w \in 0..N, NEW mss \in Nat, Chained(q, lo, hi, w, mss),
         NEW i \in 1..(Len(q) - 1)
  PROVE  TCP_SEQ_LT(q[i].seqno, q[i + 1].seqno)
<1>1. Len(q) \in Nat
  BY DEF Chained
<1>2. i \in 1..Len(q) /\ i + 1 \in 1..Len(q) /\ i < Len(q)
  BY <1>1
<1>3. Good(q[i], w, mss) /\ Good(q[i + 1], w, mss) /\ From(q[i + 1]) = To(q[i])
  BY <1>2 DEF Chained
<1>4. /\ q[i].seqno \in Seqs /\ From(q[i]) \in Places /\ From(q[i]) < To(q[i])
      /\ q[i + 1].seqno \in Seqs /\ From(q[i + 1]) \in Places
  BY <1>3, GoodFacts
<1> QED BY <1>3, <1>4, Compare DEF From

LEMMA NothingLost == SendInv => NoByteLost
<1> SUFFICES ASSUME SendInv, Alive
    PROVE
    /\ \A i, j \in DOMAIN Queued : i # j => Span(Queued[i]) \cap Span(Queued[j]) = {}
    /\ \A d \in 0..(Minus(pcb.snd_lbb, pcb.lastack) - 1) :
         \E i \in DOMAIN Queued : d \in Span(Queued[i])
    /\ \A i \in DOMAIN Queued : \A k \in DOMAIN Queued[i].data :
         Plus(ISS, Queued[i].data[k]) = Plus(Queued[i].seqno, k)
    /\ \A q \in {pcb.unacked, pcb.unsent} : \A i \in 1..(Len(q) - 1) :
         TCP_SEQ_LT(q[i].seqno, q[i + 1].seqno)
  BY DEF NoByteLost
<1>1. CASE pcb.state = "SYN_SENT"
  <2>1. /\ pcb.unacked = <<SynSeg>> /\ pcb.unsent = << >> /\ pcb.snd_lbb = ISS
        /\ pcb.lastack = Plus(ISS, -1)
    BY <1>1 DEF SendInv, Sound, SynOk, SynPcb
  <2>2. Queued = <<SynSeg>>
    BY <2>1, SynFacts DEF Queued
  <2>3. DOMAIN Queued = {1} /\ Queued[1] = SynSeg
    BY <2>2
  <2>4. -1 \in Places /\ 0 \in Places
    BY SpaceFacts DEF Places
  <2>5. Minus(ISS, Plus(ISS, -1)) = 0 - (-1)
    BY <2>4, SynFacts, PosIss, Compare
  <2>6. 0..(Minus(pcb.snd_lbb, pcb.lastack) - 1) = {0}
    BY <2>1, <2>5
  <2>7. 0 \in Span(SynSeg)
    <3>1. Minus(SynSeg.seqno, pcb.lastack) = 0
      <4>1. Minus(Plus(ISS, -1), Plus(ISS, -1)) = (-1) - (-1)
        BY <2>4, SynFacts, Compare
      <4> QED BY <2>1, <4>1, SynFacts
    <3>2. TCP_TCPLEN(SynSeg) = 1
      BY SynFacts DEF TCP_TCPLEN, Count
    <3>3. 0 \in 0..(1 - 1) /\ 0 + 0 = 0
      OBVIOUS
    <3> QED BY <3>1, <3>2, <3>3 DEF Span
  <2>8. DOMAIN SynSeg.data = {}
    BY SynFacts
  <2>9. ASSUME NEW q \in {pcb.unacked, pcb.unsent} PROVE 1..(Len(q) - 1) = {}
    <3>1. Len(<<SynSeg>>) = 1 /\ Len(<< >>) = 0
      OBVIOUS
    <3>2. q = <<SynSeg>> \/ q = << >>
      BY <2>1, <2>9, Zenon
    <3>3. Len(q) = 1 \/ Len(q) = 0
      BY <3>1, <3>2, Zenon
    <3>4. \A l \in {0, 1} : 1..(l - 1) = {}
      OBVIOUS
    <3> QED BY <3>3, <3>4
  <2> HIDE DEF Queued
  <2> QED BY <2>3, <2>6, <2>7, <2>8, <2>9
<1>2. CASE Connected(pcb)
  <2> DEFINE n == Len(Queued)
             a == AckPos(pcb)
             b == LbbPos(pcb)
  <2>1. PICK lo \in 0..(N + 1) :
          lo <= a /\ Chained(Queued, lo, b, written, pcb.mss)
    BY <1>2, QueuedChain
  <2>2. Marks(pcb, written)
    BY <1>2, QueuedChain
  <2>3. /\ written \in 0..N /\ pcb.mss \in Nat /\ a \in Nat /\ b \in Nat /\ N \in Nat
        /\ pcb.snd_lbb \in Seqs /\ pcb.lastack \in Seqs /\ a \in Places /\ b \in Places
    BY <2>2, MarkFacts
  <2>4. Queued \in Seq(Segs) /\ n \in Nat /\ DOMAIN Queued = 1..n
    BY <2>1 DEF Chained
  <2> HIDE DEF Queued
  <2>5. \A i \in 1..n : Good(Queued[i], written, pcb.mss)
    BY <2>1 DEF Chained
  <2>6. \A i \in 1..n : From(Queued[i]) \in Nat /\ To(Queued[i]) \in Nat
    BY <2>3, <2>5, GoodFacts
  <2>7. ASSUME NEW i \in 1..n, NEW j \in 1..n, i < j
        PROVE  Span(Queued[i]) \cap Span(Queued[j]) = {}
    <3> SUFFICES ASSUME NEW d \in Span(Queued[i]), d \in Span(Queued[j]) PROVE FALSE
      OBVIOUS
    <3>1. d \in Int
      BY <2>2, <2>5, SpanInt
    <3>2. a + d < To(Queued[i])
      BY <2>2, <2>5, <3>1, SpanIs
    <3>3. From(Queued[j]) <= a + d
      BY <2>2, <2>5, <3>1, SpanIs
    <3>4. To(Queued[i]) <= From(Queued[j])
      BY <2>1, <2>3, <2>7, ChainOrder
    <3>5. a + d \in Int /\ From(Queued[j]) \in Int /\ To(Queued[i]) \in Int
      BY <2>3, <2>6, <3>1
    <3> QED BY <3>2, <3>3, <3>4, <3>5
  <2>8. ASSUME NEW i \in 1..n, NEW j \in 1..n, i # j
        PROVE  Span(Queued[i]) \cap Span(Queued[j]) = {}
    <3>1. i < j \/ j < i
      BY <2>8
    <3> QED BY <2>7, <3>1
  <2>9. ASSUME NEW d \in 0..(Minus(pcb.snd_lbb, pcb.lastack) - 1)
        PROVE  \E i \in 1..n : d \in Span(Queued[i])
    <3>1. Minus(pcb.snd_lbb, pcb.lastack) = b - a
      BY <2>3, Compare DEF LbbPos, AckPos
    <3>2. d \in Int /\ a + d \in Int /\ lo <= a + d /\ a + d < b /\ lo \in Int /\ b \in Int
      <4> HIDE DEF a, b
      <4>1. d \in 0..((b - a) - 1) /\ lo \in 0..(N + 1) /\ lo <= a
        BY <2>1, <3>1
      <4> QED BY <2>3, <4>1
    <3>3. PICK i \in 1..Len(Queued) : From(Queued[i]) <= a + d /\ a + d < To(Queued[i])
      <4> HIDE DEF a, b
      <4> QED BY <2>1, <2>3, <3>2, ChainCovers
    <3>4. Good(Queued[i], written, pcb.mss)
      BY <2>5, <3>3
    <3>5. d \in Span(Queued[i])
      BY <2>2, <3>2, <3>3, <3>4, SpanIs
    <3> QED BY <3>5
  <2>10. ASSUME NEW i \in 1..n, NEW k \in DOMAIN Queued[i].data
         PROVE  Plus(ISS, Queued[i].data[k]) = Plus(Queued[i].seqno, k)
    <3> DEFINE g == Queued[i]
    <3>1. Good(g, written, pcb.mss)
      BY <2>5
    <3> HIDE DEF g
    <3>2. g.seqno \in Seqs /\ g.data \in Seq(Nat) /\ From(g) \in Nat
      BY <2>3, <3>1, GoodFacts
    <3>3. k \in 1..Len(g.data) /\ k \in Int
      BY <3>2 DEF g
    <3>4. g.data[k] = From(g) + k
      BY <3>1, <3>3 DEF Good
    <3>5. Plus(ISS, From(g)) = g.seqno
      BY <3>2, PosForm DEF From
    <3>6. Plus(Plus(ISS, From(g)), k) = Plus(ISS, From(g) + k)
      BY <3>2, <3>3, SpaceFacts, PlusPlus
    <3> QED BY <3>4, <3>5, <3>6 DEF g
  <2>11. ASSUME NEW q \in {pcb.unacked, pcb.unsent}, NEW i \in 1..(Len(q) - 1)
         PROVE  TCP_SEQ_LT(q[i].seqno, q[i + 1].seqno)
    <3>1. PICK l \in 0..(N + 1), mid \in 0..(N + 1) :
                 /\ Chained(pcb.unacked, l, mid, written, pcb.mss)
                 /\ Chained(pcb.unsent, mid, LbbPos(pcb), written, pcb.mss)
      BY <1>2, QueuedChain
    <3>2. CASE q = pcb.unacked
      BY <2>3, <3>1, <3>2, ChainAscends
    <3>3. CASE q = pcb.unsent
      BY <2>3, <3>1, <3>3, ChainAscends
    <3> QED BY <3>2, <3>3
  <2> HIDE DEF n
  <2> QED BY <2>4, <2>8, <2>9, <2>10, <2>11
<1> QED BY <1>1, <1>2, SoundFacts DEF SendInv, Alive

-----------------------------------------------------------------------------
(* The refinement.                                                         *)

LEMMA NextSound == ASSUME SendInv, [Next]_vars PROVE SendInv'
<1>1. CASE \E n \in 1..Chunk, mem \in BOOLEAN : tcp_write(n, mem)
  BY <1>1, WriteStep
<1>2. CASE CallOutput
  BY <1>2, OutputStep
<1>3. CASE \E mem \in BOOLEAN : tcp_close(mem)
  BY <1>3, CloseStep
<1>4. CASE \E a \in acks, again \in Duplicates : tcp_input(a, again)
  BY <1>4, InputStep
<1>5. CASE GiveUp
  BY <1>5, GiveUpStep
<1>6. CASE PersistExpires
  BY <1>6, PersistStep
<1>7. CASE RtoExpires
  BY <1>7, RtoStep
<1>8. CASE \E m \in net : PeerInput(m)
  BY <1>8, PeerInputStep
<1>9. CASE PeerReads
  BY <1>9, PeerReadsStep
<1>10. CASE Lose
  BY <1>10, LoseStep
<1>11. CASE UNCHANGED vars
  BY <1>11 DEF vars, SendInv
<1> QED BY <1>1, <1>2, <1>3, <1>4, <1>5, <1>6, <1>7, <1>8, <1>9, <1>10, <1>11 DEF Next

\* What the peer does in a step.
LEMMA PeerSteps ==
  ASSUME SendInv, [Next]_vars
  PROVE  \/ peer' = peer
         \/ peer' = [peer EXCEPT !.unread = 0]
         \/ \E m \in net : GoodWire(m, written) /\ peer' = PeerTakes(peer, m)
<1>1. CASE \E n \in 1..Chunk, mem \in BOOLEAN : tcp_write(n, mem)
  BY <1>1 DEF tcp_write
<1>2. CASE CallOutput
  BY <1>2 DEF CallOutput
<1>3. CASE \E mem \in BOOLEAN : tcp_close(mem)
  BY <1>3 DEF tcp_close
<1>4. CASE \E a \in acks, again \in Duplicates : tcp_input(a, again)
  BY <1>4 DEF tcp_input
<1>5. CASE GiveUp
  BY <1>5 DEF GiveUp
<1>6. CASE PersistExpires
  BY <1>6 DEF PersistExpires
<1>7. CASE RtoExpires
  BY <1>7 DEF RtoExpires
<1>8. CASE \E m \in net : PeerInput(m)
  <2>1. PICK m \in net : PeerInput(m)
    BY <1>8
  <2>2. m = Wire(SynSeg) \/ GoodWire(m, written)
    BY SoundFacts DEF SendInv, NetOk
  <2>3. CASE m = Wire(SynSeg)
    BY <2>1, <2>3, SynFacts DEF PeerInput
  <2>4. CASE GoodWire(m, written)
    <3>1. ~m.syn
      BY <2>4 DEF GoodWire
    <3> QED BY <2>1, <2>4, <3>1 DEF PeerInput
  <2> QED BY <2>2, <2>3, <2>4
<1>9. CASE PeerReads
  BY <1>9 DEF PeerReads
<1>10. CASE Lose
  BY <1>10 DEF Lose
<1>11. CASE UNCHANGED vars
  BY <1>11 DEF vars
<1> QED BY <1>1, <1>2, <1>3, <1>4, <1>5, <1>6, <1>7, <1>8, <1>9, <1>10, <1>11 DEF Next

\* What the peer has got stays, and nothing follows the FIN.
LEMMA PeerForward ==
  ASSUME SendInv, [Next]_vars
  PROVE  /\ Len(peer.got) <= Len(peer'.got)
         /\ peer.fin => peer'.got = peer.got /\ peer'.fin = peer.fin
<1>1. written \in 0..N /\ PeerOk(peer, written)
  BY SoundFacts DEF SendInv
<1>2. peer \in Peers /\ Len(peer.got) \in Nat /\ peer.fin \in BOOLEAN /\ Len(peer.got) <= N /\ N \in Nat
  BY <1>1, PeerFacts DEF PeerOk
<1>3. CASE peer' = peer
  BY <1>2, <1>3
<1>4. CASE peer' = [peer EXCEPT !.unread = 0]
  BY <1>2, <1>4 DEF Peers
<1>5. CASE \E m \in net : GoodWire(m, written) /\ peer' = PeerTakes(peer, m)
  <2>1. PICK m \in net : GoodWire(m, written) /\ peer' = PeerTakes(peer, m)
    BY <1>5
  <2> DEFINE r == PeerTakes(peer, m)
  <2>2. Took(peer, r, m, written)
    BY <1>1, <2>1, PeerTakesOk
  <2>3. peer.fin => r = peer
    BY DEF PeerTakes
  <2> HIDE DEF r
  <2>4. PeerOk(r, written) /\ PeerPos(peer) <= PeerPos(r)
    BY <2>2 DEF Took
  <2>5. /\ Len(r.got) \in Nat /\ r.fin \in BOOLEAN /\ (~r.fin => PeerPos(r) = Len(r.got))
        /\ (~peer.fin => PeerPos(peer) = Len(peer.got)) /\ (r.fin => Len(r.got) = N)
    BY <1>1, <2>4, PeerFacts DEF PeerOk
  <2>6. Len(peer.got) <= Len(r.got)
    <3>1. CASE peer.fin
      BY <1>2, <2>3, <3>1
    <3>2. CASE ~peer.fin /\ r.fin
      BY <1>2, <2>5, <3>2
    <3>3. CASE ~peer.fin /\ ~r.fin
      BY <1>2, <2>4, <2>5, <3>3
    <3> QED BY <3>1, <3>2, <3>3
  <2> QED BY <2>1, <2>3, <2>6 DEF r
<1> QED BY <1>3, <1>4, <1>5, PeerSteps

Whole == [i \in 1..N |-> i]

LEMMA WholeFacts ==
  /\ Whole \in Seq(Nat) /\ Len(Whole) = N /\ N \in Nat
  /\ \A k \in 0..N : SubSeq(Whole, 1, k) = [i \in 1..k |-> i]
<1>1. N \in Nat
  BY SpaceFacts
<1>2. Whole \in Seq(Nat) /\ Len(Whole) = N
  BY <1>1 DEF Whole
<1>3. ASSUME NEW k \in 0..N PROVE SubSeq(Whole, 1, k) = [i \in 1..k |-> i]
  BY <1>1 DEF Whole
<1>4. \A k \in 0..N : SubSeq(Whole, 1, k) = [i \in 1..k |-> i]
  BY <1>3, Zenon
<1> QED BY <1>1, <1>2, <1>4, Zenon

\* What the peer has got, as a part of the stream.
GotIs(q) ==
  /\ Len(q.got) \in 0..N /\ q.fin \in BOOLEAN /\ (q.fin => Len(q.got) = N)
  /\ q.got = SubSeq(Whole, 1, Len(q.got))

GotPart == GotIs(peer)

LEMMA NowGot == SendInv => GotPart
<1> SUFFICES ASSUME SendInv PROVE GotIs(peer)
  BY DEF GotPart
<1>1. written \in 0..N /\ PeerOk(peer, written)
  BY SoundFacts DEF SendInv
<1>2. /\ peer.got \in Seq(Nat) /\ Len(peer.got) \in Nat /\ Len(peer.got) <= N /\ N \in Nat
      /\ peer.fin \in BOOLEAN /\ (peer.fin => Len(peer.got) = N)
      /\ \A i \in 1..Len(peer.got) : peer.got[i] = i
  BY <1>1, PeerFacts DEF PeerOk
<1> DEFINE k == Len(peer.got)
<1>3. k \in 0..N
  BY <1>2
<1>4. peer.got = [i \in 1..k |-> i]
  BY <1>2, SMTT(30)
<1>5. SubSeq(Whole, 1, k) = [i \in 1..k |-> i]
  BY <1>3, WholeFacts
<1> QED BY <1>2, <1>3, <1>4, <1>5 DEF GotIs

LEMMA NextGot == SendInv' => GotPart'
BY NowGot, PTL

LEMMA StepDelivers ==
  ASSUME SendInv, [Next]_vars
  PROVE  [Delivery!Pass]_(Delivery!vars)
<1> DEFINE a == Len(peer.got)
           c == Len(peer'.got)
<1>1. GotIs(peer)
  BY NowGot DEF GotPart
<1>2. GotIs(peer')
  BY NextSound, NextGot DEF GotPart
<1>3. a <= c /\ (peer.fin => peer'.got = peer.got /\ peer'.fin = peer.fin)
  BY PeerForward
<1>4. Len(Whole) = N /\ N \in Nat
  BY WholeFacts
<1>5. CASE peer.fin
  BY <1>3, <1>5 DEF Delivery!vars
<1>6. CASE ~peer.fin
  <2>1. /\ c \in 0..N /\ a \in 0..N /\ peer'.got = SubSeq(Whole, 1, c)
        /\ peer'.fin \in BOOLEAN /\ (peer'.fin => c = N)
    BY <1>1, <1>2 DEF GotIs
  <2>2. c \in a..Len(Whole)
    <3> HIDE DEF a, c
    <3> QED BY <1>3, <1>4, <2>1
  <2>3. peer'.fin \in {FALSE, c = Len(Whole)}
    <3>1. CASE peer'.fin
      <4>1. (c = Len(Whole)) = TRUE
        BY <1>4, <2>1, <3>1
      <4>2. peer'.fin = TRUE
        BY <2>1, <3>1
      <4> QED BY <4>1, <4>2
    <3>2. CASE ~peer'.fin
      <4>1. peer'.fin = FALSE
        BY <2>1, <3>2
      <4> QED BY <4>1
    <3> QED BY <3>1, <3>2
  <2>4. \E k \in Len(peer.got)..Len(Whole) :
          /\ peer'.got = SubSeq(Whole, 1, k)
          /\ peer'.fin \in {FALSE, k = Len(Whole)}
    <3> HIDE DEF c
    <3> QED BY <2>1, <2>2, <2>3
  <2>5. Delivery!Pass
    BY <1>6, <2>4 DEF Delivery!Pass, Whole
  <2> QED BY <2>5
<1> QED BY <1>5, <1>6

-----------------------------------------------------------------------------
(* The theorems.                                                           *)

\* The inductive invariant: the queues of a connected pcb are one chain of
\* segments from lastack to snd_lbb, the numbers, the windows and the timers fit
\* them, the peer has a prefix of the stream and the network nothing else.
THEOREM SendInvariant == Spec => []SendInv
<1>1. SendInv /\ [Next]_vars => SendInv'
  BY NextSound
<1> QED BY <1>1, InitSound, PTL DEF Spec

\* Whatever tcp_enqueue(), tcp_output(), the retransmissions and the
\* acknowledgements do to unsent and unacked, every byte that is not acknowledged
\* stays on exactly one of them, under its own sequence number and in order: for
\* every stream, MSS, window and sequence space.
THEOREM BytesKept == Spec => []NoByteLost
BY SendInvariant, NothingLost, PTL

\* snd_queuelen, snd_buf and the fields of the pcb account for what is queued,
\* so the assertions of tcp_enqueue() and tcp_receive() on them hold.
THEOREM AccountsHold == Spec => []SendAccounts
BY SendInvariant, Accounted, PTL

\* Nothing but a probe goes beyond the peer's window: the test of snd_wl1 and
\* snd_wl2 in tcp_receive() keeps an old window from being taken for a new one.
THEOREM WindowRespected == Spec => []PeerNotOverrun
BY SendInvariant, NotOverrun, PTL

\* While something is queued a timer runs or tcp_output() has something to do.
THEOREM NeverSilent == Spec => []TimerArmed
BY SendInvariant, Armed, PTL

\* The sender, with the network and the peer, implements ByteStream: what the
\* peer gets is the stream that was written, once, in order, and the FIN after
\* all of it.
THEOREM SenderIsByteStream == Spec => DeliversByteStream
<1>1. Init => Delivery!Init
  BY DEF Init, Delivery!Init
<1>2. SendInv /\ [Next]_vars => [Delivery!Pass]_(Delivery!vars)
  BY StepDelivers
<1> QED
  BY <1>1, <1>2, SendInvariant, PTL
     DEF Spec, DeliversByteStream, Delivery!Spec

=============================================================================
