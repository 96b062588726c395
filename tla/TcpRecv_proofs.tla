--------------------------- MODULE TcpRecv_proofs ---------------------------
(***************************************************************************)
(* Proofs about TcpRecv.                                                   *)
(***************************************************************************)
EXTENDS TcpRecv, NumberLemmas, SequenceTheorems, FiniteSetTheorems, TLAPS

-----------------------------------------------------------------------------
(* Sequence numbers.  Every one in play is At(x) for a small position x.   *)

At(x) == Plus(ISN, x)

\* Adding to a sequence number moves its position.
LEMMA PlusPlus ==
  ASSUME M \in Nat \ {0}, NEW s \in Int, NEW x \in Int, NEW n \in Int
  PROVE  Plus(Plus(s, x), n) = Plus(s, x + n)
BY ModShift DEF Plus

\* Two sequence numbers less than half the space apart compare like their
\* positions.
LEMMA MinusPlus ==
  ASSUME M \in Nat \ {0}, M % 2 = 0, NEW s \in Int, NEW x \in Int, NEW y \in Int,
         2 * (x - y) < M, 2 * (y - x) < M
  PROVE  Minus(Plus(s, x), Plus(s, y)) = x - y
BY ModApart DEF Minus, Plus

LEMMA SpaceSize == M \in Nat \ {0} /\ M > 5 /\ M \div 2 \in Nat
                   /\ 2 * (M \div 2) = M
<1>1. M \in Nat /\ M > 5 /\ M % 2 = 0
  BY SpaceIsEven, StreamFits
<1> QED BY <1>1

LEMMA AtType == ASSUME NEW x \in Int PROVE At(x) \in SeqNos
BY SpaceSize, SeqIsSeq DEF At, Plus, SeqNos

\* Adding to a sequence number moves it in the stream.
LEMMA PlusAt ==
  ASSUME NEW x \in Int, NEW n \in Int
  PROVE  Plus(At(x), n) = At(x + n)
BY SpaceSize, SeqIsSeq, PlusPlus DEF At

\* Two sequence numbers less than half the space apart compare like their
\* positions.
LEMMA MinusAt ==
  ASSUME NEW x \in Int, NEW y \in Int, 2 * (x - y) < M, 2 * (y - x) < M
  PROVE  Minus(At(x), At(y)) = x - y
<1>1. M \in Nat \ {0} /\ M % 2 = 0 /\ ISN \in Int
  BY SpaceSize, SpaceIsEven, SeqIsSeq
<1> QED BY <1>1, MinusPlus DEF At

\* The comparisons of tcp.h, for positions the model can reach.
Positions == 0..(N + TCP_WND + 2)

LEMMA Compare ==
  ASSUME NEW x \in Positions, NEW y \in Positions
  PROVE  /\ Minus(At(x), At(y)) = x - y
         /\ TCP_SEQ_LT(At(x), At(y)) <=> x < y
         /\ TCP_SEQ_LEQ(At(x), At(y)) <=> x <= y
         /\ TCP_SEQ_GT(At(x), At(y)) <=> x > y
         /\ TCP_SEQ_GEQ(At(x), At(y)) <=> x >= y
         /\ At(x) = At(y) => x = y
<1>1. x \in Int /\ y \in Int /\ 2 * (x - y) < M /\ 2 * (y - x) < M
  BY StreamFits, SpaceIsEven DEF Positions
<1>2. Minus(At(x), At(y)) = x - y
  BY <1>1, MinusAt
<1>3. At(x) = At(y) => x = y
  <2>1. Minus(At(y), At(y)) = 0
    BY <1>1, MinusAt, SpaceSize
  <2> QED BY <1>1, <1>2, <2>1
<1> QED
  BY <1>1, <1>2, <1>3 DEF TCP_SEQ_LT, TCP_SEQ_LEQ, TCP_SEQ_GT, TCP_SEQ_GEQ

-----------------------------------------------------------------------------
(* Slices of the peer's stream.                                            *)

\* n bytes of the stream from position i on.
Bytes(i, n) == SubSeq(Stream, i, i + n - 1)

\* Where the n bytes from position i on are in the stream.
InStream(i, n) == i \in Nat \ {0} /\ n \in Nat /\ i + n <= N + 1

LEMMA StreamIs == Stream \in Seq(Nat) /\ Len(Stream) = N
BY StreamFits DEF Stream

LEMMA BytesAre ==
  ASSUME NEW i, NEW n, InStream(i, n)
  PROVE  /\ Bytes(i, n) \in Seq(Nat) /\ Len(Bytes(i, n)) = n
         /\ \A k \in 1..n : Bytes(i, n)[k] = i + k - 1
<1>1. N \in Nat /\ i \in Int /\ n \in Int /\ i + n - 1 \in Int
  BY StreamFits DEF InStream
<1>2. \A k \in i..(i + n - 1) : Stream[k] = k /\ Stream[k] \in Nat
  BY <1>1 DEF Stream, InStream
<1>3. /\ Bytes(i, n) \in Seq(Nat)
      /\ Len(Bytes(i, n)) = IF i <= i + n - 1 THEN (i + n - 1) - i + 1 ELSE 0
      /\ \A k \in 1..((i + n - 1) - i + 1) : Bytes(i, n)[k] = Stream[i + k - 1]
  BY <1>1, <1>2, SubSeqProperties DEF Bytes
<1>4. /\ 1..((i + n - 1) - i + 1) = 1..n
      /\ \A k \in 1..n : i + k - 1 \in i..(i + n - 1)
  BY <1>1
<1>5. Len(Bytes(i, n)) = n
  BY <1>1, <1>3 DEF InStream
<1>6. ASSUME NEW k \in 1..n PROVE Bytes(i, n)[k] = i + k - 1
  BY <1>2, <1>3, <1>4
<1> QED BY <1>3, <1>5, <1>6

LEMMA NoBytes ==
  ASSUME NEW i \in Nat PROVE Bytes(i, 0) = << >>
BY SubSeqEmpty DEF Bytes

\* A sequence is such a slice when its elements are.
LEMMA BytesEqual ==
  ASSUME NEW i, NEW n, InStream(i, n), NEW s \in Seq(Nat), Len(s) = n,
         \A k \in 1..n : s[k] = i + k - 1
  PROVE  s = Bytes(i, n)
BY BytesAre, SeqEqual

LEMMA BytesConcat ==
  ASSUME NEW i, NEW n, NEW m, InStream(i, n), InStream(i + n, m)
  PROVE  InStream(i, n + m) /\ Bytes(i, n) \o Bytes(i + n, m) = Bytes(i, n + m)
<1>1. InStream(i, n + m) /\ n \in Nat /\ m \in Nat /\ i \in Nat
  BY StreamFits DEF InStream
<1> DEFINE a == Bytes(i, n)
           b == Bytes(i + n, m)
<1>2. /\ a \in Seq(Nat) /\ Len(a) = n /\ \A k \in 1..n : a[k] = i + k - 1
      /\ b \in Seq(Nat) /\ Len(b) = m
      /\ \A k \in 1..m : b[k] = (i + n) + k - 1
  BY BytesAre
<1> HIDE DEF a, b
<1>3. /\ a \o b \in Seq(Nat) /\ Len(a \o b) = n + m
      /\ \A k \in 1..(n + m) : (a \o b)[k] = IF k <= n THEN a[k] ELSE b[k - n]
  BY <1>2, ConcatProperties, ZenonT(40)
<1>4. ASSUME NEW k \in 1..(n + m) PROVE (a \o b)[k] = i + k - 1
  <2>1. CASE k <= n
    BY <1>1, <1>2, <1>3, <2>1
  <2>2. CASE ~(k <= n)
    <3>1. k - n \in 1..m
      BY <1>1, <2>2
    <3> QED BY <1>1, <1>2, <1>3, <2>2, <3>1
  <2> QED BY <2>1, <2>2
<1>5. a \o b = Bytes(i, n + m)
  BY <1>1, <1>3, <1>4, BytesEqual
<1> QED BY <1>1, <1>5 DEF a, b

\* pbuf_realloc() and the trimming of the front leave slices.
LEMMA BytesCut ==
  ASSUME NEW i, NEW n, InStream(i, n), NEW m \in 0..n
  PROVE  /\ InStream(i, m) /\ SubSeq(Bytes(i, n), 1, m) = Bytes(i, m)
         /\ InStream(i + m, n - m)
         /\ SubSeq(Bytes(i, n), m + 1, n) = Bytes(i + m, n - m)
<1>1. /\ InStream(i, m) /\ InStream(i + m, n - m)
      /\ n \in Nat /\ m \in Nat /\ i \in Nat /\ n - m \in Nat
  BY StreamFits DEF InStream
<1> DEFINE a == Bytes(i, n)
<1>2. a \in Seq(Nat) /\ Len(a) = n /\ \A k \in 1..n : a[k] = i + k - 1
  BY BytesAre
<1> HIDE DEF a
<1>3. \A k \in 1..n : a[k] \in Nat
  BY <1>1, <1>2
<1>4. SubSeq(a, 1, m) = Bytes(i, m)
  <2>1. \A k \in 1..m : a[k] \in Nat
    BY <1>1, <1>3
  <2>2. /\ SubSeq(a, 1, m) \in Seq(Nat)
        /\ Len(SubSeq(a, 1, m)) = IF 1 <= m THEN m - 1 + 1 ELSE 0
        /\ \A k \in 1..(m - 1 + 1) : SubSeq(a, 1, m)[k] = a[1 + k - 1]
    BY <1>1, <2>1, SubSeqProperties
  <2>3. Len(SubSeq(a, 1, m)) = m
    BY <1>1, <2>2
  <2>4. ASSUME NEW k \in 1..m PROVE SubSeq(a, 1, m)[k] = i + k - 1
    <3>1. k \in 1..(m - 1 + 1) /\ 1 + k - 1 = k /\ k \in 1..n
      BY <1>1
    <3> QED BY <1>2, <2>2, <3>1
  <2> QED BY <1>1, <2>2, <2>3, <2>4, BytesEqual
<1>5. SubSeq(a, m + 1, n) = Bytes(i + m, n - m)
  <2>1. \A k \in (m + 1)..n : a[k] \in Nat
    BY <1>1, <1>3
  <2>2. /\ SubSeq(a, m + 1, n) \in Seq(Nat)
        /\ Len(SubSeq(a, m + 1, n)) = IF m + 1 <= n THEN n - (m + 1) + 1 ELSE 0
        /\ \A k \in 1..(n - (m + 1) + 1) :
             SubSeq(a, m + 1, n)[k] = a[(m + 1) + k - 1]
    BY <1>1, <2>1, SubSeqProperties
  <2>3. Len(SubSeq(a, m + 1, n)) = n - m
    BY <1>1, <2>2
  <2>4. ASSUME NEW k \in 1..(n - m)
        PROVE  SubSeq(a, m + 1, n)[k] = (i + m) + k - 1
    <3>1. k \in 1..(n - (m + 1) + 1) /\ (m + 1) + k - 1 = m + k /\ m + k \in 1..n
      BY <1>1
    <3>2. a[m + k] = i + (m + k) - 1
      BY <1>2, <3>1
    <3> QED BY <1>1, <2>2, <3>1, <3>2
  <2> QED BY <1>1, <2>2, <2>3, <2>4, BytesEqual
<1> QED BY <1>1, <1>4, <1>5 DEF a

-----------------------------------------------------------------------------
(* Segments of the stream.                                                 *)

Segments == [seqno : SeqNos, data : Seq(Nat), fin : BOOLEAN]

\* Positions of the first byte of a segment and of what follows its data.
Pos(s) == Minus(s.seqno, ISN)

Last(s) == Pos(s) + Len(s.data)

\* A slice of the stream, which carries the FIN only at its end.
ValidSlice(i, n, fin) ==
  InStream(i, n) /\ fin \in BOOLEAN /\ (fin => i + n = N + 1)

IsSlice(s) == /\ ValidSlice(Pos(s), Len(s.data), s.fin)
              /\ s = Slice(Pos(s), Len(s.data), s.fin)

LEMMA IsnIs == ISN = At(0)
<1>1. ISN \in 0..(M - 1) /\ M \in Nat \ {0}
  BY SeqIsSeq, SpaceSize
<1>2. (0 * M + ISN) % M = ISN
  BY <1>1, ModUnique
<1>3. 0 * M + ISN = ISN + 0
  BY <1>1
<1> QED BY <1>2, <1>3 DEF At, Plus

LEMMA SliceRecord ==
  ASSUME NEW i, NEW n, NEW fin
  PROVE  Slice(i, n, fin) = [seqno |-> At(i), data |-> Bytes(i, n), fin |-> fin]
BY DEF Slice, At, Bytes

LEMMA WithData ==
  ASSUME NEW s \in Segments, NEW d
  PROVE  [s EXCEPT !.data = d] = [seqno |-> s.seqno, data |-> d, fin |-> s.fin]
BY DEF Segments

LEMMA SliceFacts ==
  ASSUME NEW i, NEW n, NEW fin, ValidSlice(i, n, fin)
  PROVE  LET s == Slice(i, n, fin)
         IN  /\ IsSlice(s) /\ s \in Segments
             /\ Pos(s) = i /\ Len(s.data) = n /\ Last(s) = i + n
             /\ s.seqno = At(i) /\ s.data = Bytes(i, n) /\ s.fin = fin
             /\ End(s) = At(i + n)
<1> DEFINE s == Slice(i, n, fin)
<1>1. i \in Nat /\ n \in Nat /\ fin \in BOOLEAN /\ i \in Positions
  BY StreamFits DEF ValidSlice, InStream, Positions
<1>2. s.seqno = At(i) /\ s.data = Bytes(i, n) /\ s.fin = fin
  BY DEF Slice, At, Bytes
<1>3. Len(s.data) = n /\ s.data \in Seq(Nat)
  BY <1>2, BytesAre DEF ValidSlice
<1>4. Pos(s) = i
  <2>1. 0 \in Positions
    BY StreamFits DEF Positions
  <2>2. Minus(At(i), At(0)) = i - 0
    BY <1>1, <2>1, Compare
  <2> QED BY <1>1, <1>2, <2>2, IsnIs DEF Pos
<1>5. s \in Segments
  <2>1. At(i) \in SeqNos
    BY <1>1, AtType
  <2> QED BY <1>1, <1>2, <1>3, <2>1 DEF Segments, Slice
<1>6. End(s) = At(i + n)
  BY <1>1, <1>2, <1>3, PlusAt DEF End
<1> HIDE DEF s
<1>7. s = Slice(Pos(s), Len(s.data), s.fin)
  BY <1>2, <1>3, <1>4 DEF s
<1> QED BY <1>2, <1>3, <1>4, <1>5, <1>6, <1>7 DEF IsSlice, Last, s

\* The same for a segment known to be a slice.
LEMMA SliceIs ==
  ASSUME NEW s, IsSlice(s)
  PROVE  /\ ValidSlice(Pos(s), Len(s.data), s.fin)
         /\ s = Slice(Pos(s), Len(s.data), s.fin)
         /\ s \in Segments
         /\ s.seqno = At(Pos(s)) /\ s.data = Bytes(Pos(s), Len(s.data))
         /\ End(s) = At(Last(s))
         /\ Pos(s) \in Nat \ {0} /\ Len(s.data) \in Nat /\ Last(s) \in Nat
         /\ s.fin \in BOOLEAN /\ Last(s) <= N + 1 /\ (s.fin => Last(s) = N + 1)
         /\ Pos(s) \in Positions /\ Last(s) \in Positions
<1> DEFINE i == Pos(s)
           n == Len(s.data)
           b == s.fin
<1>1. ValidSlice(i, n, b) /\ s = Slice(i, n, b)
  BY DEF IsSlice
<1>2. /\ Slice(i, n, b) \in Segments
      /\ Slice(i, n, b).seqno = At(i) /\ Slice(i, n, b).data = Bytes(i, n)
      /\ End(Slice(i, n, b)) = At(i + n)
  <2> HIDE DEF i, n, b
  <2> QED BY <1>1, SliceFacts
<1>3. /\ i \in Nat \ {0} /\ n \in Nat /\ b \in BOOLEAN /\ i + n <= N + 1
      /\ (b => i + n = N + 1)
      /\ i \in Positions /\ i + n \in Positions
  <2> HIDE DEF i, n, b
  <2> QED BY <1>1, StreamFits DEF ValidSlice, InStream, Positions
<1> QED BY <1>1, <1>2, <1>3 DEF Last

\* Segments are compared like their positions.
LEMMA SliceCompare ==
  ASSUME NEW s, NEW t, IsSlice(s), IsSlice(t)
  PROVE  /\ TCP_SEQ_LT(s.seqno, t.seqno) <=> Pos(s) < Pos(t)
         /\ s.seqno = t.seqno <=> Pos(s) = Pos(t)
         /\ TCP_SEQ_GT(End(s), t.seqno) <=> Last(s) > Pos(t)
         /\ TCP_SEQ_GEQ(End(s), End(t)) <=> Last(s) >= Last(t)
         /\ TCP_SEQ_GEQ(t.seqno, End(s)) <=> Pos(t) >= Last(s)
         /\ Minus(t.seqno, s.seqno) = Pos(t) - Pos(s)
<1>1. /\ s.seqno = At(Pos(s)) /\ t.seqno = At(Pos(t))
      /\ End(s) = At(Last(s)) /\ End(t) = At(Last(t))
      /\ Pos(s) \in Positions /\ Last(s) \in Positions
      /\ Pos(t) \in Positions /\ Last(t) \in Positions
  BY SliceIs
<1> QED BY <1>1, Compare

\* pbuf_realloc() and the FIN flag.
LEMMA ShrinkSlice ==
  ASSUME NEW s, IsSlice(s), NEW m \in 0..Len(s.data), ~s.fin
  PROVE  /\ IsSlice(Shrink(s, m)) /\ Pos(Shrink(s, m)) = Pos(s)
         /\ Len(Shrink(s, m).data) = m /\ Last(Shrink(s, m)) = Pos(s) + m
         /\ Shrink(s, m).fin = FALSE
<1>1. /\ ValidSlice(Pos(s), Len(s.data), s.fin) /\ s.fin = FALSE
      /\ s.data = Bytes(Pos(s), Len(s.data)) /\ s.seqno = At(Pos(s))
      /\ Len(s.data) \in Nat /\ s \in Segments
  BY SliceIs
<1>2. SubSeq(s.data, 1, m) = Bytes(Pos(s), m) /\ InStream(Pos(s), m)
  <2>1. InStream(Pos(s), Len(s.data))
    BY <1>1 DEF ValidSlice
  <2>2. SubSeq(Bytes(Pos(s), Len(s.data)), 1, m) = Bytes(Pos(s), m)
        /\ InStream(Pos(s), m)
    BY <2>1, BytesCut
  <2> QED BY <1>1, <2>2
<1>3. ValidSlice(Pos(s), m, s.fin)
  BY <1>1, <1>2 DEF ValidSlice
<1>4. Shrink(s, m) = Slice(Pos(s), m, s.fin)
  <2> DEFINE d == SubSeq(s.data, 1, m)
  <2>1. Shrink(s, m) = [s EXCEPT !.data = d]
    BY DEF Shrink
  <2>2. d = Bytes(Pos(s), m)
    BY <1>2
  <2> HIDE DEF d
  <2>3. [s EXCEPT !.data = d] = [seqno |-> s.seqno, data |-> d, fin |-> s.fin]
    BY <1>1, WithData
  <2> QED BY <1>1, <2>1, <2>2, <2>3, SliceRecord
<1>5. LET t == Slice(Pos(s), m, s.fin)
      IN  /\ IsSlice(t) /\ Pos(t) = Pos(s) /\ Len(t.data) = m
          /\ Last(t) = Pos(s) + m /\ t.fin = s.fin
  BY <1>3, SliceFacts
<1> QED BY <1>1, <1>4, <1>5

LEMMA FinSlice ==
  ASSUME NEW s, IsSlice(s), NEW b \in BOOLEAN, b => Last(s) = N + 1
  PROVE  LET t == [s EXCEPT !.fin = b]
         IN  /\ IsSlice(t) /\ Pos(t) = Pos(s) /\ Len(t.data) = Len(s.data)
             /\ Last(t) = Last(s) /\ t.fin = b
<1>1. /\ ValidSlice(Pos(s), Len(s.data), s.fin) /\ s \in Segments
      /\ s.data = Bytes(Pos(s), Len(s.data)) /\ s.seqno = At(Pos(s))
  BY SliceIs
<1>2. ValidSlice(Pos(s), Len(s.data), b)
  BY <1>1 DEF ValidSlice, Last
<1>3. [s EXCEPT !.fin = b] = Slice(Pos(s), Len(s.data), b)
  <2>1. [s EXCEPT !.fin = b] = [seqno |-> s.seqno, data |-> s.data, fin |-> b]
    BY <1>1 DEF Segments
  <2> QED BY <1>1, <2>1, SliceRecord
<1>4. LET t == Slice(Pos(s), Len(s.data), b)
      IN  /\ IsSlice(t) /\ Pos(t) = Pos(s) /\ Len(t.data) = Len(s.data)
          /\ Last(t) = Last(s) /\ t.fin = b
  BY <1>2, SliceFacts DEF Last
<1> QED BY <1>3, <1>4

-----------------------------------------------------------------------------
(* The out-of-sequence queue.                                              *)

\* A segment of a queue lies between two positions and is not empty.
Queued(s, lo, hi) ==
  /\ IsSlice(s)
  /\ lo < Pos(s) /\ Last(s) <= hi
  /\ Len(s.data) > 0 \/ s.fin

\* Nothing of t comes before the end of s.
Before(s, t) == Last(s) <= Pos(t) /\ ~s.fin

\* OoseqOrdered, for all pairs of segments instead of neighbours.
QueueOk(q, lo, hi) ==
  /\ q \in Seq(Segments)
  /\ \A i \in 1..Len(q) : Queued(q[i], lo, hi)
  /\ \A i, j \in 1..Len(q) : i < j => Before(q[i], q[j])

LEMMA RestFacts ==
  ASSUME NEW S, NEW q \in Seq(S), NEW n \in 0..Len(q)
  PROVE  /\ Rest(q, n) \in Seq(S) /\ Len(Rest(q, n)) = Len(q) - n
         /\ \A j \in 1..(Len(q) - n) : Rest(q, n)[j] = q[n + j]
         /\ Rest(q, n) = << >> <=> n = Len(q)
BY SuffixFacts DEF Rest

\* What a part of a queue is.
LEMMA RestOk ==
  ASSUME NEW q, NEW lo, NEW hi, QueueOk(q, lo, hi), NEW n \in 0..Len(q),
         NEW low, \A i \in 1..Len(q) : i > n => low < Pos(q[i])
  PROVE  QueueOk(Rest(q, n), low, hi)
<1> DEFINE r == Rest(q, n)
<1>1. q \in Seq(Segments) /\ Len(q) \in Nat /\ n \in Nat
  BY DEF QueueOk
<1>2. /\ r \in Seq(Segments) /\ Len(r) = Len(q) - n
      /\ \A j \in 1..(Len(q) - n) : r[j] = q[n + j]
  BY <1>1, RestFacts
<1> HIDE DEF r
<1>3. ASSUME NEW j \in 1..Len(r) PROVE Queued(r[j], low, hi)
  <2>1. n + j \in 1..Len(q) /\ n + j > n /\ r[j] = q[n + j]
    BY <1>1, <1>2
  <2> QED BY <2>1 DEF QueueOk, Queued
<1>4. ASSUME NEW i \in 1..Len(r), NEW j \in 1..Len(r), i < j
      PROVE  Before(r[i], r[j])
  <2>1. n + i \in 1..Len(q) /\ n + j \in 1..Len(q) /\ n + i < n + j
    BY <1>1, <1>2, <1>4
  <2>2. r[i] = q[n + i] /\ r[j] = q[n + j]
    BY <1>1, <1>2
  <2> QED BY <2>1, <2>2 DEF QueueOk
<1> QED BY <1>2, <1>3, <1>4 DEF QueueOk, r

LEMMA FrontOk ==
  ASSUME NEW q, NEW lo, NEW hi, QueueOk(q, lo, hi), NEW n \in 0..Len(q)
  PROVE  QueueOk(SubSeq(q, 1, n), lo, hi)
<1> DEFINE r == SubSeq(q, 1, n)
<1>1. q \in Seq(Segments) /\ Len(q) \in Nat /\ n \in Nat
  BY DEF QueueOk
<1>2. /\ r \in Seq(Segments) /\ Len(r) = n /\ \A j \in 1..n : r[j] = q[j]
  BY <1>1, FrontFacts
<1> HIDE DEF r
<1>3. \A j \in 1..Len(r) : j \in 1..Len(q) /\ r[j] = q[j]
  BY <1>1, <1>2
<1>4. QueueOk(r, lo, hi)
  BY <1>2, <1>3 DEF QueueOk
<1> QED BY <1>4 DEF r

LEMMA ConcatOk ==
  ASSUME NEW p, NEW q, NEW lo, NEW hi, QueueOk(p, lo, hi), QueueOk(q, lo, hi),
         \A i \in 1..Len(p), j \in 1..Len(q) : Before(p[i], q[j])
  PROVE  QueueOk(p \o q, lo, hi)
<1> DEFINE r == p \o q
<1>1. /\ p \in Seq(Segments) /\ Len(p) \in Nat
      /\ q \in Seq(Segments) /\ Len(q) \in Nat
  BY DEF QueueOk
<1>2. /\ r \in Seq(Segments) /\ Len(r) = Len(p) + Len(q)
      /\ \A i \in 1..(Len(p) + Len(q)) :
           r[i] = IF i <= Len(p) THEN p[i] ELSE q[i - Len(p)]
  BY <1>1, ConcatProperties
<1> HIDE DEF r
<1>3. ASSUME NEW i \in 1..Len(r) PROVE Queued(r[i], lo, hi)
  <2>1. CASE i <= Len(p)
    BY <1>1, <1>2, <2>1 DEF QueueOk
  <2>2. CASE i > Len(p)
    <3>1. i - Len(p) \in 1..Len(q) /\ r[i] = q[i - Len(p)]
      BY <1>1, <1>2, <2>2
    <3> QED BY <3>1 DEF QueueOk
  <2> QED BY <1>1, <1>2, <2>1, <2>2
<1>4. ASSUME NEW i \in 1..Len(r), NEW j \in 1..Len(r), i < j
      PROVE  Before(r[i], r[j])
  <2>1. CASE j <= Len(p)
    <3>1. i \in 1..Len(p) /\ j \in 1..Len(p) /\ r[i] = p[i] /\ r[j] = p[j]
      BY <1>1, <1>2, <1>4, <2>1
    <3> QED BY <1>4, <3>1 DEF QueueOk
  <2>2. CASE i <= Len(p) /\ j > Len(p)
    <3>1. /\ i \in 1..Len(p) /\ j - Len(p) \in 1..Len(q)
          /\ r[i] = p[i] /\ r[j] = q[j - Len(p)]
      BY <1>1, <1>2, <1>4, <2>2
    <3> QED BY <3>1
  <2>3. CASE i > Len(p)
    <3>1. /\ i - Len(p) \in 1..Len(q) /\ j - Len(p) \in 1..Len(q)
          /\ i - Len(p) < j - Len(p)
          /\ r[i] = q[i - Len(p)] /\ r[j] = q[j - Len(p)]
      BY <1>1, <1>2, <1>4, <2>3
    <3> QED BY <3>1 DEF QueueOk
  <2> QED BY <1>1, <1>2, <2>1, <2>2, <2>3
<1>5. QueueOk(r, lo, hi)
  BY <1>2, <1>3, <1>4 DEF QueueOk
<1> QED BY <1>5 DEF r

LEMMA SingleOk ==
  ASSUME NEW s, NEW lo, NEW hi, Queued(s, lo, hi)
  PROVE  /\ QueueOk(<<s>>, lo, hi)
         /\ Len(<<s>>) = 1 /\ <<s>>[1] = s
<1>1. s \in Segments
  BY SliceIs DEF Queued
<1>2. <<s>> \in Seq(Segments) /\ Len(<<s>>) = 1 /\ <<s>>[1] = s
  BY <1>1
<1> QED BY <1>2 DEF QueueOk

\* The application's reading moves the right edge of the window.
LEMMA WiderOk ==
  ASSUME NEW q, NEW lo, NEW hi \in Int, NEW high \in Int, hi <= high,
         QueueOk(q, lo, hi)
  PROVE  QueueOk(q, lo, high)
<1>1. ASSUME NEW i \in 1..Len(q) PROVE Queued(q[i], lo, high)
  <2>1. Queued(q[i], lo, hi) /\ Last(q[i]) \in Nat
    BY SliceIs DEF QueueOk, Queued
  <2> QED BY <2>1 DEF Queued
<1> QED BY <1>1 DEF QueueOk

LEMMA EmptyOk == ASSUME NEW lo, NEW hi PROVE QueueOk(<< >>, lo, hi)
BY EmptySeq DEF QueueOk

\* What the loops over the queue in tcp_receive() and tcp_oos_insert_segment()
\* free: the segments that end before the new one, and their FIN.  Only the
\* last segment of the queue has one, so that finlen makes no difference.
SwallowRun(seg, q, r, m) ==
  /\ r.n \in 0..m /\ r.fin \in BOOLEAN
  /\ \A i \in 1..r.n : Last(q[i]) <= Last(seg)
  /\ r.fin <=> \E i \in 1..r.n : q[i].fin
  /\ r.n < m => Last(q[r.n + 1]) > Last(seg)

LEMMA SwallowStep ==
  ASSUME NEW q, NEW lo, NEW hi, QueueOk(q, lo, hi),
         NEW seg, IsSlice(seg), ~seg.fin, NEW finlen \in BOOLEAN,
         NEW m \in Nat, m < Len(q), NEW r, SwallowRun(seg, q, r, m), NEW t,
         t = IF /\ r.n = m
                /\ TCP_SEQ_GEQ(Plus(End(seg), IF finlen THEN FinLen(r.fin)
                                                        ELSE 0),
                               End(q[m + 1]))
             THEN [n |-> m + 1, fin |-> r.fin \/ q[m + 1].fin]
             ELSE r
  PROVE  SwallowRun(seg, q, t, m + 1)
<1>1. /\ Len(q) \in Nat /\ m + 1 \in 1..Len(q)
      /\ \A i \in 1..Len(q) : IsSlice(q[i])
      /\ \A i \in 1..m : ~q[i].fin
  BY DEF QueueOk, Queued, Before
<1>2. /\ q[m + 1].fin \in BOOLEAN /\ Last(q[m + 1]) \in Nat
      /\ Last(seg) \in Nat /\ End(seg) = At(Last(seg))
  BY <1>1, SliceIs
<1>3. CASE r.n = m
  <2>1. r.fin = FALSE
    BY <1>1, <1>3 DEF SwallowRun
  <2>2. Plus(End(seg), IF finlen THEN FinLen(r.fin) ELSE 0) = End(seg)
    <3>1. (IF finlen THEN FinLen(r.fin) ELSE 0) = 0
      BY <2>1 DEF FinLen
    <3>2. Plus(At(Last(seg)), 0) = At(Last(seg) + 0)
      BY <1>2, PlusAt
    <3>3. Last(seg) + 0 = Last(seg)
      BY <1>2
    <3> QED BY <1>2, <3>1, <3>2, <3>3
  <2>3. TCP_SEQ_GEQ(End(seg), End(q[m + 1])) <=> Last(seg) >= Last(q[m + 1])
    BY <1>1, SliceCompare
  <2>4. CASE Last(seg) >= Last(q[m + 1])
    <3>1. t = [n |-> m + 1, fin |-> q[m + 1].fin]
      BY <1>2, <1>3, <2>1, <2>2, <2>3, <2>4
    <3>2. t.n = m + 1 /\ t.fin = q[m + 1].fin
      BY <3>1
    <3>3. \A i \in 1..(m + 1) : Last(q[i]) <= Last(seg)
      <4>1. \A i \in 1..(m + 1) : i \in 1..m \/ i = m + 1
        OBVIOUS
      <4> QED BY <1>3, <2>4, <4>1, <1>2 DEF SwallowRun
    <3>4. t.fin <=> \E i \in 1..(m + 1) : q[i].fin
      <4>1. \A i \in 1..(m + 1) : i \in 1..m \/ i = m + 1
        OBVIOUS
      <4>2. m + 1 \in 1..(m + 1)
        OBVIOUS
      <4> QED BY <1>1, <3>2, <4>1, <4>2
    <3> QED BY <1>2, <3>2, <3>3, <3>4 DEF SwallowRun
  <2>5. CASE ~(Last(seg) >= Last(q[m + 1]))
    <3>1. t = r
      BY <2>2, <2>3, <2>5
    <3> QED BY <1>2, <1>3, <2>5, <3>1 DEF SwallowRun
  <2> QED BY <2>4, <2>5
<1>4. CASE r.n # m
  <2>1. t = r /\ r.n \in 0..m /\ r.n < m
    BY <1>4 DEF SwallowRun
  <2> QED BY <2>1 DEF SwallowRun
<1> QED BY <1>3, <1>4

LEMMA SwallowFacts ==
  ASSUME NEW q, NEW lo, NEW hi, QueueOk(q, lo, hi),
         NEW seg, IsSlice(seg), ~seg.fin, NEW finlen \in BOOLEAN
  PROVE  SwallowRun(seg, q, Swallow(seg, q, finlen), Len(q))
<1> DEFINE l == Len(q)
           V == [n : Nat, fin : BOOLEAN]
           first == [n |-> 0, fin |-> seg.fin]
           Step(b, i) ==
             IF b.n = i - 1
                /\ TCP_SEQ_GEQ(Plus(End(seg), IF finlen THEN FinLen(b.fin)
                                                        ELSE 0), End(q[i]))
             THEN [n |-> i, fin |-> b.fin \/ q[i].fin] ELSE b
           Sol(f) == f = [i \in 0..l |-> IF i = 0 THEN first
                                         ELSE Step(f[i - 1], i)]
           g == [t \in V \X Nat |-> IF t[2] \in 1..l THEN Step(t[1], t[2])
                                                     ELSE t[1]]
<1>1. l \in Nat /\ \A i \in 1..l : q[i].fin \in BOOLEAN
  BY SliceIs DEF QueueOk, Queued
<1>2. first \in V
  BY SliceIs
<1>3. g \in [V \X Nat -> V]
  <2> SUFFICES ASSUME NEW b \in V, NEW i \in 1..l PROVE Step(b, i) \in V
    OBVIOUS
  <2> QED BY <1>1
<1>4. \E f : Sol(f)
  <2> HIDE DEF V, g, first, Step, l
  <2>0. StepFunction(V, g, first, l)
    BY <1>1, <1>2, <1>3 DEF StepFunction
  <2>a. PICK f : IsRecursion(f, V, g, first, l)
    BY <2>0, RecursionExists
  <2>1. /\ f \in [0..l -> V] /\ f[0] = first
        /\ \A i \in 1..l : f[i] = g[<<f[i - 1], i>>]
    BY <2>a DEF IsRecursion
  <2>2. ASSUME NEW i \in 1..l PROVE f[i] = Step(f[i - 1], i)
    <3>1. i - 1 \in 0..l /\ i \in Nat
      BY <1>1
    <3>2. f[i - 1] \in V
      BY <2>1, <3>1
    <3>3. g[<<f[i - 1], i>>] = Step(f[i - 1], i)
      BY <3>1, <3>2 DEF g
    <3> QED BY <2>1, <3>3
  <2>3. \A i \in 0..l : i # 0 => i \in 1..l
    BY <1>1
  <2>4. Sol(f)
    BY <2>1, <2>2, <2>3
  <2> QED BY <2>4
<1> DEFINE run == CHOOSE f : Sol(f)
<1>5. Sol(run)
  <2> HIDE DEF Sol
  <2> QED BY <1>4
<1>6. Swallow(seg, q, finlen) = run[l]
  BY DEF Swallow
<1> HIDE DEF run
<1>7. \A i \in 0..l : SwallowRun(seg, q, run[i], i)
  <2> DEFINE T == {i \in 0..l : SwallowRun(seg, q, run[i], i)}
  <2>1. 0 \in T
    <3>1. run[0] = first
      BY <1>1, <1>5
    <3>a. seg.fin = FALSE
      BY SliceIs
    <3>b. run[0] = [n |-> 0, fin |-> FALSE]
      BY <3>1, <3>a
    <3>2. run[0].n = 0 /\ run[0].fin = FALSE
      BY <3>b
    <3>3. SwallowRun(seg, q, run[0], 0)
      <4>1. 1..run[0].n = {} /\ run[0].n \in 0..0 /\ ~(run[0].n < 0)
        BY <3>2
      <4>2. ~run[0].fin /\ run[0].fin \in BOOLEAN
        BY <3>2
      <4> QED BY <4>1, <4>2, Zenon DEF SwallowRun
    <3> QED BY <1>1, <3>3
  <2>2. ASSUME NEW i \in 0..l, i \in T, i < l PROVE i + 1 \in T
    <3>1. i \in Nat /\ i + 1 \in 0..l /\ i + 1 # 0 /\ (i + 1) - 1 = i
      BY <1>1, <2>2
    <3>2. run[i + 1] = Step(run[(i + 1) - 1], i + 1)
      BY <1>5, <3>1
    <3>3. run[i + 1] = Step(run[i], i + 1)
      BY <3>1, <3>2
    <3>4. SwallowRun(seg, q, run[i + 1], i + 1)
      BY <2>2, <3>1, <3>3, SwallowStep
    <3> QED BY <3>1, <3>4
  <2> HIDE DEF T
  <2>3. \A i \in 0..l : i \in T
    BY <1>1, <2>1, <2>2, BoundedInduction
  <2> QED BY <2>3 DEF T
<1> QED BY <1>1, <1>6, <1>7

HasFin(q) == \E i \in 1..Len(q) : q[i].fin

\* A segment that takes a FIN over from the queue ends where the stream ends,
\* and swallows the whole queue.
LEMMA TakesFin ==
  ASSUME NEW q, NEW lo, NEW hi, QueueOk(q, lo, hi),
         NEW seg, IsSlice(seg), NEW r, SwallowRun(seg, q, r, Len(q)), r.fin
  PROVE  Last(seg) = N + 1 /\ r.n = Len(q)
<1>1. /\ Len(q) \in Nat /\ r.n \in 0..Len(q) /\ N \in Nat
      /\ \A i \in 1..Len(q) : IsSlice(q[i])
  BY StreamFits DEF QueueOk, Queued, SwallowRun
<1>2. PICK i \in 1..r.n : q[i].fin
  BY DEF SwallowRun
<1>3. i \in 1..Len(q)
  BY <1>1
<1>4. Last(q[i]) = N + 1 /\ Last(seg) \in Nat /\ Last(seg) <= N + 1
  BY <1>1, <1>2, <1>3, SliceIs
<1>5. Last(q[i]) <= Last(seg)
  BY <1>2 DEF SwallowRun
<1>6. r.n = Len(q)
  <2> SUFFICES ASSUME r.n # Len(q) PROVE FALSE
    OBVIOUS
  <2>1. i < r.n + 1 /\ r.n + 1 \in 1..Len(q)
    BY <1>1, <1>2
  <2>2. Before(q[i], q[r.n + 1])
    BY <1>3, <2>1 DEF QueueOk
  <2> QED BY <1>2, <2>2 DEF Before
<1> QED BY <1>1, <1>4, <1>5, <1>6

\* A segment put before a queue.
LEMMA PutBefore ==
  ASSUME NEW q, NEW lo, NEW hi, QueueOk(q, lo, hi), NEW s, Queued(s, lo, hi),
         q # << >> => Before(s, q[1])
  PROVE  /\ QueueOk(<<s>> \o q, lo, hi)
         /\ HasFin(<<s>> \o q) => s.fin \/ HasFin(q)
         /\ \A i \in 1..Len(<<s>> \o q) : Pos(s) <= Pos((<<s>> \o q)[i])
<1> DEFINE r == <<s>> \o q
<1>1. /\ q \in Seq(Segments) /\ Len(q) \in Nat
      /\ \A i \in 1..Len(q) : IsSlice(q[i])
      /\ IsSlice(s) /\ s \in Segments /\ <<s>> \in Seq(Segments)
      /\ Len(<<s>>) = 1 /\ <<s>>[1] = s
  BY SliceIs DEF QueueOk, Queued
<1>2. /\ Len(r) = 1 + Len(q)
      /\ \A i \in 1..(1 + Len(q)) : r[i] = IF i <= 1 THEN <<s>>[i] ELSE q[i - 1]
  BY <1>1, ConcatProperties
<1>3. ASSUME NEW j \in 1..Len(q) PROVE Before(s, q[j])
  <2>1. q # << >> /\ 1 \in 1..Len(q)
    BY <1>1
  <2>2. CASE j = 1
    BY <2>1, <2>2
  <2>3. CASE j # 1
    <3>1. Before(s, q[1]) /\ Before(q[1], q[j])
      BY <1>1, <2>1, <2>3 DEF QueueOk
    <3>2. /\ Last(s) \in Nat /\ Pos(q[1]) \in Nat /\ Last(q[1]) \in Nat
          /\ Pos(q[j]) \in Nat /\ Len(q[1].data) \in Nat
      BY <1>1, <2>1, SliceIs
    <3> QED BY <3>1, <3>2 DEF Before, Last
  <2> QED BY <2>2, <2>3
<1>4. \A i \in 1..Len(<<s>>), j \in 1..Len(q) : Before(<<s>>[i], q[j])
  BY <1>1, <1>3
<1>5. QueueOk(r, lo, hi)
  BY <1>4, SingleOk, ConcatOk
<1> HIDE DEF r
<1>6. ASSUME NEW i \in 1..Len(r), i # 1 PROVE i - 1 \in 1..Len(q) /\ r[i] = q[i - 1]
  BY <1>1, <1>2, <1>6
<1>7. r[1] = s
  BY <1>1, <1>2
<1>8. HasFin(r) => s.fin \/ HasFin(q)
  BY <1>6, <1>7 DEF HasFin
<1>9. ASSUME NEW i \in 1..Len(r) PROVE Pos(s) <= Pos(r[i])
  <2>0. Pos(s) \in Nat /\ Len(s.data) \in Nat /\ Last(s) \in Nat
    BY <1>1, SliceIs
  <2>1. CASE i = 1
    BY <1>7, <2>0, <2>1
  <2>2. CASE i # 1
    <3>1. Before(s, q[i - 1]) /\ r[i] = q[i - 1] /\ Pos(q[i - 1]) \in Nat
      BY <1>1, <1>3, <1>6, <2>2, SliceIs
    <3> QED BY <2>0, <3>1 DEF Before, Last
  <2> QED BY <2>1, <2>2
<1> QED BY <1>5, <1>8, <1>9 DEF r

\* tcp_oos_insert_segment(), before segments that start no earlier.
LEMMA InsertOk ==
  ASSUME NEW q, NEW lo, NEW hi \in Int, QueueOk(q, lo, hi),
         NEW seg, Queued(seg, lo, hi),
         \A i \in 1..Len(q) : Pos(seg) <= Pos(q[i]),
         q # << >> /\ Pos(q[1]) = Pos(seg) => Len(q[1].data) < Len(seg.data)
  PROVE  LET r == tcp_oos_insert_segment(seg, q)
         IN  /\ QueueOk(r, lo, hi)
             /\ HasFin(r) => seg.fin \/ HasFin(q)
             /\ \A i \in 1..Len(r) : Pos(seg) <= Pos(r[i])
<1> DEFINE s == Swallow(seg, q, FALSE)
           cseg == [seg EXCEPT !.fin = s.fin]
           rest == Rest(q, s.n)
           r == tcp_oos_insert_segment(seg, q)
<1>1. /\ IsSlice(seg) /\ Pos(seg) \in Nat /\ Len(seg.data) \in Nat
      /\ Last(seg) = Pos(seg) + Len(seg.data)
      /\ Len(q) \in Nat /\ \A i \in 1..Len(q) : IsSlice(q[i])
      /\ \A i \in 1..Len(q) : Pos(q[i]) \in Nat /\ Len(q[i].data) \in Nat
                              /\ Last(q[i]) = Pos(q[i]) + Len(q[i].data)
  BY SliceIs DEF QueueOk, Queued, Last
<1>2. CASE seg.fin
  <2>1. r = <<seg>>
    BY <1>2 DEF tcp_oos_insert_segment
  <2>2. QueueOk(<<seg>>, lo, hi) /\ Len(<<seg>>) = 1 /\ <<seg>>[1] = seg
    BY SingleOk
  <2>3. \A i \in 1..Len(<<seg>>) : Pos(seg) <= Pos(<<seg>>[i])
    BY <1>1, <2>2
  <2> QED BY <1>2, <2>1, <2>2, <2>3
<1>3. CASE ~seg.fin
  <2>1. SwallowRun(seg, q, s, Len(q))
    BY <1>1, <1>3, SwallowFacts
  <2> HIDE DEF s
  <2>2. s.n \in 0..Len(q) /\ s.fin \in BOOLEAN /\ s.n \in Nat
    BY <1>1, <2>1 DEF SwallowRun
  <2>3. s.fin => Last(seg) = N + 1 /\ s.n = Len(q)
    BY <1>1, <2>1, TakesFin
  <2>4. /\ IsSlice(cseg) /\ Pos(cseg) = Pos(seg)
        /\ Len(cseg.data) = Len(seg.data) /\ Last(cseg) = Last(seg)
        /\ cseg.fin = s.fin
    BY <1>1, <2>2, <2>3, FinSlice
  <2>5. Queued(cseg, lo, hi)
    BY <1>3, <2>4 DEF Queued
  <2>6. /\ QueueOk(rest, lo, hi) /\ Len(rest) = Len(q) - s.n
        /\ \A j \in 1..(Len(q) - s.n) : rest[j] = q[s.n + j]
        /\ rest = << >> <=> s.n = Len(q)
    <3>1. \A i \in 1..Len(q) : lo < Pos(q[i])
      BY DEF QueueOk, Queued
    <3>2. q \in Seq(Segments)
      BY DEF QueueOk
    <3>3. QueueOk(rest, lo, hi)
      BY <2>2, <3>1, RestOk
    <3>4. /\ Len(rest) = Len(q) - s.n
          /\ \A j \in 1..(Len(q) - s.n) : rest[j] = q[s.n + j]
          /\ rest = << >> <=> s.n = Len(q)
      <4> DEFINE k == s.n
      <4>1. k \in 0..Len(q) /\ rest = Rest(q, k)
        BY <2>2
      <4> HIDE DEF k, rest
      <4>2. /\ Len(rest) = Len(q) - k
            /\ \A j \in 1..(Len(q) - k) : rest[j] = q[k + j]
            /\ rest = << >> <=> k = Len(q)
        BY <3>2, <4>1, RestFacts, ZenonT(40)
      <4> QED BY <4>2 DEF k
    <3> QED BY <3>3, <3>4
  <2>7. HasFin(rest) => HasFin(q)
    <3> SUFFICES ASSUME NEW j \in 1..Len(rest), rest[j].fin PROVE HasFin(q)
      BY DEF HasFin
    <3>0. Len(q) \in Nat /\ Len(rest) = Len(q) - s.n
      BY <1>1, <2>6
    <3>a. s.n + j \in 1..Len(q) /\ j \in 1..(Len(q) - s.n)
      BY <2>2, <3>0
    <3>1. s.n + j \in 1..Len(q) /\ rest[j] = q[s.n + j]
      BY <2>6, <3>a
    <3> QED BY <3>1 DEF HasFin
  <2>8. s.fin => HasFin(q)
    <3> SUFFICES ASSUME s.fin PROVE HasFin(q)
      OBVIOUS
    <3>1. PICK i \in 1..s.n : q[i].fin
      BY <2>1 DEF SwallowRun
    <3>2. i \in 1..Len(q)
      BY <1>1, <2>2
    <3> QED BY <3>1, <3>2 DEF HasFin
  <2> HIDE DEF cseg, rest, r
  <2>9. ASSUME NEW x, Queued(x, lo, hi), rest # << >> => Before(x, rest[1]),
               Pos(x) = Pos(seg), x.fin => s.fin, r = <<x>> \o rest
        PROVE  /\ QueueOk(r, lo, hi)
               /\ HasFin(r) => seg.fin \/ HasFin(q)
               /\ \A i \in 1..Len(r) : Pos(seg) <= Pos(r[i])
    <3>1. /\ QueueOk(<<x>> \o rest, lo, hi)
          /\ HasFin(<<x>> \o rest) => x.fin \/ HasFin(rest)
          /\ \A i \in 1..Len(<<x>> \o rest) : Pos(x) <= Pos((<<x>> \o rest)[i])
      BY <2>6, <2>9, PutBefore
    <3> QED BY <2>7, <2>8, <2>9, <3>1
  <2>10. CASE rest = << >>
    <3>1. r = <<cseg>> \o rest
      BY <1>3, <2>10 DEF tcp_oos_insert_segment, r, cseg, rest, s
    <3> QED BY <2>4, <2>5, <2>9, <2>10, <3>1 DEF r
  <2>11. CASE rest # << >>
    <3>0. Len(q) \in Nat /\ s.n # Len(q)
      BY <1>1, <2>6, <2>11
    <3>a. s.n + 1 \in 1..Len(q) /\ 1 \in 1..(Len(q) - s.n)
      BY <2>2, <3>0
    <3>b. rest[1] = q[s.n + 1]
      BY <2>6, <3>a
    <3>c. s.fin = FALSE
      BY <2>2, <2>3, <3>0
    <3>1. /\ s.n + 1 \in 1..Len(q) /\ rest[1] = q[s.n + 1]
          /\ s.fin = FALSE /\ IsSlice(rest[1]) /\ Pos(rest[1]) \in Nat
      BY <1>1, <3>a, <3>b, <3>c
    <3>2. Last(rest[1]) > Last(seg)
      BY <1>1, <2>1, <2>2, <3>1 DEF SwallowRun
    <3>3. Pos(seg) < Pos(rest[1])
      <4>1. CASE s.n = 0
        <5>1. rest[1] = q[1] /\ q # << >> /\ 1 \in 1..Len(q)
          BY <1>1, <3>1, <4>1
        <5> QED BY <1>1, <3>2, <5>1
      <4>2. CASE s.n # 0
        <5>1. 1 \in 1..Len(q) /\ 1 < s.n + 1
          BY <1>1, <2>2, <3>1, <4>2
        <5>2. Before(q[1], q[s.n + 1]) /\ Queued(q[1], lo, hi)
          BY <3>1, <5>1 DEF QueueOk
        <5>3. Pos(seg) <= Pos(q[1]) /\ Len(q[1].data) > 0
          BY <5>1, <5>2 DEF Before, Queued
        <5> QED BY <1>1, <3>1, <5>1, <5>2, <5>3 DEF Before
      <4> QED BY <4>1, <4>2
    <3>4. /\ TCP_SEQ_GT(End(seg), rest[1].seqno) <=> Last(seg) > Pos(rest[1])
          /\ Minus(rest[1].seqno, seg.seqno) = Pos(rest[1]) - Pos(seg)
      BY <1>1, <3>1, SliceCompare
    <3>5. CASE Last(seg) > Pos(rest[1])
      <4> DEFINE m == Pos(rest[1]) - Pos(seg)
                 x == Shrink(cseg, m)
      <4>1. r = <<x>> \o rest
        BY <1>3, <2>11, <3>4, <3>5 DEF tcp_oos_insert_segment, r, cseg, rest, s
      <4>2. m \in 0..Len(cseg.data) /\ m > 0 /\ m \in Nat
        BY <1>1, <2>4, <3>1, <3>3, <3>5, SMTT(30)
      <4>3. /\ IsSlice(x) /\ Pos(x) = Pos(seg) /\ Len(x.data) = m
            /\ Last(x) = Pos(seg) + m /\ x.fin = FALSE
        <5> HIDE DEF m
        <5> QED BY <2>4, <3>1, <4>2, ShrinkSlice
      <4>4. Last(x) = Pos(rest[1]) /\ Last(x) <= Last(seg)
        BY <1>1, <3>1, <3>5, <4>3
      <4> HIDE DEF x, m
      <4>5. Queued(x, lo, hi)
        <5>1. Last(seg) <= hi /\ lo < Pos(seg)
          BY DEF Queued
        <5>2. Last(x) <= hi
          BY <1>1, <3>1, <4>4, <5>1
        <5> QED BY <4>2, <4>3, <5>1, <5>2 DEF Queued
      <4>6. Before(x, rest[1])
        BY <3>1, <4>3, <4>4 DEF Before
      <4> QED BY <2>9, <4>1, <4>3, <4>5, <4>6 DEF r
    <3>6. CASE ~(Last(seg) > Pos(rest[1]))
      <4>1. r = <<cseg>> \o rest
        BY <1>3, <2>11, <3>4, <3>6 DEF tcp_oos_insert_segment, r, cseg, rest, s
      <4>2. Before(cseg, rest[1])
        BY <1>1, <2>4, <3>1, <3>6 DEF Before
      <4> QED BY <2>4, <2>5, <2>9, <4>1, <4>2 DEF r
    <3> QED BY <3>5, <3>6
  <2> QED BY <2>10, <2>11
<1> QED BY <1>2, <1>3

\* The segments of an ordered queue that start before a position are at its
\* head: the walk of tcp_receive() finds them all.
LEMMA InitialPart ==
  ASSUME NEW l \in Nat, NEW D \in SUBSET (1..l),
         \A i \in D, j \in 1..l : j < i => j \in D
  PROVE  \E k \in 0..l : D = 1..k /\ Cardinality(D) = k
<1> DEFINE T == {n \in 0..l : \E k \in 0..n : D \cap 1..n = 1..k}
<1>1. 0 \in T
  <2>1. D \cap 1..0 = 1..0
    OBVIOUS
  <2> QED BY <2>1
<1>2. ASSUME NEW n \in 0..l, n \in T, n < l PROVE n + 1 \in T
  <2>1. PICK k \in 0..n : D \cap 1..n = 1..k
    BY <1>2
  <2>2. n + 1 \in 1..l /\ n + 1 \in 0..l /\ 1..(n + 1) = 1..n \cup {n + 1}
    BY <1>2
  <2>3. CASE n + 1 \in D
    <3>1. D \cap 1..(n + 1) = 1..(n + 1)
      BY <2>2, <2>3
    <3>2. n + 1 \in 0..(n + 1)
      OBVIOUS
    <3> QED BY <2>2, <3>1, <3>2
  <2>4. CASE n + 1 \notin D
    <3>1. D \cap 1..(n + 1) = 1..k
      BY <2>1, <2>2, <2>4
    <3>2. k \in 0..(n + 1)
      OBVIOUS
    <3> QED BY <2>2, <3>1, <3>2
  <2> QED BY <2>3, <2>4
<1>3. l \in T
  <2> HIDE DEF T
  <2>1. \A n \in 0..l : n \in T
    BY <1>1, <1>2, BoundedInduction
  <2> QED BY <2>1
<1>4. PICK k \in 0..l : D = 1..k
  BY <1>3
<1>5. Cardinality(1..k) = k
  BY FS_Interval
<1> QED BY <1>4, <1>5

\* The segments before the new one end where it starts.
LEMMA CutOk ==
  ASSUME NEW q, NEW lo, NEW hi \in Int, QueueOk(q, lo, hi),
         NEW seg, IsSlice(seg), \A i \in 1..Len(q) : Pos(q[i]) < Pos(seg),
         ~HasFin(q)
  PROVE  LET r == CutLast(q, seg.seqno)
         IN  /\ QueueOk(r, lo, hi) /\ ~HasFin(r)
             /\ \A i \in 1..Len(r) : Last(r[i]) <= Pos(seg)
<1> DEFINE r == CutLast(q, seg.seqno)
           l == Len(q)
<1>1. /\ q \in Seq(Segments) /\ l \in Nat /\ DOMAIN q = 1..l
      /\ \A i \in 1..l : IsSlice(q[i]) /\ ~q[i].fin
      /\ Pos(seg) \in Nat
  BY SliceIs DEF QueueOk, Queued, HasFin
<1>2. ASSUME NEW i \in 1..l
      PROVE  /\ Pos(q[i]) \in Nat /\ Len(q[i].data) \in Nat
             /\ Last(q[i]) = Pos(q[i]) + Len(q[i].data)
             /\ Len(q[i].data) > 0 /\ Last(q[i]) <= hi /\ lo < Pos(q[i])
  BY <1>1, SliceIs DEF QueueOk, Queued, Last
<1> DEFINE x(i) == IF i = l /\ TCP_SEQ_GT(End(q[i]), seg.seqno)
                   THEN Shrink(q[i], Minus(seg.seqno, q[i].seqno)) ELSE q[i]
<1>3. ASSUME NEW i \in 1..l
      PROVE  /\ IsSlice(x(i)) /\ Pos(x(i)) = Pos(q[i]) /\ ~x(i).fin
             /\ Last(x(i)) <= Last(q[i]) /\ Last(x(i)) <= Pos(seg)
             /\ Len(x(i).data) > 0
  <2>1. /\ TCP_SEQ_GT(End(q[i]), seg.seqno) <=> Last(q[i]) > Pos(seg)
        /\ Minus(seg.seqno, q[i].seqno) = Pos(seg) - Pos(q[i])
    BY <1>1, SliceCompare
  <2>2. CASE i = l /\ Last(q[i]) > Pos(seg)
    <3> DEFINE m == Pos(seg) - Pos(q[i])
    <3>1. x(i) = Shrink(q[i], m)
      BY <2>1, <2>2
    <3>2. m \in 0..Len(q[i].data) /\ m > 0 /\ m \in Nat
      BY <1>1, <1>2, <2>2
    <3> HIDE DEF m
    <3>3. /\ IsSlice(Shrink(q[i], m)) /\ Pos(Shrink(q[i], m)) = Pos(q[i])
          /\ Len(Shrink(q[i], m).data) = m
          /\ Last(Shrink(q[i], m)) = Pos(q[i]) + m
          /\ Shrink(q[i], m).fin = FALSE
      <4>1. IsSlice(q[i]) /\ ~q[i].fin
        BY <1>1
      <4> QED BY <3>2, <4>1, ShrinkSlice
    <3>4. Pos(q[i]) + m = Pos(seg)
      BY <1>1, <1>2 DEF m
    <3>5. Last(q[i]) \in Nat /\ Pos(seg) \in Nat
      BY <1>1, <1>2, SMTT(30)
    <3> HIDE DEF x
    <3> QED BY <2>2, <3>1, <3>2, <3>3, <3>4, <3>5
  <2>3. CASE i = l /\ ~(Last(q[i]) > Pos(seg))
    <3>1. x(i) = q[i]
      BY <2>1, <2>3
    <3> QED BY <1>1, <1>2, <2>3, <3>1
  <2>4. CASE i # l
    <3>0. x(i) = q[i]
      BY <2>4, Zenon
    <3>a. i < l /\ l \in 1..l
      <4>1. l \in Nat
        BY <1>1
      <4> QED BY <2>4, <4>1
    <3>1. x(i) = q[i] /\ i < l /\ l \in 1..l
      BY <3>0, <3>a
    <3>2. Before(q[i], q[l]) /\ Pos(q[l]) < Pos(seg)
      BY <3>1 DEF QueueOk
    <3>3. Last(q[i]) <= Pos(seg)
      <4>1. Last(q[i]) \in Nat /\ Pos(q[l]) \in Nat /\ Pos(seg) \in Nat
        BY <1>1, <1>2, <3>a
      <4> QED BY <3>2, <4>1 DEF Before
    <3> HIDE DEF x
    <3>4. IsSlice(q[i]) /\ ~q[i].fin /\ Last(q[i]) \in Nat /\ Len(q[i].data) > 0
      BY <1>1, <1>2
    <3> QED BY <3>0, <3>3, <3>4
  <2> QED BY <2>2, <2>3, <2>4
<1>4. r = [i \in 1..l |-> x(i)]
  BY <1>1 DEF CutLast
<1> HIDE DEF x
<1>5. \A i \in 1..l : x(i) \in Segments /\ Last(x(i)) \in Nat
  BY <1>3, SliceIs
<1>6. r \in Seq(Segments) /\ Len(r) = l /\ \A i \in 1..l : r[i] = x(i)
  BY <1>1, <1>4, <1>5
<1> HIDE DEF r
<1>7. \A i \in 1..Len(r) : Queued(r[i], lo, hi)
  BY <1>2, <1>3, <1>5, <1>6, SMTT(30) DEF Queued
<1>8. ASSUME NEW i \in 1..Len(r), NEW j \in 1..Len(r), i < j
      PROVE  Before(r[i], r[j])
  <2>1. i \in 1..l /\ j \in 1..l /\ r[i] = x(i) /\ r[j] = x(j)
    BY <1>6
  <2>2. Before(q[i], q[j])
    BY <1>8, <2>1 DEF QueueOk
  <2>4. Last(x(i)) <= Last(q[i]) /\ ~x(i).fin /\ Pos(x(j)) = Pos(q[j])
    BY <1>3, <2>1
  <2>5. Last(x(i)) \in Nat
    BY <1>5, <2>1
  <2>6. Last(q[i]) \in Nat /\ Pos(q[j]) \in Nat
    BY <1>2, <2>1, SMTT(30)
  <2>3. /\ Last(x(i)) <= Last(q[i]) /\ ~x(i).fin /\ Pos(x(j)) = Pos(q[j])
        /\ Last(x(i)) \in Nat /\ Last(q[i]) \in Nat /\ Pos(q[j]) \in Nat
    BY <2>4, <2>5, <2>6
  <2> QED BY <2>1, <2>2, <2>3 DEF Before
<1>9. QueueOk(r, lo, hi)
  BY <1>6, <1>7, <1>8 DEF QueueOk
<1>10. ~HasFin(r)
  BY <1>3, <1>6 DEF HasFin
<1>11. \A i \in 1..Len(r) : Last(r[i]) <= Pos(seg)
  BY <1>3, <1>6
<1> QED BY <1>9, <1>10, <1>11 DEF r

LEMMA ConcatHasFin ==
  ASSUME NEW p \in Seq(Segments), NEW q \in Seq(Segments)
  PROVE  HasFin(p \o q) => HasFin(p) \/ HasFin(q)
<1>1. Len(p) \in Nat /\ Len(q) \in Nat
  OBVIOUS
<1>2. /\ Len(p \o q) = Len(p) + Len(q)
      /\ \A i \in 1..(Len(p) + Len(q)) :
           (p \o q)[i] = IF i <= Len(p) THEN p[i] ELSE q[i - Len(p)]
  BY ConcatProperties
<1> SUFFICES ASSUME NEW i \in 1..(Len(p) + Len(q)), (p \o q)[i].fin
             PROVE  HasFin(p) \/ HasFin(q)
  BY <1>2 DEF HasFin
<1>3. CASE i <= Len(p)
  <2>1. i \in 1..Len(p) /\ (p \o q)[i] = p[i]
    BY <1>1, <1>2, <1>3
  <2> QED BY <2>1 DEF HasFin
<1>4. CASE ~(i <= Len(p))
  <2>1. i - Len(p) \in 1..Len(q) /\ (p \o q)[i] = q[i - Len(p)]
    BY <1>1, <1>2, <1>4
  <2> QED BY <2>1 DEF HasFin
<1> QED BY <1>3, <1>4

\* The walk through the queue leaves it ordered.
LEMMA PlaceOk ==
  ASSUME NEW lo, NEW hi \in Int, QueueOk(ooseq, lo, hi),
         NEW seg, Queued(seg, lo, hi)
  PROVE  /\ QueueOk(OosPlace(seg), lo, hi)
         /\ HasFin(OosPlace(seg)) => seg.fin \/ HasFin(ooseq)
<1> DEFINE q == ooseq
           l == Len(q)
           before == {i \in DOMAIN q : TCP_SEQ_LT(q[i].seqno, seg.seqno)}
           D == {i \in 1..l : Pos(q[i]) < Pos(seg)}
<1>1. /\ q \in Seq(Segments) /\ l \in Nat /\ DOMAIN q = 1..l
      /\ \A i \in 1..l : IsSlice(q[i]) /\ Pos(q[i]) \in Nat /\ Last(q[i]) \in Nat
                         /\ Pos(q[i]) <= Last(q[i]) /\ q[i].fin \in BOOLEAN
      /\ IsSlice(seg) /\ Pos(seg) \in Nat
  <2>1. ASSUME NEW i \in 1..l
        PROVE  /\ IsSlice(q[i]) /\ Pos(q[i]) \in Nat /\ Last(q[i]) \in Nat
               /\ Pos(q[i]) <= Last(q[i]) /\ q[i].fin \in BOOLEAN
    <3>1. IsSlice(q[i])
      BY DEF QueueOk, Queued
    <3>2. Pos(q[i]) \in Nat /\ Len(q[i].data) \in Nat /\ q[i].fin \in BOOLEAN
      BY <3>1, SliceIs
    <3> QED BY <3>1, <3>2 DEF Last
  <2>2. IsSlice(seg) /\ Pos(seg) \in Nat
    BY SliceIs DEF Queued
  <2>3. q \in Seq(Segments) /\ l \in Nat /\ DOMAIN q = 1..l
    BY DEF QueueOk
  <2> QED BY <2>1, <2>2, <2>3
<1>2. before = D
  <2>1. ASSUME NEW i \in 1..l
        PROVE  TCP_SEQ_LT(q[i].seqno, seg.seqno) <=> Pos(q[i]) < Pos(seg)
    BY <1>1, SliceCompare
  <2> QED BY <1>1, <2>1
<1>3. PICK k \in 0..l : D = 1..k /\ Cardinality(D) = k
  <2>1. D \in SUBSET (1..l)
    OBVIOUS
  <2>2. ASSUME NEW i \in D, NEW j \in 1..l, j < i PROVE j \in D
    <3>1. Before(q[j], q[i]) /\ i \in 1..l /\ Pos(q[i]) < Pos(seg)
      BY <2>2 DEF QueueOk
    <3>2. Pos(q[j]) < Pos(seg)
      BY <1>1, <3>1 DEF Before
    <3> QED BY <3>2
  <2> HIDE DEF D
  <2> QED BY <1>1, <2>1, <2>2, InitialPart
<1> DEFINE front == SubSeq(q, 1, k)
           back == Rest(q, k)
<1>4. /\ k \in Nat
      /\ \A i \in 1..k : i \in 1..l /\ Pos(q[i]) < Pos(seg)
      /\ \A i \in 1..l : i > k => Pos(seg) <= Pos(q[i])
  <2>1. k \in Nat
    BY <1>1
  <2>2. \A i \in 1..k : i \in 1..l /\ Pos(q[i]) < Pos(seg)
    BY <1>3
  <2>3. ASSUME NEW i \in 1..l, i > k PROVE Pos(seg) <= Pos(q[i])
    <3>1. i \notin 1..k
      BY <2>1, <2>3
    <3>2. ~(Pos(q[i]) < Pos(seg))
      BY <1>3, <3>1
    <3> QED BY <1>1, <3>2
  <2> QED BY <2>1, <2>2, <2>3
<1>5. OosPlace(seg) =
        IF \/ /\ back # << >> /\ back[1].seqno = seg.seqno
              /\ Len(seg.data) <= Len(back[1].data)
           \/ back = << >> /\ front # << >> /\ front[Len(front)].fin
        THEN q
        ELSE CutLast(front, seg.seqno) \o tcp_oos_insert_segment(seg, back)
  BY <1>2, <1>3, Zenon DEF OosPlace
<1>6. /\ front \in Seq(Segments) /\ Len(front) = k
      /\ \A j \in 1..k : front[j] = q[j]
  BY <1>1, FrontFacts
<1>7. /\ back \in Seq(Segments) /\ Len(back) = l - k
      /\ \A j \in 1..(l - k) : back[j] = q[k + j]
      /\ back = << >> <=> k = l
  BY <1>1, RestFacts
<1>8. QueueOk(front, lo, hi)
  BY <1>1, FrontOk
<1>9. QueueOk(back, lo, hi)
  <2>1. \A i \in 1..Len(q) : lo < Pos(q[i])
    BY DEF QueueOk, Queued
  <2> QED BY <2>1, RestOk
<1> HIDE DEF front, back, before, D
<1>10. CASE \/ /\ back # << >> /\ back[1].seqno = seg.seqno
               /\ Len(seg.data) <= Len(back[1].data)
            \/ back = << >> /\ front # << >> /\ front[Len(front)].fin
  BY <1>5, <1>10
<1>11. CASE ~ \/ /\ back # << >> /\ back[1].seqno = seg.seqno
                 /\ Len(seg.data) <= Len(back[1].data)
              \/ back = << >> /\ front # << >> /\ front[Len(front)].fin
  <2> DEFINE c == CutLast(front, seg.seqno)
             t == tcp_oos_insert_segment(seg, back)
  <2>1. OosPlace(seg) = c \o t
    BY <1>5, <1>11
  <2>2. \A i \in 1..Len(front) : Pos(front[i]) < Pos(seg)
    BY <1>4, <1>6
  <2>3. ~HasFin(front)
    <3> SUFFICES ASSUME NEW i \in 1..k, front[i].fin PROVE FALSE
      BY <1>6 DEF HasFin
    <3>1. q[i].fin /\ i \in 1..l
      BY <1>4, <1>6
    <3>2. i = l
      <4> SUFFICES ASSUME i # l PROVE FALSE
        OBVIOUS
      <4>0. l \in Nat
        BY <1>1
      <4>1. l \in 1..l /\ i < l
        BY <3>1, <4>0
      <4> QED BY <3>1, <4>1 DEF QueueOk, Before
    <3>3. k = l
      <4>1. l \in Nat /\ k \in Nat
        BY <1>1, <1>4
      <4> QED BY <3>2, <4>1
    <3>4. front # << >>
      BY <1>4, <1>6, EmptySeq
    <3> QED BY <1>6, <1>7, <1>11, <3>2, <3>3, <3>4
  <2>4. /\ QueueOk(c, lo, hi) /\ ~HasFin(c)
        /\ \A i \in 1..Len(c) : Last(c[i]) <= Pos(seg)
    BY <1>1, <1>8, <2>2, <2>3, CutOk
  <2>5. \A i \in 1..Len(back) : Pos(seg) <= Pos(back[i])
    <3> SUFFICES ASSUME NEW i \in 1..(l - k) PROVE Pos(seg) <= Pos(back[i])
      BY <1>7
    <3>1. k + i \in 1..l /\ k + i > k
      BY <1>1, <1>4
    <3> QED BY <1>4, <1>7, <3>1
  <2>6. back # << >> /\ Pos(back[1]) = Pos(seg)
          => Len(back[1].data) < Len(seg.data)
    <3> SUFFICES ASSUME back # << >>, Pos(back[1]) = Pos(seg)
                 PROVE  Len(back[1].data) < Len(seg.data)
      OBVIOUS
    <3>1. 1 \in 1..Len(back)
      BY <1>7, EmptySeq
    <3>2. IsSlice(back[1])
      BY <1>9, <3>1 DEF QueueOk, Queued
    <3>3. back[1].seqno = seg.seqno
      BY <1>1, <3>2, SliceCompare
    <3>4. Len(back[1].data) \in Nat /\ Len(seg.data) \in Nat
      BY <1>1, <3>2, SliceIs
    <3> QED BY <1>11, <3>3, <3>4
  <2>7. /\ QueueOk(t, lo, hi) /\ (HasFin(t) => seg.fin \/ HasFin(back))
        /\ \A i \in 1..Len(t) : Pos(seg) <= Pos(t[i])
    BY <1>9, <2>5, <2>6, InsertOk
  <2> HIDE DEF c, t
  <2>8. ASSUME NEW i \in 1..Len(c), NEW j \in 1..Len(t) PROVE Before(c[i], t[j])
    <3>1. IsSlice(c[i]) /\ IsSlice(t[j]) /\ ~c[i].fin
      BY <2>4, <2>7 DEF QueueOk, Queued, HasFin
    <3>2. Last(c[i]) \in Nat /\ Pos(t[j]) \in Nat
      BY <3>1, SliceIs
    <3>3. Last(c[i]) <= Pos(seg) /\ Pos(seg) <= Pos(t[j]) /\ Pos(seg) \in Nat
      BY <1>1, <2>4, <2>7
    <3> QED BY <3>1, <3>2, <3>3 DEF Before
  <2>9. QueueOk(c \o t, lo, hi)
    BY <2>4, <2>7, <2>8, ConcatOk
  <2>10. HasFin(back) => HasFin(q)
    <3> SUFFICES ASSUME NEW i \in 1..(l - k), back[i].fin PROVE HasFin(q)
      BY <1>7 DEF HasFin
    <3>0. l \in Nat /\ k \in Nat
      BY <1>1, <1>4
    <3>1. k + i \in 1..l /\ back[i] = q[k + i]
      BY <1>7, <3>0
    <3> QED BY <3>1 DEF HasFin
  <2>11. HasFin(c \o t) => HasFin(c) \/ HasFin(t)
    BY <2>4, <2>7, ConcatHasFin DEF QueueOk
  <2> QED BY <2>1, <2>4, <2>7, <2>9, <2>10, <2>11
<1> QED BY <1>10, <1>11

-----------------------------------------------------------------------------
(* tcp_receive(), for the segment that comes next.                         *)

\* The in-sequence segment and the queue, after they were trimmed against each
\* other: the queue starts behind the segment.
Trimmed(seg, q, lo, hi) ==
  /\ IsSlice(seg) /\ Pos(seg) = lo
  /\ QueueOk(q, lo, hi)
  /\ \A i \in 1..Len(q) : Last(seg) <= Pos(q[i])
  /\ seg.fin => Len(q) = 0

\* The length of a slice in the sequence space.
LEMMA SliceLen ==
  ASSUME NEW s, IsSlice(s)
  PROVE  /\ TCP_TCPLEN(s) = Len(s.data) + FinLen(s.fin) /\ TCP_TCPLEN(s) \in Nat
         /\ FinLen(s.fin) \in {0, 1}
         /\ Plus(s.seqno, TCP_TCPLEN(s)) = At(Last(s) + FinLen(s.fin))
         /\ Last(s) + FinLen(s.fin) \in Positions
<1>1. /\ Pos(s) \in Nat /\ Len(s.data) \in Nat /\ Last(s) \in Nat
      /\ Last(s) = Pos(s) + Len(s.data) /\ s.seqno = At(Pos(s))
      /\ Last(s) <= N + 1
  BY SliceIs DEF Last
<1>2. FinLen(s.fin) \in {0, 1}
  BY DEF FinLen
<1>3. TCP_TCPLEN(s) = Len(s.data) + FinLen(s.fin) /\ TCP_TCPLEN(s) \in Nat
  BY <1>1, <1>2 DEF TCP_TCPLEN
<1>4. Plus(At(Pos(s)), TCP_TCPLEN(s)) = At(Pos(s) + TCP_TCPLEN(s))
  BY <1>1, <1>3, PlusAt
<1>5. Pos(s) + TCP_TCPLEN(s) = Last(s) + FinLen(s.fin)
  BY <1>1, <1>2, <1>3
<1>6. Last(s) + FinLen(s.fin) \in Positions
  BY <1>1, <1>2, StreamFits DEF Positions
<1> QED BY <1>1, <1>2, <1>3, <1>4, <1>5, <1>6

\* The trimming of the segment and the queue.  That the place of the cut is
\* taken from the first segment of the queue even when it was just freed loses
\* nothing but bytes that will come again.
LEMMA OoseqTrimOk ==
  ASSUME NEW lo \in Nat, NEW hi \in Int, QueueOk(ooseq, lo, hi),
         NEW seg, IsSlice(seg), Pos(seg) = lo, Len(seg.data) > 0 \/ seg.fin
  PROVE  LET t == OoseqTrim(seg)
         IN  /\ Trimmed(t.seg, t.ooseq, lo, hi)
             /\ Last(t.seg) <= Last(seg)
             /\ t.seg.fin => seg.fin \/ HasFin(ooseq)
             /\ HasFin(t.ooseq) => HasFin(ooseq)
             /\ TCP_TCPLEN(t.seg) > 0
<1> DEFINE q == ooseq
           s == Swallow(seg, q, TRUE)
           rest == Rest(q, s.n)
           took == [seg EXCEPT !.fin = s.fin]
           t == OoseqTrim(seg)
<1>1. /\ Len(seg.data) \in Nat /\ Last(seg) = lo + Len(seg.data)
      /\ q \in Seq(Segments) /\ Len(q) \in Nat /\ seg.fin \in BOOLEAN
  BY SliceIs DEF QueueOk, Last
<1>2. CASE seg.fin
  <2>1. t.seg = seg /\ t.ooseq = << >>
    BY <1>2 DEF OoseqTrim
  <2>2. QueueOk(<< >>, lo, hi) /\ Len(<< >>) = 0
    BY EmptyOk, EmptySeq
  <2>3. Trimmed(seg, << >>, lo, hi)
    BY <2>2 DEF Trimmed
  <2>4. TCP_TCPLEN(seg) > 0
    BY <1>1, <1>2 DEF TCP_TCPLEN, FinLen
  <2> HIDE DEF t
  <2> QED BY <1>1, <1>2, <2>1, <2>2, <2>3, <2>4 DEF HasFin, t
<1>3. CASE ~seg.fin
  <2>1. SwallowRun(seg, q, s, Len(q))
    BY <1>3, SwallowFacts
  <2> HIDE DEF s
  <2>2. s.n \in 0..Len(q) /\ s.fin \in BOOLEAN /\ s.n \in Nat
    BY <1>1, <2>1 DEF SwallowRun
  <2>3. s.fin => Last(seg) = N + 1 /\ s.n = Len(q)
    BY <2>1, TakesFin
  <2>4. /\ IsSlice(took) /\ Pos(took) = lo /\ took.seqno = seg.seqno
        /\ Len(took.data) = Len(seg.data) /\ Last(took) = Last(seg)
        /\ took.fin = s.fin
    <3>1. seg \in Segments
      BY SliceIs
    <3>2. took.seqno = seg.seqno
      BY <3>1 DEF Segments
    <3> QED BY <2>2, <2>3, <3>2, FinSlice
  <2>5. QueueOk(rest, lo, hi)
    <3>1. \A i \in 1..Len(q) : lo < Pos(q[i])
      BY DEF QueueOk, Queued
    <3> QED BY <2>2, <3>1, RestOk
  <2>6. /\ Len(rest) = Len(q) - s.n
        /\ \A j \in 1..(Len(q) - s.n) : rest[j] = q[s.n + j]
        /\ rest = << >> <=> s.n = Len(q)
    <3> DEFINE n == s.n
    <3>1. q \in Seq(Segments) /\ n \in 0..Len(q)
      BY <1>1, <2>2
    <3> HIDE DEF n, q
    <3>2. /\ Len(Rest(q, n)) = Len(q) - n
          /\ \A j \in 1..(Len(q) - n) : Rest(q, n)[j] = q[n + j]
          /\ Rest(q, n) = << >> <=> n = Len(q)
      BY <3>1, RestFacts
    <3> QED BY <3>2 DEF n, q
  <2>7. HasFin(rest) => HasFin(q)
    <3> SUFFICES ASSUME NEW j \in 1..(Len(q) - s.n), rest[j].fin PROVE HasFin(q)
      BY <2>6 DEF HasFin
    <3>1. s.n + j \in 1..Len(q)
      BY <1>1, <2>2
    <3>2. rest[j] = q[s.n + j]
      BY <2>6
    <3> QED BY <3>1, <3>2 DEF HasFin
  <2>8. s.fin => HasFin(q)
    <3> SUFFICES ASSUME s.fin PROVE HasFin(q)
      OBVIOUS
    <3>1. PICK i \in 1..s.n : q[i].fin
      BY <2>1 DEF SwallowRun
    <3>2. i \in 1..Len(q)
      BY <1>1, <2>2
    <3> QED BY <3>1, <3>2 DEF HasFin
  <2> DEFINE cut == /\ rest # << >>
                    /\ TCP_SEQ_GT(Plus(took.seqno, TCP_TCPLEN(took)),
                                  rest[1].seqno)
             short == Shrink(took, Minus(q[1].seqno, took.seqno))
  <2>9. t = IF cut THEN [seg |-> short, ooseq |-> rest]
                   ELSE [seg |-> took, ooseq |-> rest]
    BY <1>3, Zenon DEF OoseqTrim, t, cut, short, s, rest, took
  <2> HIDE DEF t, rest, took
  <2>10. CASE rest = << >>
    <3>1. t.seg = took /\ t.ooseq = << >>
      BY <2>9, <2>10
    <3>2. Len(<< >>) = 0 /\ QueueOk(<< >>, lo, hi)
      BY EmptyOk, EmptySeq
    <3>3. Trimmed(took, << >>, lo, hi)
      BY <2>4, <3>2 DEF Trimmed
    <3>4. TCP_TCPLEN(took) > 0
      <4>1. Len(took.data) > 0 /\ Len(took.data) \in Nat
        BY <1>1, <1>3, <2>4
      <4>2. TCP_TCPLEN(took) = Len(took.data) + FinLen(took.fin)
            /\ FinLen(took.fin) \in {0, 1}
        BY <2>4, SliceLen
      <4> QED BY <4>1, <4>2
    <3>5. ~HasFin(<< >>)
      BY <3>2 DEF HasFin
    <3>6. Last(took) <= Last(seg)
      BY <1>1, <2>4
    <3> QED BY <2>4, <2>8, <3>1, <3>3, <3>4, <3>5, <3>6 DEF t
  <2>11. CASE rest # << >>
    <3>1. s.n + 1 \in 1..Len(q) /\ 1 \in 1..(Len(q) - s.n) /\ 1 \in 1..Len(q)
      BY <1>1, <2>2, <2>6, <2>11
    <3>2. s.fin = FALSE
      BY <2>2, <2>3, <2>6, <2>11
    <3>3. rest[1] = q[s.n + 1]
      BY <2>6, <3>1
    <3>4. /\ IsSlice(rest[1]) /\ Pos(rest[1]) \in Nat
          /\ IsSlice(q[1]) /\ Pos(q[1]) \in Nat /\ lo < Pos(q[1])
      <4>1. Queued(rest[1], lo, hi) /\ Queued(q[1], lo, hi)
        BY <3>1, <3>3 DEF QueueOk
      <4> QED BY <4>1, SliceIs DEF Queued
    <3>5. Pos(q[1]) <= Pos(rest[1])
      <4>1. CASE s.n = 0
        <5>1. rest[1] = q[1]
          BY <3>3, <4>1
        <5> QED BY <3>4, <5>1
      <4>2. CASE s.n # 0
        <5>1. 1 < s.n + 1
          BY <2>2, <4>2
        <5>2. Before(q[1], q[s.n + 1])
          BY <3>1, <5>1 DEF QueueOk
        <5>3. Last(q[1]) = Pos(q[1]) + Len(q[1].data) /\ Len(q[1].data) \in Nat
          BY <3>4, SliceIs DEF Last
        <5> QED BY <3>3, <3>4, <5>2, <5>3 DEF Before
      <4> QED BY <4>1, <4>2
    <3>6. ASSUME NEW i \in 1..Len(rest) PROVE Pos(rest[1]) <= Pos(rest[i])
      <4>1. CASE i = 1
        BY <3>4, <4>1
      <4>2. CASE i # 1
        <5>0. Len(rest) \in Nat
          BY <1>1, <2>2, <2>6
        <5>1. 1 \in 1..Len(rest) /\ 1 < i
          BY <4>2, <5>0
        <5>2. Before(rest[1], rest[i]) /\ IsSlice(rest[i])
          BY <2>5, <5>1 DEF QueueOk, Queued
        <5>3. /\ Last(rest[1]) = Pos(rest[1]) + Len(rest[1].data)
              /\ Len(rest[1].data) \in Nat /\ Pos(rest[i]) \in Nat
          BY <3>4, <5>2, SliceIs DEF Last
        <5> QED BY <3>4, <5>2, <5>3 DEF Before
      <4> QED BY <4>1, <4>2
    <3>7. \A i \in 1..Len(rest) : Pos(rest[i]) \in Nat
      BY <2>5, SliceIs DEF QueueOk, Queued
    <3>8. cut <=> Last(seg) > Pos(rest[1])
      <4>1. Plus(took.seqno, TCP_TCPLEN(took)) = At(Last(took) + FinLen(took.fin))
        BY <2>4, SliceLen
      <4>2. FinLen(took.fin) = 0 /\ Last(took) \in Nat
        BY <2>4, <3>2, SliceIs DEF FinLen
      <4>3. Last(took) + FinLen(took.fin) = Last(took) /\ End(took) = At(Last(took))
        BY <2>4, <4>2, SliceIs
      <4>4. TCP_SEQ_GT(End(took), rest[1].seqno) <=> Last(took) > Pos(rest[1])
        BY <2>4, <3>4, SliceCompare
      <4> QED BY <2>4, <2>11, <4>1, <4>3, <4>4
    <3> HIDE DEF cut
    <3>9. CASE cut
      <4> DEFINE m == Pos(q[1]) - lo
      <4>1. t.seg = short /\ t.ooseq = rest
        BY <2>9, <3>9
      <4>2. Minus(q[1].seqno, took.seqno) = m
        BY <2>4, <3>4, SliceCompare
      <4>3. m \in 0..Len(took.data) /\ m > 0 /\ m \in Nat
        BY <1>1, <2>4, <3>4, <3>5, <3>8, <3>9
      <4>4. lo + m = Pos(q[1]) /\ Pos(q[1]) <= Last(seg)
        BY <1>1, <3>4, <3>5, <3>8, <3>9
      <4> HIDE DEF m
      <4>5. ~took.fin
        BY <2>4, <3>2
      <4>6. /\ IsSlice(Shrink(took, m)) /\ Pos(Shrink(took, m)) = Pos(took)
            /\ Len(Shrink(took, m).data) = m
            /\ Last(Shrink(took, m)) = Pos(took) + m
            /\ Shrink(took, m).fin = FALSE
        BY <2>4, <4>3, <4>5, ShrinkSlice
      <4> DEFINE x == t.seg
      <4>7. /\ IsSlice(x) /\ Pos(x) = lo /\ Len(x.data) = m
            /\ Last(x) = Pos(q[1]) /\ x.fin = FALSE
        BY <2>4, <4>1, <4>2, <4>4, <4>6
      <4> HIDE DEF x
      <4>8. \A i \in 1..Len(rest) : Last(x) <= Pos(rest[i])
        BY <3>4, <3>5, <3>6, <3>7, <4>7
      <4>9. Trimmed(x, rest, lo, hi)
        BY <2>5, <4>7, <4>8 DEF Trimmed
      <4>10. TCP_TCPLEN(x) > 0
        BY <4>3, <4>7 DEF TCP_TCPLEN, FinLen
      <4> QED BY <2>7, <4>1, <4>4, <4>7, <4>9, <4>10 DEF x, t
    <3>10. CASE ~cut
      <4>1. t.seg = took /\ t.ooseq = rest
        BY <2>9, <3>10
      <4>2. \A i \in 1..Len(rest) : Last(took) <= Pos(rest[i])
        BY <1>1, <2>4, <3>4, <3>6, <3>7, <3>8, <3>10
      <4>3. Trimmed(took, rest, lo, hi)
        BY <2>4, <2>5, <3>2, <4>2 DEF Trimmed
      <4>4. TCP_TCPLEN(took) > 0
        <5>1. Len(took.data) > 0 /\ Len(took.data) \in Nat
          BY <1>1, <1>3, <2>4
        <5>2. TCP_TCPLEN(took) = Len(took.data) + FinLen(took.fin)
              /\ FinLen(took.fin) \in {0, 1}
          BY <2>4, SliceLen
        <5> QED BY <5>1, <5>2
      <4>5. Last(took) <= Last(seg)
        BY <1>1, <2>4
      <4> QED BY <2>4, <2>7, <2>8, <4>1, <4>3, <4>4, <4>5 DEF t
    <3> QED BY <3>9, <3>10
  <2> QED BY <2>10, <2>11
<1> QED BY <1>2, <1>3

\* What the loop that dequeues segments has taken after m of them.  ok: the
\* assertions on the window held so far.
DequeueRun(seg, q, hi, r, m) ==
  LET n == Len(r.data)
  IN  /\ r.n \in 0..m /\ n \in Nat /\ r.fin \in BOOLEAN /\ r.ok \in BOOLEAN
      /\ InStream(Pos(seg), n) /\ r.data = Bytes(Pos(seg), n)
      /\ Pos(seg) + n <= hi
      /\ r.fin => Pos(seg) + n = N + 1 /\ r.n = Len(q) /\ (seg.fin \/ HasFin(q))
      /\ r.nxt = At(Pos(seg) + n + FinLen(r.fin))
      /\ r.wnd = rcv_wnd - n - FinLen(r.fin)
      /\ r.ok <=> r.wnd >= 0
      /\ \A i \in 1..Len(q) : i > r.n => Pos(seg) + n <= Pos(q[i])
      /\ r.n < m => Pos(seg) + n < Pos(q[r.n + 1])

LEMMA DequeueStart ==
  ASSUME NEW seg, NEW q, NEW lo, NEW hi \in Int, Trimmed(seg, q, lo, hi),
         Last(seg) <= hi, rcv_wnd \in Nat
  PROVE  DequeueRun(seg, q, hi,
                    [n |-> 0, nxt |-> Plus(seg.seqno, TCP_TCPLEN(seg)),
                     wnd |-> rcv_wnd - TCP_TCPLEN(seg), data |-> seg.data,
                     fin |-> seg.fin, ok |-> rcv_wnd >= TCP_TCPLEN(seg)], 0)
<1>1. /\ IsSlice(seg) /\ \A i \in 1..Len(q) : Last(seg) <= Pos(q[i])
      /\ seg.fin => Len(q) = 0
  BY DEF Trimmed
<1>2. /\ Pos(seg) \in Nat /\ Len(seg.data) \in Nat /\ seg.fin \in BOOLEAN
      /\ Last(seg) = Pos(seg) + Len(seg.data)
      /\ InStream(Pos(seg), Len(seg.data))
      /\ seg.data = Bytes(Pos(seg), Len(seg.data))
      /\ seg.fin => Pos(seg) + Len(seg.data) = N + 1
  BY <1>1, SliceIs DEF ValidSlice, Last
<1>3. /\ TCP_TCPLEN(seg) = Len(seg.data) + FinLen(seg.fin)
      /\ FinLen(seg.fin) \in {0, 1}
      /\ Plus(seg.seqno, TCP_TCPLEN(seg)) = At(Last(seg) + FinLen(seg.fin))
  BY <1>1, SliceLen
<1> DEFINE r == [n |-> 0, nxt |-> Plus(seg.seqno, TCP_TCPLEN(seg)),
                 wnd |-> rcv_wnd - TCP_TCPLEN(seg), data |-> seg.data,
                 fin |-> seg.fin, ok |-> rcv_wnd >= TCP_TCPLEN(seg)]
<1>4. /\ r.n = 0 /\ r.nxt = Plus(seg.seqno, TCP_TCPLEN(seg))
      /\ r.wnd = rcv_wnd - TCP_TCPLEN(seg) /\ r.data = seg.data
      /\ r.fin = seg.fin /\ r.ok = (rcv_wnd >= TCP_TCPLEN(seg))
  OBVIOUS
<1> HIDE DEF r
<1>5. r.wnd = rcv_wnd - Len(seg.data) - FinLen(seg.fin) /\ (r.ok <=> r.wnd >= 0)
      /\ r.ok \in BOOLEAN
  <2>1. r.wnd = rcv_wnd - Len(seg.data) - FinLen(seg.fin)
    BY <1>2, <1>3, <1>4
  <2>2. rcv_wnd >= TCP_TCPLEN(seg) <=> r.wnd >= 0
    BY <1>2, <1>3, <1>4
  <2>3. (rcv_wnd >= TCP_TCPLEN(seg)) \in BOOLEAN
    BY <1>2, <1>3
  <2> QED BY <1>4, <2>1, <2>2, <2>3, Zenon
<1>6. r.n \in 0..0 /\ ~(r.n < 0)
  BY <1>4
<1>7. seg.fin => r.n = Len(q)
  BY <1>1, <1>4
<1>8. Pos(seg) + Len(seg.data) <= hi
  BY <1>2
<1>9. \A i \in 1..Len(q) : Pos(seg) + Len(seg.data) <= Pos(q[i])
  BY <1>1, <1>2
<1>10. r.nxt = At(Pos(seg) + Len(seg.data) + FinLen(seg.fin))
  BY <1>2, <1>3, <1>4
<1>11. DequeueRun(seg, q, hi, r, 0)
  BY <1>2, <1>4, <1>5, <1>6, <1>7, <1>8, <1>9, <1>10, Zenon DEF DequeueRun
<1> QED BY <1>11 DEF r

LEMMA DequeueStep ==
  ASSUME NEW seg, NEW q, NEW lo, NEW hi \in Int, Trimmed(seg, q, lo, hi),
         rcv_wnd \in Nat,
         NEW m \in Nat, m < Len(q), NEW r, DequeueRun(seg, q, hi, r, m), NEW t,
         t = IF r.n = m /\ q[m + 1].seqno = r.nxt
             THEN [n    |-> m + 1,
                   nxt  |-> Plus(r.nxt, TCP_TCPLEN(q[m + 1])),
                   wnd  |-> r.wnd - TCP_TCPLEN(q[m + 1]),
                   data |-> r.data \o q[m + 1].data,
                   fin  |-> r.fin \/ q[m + 1].fin,
                   ok   |-> r.ok /\ r.wnd >= TCP_TCPLEN(q[m + 1])]
             ELSE r
  PROVE  DequeueRun(seg, q, hi, t, m + 1)
<1> DEFINE s == q[m + 1]
           n == Len(r.data)
           a == Pos(seg)
<1>1. /\ IsSlice(seg) /\ Len(q) \in Nat /\ m + 1 \in 1..Len(q)
      /\ \A i \in 1..Len(q) : IsSlice(q[i])
      /\ IsSlice(s) /\ Last(s) <= hi
      /\ \A i \in 1..Len(q) : i > m + 1 => Before(s, q[i])
  <2>1. IsSlice(seg) /\ QueueOk(q, lo, hi)
    BY DEF Trimmed
  <2>2. Len(q) \in Nat /\ m + 1 \in 1..Len(q)
    BY <2>1 DEF QueueOk
  <2> QED BY <2>1, <2>2 DEF QueueOk, Queued
<1>2. /\ a \in Nat /\ Pos(s) \in Nat /\ Len(s.data) \in Nat /\ s.fin \in BOOLEAN
      /\ Last(s) = Pos(s) + Len(s.data) /\ s.seqno = At(Pos(s))
      /\ s.data = Bytes(Pos(s), Len(s.data)) /\ InStream(Pos(s), Len(s.data))
      /\ Pos(s) \in Positions /\ (s.fin => Last(s) = N + 1)
  BY <1>1, SliceIs DEF ValidSlice, Last
<1>3. /\ r.n \in 0..m /\ n \in Nat /\ r.fin \in BOOLEAN /\ r.ok \in BOOLEAN
      /\ InStream(a, n) /\ r.data = Bytes(a, n) /\ a + n <= hi
      /\ r.fin => r.n = Len(q)
      /\ r.nxt = At(a + n + FinLen(r.fin))
      /\ r.wnd = rcv_wnd - n - FinLen(r.fin)
      /\ (r.ok <=> r.wnd >= 0)
      /\ \A i \in 1..Len(q) : i > r.n => a + n <= Pos(q[i])
      /\ r.n < m => a + n < Pos(q[r.n + 1])
  BY DEF DequeueRun
<1>n. /\ a \in Nat /\ n \in Nat /\ Pos(s) \in Nat /\ Len(s.data) \in Nat
      /\ Last(s) = Pos(s) + Len(s.data) /\ Last(s) <= hi /\ r.n \in 0..m
  BY <1>1, <1>2, <1>3
<1>i. InStream(a, n) /\ a + n <= hi /\ N \in Nat /\ TCP_WND \in Nat
  BY <1>3, StreamFits
<1>4. CASE r.n # m
  <2>1. t = r /\ r.n < m /\ r.n \in 0..(m + 1)
    BY <1>3, <1>4
  <2> QED BY <2>1 DEF DequeueRun
<1>5. CASE r.n = m
  <2>1. r.fin = FALSE
    BY <1>1, <1>3, <1>5
  <2>2. r.nxt = At(a + n) /\ r.wnd = rcv_wnd - n
    <3>1. FinLen(r.fin) = 0 /\ a + n + 0 = a + n /\ rcv_wnd - n - 0 = rcv_wnd - n
      BY <1>2, <1>3, <2>1 DEF FinLen
    <3> QED BY <1>3, <3>1
  <2>3. a + n <= Pos(s) /\ a + n \in Positions
    <3>1. m + 1 > r.n
      BY <1>5
    <3>2. a + n \in Positions
      BY <1>n, <1>i, SMTT(30) DEF InStream, Positions
    <3> QED BY <1>1, <1>3, <3>1, <3>2
  <2>4. s.seqno = r.nxt <=> Pos(s) = a + n
    BY <1>2, <2>2, <2>3, Compare
  <2>5. CASE Pos(s) # a + n
    <3>1. t = r
      BY <2>4, <2>5
    <3>2. a + n < Pos(s) /\ r.n \in 0..(m + 1)
      BY <1>n, <2>3, <2>5, SMTT(30)
    <3> QED BY <1>5, <3>1, <3>2 DEF DequeueRun
  <2>6. CASE Pos(s) = a + n
    <3> DEFINE k == n + Len(s.data)
    <3>1. /\ TCP_TCPLEN(s) = Len(s.data) + FinLen(s.fin)
          /\ FinLen(s.fin) \in {0, 1}
      BY <1>1, SliceLen
    <3>2. /\ t.n = m + 1 /\ t.nxt = Plus(r.nxt, TCP_TCPLEN(s))
          /\ t.wnd = r.wnd - TCP_TCPLEN(s) /\ t.data = r.data \o s.data
          /\ t.fin = (r.fin \/ s.fin) /\ t.ok = (r.ok /\ r.wnd >= TCP_TCPLEN(s))
      BY <1>5, <2>4, <2>6
    <3>3. t.fin = s.fin
      BY <1>2, <2>1, <3>2
    <3>4. /\ t.data = Bytes(a, k) /\ InStream(a, k) /\ Len(t.data) = k
          /\ k \in Nat
      <4> DEFINE b == Len(s.data)
      <4>1. r.data = Bytes(a, n) /\ s.data = Bytes(a + n, b)
            /\ InStream(a, n) /\ InStream(a + n, b)
        BY <1>2, <1>3, <2>6
      <4>2. n \in Nat /\ b \in Nat
        BY <1>2, <1>3
      <4> HIDE DEF a, n, b
      <4>3. InStream(a, n + b) /\ Bytes(a, n) \o Bytes(a + n, b) = Bytes(a, n + b)
        BY <4>1, BytesConcat
      <4>4. Len(Bytes(a, n + b)) = n + b
        BY <4>3, BytesAre
      <4>5. t.data = Bytes(a, n + b)
        BY <3>2, <4>1, <4>3, Zenon
      <4>7. n + b \in Nat
        BY <4>2
      <4>6. n + b = k
        BY DEF n, b
      <4> QED BY <4>3, <4>4, <4>5, <4>6, <4>7
    <3>5. a + k = Last(s) /\ a + k <= hi
      <4> DEFINE b == Len(s.data)
                 p == Pos(s)
                 e == Last(s)
      <4>1. /\ a \in Nat /\ n \in Nat /\ b \in Nat /\ e = p + b /\ e <= hi
            /\ p = a + n
        BY <1>n, <2>6
      <4> HIDE DEF a, n, s, b, p, e
      <4>2. a + (n + b) = e /\ a + (n + b) <= hi
        BY <4>1
      <4> QED BY <4>2 DEF b, e
    <3>6. t.nxt = At(a + k + FinLen(t.fin))
      <4>1. Plus(At(a + n), TCP_TCPLEN(s)) = At((a + n) + TCP_TCPLEN(s))
        <5>1. a + n \in Int /\ TCP_TCPLEN(s) \in Int
          BY <1>n, <3>1, SMTT(30)
        <5> QED BY <5>1, PlusAt
      <4>2. (a + n) + TCP_TCPLEN(s) = a + k + FinLen(s.fin)
        <5> HIDE DEF a, n, s
        <5> QED BY <1>n, <3>1
      <4> QED BY <2>2, <3>2, <3>3, <4>1, <4>2
    <3>7. t.wnd = rcv_wnd - k - FinLen(t.fin)
      <4>1. t.wnd = (rcv_wnd - n) - (Len(s.data) + FinLen(s.fin))
        BY <2>2, <3>1, <3>2
      <4> DEFINE b == Len(s.data)
                 f == FinLen(s.fin)
      <4>2. n \in Nat /\ b \in Nat /\ f \in {0, 1} /\ t.wnd = (rcv_wnd - n) - (b + f)
        BY <1>n, <3>1, <4>1
      <4> HIDE DEF n, b, f
      <4>3. t.wnd = rcv_wnd - (n + b) - f
        BY <4>2
      <4> QED BY <3>3, <4>3 DEF b, f
    <3>8. t.ok \in BOOLEAN /\ (t.ok <=> t.wnd >= 0)
      <4>1. t.wnd >= 0 <=> r.wnd >= 0 /\ r.wnd >= TCP_TCPLEN(s)
        <5>1. t.wnd = r.wnd - TCP_TCPLEN(s) /\ r.wnd = rcv_wnd - n
          BY <2>2, <3>2
        <5> HIDE DEF a, n, s
        <5> QED BY <1>n, <3>1, <5>1, SMTT(30)
      <4>2. (r.ok /\ r.wnd >= TCP_TCPLEN(s)) <=> t.wnd >= 0
        BY <1>3, <4>1, Zenon
      <4> QED BY <3>2, <4>2, Zenon
    <3>9. \A i \in 1..Len(q) : i > t.n => a + k <= Pos(q[i])
      BY <1>1, <3>2, <3>5 DEF Before
    <3>10. t.fin => a + k = N + 1 /\ t.n = Len(q) /\ HasFin(q)
      <4> SUFFICES ASSUME s.fin PROVE a + k = N + 1 /\ m + 1 = Len(q) /\ HasFin(q)
        BY <3>2, <3>3
      <4>1. HasFin(q) /\ a + k = N + 1
        BY <1>1, <1>2, <3>5 DEF HasFin
      <4>2. m + 1 = Len(q)
        <5> SUFFICES ASSUME m + 1 # Len(q) PROVE FALSE
          OBVIOUS
        <5>1. Len(q) \in 1..Len(q) /\ Len(q) > m + 1
          BY <1>1
        <5> QED BY <1>1, <5>1 DEF Before
      <4> QED BY <4>1, <4>2
    <3>11. t.n \in 0..(m + 1) /\ ~(t.n < m + 1) /\ t.fin \in BOOLEAN
      BY <1>2, <3>2, <3>3
    <3> HIDE DEF k, a, n, s
    <3>12. /\ t.n \in 0..(m + 1) /\ Len(t.data) \in Nat /\ t.fin \in BOOLEAN
           /\ t.ok \in BOOLEAN
           /\ InStream(a, Len(t.data)) /\ t.data = Bytes(a, Len(t.data))
           /\ a + Len(t.data) <= hi
           /\ t.fin => a + Len(t.data) = N + 1 /\ t.n = Len(q) /\ HasFin(q)
           /\ t.nxt = At(a + Len(t.data) + FinLen(t.fin))
           /\ t.wnd = rcv_wnd - Len(t.data) - FinLen(t.fin)
           /\ \A i \in 1..Len(q) : i > t.n => a + Len(t.data) <= Pos(q[i])
      BY <3>4, <3>5, <3>6, <3>7, <3>8, <3>9, <3>10, <3>11, Zenon
    <3> QED BY <3>8, <3>11, <3>12, Zenon DEF DequeueRun, a
  <2> QED BY <2>5, <2>6
<1> QED BY <1>4, <1>5

LEMMA DequeueFacts ==
  ASSUME NEW seg, NEW q, NEW lo, NEW hi \in Int, Trimmed(seg, q, lo, hi),
         Last(seg) <= hi, rcv_wnd \in Nat
  PROVE  DequeueRun(seg, q, hi, Dequeue(seg, q), Len(q))
<1> DEFINE l == Len(q)
           V == [n : Nat, nxt : SeqNos, wnd : Int, data : Seq(Nat),
                 fin : BOOLEAN, ok : BOOLEAN]
           first == [n |-> 0, nxt |-> Plus(seg.seqno, TCP_TCPLEN(seg)),
                     wnd |-> rcv_wnd - TCP_TCPLEN(seg), data |-> seg.data,
                     fin |-> seg.fin, ok |-> rcv_wnd >= TCP_TCPLEN(seg)]
           Step(b, i) ==
             IF b.n = i - 1 /\ q[i].seqno = b.nxt
             THEN [n    |-> i,
                   nxt  |-> Plus(b.nxt, TCP_TCPLEN(q[i])),
                   wnd  |-> b.wnd - TCP_TCPLEN(q[i]),
                   data |-> b.data \o q[i].data,
                   fin  |-> b.fin \/ q[i].fin,
                   ok   |-> b.ok /\ b.wnd >= TCP_TCPLEN(q[i])]
             ELSE b
           Sol(f) == f = [i \in 0..l |-> IF i = 0 THEN first
                                         ELSE Step(f[i - 1], i)]
           g == [t \in V \X Nat |-> IF t[2] \in 1..l THEN Step(t[1], t[2])
                                                     ELSE t[1]]
<1>1. /\ l \in Nat /\ IsSlice(seg)
      /\ \A i \in 1..l : IsSlice(q[i])
  BY DEF Trimmed, QueueOk, Queued
<1>a. ASSUME NEW i \in 1..l
      PROVE  q[i].data \in Seq(Nat) /\ q[i].fin \in BOOLEAN
             /\ TCP_TCPLEN(q[i]) \in Nat
  <2>1. IsSlice(q[i])
    BY <1>1
  <2> QED BY <2>1, SliceIs, SliceLen DEF Segments
<1>b. ASSUME NEW x \in Int, NEW y \in Nat PROVE Plus(x, y) \in SeqNos
  BY SpaceSize DEF Plus, SeqNos
<1>c. SeqNos \subseteq Int
  BY SpaceSize DEF SeqNos
<1>2. first \in V
  <2>1. /\ seg.data \in Seq(Nat) /\ seg.fin \in BOOLEAN /\ seg.seqno \in SeqNos
        /\ TCP_TCPLEN(seg) \in Nat
    BY <1>1, SliceIs, SliceLen DEF Segments
  <2>2. Plus(seg.seqno, TCP_TCPLEN(seg)) \in SeqNos
    BY <1>b, <1>c, <2>1
  <2> QED BY <2>1, <2>2
<1>3. g \in [V \X Nat -> V]
  <2> SUFFICES ASSUME NEW b \in V, NEW i \in 1..l PROVE Step(b, i) \in V
    OBVIOUS
  <2>1. Plus(b.nxt, TCP_TCPLEN(q[i])) \in SeqNos
    BY <1>a, <1>b, <1>c
  <2>2. b.data \o q[i].data \in Seq(Nat)
    BY <1>a
  <2>3. b.wnd - TCP_TCPLEN(q[i]) \in Int /\ i \in Nat
    BY <1>1, <1>a
  <2> QED BY <1>a, <2>1, <2>2, <2>3
<1>4. \E f : Sol(f)
  <2> HIDE DEF V, g, first, Step, l
  <2>0. StepFunction(V, g, first, l)
    BY <1>1, <1>2, <1>3 DEF StepFunction
  <2>a. PICK f : IsRecursion(f, V, g, first, l)
    BY <2>0, RecursionExists
  <2>1. /\ f \in [0..l -> V] /\ f[0] = first
        /\ \A i \in 1..l : f[i] = g[<<f[i - 1], i>>]
    BY <2>a DEF IsRecursion
  <2>2. ASSUME NEW i \in 1..l PROVE f[i] = Step(f[i - 1], i)
    <3>1. i - 1 \in 0..l /\ i \in Nat
      BY <1>1
    <3>2. f[i - 1] \in V
      BY <2>1, <3>1
    <3>3. g[<<f[i - 1], i>>] = Step(f[i - 1], i)
      BY <3>1, <3>2 DEF g
    <3> QED BY <2>1, <3>3
  <2>3. \A i \in 0..l : i # 0 => i \in 1..l
    BY <1>1
  <2>4. Sol(f)
    BY <2>1, <2>2, <2>3
  <2> QED BY <2>4
<1> DEFINE run == CHOOSE f : Sol(f)
<1>5. Sol(run)
  <2> HIDE DEF Sol
  <2> QED BY <1>4
<1>6. Dequeue(seg, q) = run[l]
  BY DEF Dequeue
<1> HIDE DEF run
<1>7. \A i \in 0..l : DequeueRun(seg, q, hi, run[i], i)
  <2> DEFINE T == {i \in 0..l : DequeueRun(seg, q, hi, run[i], i)}
  <2>1. 0 \in T
    <3>1. run[0] = first
      <4> HIDE DEF first, Step
      <4> QED BY <1>1, <1>5
    <3>2. DequeueRun(seg, q, hi, run[0], 0)
      BY <3>1, DequeueStart
    <3> QED BY <1>1, <3>2
  <2>2. ASSUME NEW i \in 0..l, i \in T, i < l PROVE i + 1 \in T
    <3>1. i \in Nat /\ i + 1 \in 0..l /\ i + 1 # 0 /\ (i + 1) - 1 = i
      BY <1>1, <2>2
    <3>2. run[i + 1] = Step(run[(i + 1) - 1], i + 1)
      <4> HIDE DEF first, Step
      <4> QED BY <1>5, <3>1
    <3>3. run[i + 1] = Step(run[i], i + 1)
      <4> HIDE DEF Step
      <4> QED BY <3>1, <3>2
    <3>a. run[i + 1] = IF run[i].n = i /\ q[i + 1].seqno = run[i].nxt
                       THEN [n    |-> i + 1,
                             nxt  |-> Plus(run[i].nxt, TCP_TCPLEN(q[i + 1])),
                             wnd  |-> run[i].wnd - TCP_TCPLEN(q[i + 1]),
                             data |-> run[i].data \o q[i + 1].data,
                             fin  |-> run[i].fin \/ q[i + 1].fin,
                             ok   |-> run[i].ok
                                      /\ run[i].wnd >= TCP_TCPLEN(q[i + 1])]
                       ELSE run[i]
      BY <3>1, <3>3, Zenon
    <3>4. DequeueRun(seg, q, hi, run[i + 1], i + 1)
      <4>1. DequeueRun(seg, q, hi, run[i], i) /\ i \in Nat /\ i < Len(q)
        BY <2>2, <3>1
      <4> HIDE DEF Step, first, g, V, T, Sol, l
      <4> QED BY <3>a, <4>1, DequeueStep
    <3> QED BY <3>1, <3>4
  <2> HIDE DEF T
  <2>3. \A i \in 0..l : i \in T
    BY <1>1, <2>1, <2>2, BoundedInduction
  <2> QED BY <2>3 DEF T
<1> QED BY <1>1, <1>6, <1>7

-----------------------------------------------------------------------------
(* The inductive invariant.                                                *)

\* Position of rcv_nxt.
Here == 1 + Received

\* The bytes passed to the application, and behind them those kept for it.
StreamOk ==
  /\ InStream(1, Len(delivered)) /\ delivered = Bytes(1, Len(delivered))
  /\ InStream(1 + Len(delivered), Len(refused_data))
  /\ refused_data = Bytes(1 + Len(delivered), Len(refused_data))
  /\ eof \in BOOLEAN /\ (eof => Len(delivered) + Len(refused_data) = N)
  /\ rcv_nxt = At(Here)

\* The window is what is free of the buffer.
WindowOk ==
  /\ rcv_wnd \in Nat /\ unread \in 0..Len(delivered)
  /\ rcv_wnd + unread + Len(refused_data) + FinLen(eof) = TCP_WND

\* The announced window is a part of it, and the next announcement will not
\* move its right edge back.
EdgeOk ==
  /\ rcv_ann_wnd \in 0..rcv_wnd
  /\ \E e \in 1..(Here + rcv_ann_wnd) : rcv_ann_right_edge = At(e)

FlagsOk == ack \subseteq {ACK_DELAY, ACK_NOW} /\ panic \in BOOLEAN

RecvInv ==
  /\ StreamOk /\ WindowOk /\ EdgeOk /\ FlagsOk
  /\ QueueOk(ooseq, Here, Here + rcv_wnd)

\* With a peer whose FIN is in the window too, a queued FIN fits in the window
\* and no assertion fails.
FinFits == ~panic /\ (HasFin(ooseq) => N + 2 <= Here + rcv_wnd)

-----------------------------------------------------------------------------
(* What arrives.                                                           *)

LEMMA PeerSlice ==
  ASSUME NEW seg \in PeerSegs
  PROVE  /\ TCP_TCPLEN(seg) \in Nat
         /\ TCP_TCPLEN(seg) > 0 => IsSlice(seg)
<1>0. N \in Nat /\ MaxSeg \in Nat
  BY StreamFits, SizesAreNat
<1>1. CASE \E c \in {d \in (1..(N + 2)) \X (0..MaxSeg) :
                       d[2] > 0 => d[1] + d[2] <= N + 1} :
             seg = Slice(c[1], c[2], FALSE)
  <2>1. PICK i \in 1..(N + 2), n \in 0..MaxSeg :
               seg = Slice(i, n, FALSE) /\ (n > 0 => i + n <= N + 1)
    BY <1>1
  <2>2. CASE n > 0
    <3>1. ValidSlice(i, n, FALSE)
      BY <1>0, <2>1, <2>2 DEF ValidSlice, InStream
    <3>2. IsSlice(seg)
      BY <2>1, <3>1, SliceFacts
    <3> QED BY <3>2, SliceLen
  <2>3. CASE ~(n > 0)
    <3>1. n = 0 /\ i \in Nat
      BY <1>0, <2>3
    <3>2. seg.data = Bytes(i, n) /\ seg.fin = FALSE
      BY <2>1, SliceRecord
    <3>3. Len(seg.data) = 0
      BY <3>1, <3>2, NoBytes, EmptySeq
    <3> QED BY <3>2, <3>3 DEF TCP_TCPLEN, FinLen
  <2> QED BY <2>2, <2>3
<1>2. CASE \E n \in {m \in 0..MaxSeg : m <= N} : seg = Slice(N + 1 - n, n, TRUE)
  <2>1. PICK n \in 0..MaxSeg : n <= N /\ seg = Slice(N + 1 - n, n, TRUE)
    BY <1>2
  <2>2. ValidSlice(N + 1 - n, n, TRUE)
    BY <1>0, <2>1 DEF ValidSlice, InStream
  <2>3. IsSlice(seg)
    BY <2>1, <2>2, SliceFacts
  <2> QED BY <2>3, SliceLen
<1> QED BY <1>1, <1>2 DEF PeerSegs

\* Where rcv_nxt, the window and the announced right edge are.
Situated(p, e) ==
  /\ p \in Nat \ {0} /\ rcv_wnd \in Nat /\ p + rcv_wnd <= N + TCP_WND + 1
  /\ e \in 1..(p + rcv_wnd)
  /\ rcv_nxt = At(p) /\ rcv_ann_right_edge = At(e)

LEMMA SituatedPositions ==
  ASSUME NEW p, NEW e, Situated(p, e)
  PROVE  /\ p \in Positions /\ e \in Positions /\ p + rcv_wnd \in Positions
         /\ p + rcv_wnd - 1 \in Positions
         /\ p \in Nat /\ e \in Nat /\ e <= p + rcv_wnd
         /\ Plus(rcv_nxt, rcv_wnd) = At(p + rcv_wnd)
         /\ Plus(rcv_nxt, rcv_wnd - 1) = At(p + rcv_wnd - 1)
<1>1. /\ p \in Nat \ {0} /\ rcv_wnd \in Nat /\ p + rcv_wnd <= N + TCP_WND + 1
      /\ e \in 1..(p + rcv_wnd) /\ rcv_nxt = At(p)
      /\ N \in Nat /\ TCP_WND \in Nat
  BY StreamFits DEF Situated
<1>2. Plus(At(p), rcv_wnd) = At(p + rcv_wnd)
  BY <1>1, PlusAt
<1>3. Plus(At(p), rcv_wnd - 1) = At(p + (rcv_wnd - 1))
  BY <1>1, PlusAt
<1>4. p + (rcv_wnd - 1) = p + rcv_wnd - 1
  BY <1>1
<1> QED BY <1>1, <1>2, <1>3, <1>4 DEF Positions

\* The front of a segment is cut at rcv_nxt.
LEMMA FrontTrimOk ==
  ASSUME NEW p, NEW e, Situated(p, e), NEW seg, IsSlice(seg),
         TCP_TCPLEN(seg) > 0
  PROVE  LET t == FrontTrim(seg)
         IN  /\ IsSlice(t) /\ TCP_TCPLEN(t) > 0
             /\ Last(t) = Last(seg) /\ t.fin = seg.fin
             /\ \/ t = seg
                \/ /\ Pos(seg) < p /\ p <= Last(seg) /\ Pos(t) = p
                   /\ TCP_TCPLEN(seg) > 1
<1> DEFINE i == Pos(seg)
           n == Len(seg.data)
           f == FinLen(seg.fin)
           t == FrontTrim(seg)
<1>1. /\ i \in Nat \ {0} /\ n \in Nat /\ seg.fin \in BOOLEAN /\ f \in {0, 1}
      /\ Last(seg) = i + n /\ i + n <= N + 1
      /\ seg.seqno = At(i) /\ seg.data = Bytes(i, n) /\ seg \in Segments
      /\ TCP_TCPLEN(seg) = n + f
      /\ InStream(i, n) /\ (seg.fin => i + n = N + 1)
  BY SliceIs, SliceLen DEF Last, ValidSlice
<1>2. p \in Nat /\ p \in Positions /\ rcv_nxt = At(p) /\ N \in Nat /\ TCP_WND \in Nat
  BY SituatedPositions, StreamFits DEF Situated
<1>3. /\ Plus(seg.seqno, 1) = At(i + 1)
      /\ Plus(seg.seqno, TCP_TCPLEN(seg) - 1) = At(i + (n + f - 1))
  <2>1. Plus(At(i), 1) = At(i + 1)
    BY <1>1, PlusAt
  <2>2. n + f - 1 \in Int /\ i \in Int
    BY <1>1
  <2>3. Plus(At(i), n + f - 1) = At(i + (n + f - 1))
    <3> HIDE DEF i, n, f
    <3> QED BY <2>2, PlusAt
  <2> QED BY <1>1, <2>1, <2>3
<1> DEFINE overlap == TCP_SEQ_BETWEEN(rcv_nxt, Plus(seg.seqno, 1),
                                      Plus(seg.seqno, TCP_TCPLEN(seg) - 1))
<1>4. overlap <=> i + 1 <= p /\ p <= i + (n + f - 1)
  <2>1. i + 1 \in Positions /\ i + (n + f - 1) \in Positions
    <3>1. n + f > 0
      BY <1>1
    <3> HIDE DEF i, n, f
    <3> QED BY <1>1, <1>2, <3>1 DEF Positions
  <2>2. Minus(At(p), At(i + 1)) = p - (i + 1)
    BY <1>2, <2>1, Compare
  <2>3. Minus(At(p), At(i + (n + f - 1))) = p - (i + (n + f - 1))
    BY <1>2, <2>1, Compare
  <2>4. overlap <=> /\ Minus(At(p), At(i + 1)) >= 0
                    /\ Minus(At(p), At(i + (n + f - 1))) <= 0
    BY <1>2, <1>3, Zenon DEF TCP_SEQ_BETWEEN
  <2> HIDE DEF overlap, i, n, f
  <2> QED BY <1>1, <1>2, <2>2, <2>3, <2>4
<1>5. CASE ~overlap
  <2>1. t = seg
    BY <1>5, Zenon DEF FrontTrim
  <2>2. /\ IsSlice(t) /\ TCP_TCPLEN(t) > 0 /\ Last(t) = Last(seg)
        /\ t.fin = seg.fin
    BY <2>1, Zenon
  <2> HIDE DEF t
  <2> QED BY <2>1, <2>2 DEF t
<1>6. CASE overlap
  <2>1. i + 1 <= p /\ p <= i + (n + f - 1)
    BY <1>4, <1>6
  <2>2. p - i \in 0..n /\ p <= i + n /\ n - (p - i) = i + n - p /\ i + (p - i) = p
        /\ n + f > 1 /\ (f = 0 => i + n - p > 0) /\ i + n - p \in Nat
    <3> HIDE DEF i, n, f
    <3> QED BY <1>1, <1>2, <2>1
  <2>3. Minus(rcv_nxt, seg.seqno) = p - i
    <3>1. i \in Positions
      BY SliceIs
    <3> QED BY <1>1, <1>2, <3>1, Compare
  <2> DEFINE d == SubSeq(seg.data, (p - i) + 1, n)
  <2>4. t = [seg EXCEPT !.seqno = At(p), !.data = d]
    BY <1>2, <1>6, <2>3, Zenon DEF FrontTrim
  <2>5. d = Bytes(p, i + n - p) /\ InStream(p, i + n - p)
    <3> DEFINE m == p - i
    <3>1. m \in 0..n /\ seg.data = Bytes(i, n) /\ InStream(i, n)
      BY <1>1, <2>2
    <3>2. i + m = p /\ n - m = i + n - p
      BY <2>2
    <3> HIDE DEF m, i, n
    <3>3. SubSeq(Bytes(i, n), m + 1, n) = Bytes(i + m, n - m)
          /\ InStream(i + m, n - m)
      BY <3>1, BytesCut
    <3> QED BY <3>1, <3>2, <3>3 DEF m
  <2>6. t = [seqno |-> At(p), data |-> d, fin |-> seg.fin]
    <3> HIDE DEF d, t
    <3> QED BY <1>1, <2>4 DEF Segments
  <2>7. t = Slice(p, i + n - p, seg.fin)
    <3> HIDE DEF d, t
    <3> QED BY <2>5, <2>6, SliceRecord
  <2>8. ValidSlice(p, i + n - p, seg.fin)
    <3>1. seg.fin => p + (i + n - p) = N + 1
      BY <1>1, <1>2
    <3> QED BY <1>1, <2>5, <3>1 DEF ValidSlice
  <2> DEFINE k == i + n - p
  <2> HIDE DEF t
  <2>9. /\ IsSlice(t) /\ Pos(t) = p /\ Len(t.data) = k
        /\ Last(t) = p + k /\ t.fin = seg.fin
    <3> HIDE DEF k
    <3>1. t = Slice(p, k, seg.fin) /\ ValidSlice(p, k, seg.fin)
      BY <2>7, <2>8 DEF k
    <3> QED BY <3>1, SliceFacts
  <2>10. p + k = Last(seg)
    BY <1>1, <1>2
  <2>11. TCP_TCPLEN(t) > 0
    <3>1. TCP_TCPLEN(t) = k + f
      BY <2>9 DEF TCP_TCPLEN
    <3> HIDE DEF i, n, f
    <3>2. k + f > 0
      BY <1>1, <2>2
    <3> QED BY <3>1, <3>2
  <2>12. i < p /\ TCP_TCPLEN(seg) > 1 /\ p <= Last(seg)
    BY <1>1, <1>2, <2>1, <2>2
  <2> QED BY <2>9, <2>10, <2>11, <2>12 DEF t
<1> QED BY <1>5, <1>6

\* A segment that is in the window is a slice of the stream that ends in it.
LEMMA Arrives ==
  ASSUME NEW p, NEW e, Situated(p, e), NEW seg \in PeerSegs, MayArrive(seg),
         TCP_TCPLEN(seg) # 0, InWindow(FrontTrim(seg).seqno)
  PROVE  LET t == FrontTrim(seg)
         IN  /\ IsSlice(t) /\ TCP_TCPLEN(t) > 0
             /\ p <= Pos(t) /\ Last(t) <= p + rcv_wnd /\ rcv_wnd > 0
             /\ t.seqno = rcv_nxt <=> Pos(t) = p
             /\ FinBeyond = FALSE /\ t.fin => Last(t) + 1 <= p + rcv_wnd
<1> DEFINE t == FrontTrim(seg)
           f == FinLen(seg.fin)
<1>1. IsSlice(seg) /\ TCP_TCPLEN(seg) > 0
  BY PeerSlice
<1>2. /\ IsSlice(t) /\ TCP_TCPLEN(t) > 0 /\ Last(t) = Last(seg) /\ t.fin = seg.fin
      /\ \/ t = seg
         \/ /\ Pos(seg) < p /\ p <= Last(seg) /\ Pos(t) = p
            /\ TCP_TCPLEN(seg) > 1
  BY <1>1, FrontTrimOk
<1>3. InWindow(t.seqno)
  OBVIOUS
<1> HIDE DEF t
<1>4. /\ p \in Positions /\ e \in Positions /\ p + rcv_wnd - 1 \in Positions
      /\ p \in Nat /\ e \in Nat /\ e <= p + rcv_wnd /\ rcv_wnd \in Nat
      /\ Plus(rcv_nxt, rcv_wnd - 1) = At(p + rcv_wnd - 1)
      /\ rcv_nxt = At(p) /\ rcv_ann_right_edge = At(e)
  BY SituatedPositions DEF Situated
<1>5. /\ Pos(t) \in Nat /\ Last(t) \in Nat /\ t.seqno = At(Pos(t))
      /\ Pos(t) \in Positions
  BY <1>2, SliceIs
<1>6. p <= Pos(t) /\ Pos(t) <= p + rcv_wnd - 1
  <2>1. Minus(At(Pos(t)), At(p)) = Pos(t) - p
    BY <1>4, <1>5, Compare
  <2>2. Minus(At(Pos(t)), At(p + rcv_wnd - 1)) = Pos(t) - (p + rcv_wnd - 1)
    BY <1>4, <1>5, Compare
  <2>3. /\ Minus(At(Pos(t)), At(p)) >= 0
        /\ Minus(At(Pos(t)), At(p + rcv_wnd - 1)) <= 0
    BY <1>3, <1>4, <1>5, Zenon DEF InWindow, TCP_SEQ_BETWEEN
  <2> QED BY <1>4, <1>5, <2>1, <2>2, <2>3
<1>7. rcv_wnd > 0
  BY <1>4, <1>5, <1>6
<1>8. t.seqno = rcv_nxt <=> Pos(t) = p
  BY <1>4, <1>5, Compare
<1>9. /\ Pos(seg) \in Nat /\ Last(seg) \in Nat /\ Len(seg.data) \in Nat
      /\ Last(seg) = Pos(seg) + Len(seg.data)
      /\ Pos(seg) \in Positions /\ Last(seg) \in Positions
      /\ seg.seqno = At(Pos(seg)) /\ End(seg) = At(Last(seg))
      /\ f \in {0, 1} /\ TCP_TCPLEN(seg) = Len(seg.data) + f
      /\ Plus(seg.seqno, TCP_TCPLEN(seg)) = At(Last(seg) + f)
      /\ Last(seg) + f \in Positions /\ seg.fin \in BOOLEAN
      /\ seg.fin => f = 1
  BY <1>1, SliceIs, SliceLen DEF Last, FinLen
<1> HIDE DEF f
<1>10. \/ Last(seg) + f <= e
       \/ FinBeyond /\ seg.fin /\ Last(seg) <= e
       \/ TCP_TCPLEN(seg) = 1 /\ Pos(seg) = e /\ e <= p
  <2>1. TCP_SEQ_GEQ(At(e), At(Last(seg) + f)) <=> e >= Last(seg) + f
    BY <1>4, <1>9, Compare
  <2>2. TCP_SEQ_GEQ(At(e), At(Last(seg))) <=> e >= Last(seg)
    BY <1>4, <1>9, Compare
  <2>3. TCP_SEQ_GEQ(At(p), At(e)) <=> p >= e
    BY <1>4, Compare
  <2>4. At(Pos(seg)) = At(e) => Pos(seg) = e
    BY <1>4, <1>9, Compare
  <2>5. \/ TCP_SEQ_GEQ(At(e), At(Last(seg) + f))
        \/ FinBeyond /\ seg.fin /\ TCP_SEQ_GEQ(At(e), At(Last(seg)))
        \/ TCP_TCPLEN(seg) = 1 /\ At(Pos(seg)) = At(e) /\ TCP_SEQ_GEQ(At(p), At(e))
    BY <1>4, <1>9, Zenon DEF MayArrive
  <2>6. CASE TCP_SEQ_GEQ(At(e), At(Last(seg) + f))
    BY <1>4, <1>9, <2>1, <2>6
  <2>7. CASE FinBeyond /\ seg.fin /\ TCP_SEQ_GEQ(At(e), At(Last(seg)))
    <3>1. Last(seg) <= e
      BY <1>4, <1>9, <2>2, <2>7
    <3> QED BY <2>7, <3>1
  <2>8. CASE TCP_TCPLEN(seg) = 1 /\ At(Pos(seg)) = At(e) /\ TCP_SEQ_GEQ(At(p), At(e))
    <3>1. e <= p
      BY <1>4, <2>3, <2>8
    <3> QED BY <2>4, <2>8, <3>1
  <2> QED BY <2>5, <2>6, <2>7, <2>8
<1>11. Last(seg) <= p + rcv_wnd
       /\ (~(FinBeyond /\ seg.fin) => Last(seg) + f <= p + rcv_wnd)
  <2>1. CASE Last(seg) + f <= e
    <3>1. Last(seg) <= p + rcv_wnd /\ Last(seg) + f <= p + rcv_wnd
      BY <1>4, <1>9, <2>1, SMTT(30)
    <3> QED BY <3>1
  <2>2. CASE FinBeyond /\ seg.fin /\ Last(seg) <= e
    <3>1. Last(seg) <= p + rcv_wnd
      BY <1>4, <1>9, <2>2
    <3> QED BY <2>2, <3>1
  <2>3. CASE TCP_TCPLEN(seg) = 1 /\ Pos(seg) = e /\ e <= p
    <3>1. Len(seg.data) + f = 1
      BY <1>9, <2>3
    <3>2. Pos(seg) <= p
      BY <2>3
    <3>3. Last(seg) <= p + rcv_wnd /\ Last(seg) + f <= p + rcv_wnd
      <4> DEFINE i == Pos(seg)
                 n == Len(seg.data)
                 j == Last(seg)
      <4>1. /\ i \in Nat /\ n \in Nat /\ f \in {0, 1} /\ n + f = 1 /\ i <= p
            /\ j = i + n /\ p \in Nat /\ rcv_wnd \in Nat /\ rcv_wnd > 0
        BY <1>4, <1>7, <1>9, <3>1, <3>2
      <4> HIDE DEF i, n, j
      <4>2. j <= p + rcv_wnd /\ j + f <= p + rcv_wnd
        BY <4>1
      <4> QED BY <4>2 DEF j
    <3> QED BY <3>3
  <2> QED BY <1>10, <2>1, <2>2, <2>3
<1>12. FinBeyond = FALSE /\ t.fin => Last(t) + 1 <= p + rcv_wnd
  <2> SUFFICES ASSUME FinBeyond = FALSE, t.fin PROVE Last(t) + 1 <= p + rcv_wnd
    OBVIOUS
  <2>1. seg.fin /\ f = 1
    BY <1>2, <1>9
  <2>2. Last(seg) + f <= p + rcv_wnd
    BY <1>11
  <2> QED BY <1>2, <2>1, <2>2
<1>13. Last(t) <= p + rcv_wnd
  BY <1>2, <1>11
<1> QED BY <1>2, <1>6, <1>7, <1>8, <1>12, <1>13 DEF t

\* What does not fit in the window is the FIN at most.
LEMMA WindowTrimOk ==
  ASSUME NEW p \in Nat, NEW seg, IsSlice(seg), TCP_TCPLEN(seg) > 0,
         Pos(seg) = p, rcv_wnd \in Nat, rcv_wnd > 0, Last(seg) <= p + rcv_wnd
  PROVE  LET t == WindowTrim(seg)
         IN  /\ IsSlice(t) /\ Pos(t) = p /\ Last(t) <= p + rcv_wnd
             /\ Len(t.data) > 0 \/ t.fin
             /\ t.fin => N + 2 <= p + rcv_wnd
<1> DEFINE n == Len(seg.data)
           f == FinLen(seg.fin)
           t == WindowTrim(seg)
<1>1. /\ n \in Nat /\ seg.fin \in BOOLEAN /\ f \in {0, 1} /\ Last(seg) = p + n
      /\ TCP_TCPLEN(seg) = n + f /\ seg \in Segments /\ seg.data = Bytes(p, n)
      /\ InStream(p, n) /\ (seg.fin => p + n = N + 1)
  BY SliceIs, SliceLen DEF Last, ValidSlice
<1>2. (seg.fin => f = 1) /\ (~seg.fin => f = 0)
  BY DEF FinLen
<1>3. N \in Nat
  BY StreamFits
<1>4. CASE ~(TCP_TCPLEN(seg) > rcv_wnd)
  <2>1. t = seg
    BY <1>4, Zenon DEF WindowTrim
  <2>2. n > 0 \/ seg.fin
    <3> HIDE DEF n, f
    <3> QED BY <1>1, <1>2
  <2>3. seg.fin => N + 2 <= p + rcv_wnd
    <3> SUFFICES ASSUME seg.fin PROVE N + 2 <= p + rcv_wnd
      OBVIOUS
    <3>1. f = 1 /\ p + n = N + 1
      BY <1>1, <1>2
    <3>2. n + f <= rcv_wnd
      <4>1. n \in Nat /\ f \in {0, 1} /\ ~(n + f > rcv_wnd)
        BY <1>1, <1>4
      <4> HIDE DEF n, f
      <4> QED BY <4>1
    <3> HIDE DEF n, f
    <3> QED BY <1>1, <1>3, <3>1, <3>2
  <2> HIDE DEF t
  <2> QED BY <2>1, <2>2, <2>3 DEF t
<1>5. CASE TCP_TCPLEN(seg) > rcv_wnd
  <2>1. n = rcv_wnd
    <3>1. p + n <= p + rcv_wnd /\ n + f > rcv_wnd
      BY <1>1, <1>5
    <3> HIDE DEF n, f
    <3> QED BY <1>1, <3>1
  <2> DEFINE d == SubSeq(seg.data, 1, rcv_wnd)
  <2>2. d = seg.data
    <3>1. n \in 0..n
      BY <1>1
    <3> HIDE DEF n
    <3>2. SubSeq(Bytes(p, n), 1, n) = Bytes(p, n)
      BY <1>1, <3>1, BytesCut
    <3> QED BY <1>1, <2>1, <3>2
  <2>3. t = [[seg EXCEPT !.data = d] EXCEPT !.fin = FALSE]
    BY <1>5, Zenon DEF WindowTrim, Shrink
  <2> HIDE DEF d
  <2>4. [seg EXCEPT !.data = d] = seg
    BY <1>1, <2>2 DEF Segments
  <2>5. t = [seg EXCEPT !.fin = FALSE]
    BY <2>3, <2>4, Zenon
  <2> HIDE DEF t
  <2>6. /\ IsSlice(t) /\ Pos(t) = p /\ Len(t.data) = n /\ Last(t) = Last(seg)
        /\ t.fin = FALSE
    BY <2>5, FinSlice
  <2> QED BY <2>1, <2>6 DEF t
<1> QED BY <1>4, <1>5

-----------------------------------------------------------------------------
(* tcp_receive() as a whole.                                               *)

\* tcp_update_rcv_ann_wnd(): within the window, and the right edge stays.
LEMMA AnnOk ==
  ASSUME NEW x \in Nat \ {0}, NEW wnd \in Nat, x + wnd <= N + TCP_WND + 1,
         NEW e \in 1..(x + wnd), rcv_ann_right_edge = At(e)
  PROVE  AnnWnd(At(x), wnd) \in 0..wnd /\ e <= x + AnnWnd(At(x), wnd)
<1>1. N \in Nat /\ TCP_WND \in Nat /\ MSS \in Nat /\ 2 * (N + TCP_WND + 2) < M
      /\ M \in Nat
  BY StreamFits, SizesAreNat, SpaceIsEven
<1>2. x \in Positions /\ e \in Positions /\ x + wnd \in Positions /\ e \in Nat
  BY <1>1 DEF Positions
<1> DEFINE g == Worthwhile
<1>3. g \in Nat /\ g <= TCP_WND
  BY <1>1 DEF Worthwhile
<1> HIDE DEF g
<1>4. Plus(At(x), wnd) = At(x + wnd) /\ Plus(rcv_ann_right_edge, g) = At(e + g)
  BY <1>2, <1>3, PlusAt
<1>5. Minus(At(x + wnd), At(e + g)) = (x + wnd) - (e + g)
  <2>1. /\ x + wnd \in Int /\ e + g \in Int
        /\ 2 * ((x + wnd) - (e + g)) < M /\ 2 * ((e + g) - (x + wnd)) < M
    BY <1>1, <1>2, <1>3
  <2> QED BY <2>1, MinusAt
<1>6. (TCP_SEQ_GT(At(x), rcv_ann_right_edge) <=> x > e)
      /\ Minus(rcv_ann_right_edge, At(x)) = e - x
  BY <1>2, Compare
<1>7. AnnWnd(At(x), wnd) = IF (x + wnd) - (e + g) >= 0 THEN wnd
                           ELSE IF x > e THEN 0 ELSE e - x
  BY <1>4, <1>5, <1>6, Zenon DEF AnnWnd, TCP_SEQ_GEQ, g
<1> DEFINE a == AnnWnd(At(x), wnd)
<1> HIDE DEF a
<1>8. a \in 0..wnd /\ e <= x + a
  BY <1>2, <1>3, <1>7 DEF a
<1> QED BY <1>8 DEF a

\* The in-sequence segment is taken, with what it lets out of the queue.
TakenOk(taken, rest, p) ==
  LET n == Len(taken.data)
  IN  /\ n \in Nat /\ taken.fin \in BOOLEAN /\ taken.ok \in BOOLEAN
      /\ InStream(p, n) /\ taken.data = Bytes(p, n)
      /\ taken.fin => p + n = N + 1
      /\ taken.nxt = At(p + n + FinLen(taken.fin))
      /\ taken.wnd = rcv_wnd - n - FinLen(taken.fin)
      /\ taken.ok <=> taken.wnd >= 0
      /\ QueueOk(rest, p + n + FinLen(taken.fin), p + rcv_wnd)
      /\ HasFin(rest) => HasFin(ooseq)
      /\ (HasFin(ooseq) => N + 2 <= p + rcv_wnd) => taken.ok

LEMMA TakeOk ==
  ASSUME NEW p \in Nat, rcv_wnd \in Nat, QueueOk(ooseq, p, p + rcv_wnd),
         NEW seg, IsSlice(seg), Pos(seg) = p, Last(seg) <= p + rcv_wnd,
         Len(seg.data) > 0 \/ seg.fin,
         seg.fin => N + 2 <= p + rcv_wnd
  PROVE  LET trim  == OoseqTrim(seg)
             taken == Dequeue(trim.seg, trim.ooseq)
         IN  TakenOk(taken, Rest(trim.ooseq, taken.n), p)
<1> DEFINE hi == p + rcv_wnd
           trim == OoseqTrim(seg)
           s == trim.seg
           q == trim.ooseq
           taken == Dequeue(s, q)
           rest == Rest(q, taken.n)
           n == Len(taken.data)
           f == FinLen(taken.fin)
<1>0. hi \in Int /\ N \in Nat
  BY StreamFits
<1>1. /\ Trimmed(s, q, p, hi) /\ Last(s) <= Last(seg)
      /\ (s.fin => seg.fin \/ HasFin(ooseq)) /\ (HasFin(q) => HasFin(ooseq))
  BY <1>0, OoseqTrimOk
<1> HIDE DEF trim, s, q
<1>2. Last(s) <= hi
  <2>1. Last(s) \in Nat /\ Last(seg) \in Nat
    BY <1>1, SliceIs DEF Trimmed
  <2> QED BY <1>0, <1>1, <2>1
<1>3. DequeueRun(s, q, hi, taken, Len(q))
  <2> HIDE DEF hi
  <2> QED BY <1>0, <1>1, <1>2, DequeueFacts
<1> HIDE DEF taken
<1>4. /\ taken.n \in 0..Len(q) /\ n \in Nat /\ taken.fin \in BOOLEAN
      /\ taken.ok \in BOOLEAN /\ InStream(p, n) /\ taken.data = Bytes(p, n)
      /\ p + n <= hi
      /\ (taken.fin => p + n = N + 1 /\ taken.n = Len(q) /\ (s.fin \/ HasFin(q)))
      /\ taken.nxt = At(p + n + f) /\ taken.wnd = rcv_wnd - n - f
      /\ (taken.ok <=> taken.wnd >= 0)
      /\ \A i \in 1..Len(q) : i > taken.n => p + n <= Pos(q[i])
      /\ taken.n < Len(q) => p + n < Pos(q[taken.n + 1])
  BY <1>1, <1>3, Zenon DEF DequeueRun, Trimmed
<1>5. q \in Seq(Segments) /\ Len(q) \in Nat /\ QueueOk(q, p, hi)
  BY <1>1 DEF Trimmed, QueueOk
<1>6. f \in {0, 1} /\ (taken.fin => f = 1) /\ (~taken.fin => f = 0)
  BY <1>4 DEF FinLen
<1> HIDE DEF n, f, hi
<1>7. ASSUME NEW i \in 1..Len(q), i > taken.n PROVE p + n + f < Pos(q[i])
  <2>1. taken.n < Len(q) /\ taken.n + 1 \in 1..Len(q) /\ taken.n \in Nat
    BY <1>4, <1>5, <1>7
  <2>2. ~taken.fin
    BY <1>4, <2>1
  <2>3. f = 0
    BY <1>6, <2>2
  <2> DEFINE j == taken.n + 1
  <2>4. p + n < Pos(q[j]) /\ j \in 1..Len(q) /\ j <= i
    BY <1>4, <1>7, <2>1
  <2> HIDE DEF j
  <2>5. IsSlice(q[i]) /\ IsSlice(q[j]) /\ (j < i => Before(q[j], q[i]))
    BY <1>5, <2>4 DEF QueueOk, Queued
  <2>6. /\ Pos(q[i]) \in Nat /\ Pos(q[j]) \in Nat /\ Len(q[j].data) \in Nat
        /\ Last(q[j]) = Pos(q[j]) + Len(q[j].data)
    BY <2>5, SliceIs DEF Last
  <2>7. Pos(q[j]) <= Pos(q[i])
    <3>1. CASE j = i
      BY <2>6, <3>1
    <3>2. CASE j < i
      BY <2>5, <2>6, <3>2 DEF Before
    <3>3. j \in Nat
      BY <2>1 DEF j
    <3> QED BY <2>4, <3>1, <3>2, <3>3
  <2>8. n \in Nat
    BY <1>4
  <2> QED BY <2>3, <2>4, <2>6, <2>7, <2>8
<1>8. QueueOk(rest, p + n + f, hi)
  BY <1>4, <1>5, <1>7, RestOk
<1>9. HasFin(rest) => HasFin(q)
  <2>1. /\ Len(rest) = Len(q) - taken.n
        /\ \A j \in 1..(Len(q) - taken.n) : rest[j] = q[taken.n + j]
    <3> DEFINE k == taken.n
    <3>1. k \in 0..Len(q) /\ q \in Seq(Segments)
      BY <1>4, <1>5
    <3> HIDE DEF k
    <3>2. /\ Len(Rest(q, k)) = Len(q) - k
          /\ \A j \in 1..(Len(q) - k) : Rest(q, k)[j] = q[k + j]
      BY <3>1, RestFacts
    <3> QED BY <3>2 DEF k
  <2> HIDE DEF rest
  <2> SUFFICES ASSUME NEW j \in 1..(Len(q) - taken.n), rest[j].fin
               PROVE  HasFin(q)
    BY <2>1 DEF HasFin
  <2>2. Len(q) \in Nat /\ taken.n \in 0..Len(q)
    BY <1>4, <1>5
  <2>3. taken.n + j \in 1..Len(q)
    BY <2>2
  <2>4. rest[j] = q[taken.n + j]
    BY <2>1
  <2> QED BY <2>3, <2>4 DEF HasFin
<1>10. ASSUME HasFin(ooseq) => N + 2 <= hi PROVE taken.ok
  <2>1. taken.wnd >= 0
    <3>0. n \in Nat /\ p + n <= p + rcv_wnd /\ taken.wnd = rcv_wnd - n - f
      BY <1>4 DEF hi
    <3>1. CASE taken.fin
      <4>1. N + 2 <= p + rcv_wnd
        <5>1. s.fin \/ HasFin(q)
          BY <1>4, <3>1
        <5>2. seg.fin \/ HasFin(ooseq)
          BY <1>1, <5>1
        <5> QED BY <1>10, <5>2 DEF hi
      <4>2. p + n = N + 1 /\ f = 1
        BY <1>4, <1>6, <3>1
      <4> QED BY <1>0, <3>0, <4>1, <4>2
    <3>2. CASE ~taken.fin
      <4>1. f = 0
        BY <1>6, <3>2
      <4> QED BY <3>0, <4>1
    <3> QED BY <3>1, <3>2
  <2> QED BY <1>4, <2>1
<1> HIDE DEF rest
<1>11. TakenOk(taken, rest, p)
  <2>1. HasFin(rest) => HasFin(ooseq)
    BY <1>1, <1>9
  <2>2. (HasFin(ooseq) => N + 2 <= p + rcv_wnd) => taken.ok
    BY <1>10 DEF hi
  <2>3. QueueOk(rest, p + n + f, p + rcv_wnd)
    BY <1>8 DEF hi
  <2> QED BY <1>4, <2>1, <2>2, <2>3, Zenon DEF TakenOk, n, f
<1> QED BY <1>11 DEF rest, taken, s, q, trim

\* What tcp_receive() returns: bytes that continue the stream, or none; the new
\* rcv_nxt behind them; the window less what was taken; a queue in order.
ResultOk(r, p, e) ==
  LET n == Len(r.data)
      x == p + n + FinLen(r.fin)
  IN  /\ n \in Nat /\ r.fin \in BOOLEAN /\ r.ok \in BOOLEAN
      /\ \/ r.data = << >> /\ r.fin = FALSE
         \/ /\ InStream(p, n) /\ r.data = Bytes(p, n)
            /\ r.fin => p + n = N + 1
      /\ r.nxt = At(x) /\ r.wnd = rcv_wnd - n - FinLen(r.fin)
      /\ r.ok => /\ r.wnd \in Nat
                 /\ r.ann \in 0..r.wnd /\ e <= x + r.ann
                 /\ QueueOk(r.ooseq, x, p + rcv_wnd)
      /\ r.ack \subseteq {ACK_DELAY, ACK_NOW}
      /\ FinBeyond = FALSE /\ (HasFin(ooseq) => N + 2 <= p + rcv_wnd)
           => r.ok /\ (HasFin(r.ooseq) => N + 2 <= p + rcv_wnd)

\* The result when nothing is taken, with some queue and ACK flags.
IsUntaken(r, q, flags) ==
  /\ r.nxt = rcv_nxt /\ r.wnd = rcv_wnd /\ r.ann = rcv_ann_wnd
  /\ r.ooseq = q /\ r.data = << >> /\ r.fin = FALSE /\ r.ok = TRUE
  /\ r.ack = flags

LEMMA UntakenOk ==
  ASSUME NEW p, NEW e, Situated(p, e), rcv_ann_wnd \in 0..rcv_wnd,
         e <= p + rcv_ann_wnd, NEW q, QueueOk(q, p, p + rcv_wnd),
         FinBeyond = FALSE /\ (HasFin(ooseq) => N + 2 <= p + rcv_wnd)
           => (HasFin(q) => N + 2 <= p + rcv_wnd),
         NEW flags \in SUBSET {ACK_DELAY, ACK_NOW},
         NEW r, IsUntaken(r, q, flags)
  PROVE  ResultOk(r, p, e)
<1>1. /\ r.nxt = rcv_nxt /\ r.wnd = rcv_wnd /\ r.ann = rcv_ann_wnd
      /\ r.ooseq = q /\ r.data = << >> /\ r.fin = FALSE /\ r.ok = TRUE
      /\ r.ack = flags
  BY DEF IsUntaken
<1>2. Len(r.data) = 0 /\ FinLen(r.fin) = 0
  BY <1>1, EmptySeq DEF FinLen
<1>3. p \in Nat /\ rcv_wnd \in Nat /\ rcv_nxt = At(p)
  BY DEF Situated
<1>4. p + 0 + 0 = p /\ rcv_wnd - 0 - 0 = rcv_wnd
  BY <1>3
<1> QED BY <1>1, <1>2, <1>3, <1>4 DEF ResultOk

LEMMA ReceiveOk ==
  ASSUME NEW p, NEW e, Situated(p, e), rcv_ann_wnd \in 0..rcv_wnd,
         e <= p + rcv_ann_wnd, QueueOk(ooseq, p, p + rcv_wnd),
         ack \subseteq {ACK_DELAY, ACK_NOW},
         NEW seg \in PeerSegs, MayArrive(seg), NEW copied \in BOOLEAN
  PROVE  ResultOk(tcp_receive(seg, copied), p, e)
<1> DEFINE t == FrontTrim(seg)
           u == WindowTrim(t)
           trim == OoseqTrim(u)
           taken == Dequeue(trim.seg, trim.ooseq)
           rest == Rest(trim.ooseq, taken.n)
           r == tcp_receive(seg, copied)
<1>0. /\ p \in Nat \ {0} /\ rcv_wnd \in Nat /\ p + rcv_wnd <= N + TCP_WND + 1
      /\ e \in 1..(p + rcv_wnd) /\ rcv_ann_right_edge = At(e) /\ rcv_nxt = At(p)
      /\ N \in Nat
  BY StreamFits DEF Situated
<1>2. CASE TCP_TCPLEN(seg) = 0
  <2> DEFINE flags == IF InWindow(seg.seqno) THEN ack ELSE ack \cup {ACK_NOW}
  <2>1. r = [Untaken EXCEPT !.ack = flags]
    BY <1>2 DEF tcp_receive, Untaken
  <2>2. flags \in SUBSET {ACK_DELAY, ACK_NOW}
    OBVIOUS
  <2> HIDE DEF flags
  <2>3. IsUntaken([Untaken EXCEPT !.ack = flags], ooseq, flags)
    BY DEF Untaken, IsUntaken
  <2> HIDE DEF r
  <2>4. ResultOk(r, p, e)
    BY <2>1, <2>2, <2>3, UntakenOk
  <2> QED BY <2>4 DEF r
<1>3. CASE TCP_TCPLEN(seg) # 0 /\ ~InWindow(t.seqno)
  <2> DEFINE flags == IF TCP_SEQ_LT(t.seqno, rcv_nxt) THEN ack \cup {ACK_NOW}
                      ELSE ack
  <2>1. r = [Untaken EXCEPT !.empty = TRUE, !.ack = flags]
    BY <1>3, Zenon DEF tcp_receive, Untaken
  <2>2. flags \in SUBSET {ACK_DELAY, ACK_NOW}
    OBVIOUS
  <2> HIDE DEF flags
  <2>3. IsUntaken([Untaken EXCEPT !.empty = TRUE, !.ack = flags], ooseq, flags)
    BY DEF Untaken, IsUntaken
  <2> HIDE DEF r
  <2>4. ResultOk(r, p, e)
    BY <2>1, <2>2, <2>3, UntakenOk
  <2> QED BY <2>4 DEF r
<1>4. CASE TCP_TCPLEN(seg) # 0 /\ InWindow(t.seqno)
  <2>1. /\ IsSlice(t) /\ TCP_TCPLEN(t) > 0
        /\ p <= Pos(t) /\ Last(t) <= p + rcv_wnd /\ rcv_wnd > 0
        /\ (t.seqno = rcv_nxt <=> Pos(t) = p)
        /\ (FinBeyond = FALSE /\ t.fin => Last(t) + 1 <= p + rcv_wnd)
    BY <1>4, Arrives
  <2> HIDE DEF t
  <2>2. /\ Pos(t) \in Nat /\ Len(t.data) \in Nat /\ t.fin \in BOOLEAN
        /\ (t.fin => Last(t) = N + 1)
        /\ TCP_TCPLEN(t) = Len(t.data) + FinLen(t.fin)
    BY <2>1, SliceIs, SliceLen
  <2>3. CASE t.seqno # rcv_nxt
    <3> DEFINE q == IF copied THEN OosPlace(t) ELSE ooseq
    <3>1. r = [Untaken EXCEPT !.empty = TRUE, !.ooseq = q]
      BY <1>4, <2>3, Zenon DEF tcp_receive, Untaken, t
    <3>2. Len(t.data) > 0 \/ t.fin
      <4>1. ~t.fin => FinLen(t.fin) = 0
        BY DEF FinLen
      <4> QED BY <2>1, <2>2, <4>1
    <3>3. p < Pos(t)
      BY <1>0, <2>1, <2>2, <2>3
    <3>4. Queued(t, p, p + rcv_wnd)
      BY <2>1, <3>2, <3>3 DEF Queued
    <3>5. /\ QueueOk(OosPlace(t), p, p + rcv_wnd)
          /\ HasFin(OosPlace(t)) => t.fin \/ HasFin(ooseq)
      <4> DEFINE hi == p + rcv_wnd
      <4>1. hi \in Int
        BY <1>0
      <4> HIDE DEF hi
      <4>2. QueueOk(ooseq, p, hi) /\ Queued(t, p, hi)
        BY <3>4 DEF hi
      <4> QED BY <4>1, <4>2, PlaceOk DEF hi
    <3>6. FinBeyond = FALSE /\ t.fin => N + 2 <= p + rcv_wnd
      <4> SUFFICES ASSUME FinBeyond = FALSE, t.fin PROVE N + 2 <= p + rcv_wnd
        OBVIOUS
      <4>1. Last(t) = N + 1 /\ Last(t) + 1 <= p + rcv_wnd
        BY <2>1, <2>2
      <4> QED BY <1>0, <4>1
    <3>7. /\ QueueOk(q, p, p + rcv_wnd)
          /\ HasFin(q) => t.fin \/ HasFin(ooseq)
      BY <3>5
    <3> HIDE DEF q
    <3>8. IsUntaken([Untaken EXCEPT !.empty = TRUE, !.ooseq = q], q, ack)
      BY DEF Untaken, IsUntaken
    <3> HIDE DEF r
    <3>9. FinBeyond = FALSE /\ (HasFin(ooseq) => N + 2 <= p + rcv_wnd)
            => (HasFin(q) => N + 2 <= p + rcv_wnd)
      BY <3>6, <3>7
    <3>10. ResultOk(r, p, e)
      BY <3>1, <3>7, <3>8, <3>9, UntakenOk
    <3> QED BY <3>10 DEF r
  <2>4. CASE t.seqno = rcv_nxt
    <3>1. /\ IsSlice(u) /\ Pos(u) = p /\ Last(u) <= p + rcv_wnd
          /\ Len(u.data) > 0 \/ u.fin
          /\ u.fin => N + 2 <= p + rcv_wnd
      BY <1>0, <2>1, <2>4, WindowTrimOk
    <3> HIDE DEF u
    <3>2. TakenOk(taken, rest, p)
      BY <1>0, <3>1, TakeOk
    <3> DEFINE flags == IF taken.fin THEN tcp_ack \cup {ACK_NOW} ELSE tcp_ack
               ann == AnnWnd(taken.nxt, taken.wnd)
    <3>3. r = [nxt |-> taken.nxt, wnd |-> taken.wnd, ann |-> ann,
               ooseq |-> rest, data |-> taken.data, fin |-> taken.fin,
               ok |-> taken.ok, ack |-> flags, empty |-> FALSE]
      BY <1>4, <2>4, Zenon DEF tcp_receive, t, u
    <3>4. flags \in SUBSET {ACK_DELAY, ACK_NOW}
      BY DEF tcp_ack
    <3> HIDE DEF trim, taken, rest, flags, ann
    <3>5. /\ r.nxt = taken.nxt /\ r.wnd = taken.wnd /\ r.ann = ann
          /\ r.ooseq = rest /\ r.data = taken.data /\ r.fin = taken.fin
          /\ r.ok = taken.ok /\ r.ack = flags
      BY <3>3
    <3> HIDE DEF r
    <3> DEFINE n == Len(taken.data)
               f == FinLen(taken.fin)
               x == p + n + f
    <3>6. /\ n \in Nat /\ taken.fin \in BOOLEAN /\ taken.ok \in BOOLEAN
          /\ InStream(p, n) /\ taken.data = Bytes(p, n)
          /\ (taken.fin => p + n = N + 1)
          /\ taken.nxt = At(x) /\ taken.wnd = rcv_wnd - n - f
          /\ (taken.ok <=> taken.wnd >= 0)
          /\ QueueOk(rest, x, p + rcv_wnd)
          /\ (HasFin(rest) => HasFin(ooseq))
          /\ ((HasFin(ooseq) => N + 2 <= p + rcv_wnd) => taken.ok)
      BY <3>2, Zenon DEF TakenOk
    <3>7. f \in {0, 1}
      BY DEF FinLen
    <3> HIDE DEF n, f
    <3>8. ASSUME taken.ok
          PROVE taken.wnd \in Nat /\ ann \in 0..taken.wnd /\ e <= x + ann
      <4>1. taken.wnd \in Nat /\ n \in Nat /\ taken.wnd = rcv_wnd - n - f
        BY <1>0, <3>6, <3>7, <3>8
      <4>2. x \in Nat \ {0} /\ x + taken.wnd = p + rcv_wnd
        BY <1>0, <3>7, <4>1
      <4> HIDE DEF x
      <4>3. e \in 1..(x + taken.wnd) /\ x + taken.wnd <= N + TCP_WND + 1
        BY <1>0, <4>2
      <4>4. AnnWnd(At(x), taken.wnd) \in 0..taken.wnd
            /\ e <= x + AnnWnd(At(x), taken.wnd)
        BY <1>0, <4>1, <4>2, <4>3, AnnOk
      <4> QED BY <3>6, <4>1, <4>4 DEF ann
    <3>9. ResultOk(r, p, e)
      BY <3>4, <3>5, <3>6, <3>8, Zenon DEF ResultOk, x, n, f
    <3> QED BY <3>9 DEF r
  <2> QED BY <2>3, <2>4
<1> QED BY <1>2, <1>3, <1>4

-----------------------------------------------------------------------------
(* The invariant is inductive.                                             *)

\* What RecvInv says of the numbers.
LEMMA Numbers ==
  ASSUME RecvInv
  PROVE  /\ Len(delivered) \in Nat /\ Len(refused_data) \in Nat
         /\ Len(delivered) + Len(refused_data) <= N
         /\ FinLen(eof) \in {0, 1} /\ eof \in BOOLEAN
         /\ Here = 1 + Len(delivered) + Len(refused_data) + FinLen(eof)
         /\ Here \in Nat \ {0} /\ rcv_wnd \in Nat /\ N \in Nat
         /\ Here + rcv_wnd <= N + TCP_WND + 1
         /\ unread \in 0..Len(delivered) /\ TCP_WND \in Nat
         /\ rcv_wnd + unread + Len(refused_data) + FinLen(eof) = TCP_WND
<1> DEFINE a == Len(delivered)
           b == Len(refused_data)
           f == FinLen(eof)
<1>1. /\ a \in Nat /\ b \in Nat /\ a + b <= N /\ eof \in BOOLEAN
      /\ N \in Nat /\ TCP_WND \in Nat
  <2>1. InStream(1, a) /\ InStream(1 + a, b) /\ eof \in BOOLEAN
    BY DEF RecvInv, StreamOk
  <2> HIDE DEF a, b
  <2> QED BY <2>1, StreamFits DEF InStream
<1>2. f \in {0, 1}
  BY DEF FinLen
<1>3. rcv_wnd \in Nat /\ unread \in 0..a /\ rcv_wnd + unread + b + f = TCP_WND
  BY DEF RecvInv, WindowOk
<1>4. Here = 1 + a + b + f
  <2>1. Here = 1 + (a + b + f)
    BY DEF Here, Received
  <2> HIDE DEF a, b, f
  <2> QED BY <1>1, <1>2, <2>1
<1> HIDE DEF a, b, f
<1>5. Here \in Nat \ {0} /\ Here + rcv_wnd <= N + TCP_WND + 1
  BY <1>1, <1>2, <1>3, <1>4
<1> QED BY <1>1, <1>2, <1>3, <1>4, <1>5 DEF a, b, f

LEMMA Sits ==
  ASSUME RecvInv
  PROVE  \E e \in Nat : /\ Situated(Here, e) /\ e <= Here + rcv_ann_wnd
                        /\ e \in 1..(Here + rcv_ann_wnd)
<1>1. PICK e \in 1..(Here + rcv_ann_wnd) : rcv_ann_right_edge = At(e)
  BY DEF RecvInv, EdgeOk
<1>2. rcv_ann_wnd \in 0..rcv_wnd /\ rcv_nxt = At(Here)
  BY DEF RecvInv, EdgeOk, StreamOk
<1>3. /\ Here \in Nat \ {0} /\ rcv_wnd \in Nat
      /\ Here + rcv_wnd <= N + TCP_WND + 1
  BY Numbers
<1>4. e \in Nat /\ e <= Here + rcv_ann_wnd /\ e \in 1..(Here + rcv_wnd)
  BY <1>1, <1>2, <1>3
<1> QED BY <1>1, <1>2, <1>3, <1>4 DEF Situated

\* An announcement moves the right edge forward, or leaves it.
EdgeMoves(e, x) == \E d \in e..x : rcv_ann_right_edge' = At(d)

LEMMA AnnounceOk ==
  ASSUME NEW x \in Nat \ {0}, NEW ann \in Nat, NEW e \in 1..(x + ann),
         rcv_ann_right_edge = At(e),
         NEW flags \in SUBSET {ACK_DELAY, ACK_NOW}, NEW called,
         Announce(At(x), ann, flags, called)
  PROVE  EdgeMoves(e, x + ann) /\ ack' \subseteq {ACK_DELAY, ACK_NOW}
<1>1. Plus(At(x), ann) = At(x + ann)
  BY PlusAt
<1>2. e \in e..(x + ann) /\ x + ann \in e..(x + ann)
  OBVIOUS
<1>3. CASE rcv_ann_right_edge' = Plus(At(x), ann) /\ ack' = {}
  BY <1>1, <1>2, <1>3 DEF EdgeMoves
<1>4. CASE rcv_ann_right_edge' = rcv_ann_right_edge /\ ack' = flags
  BY <1>2, <1>4 DEF EdgeMoves
<1> QED BY <1>3, <1>4 DEF Announce

LEMMA InitInv ==
  ASSUME Init PROVE RecvInv /\ FinFits
<1>0. N \in Nat /\ TCP_WND \in Nat
  BY StreamFits
<1>1. Len(delivered) = 0 /\ Len(refused_data) = 0 /\ FinLen(eof) = 0 /\ Len(ooseq) = 0
  BY EmptySeq DEF Init, FinLen
<1>2. Here = 1
  BY <1>1 DEF Here, Received
<1>3. StreamOk
  <2>1. Bytes(1, 0) = << >> /\ Bytes(1 + 0, 0) = << >>
    BY NoBytes
  <2>2. InStream(1, 0) /\ InStream(1 + 0, 0)
    BY <1>0 DEF InStream
  <2>3. eof = FALSE /\ delivered = << >> /\ refused_data = << >> /\ rcv_nxt = At(1)
    BY DEF Init, At
  <2> QED BY <1>1, <1>2, <2>1, <2>2, <2>3 DEF StreamOk
<1>4. WindowOk
  BY <1>0, <1>1 DEF WindowOk, Init
<1>5. EdgeOk
  <2>1. rcv_ann_right_edge = At(1 + TCP_WND) /\ rcv_ann_wnd = TCP_WND
        /\ rcv_wnd = TCP_WND
    BY DEF Init, At
  <2>2. 1 + TCP_WND \in 1..(1 + TCP_WND) /\ TCP_WND \in 0..TCP_WND
    BY <1>0
  <2> QED BY <1>2, <2>1, <2>2 DEF EdgeOk
<1>6. FlagsOk
  BY DEF FlagsOk, Init
<1>7. QueueOk(ooseq, Here, Here + rcv_wnd)
  BY EmptyOk DEF Init
<1>8. FinFits
  <2>1. ~HasFin(ooseq)
    BY <1>1 DEF HasFin
  <2> QED BY <2>1 DEF FinFits, Init
<1> QED BY <1>3, <1>4, <1>5, <1>6, <1>7, <1>8 DEF RecvInv

\* Three adjacent parts of the stream.
ThreeParts(a, b, n) ==
  InStream(1, a) /\ InStream(1 + a, b) /\ InStream(1 + a + b, n)

LEMMA AppendBytes ==
  ASSUME NEW a, NEW b, NEW n, ThreeParts(a, b, n)
  PROVE  LET k == Bytes(1 + a, b)
             z == Bytes(1 + a + b, n)
         IN  /\ Bytes(1, a) \o (k \o z) = Bytes(1, a + b + n)
             /\ InStream(1, a + b + n) /\ Len(k \o z) = b + n
<1> DEFINE k == Bytes(1 + a, b)
           z == Bytes(1 + a + b, n)
<1>0. InStream(1, a) /\ InStream(1 + a, b) /\ InStream(1 + a + b, n)
  BY DEF ThreeParts
<1>1. a \in Nat /\ b \in Nat /\ n \in Nat /\ 1 + (a + b) = 1 + a + b
      /\ a + (b + n) = a + b + n
  BY <1>0 DEF InStream
<1>2. k \o z = Bytes(1 + a, b + n) /\ InStream(1 + a, b + n)
  <2> DEFINE i == 1 + a
  <2>1. i + b = 1 + a + b /\ InStream(i, b) /\ InStream(i + b, n)
    BY <1>0
  <2> HIDE DEF i
  <2>2. Bytes(i, b) \o Bytes(i + b, n) = Bytes(i, b + n) /\ InStream(i, b + n)
    BY <2>1, BytesConcat
  <2> QED BY <2>1, <2>2 DEF i
<1>3. Len(k \o z) = b + n
  BY <1>2, BytesAre
<1> HIDE DEF k, z
<1> DEFINE m == b + n
<1>4. InStream(1 + a, m) /\ k \o z = Bytes(1 + a, m)
  BY <1>2
<1> HIDE DEF m
<1>5. Bytes(1, a) \o Bytes(1 + a, m) = Bytes(1, a + m) /\ InStream(1, a + m)
  BY <1>0, <1>4, BytesConcat
<1>6. Bytes(1, a) \o (k \o z) = Bytes(1, a + m)
  BY <1>4, <1>5
<1> QED BY <1>1, <1>3, <1>5, <1>6 DEF m, k, z

\* Bytes that arrive are taken from the window: its end stays.
RightKept == Here' + rcv_wnd' = Here + rcv_wnd

\* What a step leaves: the invariant, an edge not before e, no fewer bytes.
RecvStep(e) ==
  /\ StreamOk' /\ WindowOk' /\ FlagsOk'
  /\ QueueOk(ooseq, Here, Here + rcv_wnd)'
  /\ rcv_ann_wnd' \in 0..(rcv_wnd') /\ EdgeMoves(e, Here' + rcv_ann_wnd')
  /\ eof => eof'
  /\ Len(delivered) <= Len(delivered')

\* Bytes pass from the peer or from the kept data to the application: what the
\* step does to the stream and the window.
Passed(n, f, k) ==
  /\ delivered' = Bytes(1, Len(delivered) + Len(refused_data) + k)
  /\ refused_data' = Bytes(1 + Len(delivered) + Len(refused_data) + k, n - k)
  /\ InStream(1, Len(delivered) + Len(refused_data) + k)
  /\ InStream(1 + Len(delivered) + Len(refused_data) + k, n - k)
  /\ eof' \in BOOLEAN /\ FinLen(eof') = FinLen(eof) + f /\ (eof => eof')
  /\ eof' => Len(delivered) + Len(refused_data) + n = N
  /\ rcv_nxt' = At(Here + n + f)
  /\ rcv_wnd' = rcv_wnd - n - f /\ rcv_wnd' \in Nat
  /\ unread' = unread + Len(refused_data) + k

LEMMA PassedOk ==
  ASSUME RecvInv, NEW n \in Nat, NEW k \in 0..n, NEW f \in {0, 1}, Passed(n, f, k)
  PROVE  StreamOk' /\ WindowOk' /\ Here' = Here + n + f
         /\ Len(delivered) <= Len(delivered')
<1> DEFINE a == Len(delivered)
           b == Len(refused_data)
           c == Len(delivered')
           d == Len(refused_data')
           u == FinLen(eof)
           v == FinLen(eof')
<1>1. /\ a \in Nat /\ b \in Nat /\ a + b <= N /\ u \in {0, 1} /\ Here = 1 + a + b + u
      /\ N \in Nat /\ TCP_WND \in Nat /\ rcv_wnd \in Nat /\ unread \in 0..a
      /\ rcv_wnd + unread + b + u = TCP_WND
  BY Numbers
<1>2. c = a + b + k /\ d = n - k
  <2> DEFINE x == a + b + k
             y == 1 + a + b + k
  <2>1. InStream(1, x) /\ delivered' = Bytes(1, x)
        /\ InStream(y, n - k) /\ refused_data' = Bytes(y, n - k)
    BY DEF Passed
  <2> HIDE DEF x, y
  <2>2. Len(delivered') = x /\ Len(refused_data') = n - k
    BY <2>1, BytesAre
  <2> QED BY <2>2 DEF x
<1>3. /\ InStream(1, c) /\ delivered' = Bytes(1, c)
      /\ InStream(1 + c, d) /\ refused_data' = Bytes(1 + c, d)
  <2>1. 1 + a + b + k = 1 + (a + b + k)
    <3> HIDE DEF a, b
    <3> QED BY <1>1
  <2> QED BY <1>2, <2>1 DEF Passed
<1>4. v = u + f /\ eof' \in BOOLEAN /\ (eof' => a + b + n = N)
      /\ rcv_nxt' = At(Here + n + f) /\ rcv_wnd' = rcv_wnd - n - f
      /\ rcv_wnd' \in Nat /\ unread' = unread + b + k
  BY DEF Passed
<1>5. Here' = 1 + (c + d + v)
  BY DEF Here, Received
<1> HIDE DEF a, b, c, d, u, v
<1>6. Here' = Here + n + f /\ a <= c /\ (a + b + n = N => c + d = N)
  BY <1>1, <1>2, <1>4, <1>5
<1>7. StreamOk'
  <2>1. rcv_nxt' = At(Here')
    BY <1>4, <1>6
  <2>2. eof' => c + d = N
    BY <1>4, <1>6
  <2> QED BY <1>3, <1>4, <2>1, <2>2 DEF StreamOk, c, d
<1>8. WindowOk'
  <2>1. unread' \in 0..c /\ rcv_wnd' + unread' + d + v = TCP_WND
    BY <1>1, <1>2, <1>4
  <2> QED BY <1>4, <2>1 DEF WindowOk, c, d, v
<1> QED BY <1>6, <1>7, <1>8 DEF a, c

LEMMA InputStep ==
  ASSUME RecvInv, NEW seg \in PeerSegs, tcp_input(seg),
         NEW e \in Nat, Situated(Here, e), e <= Here + rcv_ann_wnd,
         e \in 1..(Here + rcv_ann_wnd)
  PROVE  RecvStep(e) /\ (FinBeyond = FALSE /\ FinFits => FinFits') /\ RightKept
<1> DEFINE p == Here
           a == Len(delivered) + Len(refused_data)
<1>0. /\ Len(delivered) \in Nat /\ Len(refused_data) \in Nat /\ a <= N
      /\ p = 1 + a + FinLen(eof) /\ FinLen(eof) \in {0, 1} /\ eof \in BOOLEAN
      /\ p \in Nat \ {0} /\ rcv_wnd \in Nat /\ N \in Nat /\ a \in Nat
  <2>1. 1 + a + FinLen(eof) = 1 + Len(delivered) + Len(refused_data) + FinLen(eof)
    BY Numbers
  <2> QED BY <2>1, Numbers
<1>1. PICK copied \in BOOLEAN, answer \in Answers :
        \E r \in {tcp_receive(seg, copied)} :
          IF r.ok
          THEN /\ rcv_nxt' = r.nxt /\ rcv_wnd' = r.wnd /\ rcv_ann_wnd' = r.ann
               /\ ooseq' = r.ooseq
               /\ LET took == Kept \o IF answer = "ERR_OK" THEN r.data ELSE <<>>
                  IN  /\ delivered' = delivered \o took
                      /\ unread' = unread + Len(took)
               /\ refused_data' = IF answer = "ERR_OK" THEN <<>> ELSE r.data
               /\ eof' = (eof \/ r.fin)
               /\ Announce(r.nxt, r.ann, r.ack, r.empty \/ ACK_NOW \in r.ack)
               /\ UNCHANGED panic
          ELSE /\ panic' = TRUE
               /\ UNCHANGED <<rcv_nxt, rcv_wnd, rcv_ann_wnd, rcv_ann_right_edge,
                              ooseq, refused_data, ack, delivered, unread, eof>>
  BY Zenon DEF tcp_input
<1> DEFINE r == tcp_receive(seg, copied)
           z == IF answer = "ERR_OK" THEN r.data ELSE <<>>
<1>2. MayArrive(seg) /\ ~panic
  BY DEF tcp_input
<1>3. ResultOk(r, p, e)
  <2>1. /\ rcv_ann_wnd \in 0..rcv_wnd /\ QueueOk(ooseq, p, p + rcv_wnd)
        /\ ack \subseteq {ACK_DELAY, ACK_NOW}
    BY DEF RecvInv, EdgeOk, FlagsOk
  <2> HIDE DEF p
  <2> QED BY <1>2, <2>1, ReceiveOk DEF p
<1>4. IF r.ok
      THEN /\ rcv_nxt' = r.nxt /\ rcv_wnd' = r.wnd /\ rcv_ann_wnd' = r.ann
           /\ ooseq' = r.ooseq
           /\ delivered' = delivered \o (refused_data \o z)
           /\ unread' = unread + Len(refused_data \o z)
           /\ refused_data' = IF answer = "ERR_OK" THEN <<>> ELSE r.data
           /\ eof' = (eof \/ r.fin)
           /\ Announce(r.nxt, r.ann, r.ack, r.empty \/ ACK_NOW \in r.ack)
           /\ UNCHANGED panic
      ELSE /\ panic' = TRUE
           /\ UNCHANGED <<rcv_nxt, rcv_wnd, rcv_ann_wnd, rcv_ann_right_edge,
                          ooseq, refused_data, ack, delivered, unread, eof>>
  BY <1>1, Zenon DEF Kept
<1> DEFINE n == Len(r.data)
           f == FinLen(r.fin)
           x == p + n + f
<1>5. /\ n \in Nat /\ r.fin \in BOOLEAN /\ r.ok \in BOOLEAN
      /\ \/ r.data = << >> /\ r.fin = FALSE
         \/ /\ InStream(p, n) /\ r.data = Bytes(p, n)
            /\ r.fin => p + n = N + 1
      /\ r.nxt = At(x) /\ r.wnd = rcv_wnd - n - f
      /\ r.ok => /\ r.wnd \in Nat
                 /\ r.ann \in 0..r.wnd /\ e <= x + r.ann
                 /\ QueueOk(r.ooseq, x, p + rcv_wnd)
      /\ r.ack \subseteq {ACK_DELAY, ACK_NOW}
      /\ FinBeyond = FALSE /\ (HasFin(ooseq) => N + 2 <= p + rcv_wnd)
           => r.ok /\ (HasFin(r.ooseq) => N + 2 <= p + rcv_wnd)
  BY <1>3, Zenon DEF ResultOk
<1> HIDE DEF r, p
<1>6. CASE ~r.ok
  <2>1. /\ panic' = TRUE
        /\ UNCHANGED <<rcv_nxt, rcv_wnd, rcv_ann_wnd, rcv_ann_right_edge,
                       ooseq, refused_data, ack, delivered, unread, eof>>
    BY <1>4, <1>6, Zenon
  <2>2. Here' = Here
    BY <2>1 DEF Here, Received
  <2>3. StreamOk' /\ WindowOk' /\ QueueOk(ooseq, Here, Here + rcv_wnd)'
    BY <2>1, <2>2 DEF RecvInv, StreamOk, WindowOk
  <2>4. FlagsOk'
    BY <2>1 DEF RecvInv, FlagsOk
  <2>5. rcv_ann_wnd' \in 0..(rcv_wnd') /\ EdgeMoves(e, Here' + rcv_ann_wnd')
    <3>1. rcv_ann_wnd \in 0..rcv_wnd /\ rcv_ann_right_edge = At(e)
      BY DEF RecvInv, EdgeOk, Situated
    <3>2. e \in e..(Here + rcv_ann_wnd)
      BY <1>0, <3>1 DEF p
    <3> QED BY <2>1, <2>2, <3>1, <3>2 DEF EdgeMoves
  <2>6. Len(delivered) <= Len(delivered') /\ (eof => eof')
    BY <1>0, <2>1
  <2>7. FinBeyond = FALSE /\ FinFits => FALSE
    BY <1>5, <1>6 DEF FinFits, p
  <2>8. RightKept
    BY <2>1, <2>2 DEF RightKept
  <2> QED BY <2>3, <2>4, <2>5, <2>6, <2>7, <2>8 DEF RecvStep
<1>7. CASE r.ok
  <2>1. /\ rcv_nxt' = r.nxt /\ rcv_wnd' = r.wnd /\ rcv_ann_wnd' = r.ann
        /\ ooseq' = r.ooseq
        /\ delivered' = delivered \o (refused_data \o z)
        /\ unread' = unread + Len(refused_data \o z)
        /\ refused_data' = IF answer = "ERR_OK" THEN <<>> ELSE r.data
        /\ eof' = (eof \/ r.fin)
        /\ Announce(r.nxt, r.ann, r.ack, r.empty \/ ACK_NOW \in r.ack)
        /\ panic' = panic
    BY <1>4, <1>7, Zenon
  <2>2. r.wnd \in Nat /\ r.ann \in 0..r.wnd /\ e <= x + r.ann
        /\ QueueOk(r.ooseq, x, p + rcv_wnd)
    BY <1>5, <1>7
  <2>3. /\ InStream(1 + a, n) /\ r.data = Bytes(1 + a, n)
        /\ f \in {0, 1} /\ eof' \in BOOLEAN /\ FinLen(eof') = FinLen(eof) + f
        /\ (eof => eof') /\ (eof' => a + n = N)
    <3>1. CASE r.data = << >> /\ r.fin = FALSE
      <4>1. n = 0 /\ f = 0 /\ eof' = eof
        BY <1>0, <2>1, <3>1, EmptySeq DEF FinLen
      <4>2. InStream(1 + a, 0)
        BY <1>0 DEF InStream
      <4>3. Bytes(1 + a, 0) = << >>
        <5>1. 1 + a \in Nat
          BY <1>0
        <5> QED BY <5>1, NoBytes
      <4>4. eof => a + 0 = N
        <5>1. eof => Len(delivered) + Len(refused_data) = N
          BY DEF RecvInv, StreamOk
        <5> QED BY <1>0, <5>1
      <4>5. FinLen(eof) = FinLen(eof) + 0
        BY <1>0
      <4> QED BY <1>0, <3>1, <4>1, <4>2, <4>3, <4>4, <4>5
    <3>2. CASE InStream(p, n) /\ r.data = Bytes(p, n) /\ (r.fin => p + n = N + 1)
      <4>1. ~eof
        <5> SUFFICES ASSUME eof PROVE FALSE
          OBVIOUS
        <5>1. a = N /\ FinLen(eof) = 1
          BY DEF RecvInv, StreamOk, FinLen
        <5>2. p = 1 + N + 1 /\ N \in Nat /\ n \in Nat /\ InStream(p, n)
          BY <1>0, <1>5, <3>2, <5>1
        <5> HIDE DEF n
        <5> QED BY <5>2 DEF InStream
      <4>2. FinLen(eof) = 0 /\ p = 1 + a
        <5>1. FinLen(eof) = 0
          BY <4>1 DEF FinLen
        <5> QED BY <1>0, <5>1
      <4>3. eof' = r.fin
        BY <1>0, <1>5, <2>1, <4>1
      <4>4. f \in {0, 1} /\ FinLen(eof') = 0 + f
        BY <4>3 DEF FinLen
      <4>5. r.fin => a + n = N
        <5>1. r.fin => 1 + a + n = N + 1
          BY <3>2, <4>2
        <5>2. a \in Nat /\ n \in Nat /\ N \in Nat
          BY <1>0, <1>5
        <5> HIDE DEF a, n
        <5> QED BY <5>1, <5>2
      <4> QED BY <1>5, <3>2, <4>1, <4>2, <4>3, <4>4, <4>5
    <3> QED BY <1>5, <3>1, <3>2
  <2> DEFINE k == IF answer = "ERR_OK" THEN n ELSE 0
  <2>4. k \in 0..n /\ n - k \in Nat
    BY <1>5
  <2>5. z = Bytes(1 + a, k) /\ InStream(1 + a, k)
    <3>1. CASE answer = "ERR_OK"
      BY <2>3, <3>1
    <3>2. CASE answer # "ERR_OK"
      <4>1. 1 + a \in Nat
        BY <1>0
      <4>2. InStream(1 + a, 0)
        BY <1>0 DEF InStream
      <4> QED BY <3>2, <4>1, <4>2, NoBytes
    <3> QED BY <3>1, <3>2
  <2>6. refused_data' = Bytes(1 + a + k, n - k) /\ InStream(1 + a + k, n - k)
    <3>1. CASE answer = "ERR_OK"
      <4>0. k = n /\ a \in Nat /\ n \in Nat /\ N \in Nat /\ refused_data' = << >>
        BY <1>0, <1>5, <2>1, <3>1
      <4>a. InStream(1 + a, n)
        BY <2>3
      <4> HIDE DEF a, n, k
      <4>1. 1 + a + k \in Nat /\ n - k = 0 /\ refused_data' = << >>
        BY <4>0
      <4>2. InStream(1 + a + k, 0)
        BY <4>0, <4>a DEF InStream
      <4> QED BY <4>1, <4>2, NoBytes
    <3>2. CASE answer # "ERR_OK"
      <4>1. 1 + a + k = 1 + a /\ n - k = n /\ refused_data' = r.data
        BY <1>0, <1>5, <2>1, <3>2
      <4> QED BY <2>3, <4>1
    <3> QED BY <3>1, <3>2
  <2> HIDE DEF k, z, n, f, a
  <2>7. /\ delivered' = Bytes(1, a + k) /\ InStream(1, a + k)
        /\ Len(refused_data \o z) = Len(refused_data) + k
    <3> DEFINE i == Len(delivered)
               j == Len(refused_data)
    <3>1. /\ InStream(1, i) /\ delivered = Bytes(1, i)
          /\ InStream(1 + i, j) /\ refused_data = Bytes(1 + i, j)
      BY DEF RecvInv, StreamOk
    <3>0. i \in Nat /\ j \in Nat /\ a = i + j
      BY <1>0 DEF a
    <3> HIDE DEF i, j
    <3>2. 1 + a = 1 + i + j /\ a = i + j
      BY <3>0
    <3>3. z = Bytes(1 + i + j, k) /\ InStream(1 + i + j, k)
      BY <2>5, <3>2
    <3>4. /\ delivered \o (refused_data \o z) = Bytes(1, i + j + k)
          /\ InStream(1, i + j + k) /\ Len(refused_data \o z) = j + k
      <4> DEFINE y == Bytes(1 + i, j)
                 w == Bytes(1 + i + j, k)
      <4>1. /\ Bytes(1, i) \o (y \o w) = Bytes(1, i + j + k)
            /\ InStream(1, i + j + k) /\ Len(y \o w) = j + k
        <5>1. ThreeParts(i, j, k)
          BY <3>1, <3>3 DEF ThreeParts
        <5> QED BY <5>1, AppendBytes
      <4>2. delivered = Bytes(1, i) /\ refused_data = y /\ z = w
        BY <3>1, <3>3
      <4> HIDE DEF y, w
      <4> QED BY <4>1, <4>2
    <3> QED BY <2>1, <3>2, <3>4 DEF j
  <2>8. Passed(n, f, k)
    <3>1. unread' = unread + Len(refused_data) + k
      <4>1. unread \in Nat /\ Len(refused_data) \in Nat /\ k \in Nat
        <5>1. unread \in 0..Len(delivered) /\ n \in Nat
          BY <1>5, Numbers DEF n
        <5> QED BY <1>0, <2>4, <5>1
      <4> QED BY <2>1, <2>7, <4>1
    <3>2. rcv_nxt' = At(Here + n + f) /\ rcv_wnd' = rcv_wnd - n - f /\ rcv_wnd' \in Nat
      BY <1>5, <2>1, <2>2 DEF p, n, f
    <3>3. /\ InStream(1 + Len(delivered) + Len(refused_data) + k, n - k)
          /\ refused_data' = Bytes(1 + Len(delivered) + Len(refused_data) + k, n - k)
      <4>1. 1 + a + k = 1 + Len(delivered) + Len(refused_data) + k
        BY <1>0 DEF a
      <4> QED BY <2>6, <4>1
    <3> QED BY <2>3, <2>7, <3>1, <3>2, <3>3 DEF Passed, a
  <2>9. StreamOk' /\ WindowOk' /\ Here' = Here + n + f
        /\ Len(delivered) <= Len(delivered')
    BY <1>5, <2>3, <2>4, <2>8, PassedOk DEF n
  <2>10. Here' = x /\ x \in Nat \ {0} /\ x + r.wnd = p + rcv_wnd
    <3>1. n \in Nat /\ r.wnd = rcv_wnd - n - f
      BY <1>5 DEF n, f
    <3>2. p \in Nat \ {0} /\ rcv_wnd \in Nat /\ f \in {0, 1} /\ Here' = p + n + f
      BY <1>0, <2>3, <2>9 DEF p
    <3> QED BY <3>1, <3>2
  <2> HIDE DEF x
  <2>11. QueueOk(ooseq, Here, Here + rcv_wnd)'
    <3>1. QueueOk(ooseq', Here', Here' + rcv_wnd')
      BY <2>1, <2>2, <2>10
    <3> QED BY <3>1
  <2>12. EdgeMoves(e, x + r.ann) /\ ack' \subseteq {ACK_DELAY, ACK_NOW}
    <3>1. Announce(At(x), r.ann, r.ack, r.empty \/ ACK_NOW \in r.ack)
      BY <1>5, <2>1 DEF x, n, f
    <3>2. /\ r.ann \in Nat /\ e \in 1..(x + r.ann) /\ rcv_ann_right_edge = At(e)
          /\ r.ack \in SUBSET {ACK_DELAY, ACK_NOW}
      BY <1>5, <2>2, <2>10 DEF Situated
    <3> DEFINE called == r.empty \/ ACK_NOW \in r.ack
    <3> HIDE DEF called
    <3>3. Announce(At(x), r.ann, r.ack, called)
      BY <3>1 DEF called
    <3> QED BY <2>10, <3>2, <3>3, AnnounceOk
  <2>13. FlagsOk'
    BY <2>1, <2>12 DEF RecvInv, FlagsOk
  <2>14. RecvStep(e)
    BY <2>1, <2>2, <2>3, <2>9, <2>10, <2>11, <2>12, <2>13 DEF RecvStep
  <2>15. FinBeyond = FALSE /\ FinFits => FinFits'
    <3> SUFFICES ASSUME FinBeyond = FALSE, FinFits PROVE FinFits'
      OBVIOUS
    <3>1. HasFin(r.ooseq) => N + 2 <= p + rcv_wnd
      BY <1>5 DEF FinFits, p
    <3>2. HasFin(ooseq') => N + 2 <= Here' + rcv_wnd'
      BY <2>1, <2>10, <3>1
    <3>3. ~panic'
      BY <1>2, <2>1
    <3> QED BY <3>2, <3>3 DEF FinFits, HasFin
  <2>16. RightKept
    BY <2>1, <2>10 DEF RightKept, p
  <2> QED BY <2>14, <2>15, <2>16
<1> QED BY <1>5, <1>6, <1>7

\* The other steps.
LEMMA SameStream ==
  ASSUME RecvInv,
         UNCHANGED <<delivered, refused_data, eof, rcv_nxt, rcv_wnd, unread>>
  PROVE  StreamOk' /\ WindowOk' /\ Here' = Here /\ (eof => eof')
         /\ Len(delivered) <= Len(delivered')
<1>1. Here' = Here
  BY DEF Here, Received
<1>2. StreamOk'
  BY <1>1 DEF RecvInv, StreamOk
<1>3. WindowOk'
  BY DEF RecvInv, WindowOk
<1>4. Len(delivered) <= Len(delivered')
  BY Numbers
<1> QED BY <1>1, <1>2, <1>3, <1>4

\* The right edge of a connection at rest stays or is announced again.
LEMMA SameEdge ==
  ASSUME RecvInv, NEW e \in Nat, Situated(Here, e), e <= Here + rcv_ann_wnd,
         \/ rcv_ann_right_edge' = rcv_ann_right_edge
         \/ rcv_ann_right_edge' = Plus(rcv_nxt, rcv_ann_wnd)
  PROVE  EdgeMoves(e, Here + rcv_ann_wnd)
<1>1. Here \in Nat /\ rcv_ann_wnd \in Nat /\ rcv_nxt = At(Here)
      /\ rcv_ann_right_edge = At(e)
  <2>1. Here \in Nat /\ rcv_wnd \in Nat
    BY Numbers
  <2>2. rcv_ann_wnd \in 0..rcv_wnd
    BY DEF RecvInv, EdgeOk
  <2> QED BY <2>1, <2>2 DEF Situated
<1>2. Plus(rcv_nxt, rcv_ann_wnd) = At(Here + rcv_ann_wnd)
  BY <1>1, PlusAt
<1>3. e \in e..(Here + rcv_ann_wnd) /\ Here + rcv_ann_wnd \in e..(Here + rcv_ann_wnd)
  BY <1>1
<1> QED BY <1>1, <1>2, <1>3 DEF EdgeMoves

LEMMA RecvedStep ==
  ASSUME RecvInv, NEW len \in 1..N, tcp_recved(len),
         NEW e \in Nat, Situated(Here, e), e <= Here + rcv_ann_wnd
  PROVE  RecvStep(e) /\ (FinFits => FinFits')
<1> DEFINE wnd == rcv_wnd + len
           ann == AnnWnd(rcv_nxt, wnd)
           moved == Minus(Plus(rcv_nxt, wnd), rcv_ann_right_edge)
           grown == moved >= Worthwhile /\ moved >= TCP_WND_UPDATE_THRESHOLD
           flags == IF grown THEN ack \cup {ACK_NOW} ELSE ack
<1>1. /\ len \in 1..unread /\ unread' = unread - len
      /\ UNCHANGED <<rcv_nxt, ooseq, refused_data, delivered, eof, panic>>
  BY DEF tcp_recved
<1>2. /\ Len(delivered) \in Nat /\ Len(refused_data) \in Nat /\ unread \in Nat
      /\ FinLen(eof) \in Nat /\ rcv_wnd \in Nat /\ N \in Nat /\ TCP_WND \in Nat
      /\ rcv_wnd + unread + Len(refused_data) + FinLen(eof) = TCP_WND
      /\ Here = 1 + Len(delivered) + Len(refused_data) + FinLen(eof)
      /\ Len(delivered) + Len(refused_data) <= N /\ unread <= Len(delivered)
      /\ Here \in Nat \ {0}
  BY Numbers, SMTT(30)
<1>3. wnd \in Nat /\ ~(wnd > TCP_WND) /\ Here + wnd <= N + TCP_WND + 1 /\ len \in Nat
  BY <1>1, <1>2, SMTT(30)
<1>4. rcv_wnd' = wnd /\ rcv_ann_wnd' = ann /\ Announce(rcv_nxt, ann, flags, grown)
  <2> HIDE DEF ann, moved
  <2>1. (IF wnd > TCP_WND THEN TCP_WND ELSE wnd) = wnd
    BY <1>3
  <2> QED BY <2>1, Zenon DEF tcp_recved, ann, moved
<1>5. flags \in SUBSET {ACK_DELAY, ACK_NOW}
  BY DEF RecvInv, FlagsOk
<1> HIDE DEF wnd, flags, grown, ann
<1>6. rcv_nxt = At(Here) /\ rcv_ann_right_edge = At(e) /\ e \in 1..(Here + rcv_wnd)
  BY DEF Situated
<1>7. e \in 1..(Here + wnd)
  <2>1. Here \in Nat /\ rcv_wnd \in Nat /\ len \in Nat /\ e \in 1..(Here + rcv_wnd)
    BY <1>2, <1>3, <1>6
  <2> QED BY <2>1 DEF wnd
<1>8. ann \in 0..wnd /\ e <= Here + ann
  <2>1. AnnWnd(At(Here), wnd) \in 0..wnd /\ e <= Here + AnnWnd(At(Here), wnd)
    BY <1>2, <1>3, <1>6, <1>7, AnnOk
  <2> QED BY <1>6, <2>1 DEF ann
<1>9. EdgeMoves(e, Here + ann) /\ ack' \subseteq {ACK_DELAY, ACK_NOW}
  <2>1. Announce(At(Here), ann, flags, grown) /\ ann \in Nat
        /\ e \in 1..(Here + ann)
    BY <1>3, <1>4, <1>6, <1>7, <1>8
  <2> QED BY <1>2, <1>5, <1>6, <2>1, AnnounceOk
<1>10. Here' = Here
  BY <1>1 DEF Here, Received
<1>11. StreamOk'
  BY <1>1, <1>10 DEF RecvInv, StreamOk
<1>12. WindowOk'
  <2>1. unread' \in 0..Len(delivered)
        /\ wnd + unread' + Len(refused_data) + FinLen(eof) = TCP_WND
    BY <1>1, <1>2, <1>3 DEF wnd
  <2> QED BY <1>1, <1>3, <1>4, <2>1 DEF WindowOk
<1>13. QueueOk(ooseq, Here, Here + rcv_wnd)'
  <2> DEFINE hi == Here + rcv_wnd
             high == Here + wnd
  <2>0. Here \in Nat /\ rcv_wnd \in Nat /\ len \in Nat
    BY <1>2, <1>3
  <2>1. hi \in Int /\ high \in Int /\ hi <= high
    BY <2>0 DEF wnd
  <2>4. QueueOk(ooseq, Here, hi)
    BY DEF RecvInv
  <2> HIDE DEF hi, high
  <2>2. QueueOk(ooseq, Here, high)
    BY <2>1, <2>4, WiderOk
  <2>3. QueueOk(ooseq', Here', Here' + rcv_wnd')
    BY <1>1, <1>4, <1>10, <2>2 DEF high
  <2> QED BY <2>3
<1>14. FlagsOk'
  BY <1>1, <1>9 DEF RecvInv, FlagsOk
<1>15. Len(delivered) <= Len(delivered') /\ (eof => eof')
  BY <1>1, <1>2
<1>16. RecvStep(e)
  BY <1>4, <1>8, <1>9, <1>10, <1>11, <1>12, <1>13, <1>14, <1>15 DEF RecvStep
<1>17. FinFits => FinFits'
  <2> SUFFICES ASSUME FinFits PROVE FinFits'
    OBVIOUS
  <2>1. HasFin(ooseq) => N + 2 <= Here + wnd
    <3> SUFFICES ASSUME N + 2 <= Here + rcv_wnd PROVE N + 2 <= Here + wnd
      BY DEF FinFits
    <3>1. N \in Nat /\ Here \in Nat /\ rcv_wnd \in Nat /\ len \in Nat
      BY <1>2, <1>3
    <3> QED BY <3>1 DEF wnd
  <2>2. HasFin(ooseq') => N + 2 <= Here' + rcv_wnd'
    BY <1>1, <1>4, <1>10, <2>1
  <2> QED BY <1>1, <2>2 DEF FinFits, HasFin
<1> QED BY <1>16, <1>17

LEMMA FasttmrStep ==
  ASSUME RecvInv, tcp_fasttmr,
         NEW e \in Nat, Situated(Here, e), e <= Here + rcv_ann_wnd
  PROVE  RecvStep(e) /\ (FinFits => FinFits') /\ RightKept
<1>1. UNCHANGED <<rcv_nxt, rcv_wnd, rcv_ann_wnd, ooseq, eof, panic>>
  BY DEF tcp_fasttmr
<1>2. PICK answer \in Answers :
        LET took == IF answer = "ERR_OK" THEN Kept ELSE <<>>
        IN  /\ delivered' = delivered \o took
            /\ unread' = unread + Len(took)
            /\ refused_data' = IF answer = "ERR_OK" THEN <<>> ELSE refused_data
  BY DEF tcp_fasttmr
<1> DEFINE a == Len(delivered)
           b == Len(refused_data)
<1>3. /\ InStream(1, a) /\ delivered = Bytes(1, a)
      /\ InStream(1 + a, b) /\ refused_data = Bytes(1 + a, b)
      /\ eof \in BOOLEAN /\ (eof => a + b = N) /\ rcv_nxt = At(Here)
  BY DEF RecvInv, StreamOk
<1>4. a \in Nat /\ b \in Nat /\ N \in Nat /\ unread \in Nat /\ FinLen(eof) \in Nat
      /\ Here \in Nat /\ rcv_wnd \in Nat /\ a + b <= N
  BY Numbers, SMTT(30)
<1>5. StreamOk' /\ WindowOk' /\ Here' = Here /\ Len(delivered) <= Len(delivered')
  <2>1. CASE answer = "ERR_OK"
    <3>1. /\ delivered' = delivered \o refused_data /\ refused_data' = << >>
          /\ unread' = unread + b
      BY <1>2, <2>1 DEF Kept
    <3> HIDE DEF a, b
    <3>2. InStream(1, a + b) /\ Bytes(1, a) \o Bytes(1 + a, b) = Bytes(1, a + b)
      BY <1>3, BytesConcat
    <3>3. delivered' = Bytes(1, a + b)
      BY <1>3, <3>1, <3>2
    <3>4. /\ a + b + 0 = a + b /\ 1 + a + b + 0 \in Nat /\ 0 - 0 = 0
          /\ unread + b + 0 = unread + b /\ Here + 0 + 0 = Here
          /\ rcv_wnd - 0 - 0 = rcv_wnd /\ FinLen(eof) + 0 = FinLen(eof)
      BY <1>4
    <3>5. Bytes(1 + a + b + 0, 0) = << >>
      BY <3>4, NoBytes
    <3>6. InStream(1 + a + b + 0, 0)
      BY <1>4 DEF InStream
    <3>7. Passed(0, 0, 0)
      BY <1>1, <1>3, <1>4, <3>1, <3>2, <3>3, <3>4, <3>5, <3>6 DEF Passed, a, b
    <3>8. StreamOk' /\ WindowOk' /\ Here' = Here + 0 + 0
          /\ Len(delivered) <= Len(delivered')
      <4>1. 0 \in Nat /\ 0 \in 0..0 /\ 0 \in {0, 1}
        OBVIOUS
      <4> QED BY <3>7, <4>1, PassedOk
    <3> QED BY <3>4, <3>8
  <2>2. CASE answer # "ERR_OK"
    <3>1. delivered' = delivered \o << >> /\ unread' = unread + Len(<< >>)
          /\ refused_data' = refused_data
      BY <1>2, <2>2
    <3>2. delivered \in Seq(Nat)
      BY <1>3, BytesAre
    <3>3. delivered \o << >> = delivered
      BY <3>2, ConcatEmptySeq
    <3>4. unread + Len(<< >>) = unread
      BY <1>4, EmptySeq
    <3>5. UNCHANGED <<delivered, refused_data, eof, rcv_nxt, rcv_wnd, unread>>
      BY <1>1, <3>1, <3>3, <3>4
    <3> QED BY <3>5, SameStream
  <2> QED BY <2>1, <2>2
<1>6. \/ rcv_ann_right_edge' = rcv_ann_right_edge
      \/ rcv_ann_right_edge' = Plus(rcv_nxt, rcv_ann_wnd)
  BY DEF tcp_fasttmr
<1>7. ack' \subseteq {ACK_DELAY, ACK_NOW}
  BY DEF tcp_fasttmr, RecvInv, FlagsOk
<1>8. EdgeMoves(e, Here' + rcv_ann_wnd')
  <2>1. EdgeMoves(e, Here + rcv_ann_wnd)
    BY <1>6, SameEdge
  <2> QED BY <1>1, <1>5, <2>1
<1>9. QueueOk(ooseq, Here, Here + rcv_wnd)'
  <2>1. QueueOk(ooseq', Here', Here' + rcv_wnd')
    BY <1>1, <1>5 DEF RecvInv
  <2> QED BY <2>1
<1>10. rcv_ann_wnd' \in 0..(rcv_wnd') /\ FlagsOk'
  BY <1>1, <1>7 DEF RecvInv, EdgeOk, FlagsOk
<1>11. RecvStep(e)
  BY <1>1, <1>5, <1>8, <1>9, <1>10 DEF RecvStep
<1>12. FinFits => FinFits'
  BY <1>1, <1>5 DEF FinFits, HasFin
<1>13. RightKept
  BY <1>1, <1>5 DEF RightKept
<1> QED BY <1>11, <1>12, <1>13

LEMMA QuietStep ==
  ASSUME RecvInv, tcp_output_segment \/ DropOoseq \/ UNCHANGED vars,
         NEW e \in Nat, Situated(Here, e), e <= Here + rcv_ann_wnd
  PROVE  RecvStep(e) /\ (FinFits => FinFits') /\ RightKept
<1>1. /\ UNCHANGED <<delivered, refused_data, eof, rcv_nxt, rcv_wnd, unread>>
      /\ UNCHANGED <<rcv_ann_wnd, panic>>
      /\ ack' \subseteq ack
      /\ ooseq' = ooseq \/ ooseq' = << >>
      /\ \/ rcv_ann_right_edge' = rcv_ann_right_edge
         \/ rcv_ann_right_edge' = Plus(rcv_nxt, rcv_ann_wnd)
  <2>1. CASE tcp_output_segment
    BY <2>1 DEF tcp_output_segment
  <2>2. CASE DropOoseq
    BY <2>2 DEF DropOoseq
  <2>3. CASE UNCHANGED vars
    BY <2>3 DEF vars
  <2> QED BY <2>1, <2>2, <2>3
<1>2. StreamOk' /\ WindowOk' /\ Here' = Here /\ (eof => eof')
      /\ Len(delivered) <= Len(delivered')
  BY <1>1, SameStream
<1>3. EdgeMoves(e, Here' + rcv_ann_wnd')
  <2>1. EdgeMoves(e, Here + rcv_ann_wnd)
    BY <1>1, SameEdge
  <2> QED BY <1>1, <1>2, <2>1
<1>4. QueueOk(ooseq, Here, Here + rcv_wnd)'
  <2>1. QueueOk(ooseq, Here, Here + rcv_wnd) /\ QueueOk(<< >>, Here, Here + rcv_wnd)
    BY EmptyOk DEF RecvInv
  <2>2. QueueOk(ooseq', Here', Here' + rcv_wnd')
    BY <1>1, <1>2, <2>1
  <2> QED BY <2>2
<1>5. rcv_ann_wnd' \in 0..(rcv_wnd') /\ FlagsOk'
  BY <1>1 DEF RecvInv, EdgeOk, FlagsOk
<1>6. RecvStep(e)
  BY <1>1, <1>2, <1>3, <1>4, <1>5 DEF RecvStep
<1>7. FinFits => FinFits'
  <2>1. HasFin(ooseq') => HasFin(ooseq)
    <3>1. Len(<< >>) = 0
      BY EmptySeq
    <3> QED BY <1>1, <3>1 DEF HasFin
  <2> QED BY <1>1, <1>2, <2>1 DEF FinFits, HasFin
<1>8. RightKept
  BY <1>1, <1>2 DEF RightKept
<1> QED BY <1>6, <1>7, <1>8

\* Every step, from where the right edge is.
LEMMA EveryStep ==
  ASSUME RecvInv, [Next]_vars
  PROVE  \E e \in Nat : /\ Situated(Here, e) /\ RecvStep(e)
                        /\ FinBeyond = FALSE /\ FinFits => FinFits'
<1>1. PICK e \in Nat : /\ Situated(Here, e) /\ e <= Here + rcv_ann_wnd
                       /\ e \in 1..(Here + rcv_ann_wnd)
  BY Sits
<1>2. CASE \E seg \in PeerSegs : tcp_input(seg)
  <2>1. PICK seg \in PeerSegs : tcp_input(seg)
    BY <1>2
  <2> QED BY <1>1, <2>1, InputStep
<1>3. CASE \E len \in 1..N : tcp_recved(len)
  <2>1. PICK len \in 1..N : tcp_recved(len)
    BY <1>3
  <2> QED BY <1>1, <2>1, RecvedStep
<1>4. CASE tcp_fasttmr
  BY <1>1, <1>4, FasttmrStep
<1>5. CASE tcp_output_segment \/ DropOoseq \/ UNCHANGED vars
  BY <1>1, <1>5, QuietStep
<1> QED BY <1>2, <1>3, <1>4, <1>5 DEF Next

LEMMA StepInv ==
  ASSUME RecvInv, NEW e \in Nat, Situated(Here, e), RecvStep(e)
  PROVE  RecvInv'
<1>1. e \in Nat \ {0}
  BY DEF Situated
<1>2. PICK d \in e..(Here' + rcv_ann_wnd') : rcv_ann_right_edge' = At(d)
  BY DEF RecvStep, EdgeMoves
<1>3. d \in 1..(Here' + rcv_ann_wnd')
  BY <1>1, <1>2
<1>4. EdgeOk'
  BY <1>2, <1>3 DEF EdgeOk, RecvStep
<1> QED BY <1>4 DEF RecvInv, RecvStep

LEMMA NextInv == RecvInv /\ [Next]_vars => RecvInv'
BY EveryStep, StepInv

-----------------------------------------------------------------------------
(* The theorems.                                                           *)

\* The inductive invariant of the receiver holds in every reachable state.
THEOREM ReceiverInvariant == Spec => []RecvInv
<1>1. Init => RecvInv
  BY InitInv
<1> QED BY <1>1, NextInv, PTL DEF Spec

\* What the application got and what is kept for it is a prefix of the stream.
LEMMA InvPrefix == RecvInv => StreamPrefix
<1> SUFFICES ASSUME RecvInv PROVE StreamPrefix
  OBVIOUS
<1> DEFINE a == Len(delivered)
           b == Len(refused_data)
           got == delivered \o refused_data
<1>1. /\ InStream(1, a) /\ delivered = Bytes(1, a)
      /\ InStream(1 + a, b) /\ refused_data = Bytes(1 + a, b)
      /\ eof => a + b = N
      /\ rcv_nxt = At(Here)
  BY DEF RecvInv, StreamOk
<1>2. a \in Nat /\ b \in Nat /\ a + b <= N /\ N \in Nat
  BY Numbers
<1> HIDE DEF a, b
<1>3. InStream(1, a + b) /\ got = Bytes(1, a + b)
  BY <1>1, BytesConcat
<1>4. Len(got) = a + b
  BY <1>3, BytesAre
<1>5. 1 + (a + b) - 1 = a + b
  BY <1>2
<1>6. got = SubSeq(Stream, 1, Len(got))
  BY <1>3, <1>4, <1>5 DEF Bytes
<1>7. rcv_nxt = Plus(ISN, 1 + Received)
  BY <1>1 DEF At, Here
<1> QED BY <1>1, <1>2, <1>4, <1>6, <1>7 DEF StreamPrefix

\* tcp_input() and tcp_fasttmr() pass the peer's bytes in order and once, and
\* rcv_nxt acknowledges exactly what was passed or kept: for every stream,
\* window and initial sequence number.
THEOREM StreamAlwaysPrefix == Spec => []StreamPrefix
BY ReceiverInvariant, InvPrefix, PTL

LEMMA InvOrdered == RecvInv => OoseqOrdered
<1> SUFFICES ASSUME RecvInv, NEW i \in DOMAIN ooseq
             PROVE  LET s   == ooseq[i]
                        pos == Minus(s.seqno, ISN)
                    IN  /\ TCP_SEQ_GT(s.seqno, rcv_nxt)
                        /\ i < Len(ooseq)
                             => TCP_SEQ_GEQ(ooseq[i + 1].seqno, End(s)) /\ ~s.fin
                        /\ s.data = SubSeq(Stream, pos, pos + Len(s.data) - 1)
                        /\ s.fin => pos + Len(s.data) = N + 1
  BY DEF OoseqOrdered
<1> DEFINE s == ooseq[i]
           pos == Minus(s.seqno, ISN)
<1>1. /\ ooseq \in Seq(Segments)
      /\ \A j \in 1..Len(ooseq) : Queued(ooseq[j], Here, Here + rcv_wnd)
      /\ \A j, k \in 1..Len(ooseq) : j < k => Before(ooseq[j], ooseq[k])
  BY DEF RecvInv, QueueOk
<1>2. i \in 1..Len(ooseq) /\ Len(ooseq) \in Nat
  BY <1>1
<1>3. IsSlice(s) /\ Here < Pos(s)
  BY <1>1, <1>2 DEF Queued
<1>4. /\ s.seqno = At(Pos(s)) /\ s.data = Bytes(Pos(s), Len(s.data))
      /\ End(s) = At(Last(s)) /\ (s.fin => Last(s) = N + 1)
      /\ Pos(s) \in Positions /\ Last(s) \in Positions
  BY <1>3, SliceIs
<1>5. TCP_SEQ_GT(s.seqno, rcv_nxt)
  <2>1. Here \in Nat /\ Here + rcv_wnd <= N + TCP_WND + 1 /\ N \in Nat
        /\ TCP_WND \in Nat /\ rcv_wnd \in Nat
    BY Numbers
  <2>2. Here \in Positions
    BY <2>1 DEF Positions
  <2>3. rcv_nxt = At(Here)
    BY DEF RecvInv, StreamOk
  <2>4. Pos(s) > Here
    BY <1>3, <1>4, <2>2 DEF Positions
  <2> QED BY <1>4, <2>2, <2>3, <2>4, Compare
<1>6. ASSUME i < Len(ooseq)
      PROVE  TCP_SEQ_GEQ(ooseq[i + 1].seqno, End(s)) /\ ~s.fin
  <2>1. i + 1 \in 1..Len(ooseq) /\ i < i + 1
    BY <1>2, <1>6
  <2>2. Before(s, ooseq[i + 1]) /\ IsSlice(ooseq[i + 1])
    BY <1>1, <1>2, <2>1 DEF Queued
  <2> DEFINE t == ooseq[i + 1]
  <2>3. t.seqno = At(Pos(t)) /\ Pos(t) \in Positions
    BY <2>2, SliceIs
  <2>4. Last(s) <= Pos(t) /\ ~s.fin
    BY <2>2 DEF Before
  <2> HIDE DEF t
  <2>5. Pos(t) >= Last(s)
    BY <1>4, <2>3, <2>4 DEF Positions
  <2>6. TCP_SEQ_GEQ(t.seqno, End(s))
    BY <1>4, <2>3, <2>5, Compare
  <2> QED BY <2>4, <2>6 DEF t
<1>7. Pos(s) = pos
  BY DEF Pos
<1> QED BY <1>4, <1>5, <1>6, <1>7 DEF Last, Bytes

\* The comment of tcp_receive() is right: the out-of-sequence queue stays
\* ordered, its segments apart and past rcv_nxt, a FIN only at its end, whatever
\* arrives in whatever order.
THEOREM OoseqAlwaysOrdered == Spec => []OoseqOrdered
BY ReceiverInvariant, InvOrdered, PTL

LEMMA InvWindow == RecvInv => WindowExact
<1> SUFFICES ASSUME RecvInv PROVE WindowExact
  OBVIOUS
<1>1. /\ Here \in Nat /\ rcv_wnd \in Nat /\ N \in Nat /\ TCP_WND \in Nat
      /\ Len(delivered) \in Nat /\ Len(refused_data) \in Nat
      /\ Len(delivered) + Len(refused_data) <= N
      /\ unread \in 0..Len(delivered) /\ FinLen(eof) \in {0, 1} /\ eof \in BOOLEAN
      /\ rcv_wnd + unread + Len(refused_data) + FinLen(eof) = TCP_WND
  BY Numbers
<1>2. rcv_ann_wnd \in 0..rcv_wnd
  BY DEF RecvInv, EdgeOk
<1>3. rcv_wnd \in 0..TCP_WND /\ rcv_ann_wnd \in 0..TCP_WND /\ unread \in 0..N
  <2> DEFINE a == Len(delivered)
             b == Len(refused_data)
             f == FinLen(eof)
  <2>1. a \in Nat /\ b \in Nat /\ a + b <= N /\ unread \in 0..a /\ f \in {0, 1}
        /\ rcv_wnd + unread + b + f = TCP_WND
    BY <1>1
  <2> HIDE DEF a, b, f
  <2> QED BY <1>1, <1>2, <2>1
<1>4. PICK e \in Nat : Situated(Here, e)
  BY Sits
<1>5. rcv_nxt \in SeqNos /\ rcv_ann_right_edge \in SeqNos
  <2>1. rcv_nxt = At(Here) /\ rcv_ann_right_edge = At(e) /\ e \in Int
    BY <1>4 DEF Situated
  <2> QED BY <1>1, <2>1, AtType
<1>6. ASSUME NEW i \in DOMAIN ooseq
      PROVE  ooseq[i].seqno \in SeqNos /\ ooseq[i].fin \in BOOLEAN
  <2>1. ooseq \in Seq(Segments)
    BY DEF RecvInv, QueueOk
  <2>2. ooseq[i] \in Segments
    BY <2>1
  <2> QED BY <2>2 DEF Segments
<1>7. ack \subseteq {ACK_DELAY, ACK_NOW} /\ panic \in BOOLEAN
  BY DEF RecvInv, FlagsOk
<1>8. TypeOK
  BY <1>1, <1>3, <1>5, <1>6, <1>7 DEF TypeOK
<1> QED BY <1>1, <1>8 DEF WindowExact

\* rcv_wnd is always the buffer less what the application holds, tcp_recved()
\* returns just that, and neither window leaves its u16_t.
THEOREM WindowAlwaysExact == Spec => []WindowExact
BY ReceiverInvariant, InvWindow, PTL

\* The end of the window is a position.
InWindowBounds == /\ Here \in Nat /\ rcv_wnd \in Nat
                  /\ Here + rcv_wnd <= N + TCP_WND + 1

LEMMA NowInWindow == RecvInv => InWindowBounds
BY Numbers DEF InWindowBounds

LEMMA NextInWindow == RecvInv' => InWindowBounds'
BY NowInWindow, PTL

LEMMA EdgePosition ==
  ASSUME NEW h \in Nat, NEW w \in Nat, NEW n \in Nat, NEW t \in Nat,
         h + w <= n + t + 1,
         NEW a \in 0..w, NEW e \in Nat, NEW d \in e..(h + a)
  PROVE  d \in 0..(n + t + 2) /\ d >= e
OBVIOUS

LEMMA StepEdge ==
  ASSUME RecvInv, [Next]_vars
  PROVE  TCP_SEQ_GEQ(rcv_ann_right_edge', rcv_ann_right_edge)
<1>1. PICK e \in Nat : Situated(Here, e) /\ RecvStep(e)
  BY EveryStep
<1>2. PICK d \in e..(Here' + rcv_ann_wnd') : rcv_ann_right_edge' = At(d)
  BY <1>1 DEF RecvStep, EdgeMoves
<1>3. e \in Positions /\ rcv_ann_right_edge = At(e)
  BY <1>1, SituatedPositions DEF Situated
<1>4. RecvInv'
  BY NextInv
<1>5. d \in Positions /\ d >= e
  <2>1. /\ Here' \in Nat /\ rcv_wnd' \in Nat /\ N \in Nat /\ TCP_WND \in Nat
        /\ Here' + rcv_wnd' <= N + TCP_WND + 1
    BY <1>4, NextInWindow, StreamFits DEF InWindowBounds
  <2>2. rcv_ann_wnd' \in 0..(rcv_wnd')
    BY <1>1 DEF RecvStep
  <2>3. e \in Nat /\ d \in e..(Here' + rcv_ann_wnd')
    BY <1>2
  <2> QED BY <2>1, <2>2, <2>3, EdgePosition DEF Positions
<1> QED BY <1>2, <1>3, <1>5, Compare

\* tcp_update_rcv_ann_wnd() and the ACKs never take back a window the peer was
\* told of.
THEOREM EdgeMovesForward == Spec => EdgeNeverRetreats
<1>1. RecvInv /\ [Next]_vars
        => [TCP_SEQ_GEQ(rcv_ann_right_edge', rcv_ann_right_edge)]_vars
  BY StepEdge
<1> QED BY <1>1, ReceiverInvariant, PTL DEF Spec, EdgeNeverRetreats

\* What the refinement needs of one state.
Prefixes ==
  /\ eof \in BOOLEAN
  /\ Len(delivered) \in Nat /\ Len(refused_data) \in Nat
  /\ Len(delivered) + Len(refused_data) <= N
  /\ delivered = SubSeq(Stream, 1, Len(delivered))
  /\ eof => Len(delivered) + Len(refused_data) = N
  /\ refused_data = << >> <=> Len(refused_data) = 0

LEMMA NowPrefixes == RecvInv => Prefixes
<1> SUFFICES ASSUME RecvInv PROVE Prefixes
  OBVIOUS
<1> DEFINE a == Len(delivered)
           b == Len(refused_data)
<1>1. /\ InStream(1, a) /\ delivered = Bytes(1, a)
      /\ InStream(1 + a, b) /\ refused_data = Bytes(1 + a, b)
      /\ eof => a + b = N
  BY DEF RecvInv, StreamOk
<1>2. a \in Nat /\ b \in Nat /\ a + b <= N /\ N \in Nat /\ eof \in BOOLEAN
  BY Numbers
<1> HIDE DEF a, b
<1>3. 1 + a - 1 = a
  BY <1>2
<1>4. delivered = SubSeq(Stream, 1, a)
  BY <1>1, <1>3 DEF Bytes
<1>5. refused_data \in Seq(Nat)
  BY <1>1, BytesAre
<1>6. refused_data = << >> <=> b = 0
  BY <1>5, EmptySeq DEF b
<1> QED BY <1>1, <1>2, <1>4, <1>6 DEF Prefixes, a, b

LEMMA NextPrefixes == RecvInv' => Prefixes'
BY NowPrefixes, PTL

\* A step of the receiver is a step of the byte stream or leaves it alone.
LEMMA StepRefines ==
  ASSUME RecvInv, [Next]_vars
  PROVE  [Abstract!Pass]_(Abstract!vars)
<1> DEFINE a == Len(delivered)
           b == Len(refused_data)
           c == Len(delivered')
           d == Len(refused_data')
           over == eof /\ refused_data = << >>
           end == eof' /\ refused_data' = << >>
<1>1. a <= c /\ (eof => eof')
  BY EveryStep DEF RecvStep
<1>2. RecvInv'
  BY NextInv
<1>3. /\ eof \in BOOLEAN /\ a \in Nat /\ b \in Nat /\ a + b <= N
      /\ delivered = SubSeq(Stream, 1, a)
      /\ eof => a + b = N
      /\ refused_data = << >> <=> b = 0
  BY NowPrefixes DEF Prefixes
<1>4. /\ eof' \in BOOLEAN /\ c \in Nat /\ d \in Nat /\ c + d <= N
      /\ delivered' = SubSeq(Stream, 1, c)
      /\ eof' => c + d = N
      /\ refused_data' = << >> <=> d = 0
  BY <1>2, NextPrefixes DEF Prefixes
<1>5. N \in Nat /\ Len(Stream) = N
  BY StreamFits, StreamIs
<1>6. c \in a..N /\ (end => c = N)
  <2> HIDE DEF a, b, c, d
  <2> QED BY <1>1, <1>3, <1>4, <1>5
<1>7. CASE over
  <2>1. a = N /\ c = N /\ d = 0
    <3> HIDE DEF a, b, c, d
    <3> QED BY <1>1, <1>3, <1>4, <1>5, <1>7
  <2>2. delivered' = delivered /\ end
    BY <1>1, <1>3, <1>4, <1>7, <2>1
  <2>3. end = over
    BY <1>7, <2>2
  <2> QED BY <2>2, <2>3 DEF Abstract!vars
<1>8. CASE ~over
  <2>1. end \in {FALSE, c = Len(Stream)}
    <3>1. CASE end
      <4>1. (c = Len(Stream)) = TRUE
        BY <1>5, <1>6, <3>1
      <4>2. end = TRUE
        BY <3>1
      <4> QED BY <4>1, <4>2
    <3>2. CASE ~end
      <4>1. end = FALSE
        BY <3>2
      <4> QED BY <4>1
    <3> QED BY <3>1, <3>2
  <2>2. c \in Len(delivered)..Len(Stream)
    BY <1>5, <1>6
  <2>3. \E k \in Len(delivered)..Len(Stream) :
          /\ delivered' = SubSeq(Stream, 1, k)
          /\ end \in {FALSE, k = Len(Stream)}
    <3> HIDE DEF c, end
    <3> QED BY <1>4, <2>1, <2>2
  <2> QED BY <1>8, <2>3 DEF Abstract!Pass
<1> QED BY <1>7, <1>8

\* The receiver implements the byte stream that ByteStream promises the
\* application, for every stream, window and segment size, whatever arrives and
\* whatever the callback refuses: with FIN beyond the window or not.
THEOREM ReceiverIsByteStream == Spec => ImplementsByteStream
<1>1. Init => Abstract!Init
  BY DEF Init, Abstract!Init
<1>2. RecvInv /\ [Next]_vars => [Abstract!Pass]_(Abstract!vars)
  BY StepRefines
<1> QED
  BY <1>1, <1>2, ReceiverInvariant, PTL
     DEF Spec, ImplementsByteStream, Abstract!Spec

\* When the peer's FIN lies in the announced window like any other byte, no
\* assertion of tcp_receive() on rcv_wnd fails: the queue never holds more than
\* the window.
THEOREM AssertionsHold ==
  ASSUME FinBeyond = FALSE
  PROVE  Spec => []NoPanic
<1>1. Init => RecvInv /\ FinFits
  BY InitInv
<1>2. RecvInv /\ FinFits /\ [Next]_vars => (RecvInv /\ FinFits)'
  <2>1. ASSUME RecvInv, FinFits, [Next]_vars PROVE RecvInv' /\ FinFits'
    BY <2>1, EveryStep, StepInv
  <2> QED BY <2>1
<1>3. RecvInv /\ FinFits => NoPanic
  BY DEF FinFits, NoPanic
<1> QED BY <1>1, <1>2, <1>3, PTL DEF Spec

-----------------------------------------------------------------------------
(* What is not announced yet.                                              *)

Small(x) == x < Worthwhile \/ x < TCP_WND_UPDATE_THRESHOLD

\* WindowAnnounced, of positions.
Narrow ==
  \E e \in Positions : /\ rcv_ann_right_edge = At(e)
                       /\ Small((Here + rcv_wnd) - e)

LEMMA SmallSizes == Worthwhile \in Nat /\ TCP_WND_UPDATE_THRESHOLD \in Nat \ {0}
<1>1. TCP_WND \in Nat /\ MSS \in Nat /\ TCP_WND_UPDATE_THRESHOLD \in Nat \ {0}
  BY StreamFits, SizesAreNat
<1> QED BY <1>1 DEF Worthwhile

LEMMA NowNarrow == RecvInv => (WindowAnnounced <=> Narrow)
<1> SUFFICES ASSUME RecvInv PROVE WindowAnnounced <=> Narrow
  OBVIOUS
<1>1. PICK e \in Nat : Situated(Here, e)
  BY Sits
<1>2. /\ e \in Positions /\ Here + rcv_wnd \in Positions /\ rcv_ann_right_edge = At(e)
      /\ Plus(rcv_nxt, rcv_wnd) = At(Here + rcv_wnd)
  BY <1>1, SituatedPositions DEF Situated
<1> DEFINE x == Here + rcv_wnd
<1>3. x \in Positions
  BY <1>2
<1>4. Plus(rcv_nxt, rcv_wnd) = At(x)
  BY <1>2
<1> HIDE DEF x
<1>5. Minus(At(x), At(e)) = x - e
  BY <1>2, <1>3, Compare
<1>6. WindowAnnounced <=> Small(x - e)
  BY <1>2, <1>4, <1>5 DEF WindowAnnounced, Small
<1>7. \A d \in Positions : At(d) = At(e) => d = e
  BY <1>2, Compare
<1>8. Narrow <=> Small(x - e)
  <2>1. Narrow <=> \E d \in Positions : rcv_ann_right_edge = At(d) /\ Small(x - d)
    BY Zenon DEF Narrow, x
  <2> QED BY <1>2, <1>7, <2>1, Zenon
<1> QED BY <1>6, <1>8

LEMMA NextNarrow == RecvInv' => (WindowAnnounced' <=> Narrow')
BY NowNarrow, PTL

\* An application that makes room tells the peer when there is enough of it.
LEMMA RecvedNarrow ==
  ASSUME Memory = {TRUE}, RecvInv, NEW len \in 1..N, tcp_recved(len)
  PROVE  Narrow'
<1>1. PICK e \in Nat : Situated(Here, e)
  BY Sits
<1> DEFINE h == Here
           wnd == rcv_wnd + len
           w == Worthwhile
           ann == AnnWnd(rcv_nxt, wnd)
           moved == Minus(Plus(rcv_nxt, wnd), rcv_ann_right_edge)
           grown == moved >= w /\ moved >= TCP_WND_UPDATE_THRESHOLD
           flags == IF grown THEN ack \cup {ACK_NOW} ELSE ack
<1>2. len \in 1..unread /\ UNCHANGED <<refused_data, delivered, eof>>
  BY DEF tcp_recved
<1>3. Here' = h
  BY <1>2 DEF Here, Received
<1>4. wnd \in Nat /\ ~(wnd > TCP_WND) /\ h + wnd <= N + TCP_WND + 1 /\ h \in Nat \ {0}
      /\ rcv_wnd \in Nat /\ len \in Nat
  <2> DEFINE a == Len(delivered)
             b == Len(refused_data)
             f == FinLen(eof)
  <2>1. /\ a \in Nat /\ b \in Nat /\ f \in {0, 1} /\ a + b <= N /\ N \in Nat
        /\ rcv_wnd \in Nat /\ h = 1 + a + b + f /\ unread \in 0..a /\ TCP_WND \in Nat
        /\ rcv_wnd + unread + b + f = TCP_WND
    BY Numbers
  <2> HIDE DEF a, b, f, h
  <2> QED BY <1>2, <2>1
<1>5. rcv_wnd' = wnd /\ Announce(rcv_nxt, ann, flags, grown)
  <2> HIDE DEF ann, moved, w
  <2>1. (IF wnd > TCP_WND THEN TCP_WND ELSE wnd) = wnd
    BY <1>4
  <2> QED BY <2>1, Zenon DEF tcp_recved, ann, moved, w
<1>6. rcv_nxt = At(h) /\ rcv_ann_right_edge = At(e) /\ e \in Positions /\ e \in Nat
      /\ e <= h + rcv_wnd
  BY <1>1, SituatedPositions DEF Situated
<1>7. N \in Nat /\ TCP_WND \in Nat /\ w \in Nat /\ TCP_WND_UPDATE_THRESHOLD \in Nat \ {0}
  BY StreamFits, SmallSizes
<1> HIDE DEF h, w, flags
<1> DEFINE x == h + wnd
<1>8. x \in Positions /\ x \in Nat /\ e <= x
  BY <1>4, <1>6, <1>7 DEF Positions
<1>9. Plus(rcv_nxt, wnd) = At(x)
  BY <1>4, <1>6, PlusAt
<1> HIDE DEF wnd
<1>x. Here' + rcv_wnd' = x
  BY <1>3, <1>5
<1> HIDE DEF x
<1>10. moved = x - e
  BY <1>6, <1>8, <1>9, Compare
<1>11. CASE grown
  <2>1. x - e >= w
    BY <1>10, <1>11
  <2> HIDE DEF moved, grown
  <2>2. e + w \in Positions /\ e + w \in Nat /\ x >= e + w
    BY <1>6, <1>7, <1>8, <2>1 DEF Positions
  <2>3. Plus(rcv_ann_right_edge, w) = At(e + w)
    BY <1>6, <1>7, PlusAt
  <2>4. TCP_SEQ_GEQ(At(x), At(e + w))
    BY <1>8, <2>2, Compare
  <2>5. ann = wnd
    BY <1>9, <2>3, <2>4 DEF AnnWnd, w
  <2>6. rcv_ann_right_edge' = Plus(rcv_nxt, wnd)
    BY <1>5, <1>11, <2>5 DEF Announce
  <2>7. rcv_ann_right_edge' = At(x) /\ x - x = 0 /\ Small(0)
    BY <1>7, <1>8, <1>9, <2>6 DEF Small
  <2>8. (Here' + rcv_wnd') - x = 0
    BY <1>x, <2>7
  <2> QED BY <1>8, <2>7, <2>8 DEF Narrow
<1>12. CASE ~grown
  <2>1. Small(x - e)
    BY <1>7, <1>8, <1>6, <1>10, <1>12 DEF Small, w
  <2> HIDE DEF moved, grown
  <2>2. rcv_ann_right_edge' = At(e)
    BY <1>5, <1>6, <1>12 DEF Announce
  <2>3. (Here' + rcv_wnd') - e = x - e
    BY <1>x
  <2> QED BY <1>6, <2>1, <2>2, <2>3 DEF Narrow
<1> QED BY <1>11, <1>12

\* The other steps leave the end of the window, and at most announce it.
LEMMA KeptNarrow ==
  ASSUME RecvInv, Narrow, NEW e \in Nat, Situated(Here, e), RecvStep(e), RecvInv', RightKept
  PROVE  Narrow'
<1>1. PICK d \in e..(Here' + rcv_ann_wnd') : rcv_ann_right_edge' = At(d)
  BY DEF RecvStep, EdgeMoves
<1>2. d \in Positions /\ d >= e /\ d \in Nat
  <2>1. /\ Here' \in Nat /\ rcv_wnd' \in Nat /\ N \in Nat /\ TCP_WND \in Nat
        /\ Here' + rcv_wnd' <= N + TCP_WND + 1
    BY NextInWindow, StreamFits DEF InWindowBounds
  <2>2. rcv_ann_wnd' \in 0..(rcv_wnd')
    BY DEF RecvStep
  <2>3. d \in 0..(N + TCP_WND + 2) /\ d >= e
    BY <1>1, <2>1, <2>2, EdgePosition
  <2>4. d \in Nat
    BY <1>1
  <2> QED BY <2>3, <2>4 DEF Positions
<1>3. e \in Positions /\ rcv_ann_right_edge = At(e)
  BY SituatedPositions DEF Situated
<1>4. Small((Here + rcv_wnd) - e)
  <2>1. PICK c \in Positions : rcv_ann_right_edge = At(c) /\ Small((Here + rcv_wnd) - c)
    BY DEF Narrow
  <2>2. c = e
    BY <1>3, <2>1, Compare
  <2> QED BY <2>1, <2>2
<1> DEFINE x == Here + rcv_wnd
<1>5. x \in Nat /\ Small(x - e)
  <2>1. Here \in Nat /\ rcv_wnd \in Nat
    BY Numbers
  <2> QED BY <1>4, <2>1
<1>6. Here' + rcv_wnd' = x
  BY DEF RightKept
<1> HIDE DEF x
<1>7. Small(x - d)
  <2> DEFINE y == x - e
             z == x - d
             w == Worthwhile
             t == TCP_WND_UPDATE_THRESHOLD
  <2>1. y \in Int /\ z \in Int /\ z <= y /\ w \in Nat /\ t \in Nat
    BY <1>2, <1>5, SmallSizes
  <2>2. y < w \/ y < t
    BY <1>5 DEF Small
  <2> HIDE DEF y, z, w, t
  <2>3. z < w \/ z < t
    BY <2>1, <2>2
  <2> QED BY <2>3 DEF Small, z, w, t
<1> QED BY <1>1, <1>2, <1>6, <1>7 DEF Narrow

LEMMA StepNarrow ==
  ASSUME Memory = {TRUE}, RecvInv, Narrow, [Next]_vars
  PROVE  Narrow'
<1>1. PICK e \in Nat : /\ Situated(Here, e) /\ e <= Here + rcv_ann_wnd
                       /\ e \in 1..(Here + rcv_ann_wnd)
  BY Sits
<1>2. RecvInv'
  BY NextInv
<1>3. CASE \E seg \in PeerSegs : tcp_input(seg)
  <2>1. PICK seg \in PeerSegs : tcp_input(seg)
    BY <1>3
  <2>2. RecvStep(e) /\ RightKept
    BY <1>1, <2>1, InputStep
  <2> QED BY <1>1, <1>2, <2>2, KeptNarrow
<1>4. CASE \E len \in 1..N : tcp_recved(len)
  <2>1. PICK len \in 1..N : tcp_recved(len)
    BY <1>4
  <2> QED BY <2>1, RecvedNarrow
<1>5. CASE tcp_fasttmr
  <2>1. RecvStep(e) /\ RightKept
    BY <1>1, <1>5, FasttmrStep
  <2> QED BY <1>1, <1>2, <2>1, KeptNarrow
<1>6. CASE tcp_output_segment \/ DropOoseq \/ UNCHANGED vars
  <2>1. RecvStep(e) /\ RightKept
    BY <1>1, <1>6, QuietStep
  <2> QED BY <1>1, <1>2, <2>1, KeptNarrow
<1> QED BY <1>3, <1>4, <1>5, <1>6 DEF Next

\* While there is memory for ACKs, the peer is told of all room but less than the
\* thresholds of tcp_recved(), also when the application reads in small pieces and
\* segments arrive in between: for every window, segment size and threshold.
THEOREM WindowAlwaysAnnounced ==
  ASSUME Memory = {TRUE}
  PROVE  Spec => []WindowAnnounced
<1>1. Init => RecvInv /\ WindowAnnounced
  <2> SUFFICES ASSUME Init PROVE RecvInv /\ WindowAnnounced
    OBVIOUS
  <2>1. RecvInv
    BY InitInv
  <2>2. Here + rcv_wnd = 1 + TCP_WND /\ rcv_ann_right_edge = At(1 + TCP_WND)
        /\ 1 + TCP_WND \in Positions /\ TCP_WND \in Nat
    <3>1. N \in Nat /\ TCP_WND \in Nat /\ rcv_wnd = TCP_WND
          /\ rcv_ann_right_edge = Plus(ISN, 1 + TCP_WND)
          /\ delivered = << >> /\ refused_data = << >> /\ eof = FALSE
      BY StreamFits DEF Init
    <3>2. Here = 1
      <4>1. Len(<< >>) = 0
        BY EmptySeq
      <4> QED BY <3>1, <4>1 DEF Here, Received, FinLen
    <3> QED BY <3>1, <3>2 DEF At, Positions
  <2>3. (Here + rcv_wnd) - (1 + TCP_WND) = 0 /\ Small(0)
    <3>1. (1 + TCP_WND) - (1 + TCP_WND) = 0
      BY <2>2
    <3>2. Small(0)
      BY SmallSizes DEF Small
    <3> QED BY <2>2, <3>1, <3>2
  <2>4. Narrow
    BY <2>2, <2>3 DEF Narrow
  <2> QED BY <2>1, <2>4, NowNarrow
<1>2. RecvInv /\ WindowAnnounced /\ [Next]_vars => (RecvInv /\ WindowAnnounced)'
  <2> SUFFICES ASSUME RecvInv, WindowAnnounced, [Next]_vars
               PROVE  RecvInv' /\ WindowAnnounced'
    OBVIOUS
  <2>1. Narrow /\ RecvInv'
    BY NowNarrow, NextInv
  <2>2. Narrow'
    BY <2>1, StepNarrow
  <2> QED BY <2>1, <2>2, NextNarrow
<1> QED BY <1>1, <1>2, PTL DEF Spec

=============================================================================
