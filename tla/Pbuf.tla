-------------------------------- MODULE Pbuf --------------------------------
(***************************************************************************)
(* Packet buffers (core/pbuf.c): chains of reference-counted pbufs from    *)
(* pools of bounded size.  Several parts of the stack hold references to   *)
(* one pbuf; the module's actions are their calls.  The caller of an       *)
(* operation holds a reference to the pbuf it names.                       *)
(***************************************************************************)
EXTENDS Integers, Sequences, FiniteSets

CONSTANTS
  POOL,               \* the elements of MEMP_PBUF_POOL
  ROM,                \* the elements of MEMP_PBUF, for PBUF_ROM and PBUF_REF
  RAM,                \* what the heap has room for
  PBUF_POOL_BUFSIZE,
  Headroom,           \* room for headers before the payload of the first pbuf
  MaxLen,             \* longest pbuf_alloc()
  MaxRef              \* references held to one pbuf

Pbufs == POOL \cup ROM \cup RAM

None == "NULL"

\* What is assumed of them: a pool is finite, NULL is not a pbuf, and the headers
\* that are left room for fit into a pool pbuf.
PbufConstants ==
  /\ IsFiniteSet(Pbufs) /\ None \notin Pbufs
  /\ PBUF_POOL_BUFSIZE \in Nat \ {0} /\ Headroom \in 0..PBUF_POOL_BUFSIZE
  /\ MaxLen \in Nat /\ MaxRef \in Nat

VARIABLES
  pb,                 \* struct pbuf; room: headers that fit before its payload
  alive,              \* the pbufs that are not in a pool
  held                \* references held outside of the chains

vars == <<pb, alive, held>>

Blank == [next |-> None, len |-> 0, tot_len |-> 0, ref |-> 0, room |-> 0]

Init ==
  /\ pb = [p \in Pbufs |-> Blank] /\ alive = {}
  /\ held = [p \in Pbufs |-> 0]

Lowest(s) == CHOOSE x \in s : \A y \in s : x <= y

\* The pbufs of a chain, in order.
ChainOf(b, p) ==
  LET walk[n \in 0..Cardinality(Pbufs)] ==
        IF n = 0 THEN <<p>>
        ELSE LET c == walk[n - 1]
                 q == b[c[Len(c)]].next
             IN  IF q = None THEN c ELSE Append(c, q)
  IN  walk[Cardinality(Pbufs)]

Members(b, p) == LET c == ChainOf(b, p) IN {c[i] : i \in DOMAIN c}

Last(b, p) == LET c == ChainOf(b, p) IN c[Len(c)]

\* The bytes of a packet, each known by its pbuf and its place there.
Bytes(p, from, to) == [k \in 1..(to - from) |-> <<p, from + k>>]

Flat(b, p) ==
  LET c == ChainOf(b, p)
      cat[i \in 0..Len(c)] == IF i = 0 THEN <<>> ELSE cat[i - 1] \o Bytes(c[i], 0, b[c[i]].len)
  IN  cat[Len(c)]

-----------------------------------------------------------------------------
(* pbuf_alloc().                                                           *)

Least(m, n) == IF m < n THEN m ELSE n

\* How many pool pbufs a length takes: the first also has room for headers.
PoolCount(length) ==
  LET rest == length - Least(length, PBUF_POOL_BUFSIZE - Headroom)
  IN  1 + (rest + PBUF_POOL_BUFSIZE - 1) \div PBUF_POOL_BUFSIZE

\* Where the i-th pbuf of a chain of pool pbufs ends.
PoolEnd(length, i) == Least(length, i * PBUF_POOL_BUFSIZE - Headroom)

PoolChain(c, length) ==
  [p \in Pbufs |->
     IF \E i \in DOMAIN c : c[i] = p
     THEN LET i == CHOOSE k \in DOMAIN c : c[k] = p
              from == IF i = 1 THEN 0 ELSE PoolEnd(length, i - 1)
          IN  [next |-> IF i < Len(c) THEN c[i + 1] ELSE None,
               len |-> PoolEnd(length, i) - from,
               tot_len |-> length - from, ref |-> 1,
               room |-> IF i = 1 THEN Headroom ELSE 0]
     ELSE pb[p]]

\* A free list hands out its elements in some order; which does not matter.
FreePool(n) ==
  CHOOSE c \in [1..n -> POOL \ alive] : \A i, j \in 1..n : c[i] = c[j] => i = j

Given(p, b, new) ==
  /\ pb' = b /\ alive' = alive \cup new
  /\ held' = [held EXCEPT ![p] = 1]

\* If the pool runs dry on the way, what was taken is freed again.
pbuf_alloc_pool(length) ==
  LET n == PoolCount(length)
  IN  /\ n <= Cardinality(POOL \ alive)
      /\ \E c \in {FreePool(n)} :
           Given(c[1], PoolChain(c, length), {c[i] : i \in 1..n})

\* A PBUF_RAM has room for headers, a PBUF_ROM only refers to data.
pbuf_alloc_one(p, length) ==
  /\ p \in (RAM \cup ROM) \ alive
  /\ Given(p, [pb EXCEPT ![p] = [next |-> None, len |-> length,
                                 tot_len |-> length, ref |-> 1,
                                 room |-> IF p \in RAM THEN Headroom ELSE 0]], {p})

-----------------------------------------------------------------------------
(* pbuf_free().                                                            *)

\* Mutant: the count of the rest of the chain is lowered even if this pbuf
\* remains in use.
DropAll(b, p) ==
  LET m == Members(b, p)
  IN  [pb |-> [q \in Pbufs |-> IF q \in m THEN [b[q] EXCEPT !.ref = @ - 1] ELSE b[q]],
       gone |-> {q \in m : b[q].ref = 1}]

\* The chain is followed as long as a count drops to zero.
Drop(b, p) ==
  LET c == ChainOf(b, p)
      k == Lowest({i \in 1..Len(c) : b[c[i]].ref > 1 \/ i = Len(c)})
      m == {c[i] : i \in 1..k}
  IN  [pb |-> [q \in Pbufs |-> IF q \in m THEN [b[q] EXCEPT !.ref = @ - 1] ELSE b[q]],
       gone |-> {q \in m : b[q].ref = 1}]

\* What goes back to a pool is forgotten.
Freed(d) == [q \in Pbufs |-> IF q \in d.gone THEN Blank ELSE d.pb[q]]

pbuf_free(p) ==
  \E d \in {Drop(pb, p)} :
    /\ pb' = Freed(d) /\ alive' = alive \ d.gone
    /\ held' = [held EXCEPT ![p] = @ - 1]

pbuf_ref(p) ==
  /\ held[p] < MaxRef
  /\ pb' = [pb EXCEPT ![p].ref = @ + 1] /\ held' = [held EXCEPT ![p] = @ + 1]
  /\ UNCHANGED alive

-----------------------------------------------------------------------------
(* Chains.                                                                 *)

\* A packet is changed at its head: the tot_len of pbufs before would not follow.
Heads == {p \in alive : held[p] > 0 /\ \A q \in alive : pb[q].next # p}

Apart(h, t) == {h, t} \subseteq Heads /\ Members(pb, h) \cap Members(pb, t) = {}

Cat(h, t) ==
  LET m == Members(pb, h)
      l == Last(pb, h)
  IN  [q \in Pbufs |->
         IF q \in m THEN [pb[q] EXCEPT !.tot_len = @ + pb[t].tot_len,
                                       !.next = IF q = l THEN t ELSE @]
         ELSE pb[q]]

\* The caller's reference to t becomes the chain's.
pbuf_cat(h, t) ==
  /\ Apart(h, t)
  /\ pb' = Cat(h, t) /\ held' = [held EXCEPT ![t] = @ - 1] /\ UNCHANGED alive

\* pbuf_cat() and pbuf_ref(): the caller keeps its own.
pbuf_chain(h, t) ==
  /\ Apart(h, t)
  /\ pb' = [Cat(h, t) EXCEPT ![t].ref = @ + 1] /\ UNCHANGED <<held, alive>>

pbuf_dechain(p) ==
  /\ p \in Heads /\ pb[p].next # None
  /\ \E d \in {Drop([pb EXCEPT ![p].next = None, ![p].tot_len = pb[p].len], pb[p].next)} :
       pb' = Freed(d) /\ alive' = alive \ d.gone /\ UNCHANGED held

\* The first pbuf of p's chain that holds the byte n, and how much comes before.
Before(b, c, i) == LET sum[k \in 0..Len(c)] ==
                        IF k = 0 THEN 0 ELSE sum[k - 1] + b[c[k]].len
                   IN  sum[i - 1]

\* pbuf_realloc() to less: the pbuf that holds the new end is cut and what
\* follows is freed.
Realloc(p, n) ==
  LET c == ChainOf(pb, p)
      i == Lowest({k \in DOMAIN c : n - Before(pb, c, k) <= pb[c[k]].len})
      r == n - Before(pb, c, i)
      b == [q \in Pbufs |->
              IF q = c[i] THEN [pb[q] EXCEPT !.len = r, !.tot_len = r, !.next = None]
              ELSE IF \E k \in 1..i : c[k] = q
                   THEN [pb[q] EXCEPT !.tot_len = @ - (pb[p].tot_len - n)] ELSE pb[q]]
  IN  IF i = Len(c) THEN [pb |-> b, gone |-> {}] ELSE Drop(b, c[i + 1])

pbuf_realloc(p, n) ==
  /\ p \in Heads /\ n < pb[p].tot_len
  /\ \E d \in {Realloc(p, n)} :
       pb' = Freed(d) /\ alive' = alive \ d.gone /\ UNCHANGED held

\* A header is added: there must be room before the payload.
pbuf_header_add(p, n) ==
  /\ p \in Heads \ ROM /\ n <= pb[p].room
  /\ pb' = [pb EXCEPT ![p].len = @ + n, ![p].tot_len = @ + n,
                      ![p].room = @ - n]
  /\ UNCHANGED <<alive, held>>

\* A header is hidden: it must be in the first pbuf.
pbuf_header_hide(p, n) ==
  /\ p \in Heads /\ n <= pb[p].len
  /\ pb' = [pb EXCEPT ![p].len = @ - n, ![p].tot_len = @ - n,
                      ![p].room = IF p \in ROM THEN @ ELSE @ + n]
  /\ UNCHANGED <<alive, held>>

-----------------------------------------------------------------------------
(* Copies.                                                                 *)

\* The bytes that the loop of pbuf_copy_partial() copies.
pbuf_copy_partial(b, p, len, offset) ==
  LET c == ChainOf(b, p)
      run[i \in 0..Len(c)] ==
        IF i = 0 THEN [got |-> <<>>, off |-> offset]
        ELSE LET r == run[i - 1]
                 l == b[c[i]].len
             IN  IF Len(r.got) = len THEN r
                 ELSE IF r.off # 0 /\ r.off >= l THEN [r EXCEPT !.off = @ - l]
                 ELSE [got |-> r.got \o Bytes(c[i], r.off, r.off + Least(l - r.off, len - Len(r.got))),
                       off |-> 0]
  IN  run[Len(c)].got

\* pbuf_coalesce(): the chain is copied into one PBUF_RAM and freed.
pbuf_coalesce(p, q) ==
  LET d == Drop(pb, p)
      b == Freed(d)
  IN  /\ pb[p].next # None /\ q \in RAM \ alive
      /\ pb' = [b EXCEPT ![q] = [next |-> None, len |-> pb[p].tot_len,
                                 tot_len |-> pb[p].tot_len, ref |-> 1, room |-> Headroom]]
      /\ alive' = (alive \ d.gone) \cup {q}
      /\ held' = [held EXCEPT ![p] = @ - 1, ![q] = 1]

Mine == {p \in alive : held[p] > 0}

Next ==
  \/ \E n \in 1..MaxLen : pbuf_alloc_pool(n)
  \/ \E p \in RAM \cup ROM, n \in 1..MaxLen : pbuf_alloc_one(p, n)
  \/ \E p \in Mine : pbuf_free(p) \/ pbuf_ref(p)
  \/ \E h, t \in Mine : pbuf_cat(h, t) \/ pbuf_chain(h, t)
  \/ \E p \in Mine : pbuf_dechain(p)
  \/ \E p \in Mine, n \in 0..MaxLen : pbuf_realloc(p, n)
  \/ \E p \in Mine, n \in 1..Headroom : pbuf_header_add(p, n) \/ pbuf_header_hide(p, n)
  \/ \E p \in Mine, q \in RAM : pbuf_coalesce(p, q)

Spec == Init /\ [][Next]_vars

-----------------------------------------------------------------------------
(* Properties.                                                             *)

\* A pbuf's count is the number of its holders, the chain it is linked into
\* among them: it goes back to its pool exactly when the last one lets go, and
\* no chain leads to a pbuf that is in a pool (pbuf_free, pbuf_cat, pbuf_chain,
\* pbuf_dechain, pbuf_realloc).
RefsExact ==
  /\ \A p \in alive : pb[p].ref = held[p] + Cardinality({q \in alive : pb[q].next = p})
  /\ \A p \in alive : pb[p].ref > 0 /\ pb[p].next \in alive \cup {None}

\* tot_len is the length of the pbuf and all that follow, in every pbuf of every
\* chain: what the loops over packets stop at.
TotLenExact ==
  \A p \in alive : pb[p].tot_len = Len(Flat(pb, p))

\* pbuf_copy_partial() copies the bytes asked for, wherever the packet is split.
CopyExact ==
  \A p \in Heads : LET all == Flat(pb, p)
    IN  \A n \in 1..Len(all), o \in 0..Len(all) :
          pbuf_copy_partial(pb, p, n, o) = SubSeq(all, o + 1, Least(o + n, Len(all)))

\* Chains of buffers shared by several holders stay whole, and their lengths and
\* copies are those of their data (pbuf.c).
PbufsSound == RefsExact /\ TotLenExact /\ CopyExact
=============================================================================
