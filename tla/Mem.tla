-------------------------------- MODULE Mem --------------------------------
(***************************************************************************)
(* lwIP's own memory: the heap of core/mem.c (first fit over a doubly      *)
(* linked list of blocks that live in the heap itself) and one pool of     *)
(* core/memp.c.  Sizes and offsets count MEM_ALIGNMENT units.              *)
(***************************************************************************)
EXTENDS Integers, Sequences, FiniteSets

CONSTANTS
  MEM_SIZE,       \* MEM_SIZE_ALIGNED: also the offset of ram_end
  HDR,            \* SIZEOF_STRUCT_MEM
  MIN_SIZE,       \* MIN_SIZE_ALIGNED
  MaxOwned,       \* allocations alive at a time
  Elements        \* the elements of the pool, in the order of memp_memory

\* What the build guarantees of them.
MemConstants ==
  /\ MEM_SIZE \in Nat /\ MIN_SIZE \in Nat
  /\ HDR \in Nat \ {0} /\ HDR <= MEM_SIZE
  /\ Elements \in Seq(Nat)
  /\ \A i, j \in DOMAIN Elements : i # j => Elements[i] # Elements[j]

VARIABLES
  ram,            \* struct mem by offset: next, prev, used
  lfree,          \* offset of the lowest free block
  owned,          \* what mem_malloc() has given out: offset and size asked for
  memp_tab,       \* the pool's free list
  taken           \* what memp_malloc() has given out

vars == <<ram, lfree, owned, memp_tab, taken>>

mem_init ==
  /\ ram = [o \in {0, MEM_SIZE} |->
              IF o = 0 THEN [next |-> MEM_SIZE, prev |-> 0, used |-> FALSE]
              ELSE [next |-> MEM_SIZE, prev |-> MEM_SIZE, used |-> TRUE]]
  /\ lfree = 0 /\ owned = {}

\* The list is built by pushing: the last element is the first to be taken.
memp_init ==
  /\ memp_tab = [i \in 1..Len(Elements) |-> Elements[Len(Elements) + 1 - i]]
  /\ taken = {}

Init == mem_init /\ memp_init

-----------------------------------------------------------------------------
(* Blocks.  The link back of ram_end is written here and there, and never   *)
(* read.                                                                   *)

Payload(r, o) == r[o].next - (o + HDR)

\* The header at n is absorbed by the one at m before it.
Join(r, m, n) ==
  [o \in DOMAIN r \ {n} |->
     IF o = m THEN [r[m] EXCEPT !.next = r[n].next]
     ELSE IF o = r[n].next THEN [r[o] EXCEPT !.prev = m] ELSE r[o]]

\* A header for a free block is written at n, inside the block at m.
Split(r, m, n) ==
  [o \in DOMAIN r \cup {n} |->
     IF o = n THEN [next |-> r[m].next, prev |-> m, used |-> FALSE]
     ELSE IF o = m THEN [r[m] EXCEPT !.next = n]
     ELSE IF o = r[m].next /\ o # MEM_SIZE THEN [r[o] EXCEPT !.prev = n] ELSE r[o]]

\* Mutant: only the block that follows is joined.
PlugForward(r, lf, m) ==
  LET n == r[m].next
  IN  IF ~r[n].used THEN [ram |-> Join(r, m, n), lfree |-> IF lf = n THEN m ELSE lf]
      ELSE [ram |-> r, lfree |-> lf]

\* plug_holes(): a block that was freed joins a free neighbour on either side.
plug_holes(r, lf, m) ==
  LET n   == r[m].next
      fwd == IF ~r[n].used /\ n # MEM_SIZE
             THEN [ram |-> Join(r, m, n), lfree |-> IF lf = n THEN m ELSE lf]
             ELSE [ram |-> r, lfree |-> lf]
      p   == fwd.ram[m].prev
  IN  IF p # m /\ ~fwd.ram[p].used
      THEN [ram |-> Join(fwd.ram, p, m), lfree |-> IF fwd.lfree = m THEN p ELSE fwd.lfree]
      ELSE fwd

Lowest(s) == CHOOSE x \in s : \A y \in s : x <= y

\* The search starts at lfree and takes the first block that is large enough.
Fits(size) ==
  {o \in DOMAIN ram : /\ lfree <= o /\ o < MEM_SIZE - size
                      /\ ~ram[o].used /\ Payload(ram, o) >= size}

\* lfree after the block at o was taken.
LfreeAfter(r, o) ==
  IF o = lfree THEN Lowest({q \in DOMAIN r : q >= o /\ (~r[q].used \/ q = MEM_SIZE)})
  ELSE lfree

\* The rest of the block is split off if it can hold a block of its own.
mem_malloc(want) ==
  LET size == IF want < MIN_SIZE THEN MIN_SIZE ELSE want
      o    == Lowest(Fits(size))
      r    == IF Payload(ram, o) >= size + HDR + MIN_SIZE
              THEN Split(ram, o, o + HDR + size) ELSE ram
      u    == [r EXCEPT ![o].used = TRUE]
  IN  /\ Cardinality(owned) < MaxOwned
      /\ size <= MEM_SIZE /\ Fits(size) # {}
      /\ ram' = u /\ lfree' = LfreeAfter(u, o)
      /\ owned' = owned \cup {[at |-> o, size |-> want]}
      /\ UNCHANGED <<memp_tab, taken>>

mem_free(a) ==
  LET r == [ram EXCEPT ![a.at].used = FALSE]
      s == plug_holes(r, IF a.at < lfree THEN a.at ELSE lfree, a.at)
  IN  /\ ram' = s.ram /\ lfree' = s.lfree
      /\ owned' = owned \ {a}
      /\ UNCHANGED <<memp_tab, taken>>

\* mem_realloc() to less, before a free block: that block grows downwards.
ReallocInto(o, n, at) ==
  /\ ram' = Split(Join(ram, o, n), o, at)
  /\ lfree' = IF lfree = n THEN at ELSE lfree

\* mem_realloc() to less, before a used block: what is left becomes a block if
\* it can hold one.
ReallocSplit(o, size, at) ==
  IF size + HDR + MIN_SIZE <= Payload(ram, o)
  THEN ram' = Split(ram, o, at) /\ lfree' = IF at < lfree THEN at ELSE lfree
  ELSE UNCHANGED <<ram, lfree>>

mem_realloc(a, want) ==
  LET size == IF want < MIN_SIZE THEN MIN_SIZE ELSE want
      n    == ram[a.at].next
      at   == a.at + HDR + size
  IN  /\ want <= a.size
      /\ IF size = Payload(ram, a.at) THEN UNCHANGED <<ram, lfree>>
         ELSE IF ~ram[n].used THEN ReallocInto(a.at, n, at)
         ELSE ReallocSplit(a.at, size, at)
      /\ owned' = (owned \ {a}) \cup {[a EXCEPT !.size = want]}
      /\ UNCHANGED <<memp_tab, taken>>

-----------------------------------------------------------------------------
(* The pool.                                                               *)

memp_malloc ==
  /\ memp_tab # <<>>
  /\ taken' = taken \cup {memp_tab[1]} /\ memp_tab' = Tail(memp_tab)
  /\ UNCHANGED <<ram, lfree, owned>>

memp_free(e) ==
  /\ memp_tab' = <<e>> \o memp_tab /\ taken' = taken \ {e}
  /\ UNCHANGED <<ram, lfree, owned>>

Next ==
  \/ \E n \in 1..MEM_SIZE : mem_malloc(n)
  \/ \E a \in owned : mem_free(a)
  \/ \E a \in owned, n \in 1..MEM_SIZE : mem_realloc(a, n)
  \/ memp_malloc
  \/ \E e \in taken : memp_free(e)

Spec == Init /\ [][Next]_vars

-----------------------------------------------------------------------------
(* Properties.                                                             *)

Blocks == DOMAIN ram \ {MEM_SIZE}

\* Whatever is allocated, shrunk and freed in whatever order, the blocks tile
\* the heap, linked both ways, every allocation lies in a used block of its own,
\* and no used block is without an owner (mem_malloc, mem_realloc, plug_holes).
HeapTiled ==
  /\ 0 \in Blocks
  /\ \A o \in Blocks :
       /\ ram[o].next \in DOMAIN ram /\ ram[o].next >= o + HDR
       /\ \A q \in Blocks : q <= o \/ q >= ram[o].next
       /\ ram[o].next # MEM_SIZE => ram[ram[o].next].prev = o
       /\ ram[o].used <=> \E a \in owned : a.at = o
  /\ \A a \in owned : a.at \in Blocks /\ a.size <= Payload(ram, a.at)

\* Free memory is never fragmented without need: no two neighbours are both free
\* (plug_holes, and mem_realloc joining what it gives back).
HolesPlugged ==
  \A o \in Blocks : ~ram[o].used => ram[ram[o].next].used

\* The search of mem_malloc() misses no free block: lfree is the lowest one.
LfreeLowest ==
  lfree = Lowest({q \in DOMAIN ram : ~ram[q].used \/ q = MEM_SIZE})

\* memp_sanity(): no element is twice on the free list, or on it and in use.
PoolSane ==
  /\ \A i, j \in DOMAIN memp_tab : i # j => memp_tab[i] # memp_tab[j]
  /\ \A i \in DOMAIN memp_tab : memp_tab[i] \notin taken

\* The heap and the pools lose and confuse nothing, whatever is allocated, shrunk
\* and freed in whatever order (mem.c, memp.c).
HeapSound == HeapTiled /\ HolesPlugged /\ LfreeLowest /\ PoolSane
=============================================================================
