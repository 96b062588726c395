------------------------------- MODULE IpFrag -------------------------------
(***************************************************************************)
(* IP fragmentation and reassembly (core/ipv4/ip_frag.c).  ip_frag() cuts  *)
(* datagrams, kept in chains of pbufs, for the mtu of a link; the network  *)
(* loses, repeats and reorders the fragments; ip_reass() puts them         *)
(* together again within its limits of memory and time.  A datagram is     *)
(* known by its source, destination and identification, in one name, its   *)
(* bytes by their position.  IP_REASS_CHECK_OVERLAP, IP_REASS_FREE_OLDEST  *)
(* and assertions are compiled in, IP_FRAG_USES_STATIC_BUF is not.         *)
(***************************************************************************)
EXTENDS Integers, Sequences, FiniteSets

CONSTANTS
  Chain,              \* for each datagram: the bytes of data in each of its pbufs
  Mtus,               \* room for data in a packet of each link (mtu - IP_HLEN)
  OFF_UNIT,           \* bytes per unit of the offset field, 8
  IP_REASS_MAX_PBUFS, IP_REASS_MAXAGE, MEMP_NUM_REASSDATA

VARIABLES
  net,                \* fragments in the network
  reassdatagrams,     \* the list, newest first
  ip_reass_pbufcount,
  delivered,          \* datagrams handed to ip_input()
  panic               \* "no", or which assertion failed: the program has stopped

vars == <<net, reassdatagrams, ip_reass_pbufcount, delivered, panic>>

Ids == DOMAIN Chain

MinOf(a, b) == IF a < b THEN a ELSE b

SumTo(s, n) ==
  LET sum[i \in 0..n] == IF i = 0 THEN 0 ELSE sum[i - 1] + s[i]
  IN  sum[n]

TotLen(id) == SumTo(Chain[id], Len(Chain[id]))

Init ==
  /\ net = {} /\ reassdatagrams = <<>> /\ ip_reass_pbufcount = 0
  /\ delivered = {} /\ panic = "no"

-----------------------------------------------------------------------------
(* ip_frag().                                                              *)

\* Taking n bytes of a chain at a cursor, which is a pbuf and how much of it is
\* used: the references made, as first byte and length, and the new cursor.
Take(id, cursor, n) ==
  LET c == Chain[id]
      step[k \in 0..Len(c)] ==
        IF k = 0 THEN [left |-> n, p |-> cursor.p, poff |-> cursor.poff, refs |-> <<>>]
        ELSE LET s == step[k - 1]
                 m == MinOf(s.left, c[s.p] - s.poff)
             IN  IF s.left = 0 THEN s
                 ELSE IF m = 0 THEN [s EXCEPT !.p = @ + 1, !.poff = 0]
                 ELSE [left |-> s.left - m,
                       p    |-> IF s.left > m THEN s.p + 1 ELSE s.p,
                       poff |-> IF s.left > m THEN 0 ELSE s.poff + m,
                       refs |-> Append(s.refs, [from |-> SumTo(c, s.p - 1) + s.poff, n |-> m])]
  IN  step[Len(c)]

\* The bytes that a list of references stands for.
Bytes(refs) ==
  LET all[i \in 0..Len(refs)] ==
        IF i = 0 THEN <<>> ELSE all[i - 1] \o [j \in 1..refs[i].n |-> refs[i].from + j - 1]
  IN  all[Len(refs)]

\* Units of the offset field in a full fragment.
nfb(room) == room \div OFF_UNIT

\* The fragments made before memory ends, of at most count.
ip_frag_list(id, room, count) ==
  LET cut[k \in 0..count] ==
        IF k = 0 THEN [left |-> TotLen(id), ofo |-> 0, cur |-> [p |-> 1, poff |-> 0], out |-> {}]
        ELSE LET s    == cut[k - 1]
                 last == s.left <= room
                 cop  == IF last THEN s.left ELSE nfb(room) * OFF_UNIT
                 t    == Take(id, s.cur, cop)
             IN  IF s.left = 0 THEN s
                 ELSE [left |-> s.left - cop, ofo |-> s.ofo + nfb(room),
                       cur  |-> [p |-> t.p, poff |-> t.poff],
                       out  |-> s.out \cup {[id |-> id, off |-> s.ofo, mf |-> ~last,
                                             data |-> Bytes(t.refs)]}]
  IN  cut[count].out

\* A datagram that is longer than a link's mtu is sent, or only the first of its
\* fragments when a pbuf cannot be had.
ip_frag(id, room, count) ==
  /\ panic = "no"
  /\ TotLen(id) > room
  /\ net' = net \cup ip_frag_list(id, room, count)
  /\ UNCHANGED <<reassdatagrams, ip_reass_pbufcount, delivered, panic>>

-----------------------------------------------------------------------------
(* Freeing datagrams.  Every fragment is one pbuf.                         *)

RemoveAt(s, i) == SubSeq(s, 1, i - 1) \o SubSeq(s, i + 1, Len(s))

Clen(r) == Len(r.frags)

\* The datagrams whose time is over are freed, with all their fragments.
Expire ==
  LET dead == {i \in DOMAIN reassdatagrams : reassdatagrams[i].timer = 0}
      sum[i \in 0..Len(reassdatagrams)] ==
        IF i = 0 THEN 0
        ELSE sum[i - 1] + (IF i \in dead THEN Clen(reassdatagrams[i]) ELSE 0)
  IN  [list |-> SelectSeq(reassdatagrams, LAMBDA r : r.timer > 0),
       freed |-> sum[Len(reassdatagrams)]]

ip_reass_tmr ==
  LET x == Expire
  IN  /\ panic = "no"
      /\ reassdatagrams' = [i \in DOMAIN x.list |-> [x.list[i] EXCEPT !.timer = @ - 1]]
      /\ ip_reass_pbufcount' = ip_reass_pbufcount - x.freed
      /\ UNCHANGED <<net, delivered, panic>>

\* One round of ip_reass_remove_oldest_datagram(): the oldest of the other
\* datagrams, the last of equally old ones, is freed.  The last element but one
\* of the list is passed for its predecessor, whichever element it is:
\* ip_reass_free_complete_datagram() asserts that it is the predecessor, before
\* it changes anything.
FreeOldest(s, id, need) ==
  LET others == {i \in DOMAIN s.list : s.list[i].id # id}
      old    == CHOOSE i \in others : \A j \in others \ {i} :
                  \/ s.list[i].timer < s.list[j].timer
                  \/ s.list[i].timer = s.list[j].timer /\ j < i
      freed  == s.freed + Clen(s.list[old])
  IN  IF ~s.again \/ s.panic THEN s
      ELSE IF others = {} THEN [s EXCEPT !.again = FALSE]
      ELSE IF old # Len(s.list) THEN [s EXCEPT !.panic = TRUE]
      ELSE [list  |-> RemoveAt(s.list, old), freed |-> freed, panic |-> FALSE,
            again |-> freed < need /\ Cardinality(others) > 1]

ip_reass_remove_oldest_datagram(list, id, need) ==
  LET round[k \in 0..Len(list)] ==
        IF k = 0 THEN [list |-> list, freed |-> 0, panic |-> FALSE, again |-> TRUE]
        ELSE FreeOldest(round[k - 1], id, need)
  IN  round[Len(list)]

-----------------------------------------------------------------------------
(* ip_reass_chain_frag_into_datagram_and_validate().                       *)

Start(f) == f.off * OFF_UNIT

End(f) == Start(f) + Len(f.data)

\* How many fragments of the list start at or before a fragment.
Before(g, f) == Cardinality({i \in DOMAIN g : Start(g[i]) <= Start(f)})

\* A fragment that repeats or overlaps another is dropped; the first of the list
\* is not compared with a fragment that comes to stand before it.
Dropped(g, f) ==
  LET k == Before(g, f)
  IN  \/ \E j \in 1..k : Start(f) < End(g[j])
      \/ k > 0 /\ k < Len(g) /\ End(f) > Start(g[k + 1])

Inserted(g, f) == SubSeq(g, 1, Before(g, f)) \o <<f>> \o SubSeq(g, Before(g, f) + 1, Len(g))


\* Whether the datagram counts as complete: no gap up to the fragment before the
\* new one, none before the new one if it is the last of the list, none after it,
\* and the list starts at 0.
Whole(g, f) ==
  LET k == Before(g, f)
      h == Inserted(g, f)
  IN  /\ \A j \in 1..(k - 1) : End(g[j]) = Start(g[j + 1])
      /\ k = Len(g) /\ k > 0 => End(g[k]) = Start(f)
      /\ Start(h[1]) = 0
      /\ \A j \in (k + 1)..(Len(h) - 1) : End(h[j]) = Start(h[j + 1])

-----------------------------------------------------------------------------
(* ip_reass().                                                             *)

Find(list, id) ==
  LET at == {i \in DOMAIN list : list[i].id = id}
  IN  IF at = {} THEN 0 ELSE CHOOSE i \in at : TRUE

\* Room for a fragment: other datagrams are freed when too many pbufs wait or,
\* for the first fragment of a datagram, when there are too many datagrams.
Room(f) ==
  LET none == [list |-> reassdatagrams, freed |-> 0, panic |-> FALSE, again |-> FALSE]
      full == ip_reass_pbufcount + 1 > IP_REASS_MAX_PBUFS
      a    == IF full THEN ip_reass_remove_oldest_datagram(reassdatagrams, f.id, 1) ELSE none
      more == Find(a.list, f.id) = 0 /\ Len(a.list) >= MEMP_NUM_REASSDATA
      b    == IF more THEN ip_reass_remove_oldest_datagram(a.list, f.id, 1) ELSE a
  IN  [list  |-> IF a.panic THEN a.list ELSE b.list,
       count |-> ip_reass_pbufcount - a.freed - (IF more THEN b.freed ELSE 0),
       panic |-> a.panic \/ b.panic,
       ok    |-> /\ full => a.freed > 0 /\ ip_reass_pbufcount - a.freed + 1 <= IP_REASS_MAX_PBUFS
                 /\ more => b.freed >= 1]

New(id) == [id |-> id, timer |-> IP_REASS_MAXAGE, last |-> FALSE, len |-> 0, frags |-> <<>>]

\* The datagram with the fragment: the last fragment tells the length, even if it
\* is then dropped.
With(r, f) ==
  [r EXCEPT !.last = @ \/ ~f.mf, !.len = IF f.mf THEN @ ELSE End(f),
            !.frags = IF Dropped(@, f) THEN @ ELSE Inserted(@, f)]

\* Data of the fragments of a complete datagram, in one.
Data(g) ==
  LET cat[i \in 0..Len(g)] == IF i = 0 THEN <<>> ELSE cat[i - 1] \o g[i].data
  IN  cat[Len(g)]

\* The fragment takes its place; a complete datagram is handed on.
Place(f, list, count) ==
  LET at  == Find(list, f.id)
      i   == IF at = 0 THEN 1 ELSE at
      l   == IF at = 0 THEN <<New(f.id)>> \o list ELSE list
      r   == With(l[i], f)
      new == ~Dropped(l[i].frags, f)
      fin == new /\ r.last /\ Whole(l[i].frags, f)
      bad == fin /\ (Len(r.frags) = 1 \/ End(r.frags[Len(r.frags)]) # r.len)
      out == fin /\ ~bad
  IN  /\ reassdatagrams' = IF out THEN RemoveAt(l, i) ELSE [l EXCEPT ![i] = r]
      /\ ip_reass_pbufcount' = count + (IF new THEN 1 ELSE 0) - (IF out THEN Len(r.frags) ELSE 0)
      /\ delivered' = IF out
                      THEN delivered \cup {[id |-> f.id, len |-> r.len, data |-> Data(r.frags)]}
                      ELSE delivered
      /\ panic' = IF bad THEN "validate" ELSE "no"

\* A fragment with IP options, which is dropped at once, is left out.
ip_reass(f) ==
  LET m == Room(f)
  IN  /\ panic = "no"
      /\ UNCHANGED net
      /\ IF m.panic \/ ~m.ok
         THEN /\ reassdatagrams' = m.list /\ ip_reass_pbufcount' = m.count
              /\ panic' = IF m.panic THEN "prev" ELSE "no"
              /\ UNCHANGED delivered
         ELSE Place(f, m.list, m.count)

Next ==
  \/ \E id \in Ids, room \in Mtus, count \in 1..8 : ip_frag(id, room, count)
  \/ \E f \in net : ip_reass(f)
  \/ ip_reass_tmr

Spec == Init /\ [][Next]_vars

-----------------------------------------------------------------------------
(* Properties.                                                             *)

\* ip_reass_pbufcount counts the pbufs that wait, through duplicates, overlaps,
\* time-outs and removals, and keeps its limit: a pbuf counted too often would
\* in the end stop all reassembly.
CountExact ==
  LET sum[i \in 0..Len(reassdatagrams)] ==
        IF i = 0 THEN 0 ELSE sum[i - 1] + Clen(reassdatagrams[i])
  IN  /\ ip_reass_pbufcount = sum[Len(reassdatagrams)]
      /\ ip_reass_pbufcount <= IP_REASS_MAX_PBUFS

\* Fragments of the datagram that overlap: it was cut for two links.
CutTwice(id) ==
  \E f, g \in net : /\ f # g /\ f.id = id /\ g.id = id
                    /\ Start(f) < End(g) /\ Start(g) < End(f)

\* When assertions fail.  The one about the predecessor on the list: only when the
\* queue is full and a fragment arrives for the oldest of several datagrams, which
\* must not be freed; the last element but one is the predecessor of no other.
\* The ones about a datagram that validates: only when copies of it were cut for
\* different links, and the last fragment of one, which tells the length, was
\* dropped for one of the other.
AssertionsKnown ==
  /\ panic = "prev" => /\ ip_reass_pbufcount = IP_REASS_MAX_PBUFS
                       /\ Len(reassdatagrams) > 1
  /\ panic = "validate" =>
       \E i \in DOMAIN reassdatagrams :
         LET r == reassdatagrams[i]
         IN  CutTwice(r.id) /\ r.last /\ End(r.frags[Len(r.frags)]) < r.len

\* The positions of a datagram handed on after which bytes are missing.
Holes(d) == {i \in 2..Len(d.data) : d.data[i] # d.data[i - 1] + 1}

\* A datagram handed on starts with its first byte, ends with its last, and has
\* no byte twice or out of order, whatever the cuts and the order of arrival.  It
\* has no more than the one hole that is not looked for: in front of a fragment
\* that arrives last and is inserted in the middle.
DeliveredOrdered ==
  \A d \in delivered :
    /\ d.len = TotLen(d.id)
    /\ d.data[1] = 0 /\ d.data[Len(d.data)] = d.len - 1
    /\ \A i \in 2..Len(d.data) : d.data[i - 1] < d.data[i]
    /\ Cardinality(Holes(d)) <= 1

Incomplete(id) == panic = "no" /\ Find(reassdatagrams, id) # 0

\* An incomplete datagram does not hold its pbufs for ever, however many more
\* fragments of it arrive, unless the program stops.
ReassemblyEnds ==
  \A id \in Ids : Incomplete(id) ~> ~Incomplete(id)
=============================================================================
