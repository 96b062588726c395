--------------------------------- MODULE Vj ---------------------------------
(***************************************************************************)
(* Van Jacobson header compression over a PPP line, vj.c of netif/ppp: the  *)
(* compressor of one end, the decompressor of the other, and frames between *)
(* them that the line damages (pppDrop() reports it) or that vanish before  *)
(* they are sent (the allocations of pppifOutput() that follow the          *)
(* compression).  A header is a record: `conn' the addresses and ports,     *)
(* `rest' what must not change between two compressed headers (type of      *)
(* service, time to live, options), `data' the length of the payload.       *)
(***************************************************************************)
EXTENDS Integers, Sequences, FiniteSets, SequencesExt

CONSTANTS
  MAX_SLOTS,
  compressSlot,   \* the peer lets the slot id be left out
  U16, U32,       \* moduli of the 16 and the 32 bit fields
  Packets,        \* headers of the packets to send
  NoHeader,       \* the zeros of a slot that was never used
  MaxSent, MaxDamaged, MaxVanished, MaxOpens

VARIABLES
  lru,            \* slots of the compressor, the most recently used first
  tstate, rstate, \* headers saved by the compressor and by the decompressor
  last_xmit, last_recv, toss,
  line,           \* frames under way
  behind,         \* history: slots of which a frame was lost, or into which one of
                  \* another was taken, since the last uncompressed one arrived
  got,            \* history: what the last frame was, and what became of it
  sent, damaged, vanished, opens

vars == <<lru, tstate, rstate, last_xmit, last_recv, toss, line, behind, got,
          sent, damaged, vanished, opens>>

Slots == 0 .. MAX_SLOTS - 1
NoSlot == 255
Nothing == [sent |-> NoHeader, rebuilt |-> NoHeader, slot |-> NoSlot, into |-> NoSlot]

\* The circular list is entered at last_cs->cs_next: slot MAX_SLOTS - 1.
vj_compress_init == [i \in 1 .. MAX_SLOTS |-> MAX_SLOTS - i]

Init ==
  /\ lru = vj_compress_init
  /\ tstate = [s \in Slots |-> NoHeader] /\ rstate = [s \in Slots |-> NoHeader]
  /\ last_xmit = NoSlot /\ last_recv = NoSlot /\ toss = TRUE
  /\ line = <<>> /\ behind = {} /\ got = Nothing
  /\ sent = 0 /\ damaged = 0 /\ vanished = 0 /\ opens = 0

-----------------------------------------------------------------------------
(* The compressor.                                                         *)

Holds(h) == {i \in 1 .. MAX_SLOTS : tstate[lru[i]].conn = h.conn}

\* Where the list holds the conversation, or its oldest slot.
Place(h) == IF Holds(h) # {} THEN CHOOSE i \in Holds(h) : \A j \in Holds(h) : i <= j
            ELSE MAX_SLOTS

ToFront(i) == <<lru[i]>> \o RemoveAt(lru, i)

\* One changing field: the flag, and the number encoded for it.
Delta(flag, changed, value) == IF changed THEN [flags |-> {flag}, vals |-> <<value>>]
                               ELSE [flags |-> {}, vals |-> <<>>]

SPECIAL_I == {"S", "W", "U"}
SPECIAL_D == {"S", "A", "W", "U"}

\* The changes in the order the receiver expects them.
Changes(h, o) ==
  LET u == Delta("U", h.urg, h.urp)
      w == Delta("W", h.win # o.win, (h.win - o.win) % U16)
      a == Delta("A", h.ack # o.ack, (h.ack - o.ack) % U32)
      s == Delta("S", h.seq # o.seq, (h.seq - o.seq) % U32)
  IN  [flags |-> u.flags \cup w.flags \cup a.flags \cup s.flags,
       vals  |-> u.vals \o w.vals \o a.vals \o s.vals]

\* The header goes uncompressed.
MustSendWhole(h, o) ==
  \/ h.rest # o.rest
  \/ ~h.urg /\ h.urp # o.urp
  \/ (h.ack - o.ack) % U32 >= U16
  \/ (h.seq - o.seq) % U32 >= U16
  \/ Changes(h, o).flags \in {SPECIAL_I, SPECIAL_D}
  \/ Changes(h, o).flags = {} /\ ~(h.data # o.data /\ o.data = 0)

\* Echoed terminal traffic, and data that follows the data before it.
Specialized(h, o, c) ==
  CASE c.flags = {"S", "A"} /\ (h.seq - o.seq) % U32 = (h.ack - o.ack) % U32
       /\ (h.seq - o.seq) % U32 = o.data -> [flags |-> SPECIAL_I, vals |-> <<>>]
    [] c.flags = {"S"} /\ (h.seq - o.seq) % U32 = o.data
         -> [flags |-> SPECIAL_D, vals |-> <<>>]
    [] OTHER -> c

Compressed(h, o) ==
  LET c == Specialized(h, o, Changes(h, o))
      i == Delta("I", (h.id - o.id) % U16 # 1, (h.id - o.id) % U16)
  IN  [flags |-> c.flags \cup i.flags, vals |-> c.vals \o i.vals]

Frame(type, h, slot, c) ==
  [type |-> type, slot |-> slot, explicit |-> ~compressSlot \/ last_xmit # slot,
   flags |-> c.flags, vals |-> c.vals, psh |-> h.psh, data |-> h.data, header |-> h]

None == [flags |-> {}, vals |-> <<>>]

vj_compress_tcp(h) ==
  LET i    == Place(h)
      slot == lru[i]
      o    == tstate[slot]
  IN  CASE h.kind = "plain" ->
             /\ line' = Append(line, Frame("IP", h, NoSlot, None))
             /\ UNCHANGED <<lru, tstate, last_xmit>>
        [] h.kind = "spans" ->          \* the header is not in the first buffer
             /\ line' = Append(line, Frame("IP", h, NoSlot, None)) /\ lru' = ToFront(i)
             /\ UNCHANGED <<tstate, last_xmit>>
        [] OTHER ->
             /\ line' = Append(line,
                          IF Holds(h) = {} \/ MustSendWhole(h, o)
                          THEN Frame("UNCOMPRESSED_TCP", h, slot, None)
                          ELSE Frame("COMPRESSED_TCP", h, slot, Compressed(h, o)))
             /\ lru' = ToFront(i) /\ last_xmit' = slot
             /\ tstate' = [tstate EXCEPT ![slot] = h]

pppifOutput ==
  /\ sent < MaxSent /\ sent' = sent + 1
  /\ \E h \in Packets : vj_compress_tcp(h)
  /\ UNCHANGED <<rstate, last_recv, toss, behind, got, damaged, vanished, opens>>

-----------------------------------------------------------------------------
(* The line.                                                               *)

\* Mutant: damage is not reported.
DamagedQuiet ==
  /\ line # <<>> /\ Head(line).type # "gone" /\ damaged < MaxDamaged /\ damaged' = damaged + 1
  /\ line' = Tail(line) /\ behind' = behind \cup {Head(line).slot}
  /\ UNCHANGED <<lru, tstate, rstate, last_xmit, last_recv, toss, got, sent, vanished, opens>>

\* pppDrop() calls vj_uncompress_err().
pppDrop ==
  /\ line # <<>> /\ Head(line).type # "gone" /\ damaged < MaxDamaged /\ damaged' = damaged + 1
  /\ line' = Tail(line) /\ behind' = behind \cup {Head(line).slot} /\ toss' = TRUE
  /\ UNCHANGED <<lru, tstate, rstate, last_xmit, last_recv, got, sent, vanished, opens>>

\* Compressed, and then not sent for want of a pbuf.
OutputFails ==
  /\ line # <<>> /\ Last(line).type # "gone"
  /\ vanished < MaxVanished /\ vanished' = vanished + 1
  /\ line' = [line EXCEPT ![Len(line)].type = "gone"]
  /\ UNCHANGED <<lru, tstate, rstate, last_xmit, last_recv, toss, behind, got, sent, damaged, opens>>

\* Nobody tells the receiver of it.
Unnoticed ==
  /\ line # <<>> /\ Head(line).type = "gone" /\ line' = Tail(line)
  /\ behind' = behind \cup {Head(line).slot}
  /\ UNCHANGED <<lru, tstate, rstate, last_xmit, last_recv, toss, got, sent, damaged, vanished, opens>>

-----------------------------------------------------------------------------
(* The decompressor.                                                       *)

vj_uncompress_uncomp(f) ==
  /\ rstate' = [rstate EXCEPT ![f.slot] = f.header]
  /\ last_recv' = f.slot /\ toss' = FALSE /\ behind' = behind \ {f.slot}
  /\ got' = [sent |-> f.header, rebuilt |-> f.header, slot |-> f.slot, into |-> f.slot]

\* The number of `flag', encoded in the order U, W, A, S, I.
Number(f, flag) ==
  LET before == CASE flag = "U" -> {} [] flag = "W" -> {"U"} [] flag = "A" -> {"U", "W"}
                  [] flag = "S" -> {"U", "W", "A"} [] OTHER -> {"U", "W", "A", "S"}
      skipped == IF f.flags \ {"I"} \in {SPECIAL_I, SPECIAL_D} THEN {}
                 ELSE f.flags \cap before
  IN  f.vals[1 + Cardinality(skipped)]

Plus(f, flag, old, m) == IF flag \in f.flags THEN (old + Number(f, flag)) % m ELSE old

\* The header of a compressed frame, from the one before it.
Rebuilt(f, o) ==
  LET tcp == CASE f.flags \ {"I"} = SPECIAL_I ->
                    [o EXCEPT !.ack = (o.ack + o.data) % U32, !.seq = (o.seq + o.data) % U32]
               [] f.flags \ {"I"} = SPECIAL_D ->
                    [o EXCEPT !.seq = (o.seq + o.data) % U32]
               [] OTHER ->
                    [o EXCEPT !.urg = "U" \in f.flags,
                              !.urp = IF "U" \in f.flags THEN Number(f, "U") ELSE o.urp,
                              !.win = Plus(f, "W", o.win, U16),
                              !.ack = Plus(f, "A", o.ack, U32),
                              !.seq = Plus(f, "S", o.seq, U32)]
  IN  [tcp EXCEPT !.psh = f.psh, !.data = f.data,
                  !.id = IF "I" \in f.flags THEN Plus(f, "I", o.id, U16) ELSE (o.id + 1) % U16]

\* A slot that is left out is the last one received, unless an error came between.
Tosses(f) == ~f.explicit /\ toss

vj_uncompress_tcp(f) ==
  IF Tosses(f)
  THEN /\ behind' = behind \cup {f.slot} /\ got' = Nothing
       /\ UNCHANGED <<rstate, last_recv, toss>>
  ELSE \E slot \in {IF f.explicit THEN f.slot ELSE last_recv} :
         \E h \in {Rebuilt(f, rstate[slot])} :
           /\ rstate' = [rstate EXCEPT ![slot] = h]
           /\ last_recv' = slot /\ toss' = (toss /\ ~f.explicit)
           /\ got' = [sent |-> f.header, rebuilt |-> h, slot |-> f.slot, into |-> slot]
           /\ behind' = behind \cup ({slot} \ {f.slot})

pppInput ==
  /\ line # <<>> /\ Head(line).type # "gone" /\ line' = Tail(line)
  /\ LET f == Head(line)
     IN  CASE f.type = "IP" -> got' = Nothing /\ UNCHANGED <<rstate, last_recv, toss, behind>>
           [] f.type = "UNCOMPRESSED_TCP" -> vj_uncompress_uncomp(f)
           [] OTHER -> vj_uncompress_tcp(f)
  /\ UNCHANGED <<lru, tstate, last_xmit, sent, damaged, vanished, opens>>

\* The line comes up again: the headers saved by both ends stay.
pppOverSerialOpen ==
  /\ opens < MaxOpens /\ opens' = opens + 1
  /\ lru' = vj_compress_init
  /\ last_xmit' = NoSlot /\ last_recv' = NoSlot /\ toss' = TRUE
  /\ line' = <<>>
  /\ behind' = behind \cup {line[i].slot : i \in 1 .. Len(line)}
  /\ got' = Nothing /\ UNCHANGED <<tstate, rstate, sent, damaged, vanished>>

Next == pppifOutput \/ pppDrop \/ OutputFails \/ Unnoticed \/ pppInput \/ pppOverSerialOpen

Spec == Init /\ [][Next]_vars

-----------------------------------------------------------------------------

\* A header of a conversation of which no frame was lost since its last
\* uncompressed one is rebuilt as it was sent, although frames of other
\* conversations were damaged, slots were reused and slot ids left out
\* (vj_compress_tcp() against vj_uncompress_tcp()).  A frame without slot id is taken
\* for one of another conversation, which then counts as lost for both, only after a
\* packet was compressed and not sent, which nobody reports (pppifOutput, ppp.c:845).
VjExact ==
  /\ got.slot \notin behind => got.rebuilt = got.sent
  /\ got.into # got.slot => vanished > 0

=============================================================================
