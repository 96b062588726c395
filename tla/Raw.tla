--------------------------------- MODULE Raw --------------------------------
(***************************************************************************)
(* Raw pcbs (core/raw.c): the list of pcbs, linked by their next fields,   *)
(* and raw_input(), which walks along it and offers the packet to the      *)
(* pcbs of its protocol until one eats it.  A receive function may make    *)
(* and remove pcbs, its own too, before it returns.  memp_free() leaves    *)
(* the next field of an element as it was.                                 *)
(***************************************************************************)
EXTENDS Integers, FiniteSets

CONSTANTS
  RPcbs,              \* MEMP_RAW_PCB
  Protos

VARIABLES
  raw_pcbs,           \* the head of the list
  next,               \* per pcb
  proto,              \* per pcb: its protocol, "free" if it is not allocated
  recv,               \* per pcb: whether it has a receive function
  walk,               \* raw_input(): the protocol, prev and pcb, called while a
                      \* receive function runs
  stale               \* history: a pcb was moved that prev was not before any more

vars == <<raw_pcbs, next, proto, recv, walk, stale>>

NULL == "NULL"

Idle == [proto |-> NULL, prev |-> NULL, pcb |-> NULL, called |-> FALSE]

Init ==
  /\ raw_pcbs = NULL /\ next = [p \in RPcbs |-> NULL]
  /\ proto = [p \in RPcbs |-> "free"] /\ recv = [p \in RPcbs |-> FALSE]
  /\ walk = Idle /\ stale = FALSE

\* The application runs between packets and in receive functions.  What happens
\* once the list is broken is undefined.
Application == (walk = Idle \/ walk.called) /\ ~stale

\* A new pcb is at the head of the list at once.
raw_new(p, pr) ==
  /\ Application /\ proto[p] = "free"
  /\ proto' = [proto EXCEPT ![p] = pr] /\ recv' = [recv EXCEPT ![p] = FALSE]
  /\ next' = [next EXCEPT ![p] = raw_pcbs] /\ raw_pcbs' = p
  /\ UNCHANGED <<walk, stale>>

raw_remove(p) ==
  /\ Application /\ proto[p] # "free"
  /\ proto' = [proto EXCEPT ![p] = "free"]
  /\ IF raw_pcbs = p THEN raw_pcbs' = next[p] /\ UNCHANGED next
     ELSE /\ next' = [q \in RPcbs |-> IF proto[q] # "free" /\ next[q] = p THEN next[p] ELSE next[q]]
          /\ UNCHANGED raw_pcbs
  /\ UNCHANGED <<recv, walk, stale>>

raw_recv(p) ==
  /\ Application /\ proto[p] # "free"
  /\ recv' = [recv EXCEPT ![p] = TRUE]
  /\ UNCHANGED <<raw_pcbs, next, proto, walk, stale>>

-----------------------------------------------------------------------------
(* raw_input().                                                            *)

raw_input(pr) ==
  /\ walk = Idle /\ ~stale /\ raw_pcbs # NULL
  /\ walk' = [proto |-> pr, prev |-> NULL, pcb |-> raw_pcbs, called |-> FALSE]
  /\ UNCHANGED <<raw_pcbs, next, proto, recv, stale>>

\* The next pcb of the walk, read from a pcb that may have been freed.
Onward ==
  LET p == walk.pcb
  IN  walk' = IF next[p] = NULL THEN Idle
              ELSE [walk EXCEPT !.prev = p, !.pcb = next[p], !.called = FALSE]

Wanted == proto[walk.pcb] = walk.proto /\ recv[walk.pcb]

Pass ==
  /\ walk # Idle /\ ~walk.called /\ ~Wanted
  /\ Onward
  /\ UNCHANGED <<raw_pcbs, next, proto, recv, stale>>

Call ==
  /\ walk # Idle /\ ~walk.called /\ Wanted
  /\ walk' = [walk EXCEPT !.called = TRUE]
  /\ UNCHANGED <<raw_pcbs, next, proto, recv, stale>>

Refuse ==
  /\ walk.called
  /\ Onward
  /\ UNCHANGED <<raw_pcbs, next, proto, recv, stale>>

\* The pcb that ate the packet moves to the front.
Moved(prev, p) == [next EXCEPT ![prev] = next[p], ![p] = raw_pcbs]

Eat ==
  /\ walk.called
  /\ LET prev == walk.prev
         p    == walk.pcb
     IN  IF prev = NULL THEN UNCHANGED <<raw_pcbs, next, stale>>
         ELSE /\ next' = Moved(prev, p) /\ raw_pcbs' = p
              /\ stale' = ~(next[prev] = p /\ proto[p] # "free" /\ proto[prev] # "free")
  /\ walk' = Idle
  /\ UNCHANGED <<proto, recv>>

Next ==
  \/ \E p \in RPcbs : \/ \E pr \in Protos : raw_new(p, pr)
                      \/ raw_remove(p)
                      \/ raw_recv(p)
  \/ \E pr \in Protos : raw_input(pr)
  \/ Pass \/ Call \/ Refuse \/ Eat

Spec == Init /\ [][Next]_vars

-----------------------------------------------------------------------------
(* Properties.                                                             *)

\* The pcbs reached in n steps along the list, and whether it ends there.
Reached[n \in Nat] ==
  IF n = 0 THEN {raw_pcbs} \ {NULL}
  ELSE Reached[n - 1] \cup ({next[p] : p \in Reached[n - 1]} \ {NULL})

Listed == Reached[Cardinality(RPcbs)]

Intact ==
  /\ Listed = {p \in RPcbs : proto[p] # "free"}
  /\ Listed # {} => \E p \in Listed : next[p] = NULL

\* The list holds exactly the allocated pcbs and ends, whatever receive functions
\* make and remove, as long as the pcb that eats a packet, when it moves to the front,
\* is still there and still behind the one before it in the walk.  If a receive
\* function has removed either, and only then, the move puts a freed pcb at the head
\* or closes a ring (raw.c:104-113).
RawListIntact == Intact <=> ~stale
=============================================================================
