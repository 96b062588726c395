------------------------------ MODULE Loopback ------------------------------
(***************************************************************************)
(* Packets an interface sends to itself (netif_loop_output() and           *)
(* netif_poll() of core/netif.c, and netif/loopif.c, whose output it is).  *)
(* A copy of a packet is one pbuf of type PBUF_RAM; all the packets of a   *)
(* queue are one chain of pbufs.  Compiled with LWIP_LOOPBACK_MAX_PBUFS.   *)
(***************************************************************************)
EXTENDS Integers, Sequences

CONSTANTS
  LWIP_LOOPBACK_MAX_PBUFS,
  CountMod,           \* loop_cnt_current is kept modulo this: 2^16
  MaxLooped           \* packets the stack sends to itself

VARIABLES
  loop,               \* the queue from loop_first to loop_last
  loop_cnt_current,
  sent,               \* packets accepted so far
  overlapped          \* history: netif_poll() found more than one packet

vars == <<loop, loop_cnt_current, sent, overlapped>>

Init ==
  /\ loop = <<>> /\ loop_cnt_current = 0 /\ sent = 0 /\ overlapped = FALSE

\* From the application, or from within ip_input() as an answer; the copy of the
\* packet may not be had.
netif_loop_output(mem) ==
  LET c == loop_cnt_current + 1
  IN  /\ sent < MaxLooped
      /\ IF mem /\ c <= LWIP_LOOPBACK_MAX_PBUFS
         THEN /\ loop_cnt_current' = c
              /\ loop' = Append(loop, sent + 1)
              /\ sent' = sent + 1
         ELSE UNCHANGED <<loop, loop_cnt_current, sent>>
      /\ UNCHANGED overlapped

\* One round of netif_poll(), which goes on until the queue is empty: ip_input()
\* gets the first packet, and its answers come before the next round.  The count
\* falls by the length of the chain that the packet heads: the whole queue.  The
\* assertion against that compares ints and never fails.
netif_poll ==
  /\ loop # <<>>
  /\ loop' = Tail(loop)
  /\ loop_cnt_current' = (loop_cnt_current - Len(loop)) % CountMod
  /\ overlapped' = (overlapped \/ Len(loop) > 1)
  /\ UNCHANGED sent

Next ==
  \/ \E mem \in BOOLEAN : netif_loop_output(mem)
  \/ netif_poll

Spec == Init /\ [][Next]_vars

-----------------------------------------------------------------------------
(* Properties.                                                             *)

\* The pbufs queued for an interface itself are counted and at most
\* LWIP_LOOPBACK_MAX_PBUFS (opt.h:961), also when ip_input() answers a packet in the
\* middle of a round, for exactly as long as no round finds more than one packet
\* queued: pbuf_clen() then takes those behind it off the count too (netif.c:629),
\* the limit lets too many in, and once the count has wrapped none at all.
LoopCounted ==
  /\ loop_cnt_current = Len(loop) <=> ~overlapped
  /\ ~overlapped => Len(loop) <= LWIP_LOOPBACK_MAX_PBUFS
=============================================================================
