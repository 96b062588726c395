------------------------------ MODULE SysTimeo ------------------------------
(***************************************************************************)
(* The timeouts of a thread (core/sys.c) and the timers that the tcpip     *)
(* thread runs on them (api/tcpip.c): a list in which each timeout holds   *)
(* the time after the one before it.  The clock is the time the thread     *)
(* was told to wait and did; what a handler takes does not count, nor what *)
(* a fetch takes longer than it was told to wait: the code forgets both.   *)
(***************************************************************************)
EXTENDS Integers, Sequences

CONSTANTS
  Cyclic,              \* timers that set themselves again: handler -> period
  TCP_TMR_INTERVAL,
  Delays,              \* delays of timeouts other threads ask for
  MEMP_NUM_SYS_TIMEOUT,
  MaxPcbs, MaxClock    \* bounds

VARIABLES
  list,                \* timeouts->next: handler, time after the one before, and when it is due
  active,              \* tcpip_tcp_timer_active
  pcbs,                \* tcp_active_pcbs and tcp_tw_pcbs
  clock,
  fired,               \* the last timeout run: when it was due and when it ran
  failed               \* the assertion of sys_timeout() failed, which ends the program

vars == <<list, active, pcbs, clock, fired, failed>>

Sum(l, n) == LET f[i \in 0 .. n] == IF i = 0 THEN 0 ELSE f[i - 1] + l[i].time IN f[n]

\* The entry after which a timeout of msecs goes: the first whose successor is
\* later; 0 is the front.
Place(l, msecs) ==
  IF l = <<>> \/ l[1].time > msecs THEN 0
  ELSE CHOOSE i \in DOMAIN l :
         /\ i = Len(l) \/ l[i + 1].time > msecs - Sum(l, i)
         /\ \A j \in 1 .. i - 1 : l[j + 1].time <= msecs - Sum(l, j)

Entry(h, time, due) == [h |-> h, time |-> time, due |-> due]

\* sys_timeout(): the new timeout takes its time off the one behind it.
Inserted(l, h, msecs, now) ==
  LET i    == Place(l, msecs)
      t    == msecs - Sum(l, i)
      rest == IF i = Len(l) THEN <<>>
              ELSE <<[l[i + 1] EXCEPT !.time = @ - t]>> \o SubSeq(l, i + 2, Len(l))
  IN  SubSeq(l, 1, i) \o <<Entry(h, t, now + msecs)>> \o rest

\* tcpip_thread() sets its timers first (two of them here).
Init ==
  /\ clock = 0 /\ active = FALSE /\ pcbs = 0 /\ failed = FALSE
  /\ fired = [due |-> 0, at |-> 0]
  /\ \E a, b \in DOMAIN Cyclic :
       a # b /\ list = Inserted(Inserted(<<>>, a, Cyclic[a], 0), b, Cyclic[b], 0)

Room == Len(list) < MEMP_NUM_SYS_TIMEOUT

\* Without an element of the pool nothing is set.
Asked(h, msecs) ==
  /\ list' = IF Room THEN Inserted(list, h, msecs, clock) ELSE list
  /\ failed' = ~Room

sys_timeout(h, msecs) == Asked(h, msecs) /\ UNCHANGED <<active, pcbs, clock, fired>>

\* The timeout behind gets the time of the one removed.
Removed(l, i) ==
  SubSeq(l, 1, i - 1)
    \o (IF i = Len(l) THEN <<>>
        ELSE <<[l[i + 1] EXCEPT !.time = @ + l[i].time]>> \o SubSeq(l, i + 2, Len(l)))

\* sys_untimeout(): the first timeout of the handler.
sys_untimeout(h) ==
  \E i \in DOMAIN list :
    /\ list[i].h = h /\ \A j \in 1 .. i - 1 : list[j].h # h
    /\ list' = Removed(list, i)
    /\ UNCHANGED <<active, pcbs, clock, fired, failed>>

\* tcp_timer_needed(): called whenever a pcb is registered.
Needed(n) == ~active /\ n > 0

TCP_REG ==
  /\ pcbs < MaxPcbs
  /\ pcbs' = pcbs + 1
  /\ active' = TRUE
  /\ IF Needed(pcbs + 1) THEN Asked("tcp", TCP_TMR_INTERVAL) ELSE UNCHANGED <<list, failed>>
  /\ UNCHANGED <<clock, fired>>

TCP_RMV == pcbs > 0 /\ pcbs' = pcbs - 1 /\ UNCHANGED <<list, active, clock, fired, failed>>

\* What the handler does: the periodic ones set themselves again, for which the
\* element just freed is there; tcpip_tcp_timer() only while there are pcbs, which
\* tcp_tmr() may remove.
Handled(h, rest, now) ==
  IF h \in DOMAIN Cyclic
  THEN list' = Inserted(rest, h, Cyclic[h], now) /\ UNCHANGED <<active, pcbs>>
  ELSE IF h = "tcp"
  THEN /\ pcbs' \in 0 .. pcbs
       /\ active' = (pcbs' > 0)
       /\ list' = IF pcbs' > 0 THEN Inserted(rest, h, TCP_TMR_INTERVAL, now) ELSE rest
  ELSE list' = rest /\ UNCHANGED <<active, pcbs>>

\* sys_mbox_fetch(), sys_sem_wait(): no message came in the time of the first
\* timeout, which is taken off and run.
Expire ==
  /\ list # <<>> /\ clock + list[1].time <= MaxClock
  /\ clock' = clock + list[1].time
  /\ fired' = [due |-> list[1].due, at |-> clock']
  /\ Handled(list[1].h, Tail(list), clock + list[1].time)
  /\ UNCHANGED failed

Waited(d) == [list EXCEPT ![1].time = IF d < @ THEN @ - d ELSE 0]

\* A message came after the time d, which may be more than the fetch was told to
\* wait; if the first timeout is due nothing is fetched.
Message(d) ==
  /\ list # <<>> /\ list[1].time > 0 /\ clock + d <= MaxClock
  /\ clock' = clock + IF d < list[1].time THEN d ELSE list[1].time
  /\ list' = Waited(d)
  /\ UNCHANGED <<active, pcbs, fired, failed>>

Next ==
  /\ ~failed
  /\ \/ \E d \in Delays : sys_timeout("once", d)
     \/ sys_untimeout("once")
     \/ TCP_REG \/ TCP_RMV
     \/ Expire
     \/ \E d \in 1 .. 2 : Message(d)

Spec == Init /\ [][Next]_vars

-----------------------------------------------------------------------------
(* Properties.                                                             *)

\* However timeouts are set, removed and waited for in between, the time each has
\* left is the sum of the list up to it, none is negative, and each ran when due.
DeltasExact ==
  /\ \A i \in DOMAIN list : list[i].time >= 0 /\ clock + Sum(list, i) = list[i].due
  /\ fired.at = fired.due

Count(h) == Len(SelectSeq(list, LAMBDA e : e.h = h))

\* The periodic timers are set exactly once, and the TCP timer is set, once, as
\* long as there is a pcb: pcbs that come and go while it runs do not lose it.  The
\* one way to lose it is the first pcb when the pool of timeouts is used up: the
\* timer counts as active before sys_timeout() fails its assertion (tcpip.c:103).
TimersKept ==
  /\ \A h \in DOMAIN Cyclic : Count(h) = 1
  /\ Count("tcp") = (IF active THEN 1 ELSE 0) \/ (failed /\ ~Room /\ Count("tcp") = 0)
  /\ pcbs > 0 => active
=============================================================================
