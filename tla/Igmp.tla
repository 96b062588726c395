-------------------------------- MODULE Igmp --------------------------------
(***************************************************************************)
(* Multicast groups (core/ipv4/igmp.c): the groups of each interface with  *)
(* their use counts, delays and reports, the driver's filter of multicast  *)
(* addresses, and a router that queries.  igmp_start_timer() sets the      *)
(* delay it is given.                                                      *)
(***************************************************************************)
EXTENDS Integers, Sequences, FiniteSets

CONSTANTS
  NetifSeq,           \* interfaces with NETIF_FLAG_IGMP, in the order of netif_list
  Groups,             \* multicast addresses other than allsystems
  MEMP_NUM_IGMP_GROUP,
  IGMP_JOIN_DELAYING_MEMBER_TMR, IGMP_V1_DELAYING_MEMBER_TMR,
  MaxResps,           \* response times of queries
  MaxUse              \* bound on use counts

VARIABLES
  group,              \* igmp_group_list: per interface and address its group, or NoGroup
  filter,             \* addresses the driver of each interface lets in
  joined,             \* joins less leaves per interface
  asked               \* per interface and address: the longest response time of the
                      \* queries about it since it was reported last, or None

vars == <<group, filter, joined, asked>>

allsystems == "allsystems"

Nifs == {NetifSeq[i] : i \in DOMAIN NetifSeq}

Addrs == Groups \cup {allsystems}

NoGroup == [state |-> "none", timer |-> 0, use |-> 0, last |-> FALSE]

Keys == Nifs \X Addrs

None == -1

Init ==
  /\ group = [k \in Keys |-> NoGroup]
  /\ filter = {} /\ asked = [k \in Keys |-> None]
  /\ joined = [k \in Keys |-> 0]

Exists(k) == group[k].state # "none"

Count == Cardinality({k \in Keys : Exists(k)})

Fresh == [state |-> "NON_MEMBER", timer |-> 0, use |-> 0, last |-> FALSE]

\* igmp_lookup_group(): the group, made if there is memory for it.
Found(k) == Exists(k) \/ Count < MEMP_NUM_IGMP_GROUP

Lookup(k) == IF Exists(k) THEN group[k] ELSE Fresh

-----------------------------------------------------------------------------
(* An interface starts and stops.                                          *)

igmp_start(n) ==
  LET k == <<n, allsystems>>
  IN  /\ ~Exists(k) /\ Found(k)
      /\ group' = [group EXCEPT ![k] = [Fresh EXCEPT !.state = "IDLE_MEMBER", !.use = 1]]
      /\ filter' = filter \cup {k}
      /\ joined' = [joined EXCEPT ![k] = 1]
      /\ UNCHANGED asked

Of(n) == {k \in Keys : k[1] = n}

StopFilter(n) == filter \ {k \in Of(n) : Exists(k)}

\* All groups of the interface are freed.
igmp_stop(n) ==
  /\ \E k \in Of(n) : Exists(k)
  /\ group' = [k \in Keys |-> IF k \in Of(n) THEN NoGroup ELSE group[k]]
  /\ filter' = StopFilter(n)
  /\ joined' = [k \in Keys |-> IF k \in Of(n) THEN 0 ELSE joined[k]]
  /\ asked' = [k \in Keys |-> IF k \in Of(n) THEN None ELSE asked[k]]

-----------------------------------------------------------------------------
(* Reports.                                                                *)

\* igmp_delaying_member(): a delay of half the response time begins, also if one
\* runs that is shorter than the response time.  Half of 1 is 0: no delay at all.
igmp_delaying_member(g, maxresp) ==
  IF \/ g.state = "IDLE_MEMBER"
     \/ g.state = "DELAYING_MEMBER" /\ maxresp > g.timer
  THEN [g EXCEPT !.timer = maxresp \div 2, !.state = "DELAYING_MEMBER"]
  ELSE g

\* The interface comes up.
igmp_report_groups(n) ==
  /\ \E k \in Of(n) : Exists(k)
  /\ group' = [k \in Keys |-> IF k \in Of(n)
                 THEN igmp_delaying_member(group[k], IGMP_JOIN_DELAYING_MEMBER_TMR) ELSE group[k]]
  /\ UNCHANGED <<filter, joined, asked>>

\* asked after a query about the groups ks.
Asks(ks, r) == [k \in Keys |-> IF k \in ks /\ r > asked[k] THEN r ELSE asked[k]]

\* A query of all groups, to all systems: a response time of 0 is that of
\* version 1.
igmp_input_general_query(n, resp) ==
  LET r == IF resp = 0 THEN IGMP_V1_DELAYING_MEMBER_TMR ELSE resp
  IN  /\ Exists(<<n, allsystems>>)
      /\ group' = [k \in Keys |-> IF k \in Of(n) /\ k[2] # allsystems
                     THEN igmp_delaying_member(group[k], r) ELSE group[k]]
      /\ asked' = Asks({k \in Of(n) : Exists(k) /\ k[2] # allsystems}, r)
      /\ UNCHANGED <<filter, joined>>

\* A query of one group, to its own address or to all systems.
igmp_input_query(k, resp) ==
  /\ Exists(k) /\ Exists(<<k[1], allsystems>>)
  /\ group' = [group EXCEPT ![k] = igmp_delaying_member(@, resp)]
  /\ asked' = Asks({k} \ (Nifs \X {allsystems}), resp)
  /\ UNCHANGED <<filter, joined>>

\* The report of another host ends the delay.
igmp_input_report(k) ==
  /\ Exists(k)
  /\ group' = IF group[k].state # "DELAYING_MEMBER" THEN group
              ELSE [group EXCEPT ![k].timer = 0, ![k].state = "IDLE_MEMBER", ![k].last = FALSE]
  /\ asked' = [asked EXCEPT ![k] = None]
  /\ UNCHANGED <<filter, joined>>

\* igmp_send(): the report is sent if there is a pbuf.
Reported(g) == [g EXCEPT !.last = TRUE]

Due(k) == group[k].timer = 1 /\ group[k].state = "DELAYING_MEMBER"

\* igmp_tmr() and igmp_timeout(): a group whose delay ends is reported and stays
\* in its state.
igmp_tmr ==
  /\ group' = [k \in Keys |->
       LET g == IF group[k].timer = 0 THEN group[k] ELSE [group[k] EXCEPT !.timer = @ - 1]
       IN  IF Due(k) THEN Reported(g) ELSE g]
  /\ asked' = [k \in Keys |-> IF Due(k) THEN None ELSE asked[k]]
  /\ UNCHANGED <<filter, joined>>

-----------------------------------------------------------------------------
(* Joining and leaving, on one interface or, with 0.0.0.0, on all.         *)

Uses(g) == [g EXCEPT !.use = @ + 1]

\* The group is reported at once and again after a delay, unless the host is a
\* member already.
JoinedGroup(g) ==
  IF g.state # "NON_MEMBER" THEN Uses(g)
  ELSE Uses([Reported(g) EXCEPT !.timer = IGMP_JOIN_DELAYING_MEMBER_TMR, !.state = "DELAYING_MEMBER"])

Meant(ifaddr) == {i \in DOMAIN NetifSeq : ifaddr \in {"any", NetifSeq[i]}}

\* The interfaces are gone through in order; the first without memory for its
\* group ends the call with ERR_MEM, and the ones before it stay joined.
JoinedOn(ifaddr, a) ==
  {i \in Meant(ifaddr) :
     LET new == {j \in Meant(ifaddr) : j <= i /\ ~Exists(<<NetifSeq[j], a>>)}
     IN  Count + Cardinality(new) <= MEMP_NUM_IGMP_GROUP}

igmp_joingroup(ifaddr, a) ==
  LET on == {<<NetifSeq[i], a>> : i \in JoinedOn(ifaddr, a)}
  IN  /\ on # {} /\ \A k \in on : joined[k] < MaxUse
      /\ group' = [k \in Keys |-> IF k \in on THEN JoinedGroup(Lookup(k)) ELSE group[k]]
      /\ filter' = filter \cup on
      /\ joined' = [k \in Keys |-> IF k \in on THEN joined[k] + 1 ELSE joined[k]]
      /\ UNCHANGED asked

\* The last user removes the group; a leave message is sent if this host was the
\* last to report.
igmp_leavegroup(ifaddr, a) ==
  LET on   == {k \in {<<NetifSeq[i], a>> : i \in Meant(ifaddr)} : Exists(k)}
      last == {k \in on : group[k].use <= 1}
  IN  /\ on # {}
      /\ group' = [k \in Keys |-> IF k \in last THEN NoGroup
                     ELSE IF k \in on THEN [group[k] EXCEPT !.use = @ - 1] ELSE group[k]]
      /\ filter' = filter \ last
      /\ joined' = [k \in Keys |-> IF k \in on THEN joined[k] - 1 ELSE joined[k]]
      /\ asked' = [k \in Keys |-> IF k \in last THEN None ELSE asked[k]]

Next ==
  \/ \E n \in Nifs : igmp_start(n) \/ igmp_stop(n) \/ igmp_report_groups(n)
  \/ \E n \in Nifs, r \in MaxResps : igmp_input_general_query(n, r)
  \/ \E k \in Keys, r \in MaxResps : igmp_input_query(k, r)
  \/ \E k \in Keys : igmp_input_report(k)
  \/ igmp_tmr
  \/ \E ifaddr \in Nifs \cup {"any"}, a \in Groups :
       igmp_joingroup(ifaddr, a) \/ igmp_leavegroup(ifaddr, a)

Spec == Init /\ [][Next]_vars

-----------------------------------------------------------------------------
(* Properties.                                                             *)

\* A group lives exactly as long as someone uses it, and the driver lets in the
\* addresses of exactly these groups: joins, leaves and stops of several users.
GroupUsed ==
  \A k \in Keys :
    /\ Exists(k) <=> joined[k] > 0
    /\ Exists(k) => group[k].use = joined[k]
    /\ k \in filter <=> Exists(k)

\* A query about a group is going to be answered: until this host or another has
\* reported the group a delay runs, also if it was reported before, and however
\* queries and reports follow each other.  The one exception: half a response time of
\* 1, or of 0 in the query of one group, is no delay, and no answer if none is pending
\* already (igmp.c:672).
AnswerPending ==
  \A k \in Keys :
    asked[k] >= 2 => group[k].state = "DELAYING_MEMBER" /\ group[k].timer > 0
=============================================================================
