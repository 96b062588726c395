-------------------------------- MODULE Dns --------------------------------
(***************************************************************************)
(* The resolver (core/dns.c): the table of names being asked for and of    *)
(* names known, the queries on the network, and the callbacks of those who *)
(* asked, which may ask again from within the callback.  The address of a  *)
(* name is the name itself; a response may be lost, late or come twice.    *)
(***************************************************************************)
EXTENDS Integers, Sequences, FiniteSets

CONSTANTS
  DNS_TABLE_SIZE, DNS_MAX_SERVERS, DNS_MAX_RETRIES, DNS_MAX_TTL,
  NameOf,       \* per request, numbered from 1, the name it asks for
  Then,         \* per request the request its callback makes, or 0
  AsksOn,       \* the outcomes on which a callback makes it: "answer", "timeout", "error"
  LocalNames,   \* names that may be put into the local host list
  Ttls          \* times to live of the answers

VARIABLES
  tab,          \* dns_table
  seqno,        \* dns_seqno
  req,          \* per request "idle", "waiting" or what it was told
  told,         \* number of callbacks per request
  servers,      \* servers that are set (dns_servers)
  peer,         \* the server dns_pcb is connected to
  sent,         \* the queries on the network
  local,        \* local_hostlist_dynamic
  nested        \* requests made in the callback of an error response

vars == <<tab, seqno, req, told, servers, peer, sent, local, nested>>

Reqs == DOMAIN NameOf

Slots == 0 .. DNS_TABLE_SIZE - 1

Unused == [state |-> "UNUSED", name |-> "none", seqno |-> 0, found |-> 0,
           tmr |-> 0, retries |-> 0, numdns |-> 0, ttl |-> 0, ip |-> "any"]

\* dns_init(): the first server is the one of the configuration.
Init ==
  /\ tab = [i \in Slots |-> Unused]
  /\ seqno = 0
  /\ req = [r \in Reqs |-> "idle"] /\ told = [r \in Reqs |-> 0]
  /\ servers = {0} /\ peer = 0 /\ sent = {} /\ local = <<>> /\ nested = {}

\* What a call works on: callbacks and calls nest.
St == [tab |-> tab, seqno |-> seqno, req |-> req, told |-> told, peer |-> peer, sent |-> sent,
       nested |-> nested]

Becomes(s) ==
  /\ tab' = s.tab /\ seqno' = s.seqno /\ req' = s.req
  /\ told' = s.told /\ peer' = s.peer /\ sent' = s.sent /\ nested' = s.nested

-----------------------------------------------------------------------------
(* The local list and the cache.                                           *)

dns_local_addhost(n) ==
  /\ Len(local) < 1
  /\ local' = <<n>> \o local
  /\ UNCHANGED <<tab, seqno, req, told, servers, peer, sent, nested>>

dns_local_removehost(n) ==
  /\ local # <<>>
  /\ local' = SelectSeq(local, LAMBDA m : m # n)
  /\ UNCHANGED <<tab, seqno, req, told, servers, peer, sent, nested>>

dns_lookup_local(n) == \E i \in DOMAIN local : local[i] = n

Knows(e, n) == e.state = "DONE" /\ e.name = n

Known(s, n) == {i \in Slots : Knows(s.tab[i], n)}

First(S) == CHOOSE i \in S : \A j \in S : i <= j

\* dns_lookup(): "none" (INADDR_NONE) if the name is not known.
dns_lookup(s, n) ==
  IF dns_lookup_local(n) THEN "local"
  ELSE IF Known(s, n) = {} THEN "none" ELSE s.tab[First(Known(s, n))].ip

dns_setserver(i) ==
  /\ i < DNS_MAX_SERVERS
  /\ servers' = servers \cup {i}
  /\ UNCHANGED <<tab, seqno, req, told, peer, sent, local, nested>>

-----------------------------------------------------------------------------
(* Asking.                                                                 *)

\* dns_send(): the query carries the index of the entry; dns_pcb is connected to
\* the server it goes to.
dns_send(s, i) ==
  LET q == [id |-> i, name |-> s.tab[i].name, server |-> s.tab[i].numdns]
  IN  [s EXCEPT !.peer = q.server, !.sent = @ \cup {q}]

Free(s) == {i \in Slots : s.tab[i].state = "UNUSED"}

Done(s) == {i \in Slots : s.tab[i].state = "DONE"}

Age(s, i) == s.seqno - s.tab[i].seqno

\* The oldest completed entry, the first of equals; none has an age to speak of:
\* the first entry of the table.
Oldest(s) ==
  LET older == {i \in Done(s) : Age(s, i) > 0}
  IN  IF older = {} THEN 0
      ELSE First({i \in older : \A j \in older : Age(s, i) >= Age(s, j)})

\* The entry to use, or -1 (ERR_MEM).
Slot(s) ==
  IF Free(s) # {} THEN First(Free(s))
  ELSE IF s.tab[Oldest(s)].state # "DONE" THEN -1 ELSE Oldest(s)

\* dns_enqueue() with the dns_check_entry() of its new entry.
dns_enqueue(s, r) ==
  LET i == Slot(s)
  IN  IF i = -1 THEN s
      ELSE dns_send([s EXCEPT !.seqno = (@ + 1) % 256,
                              !.req[r] = "waiting",
                              !.tab[i] = [@ EXCEPT !.state = "ASKING", !.seqno = s.seqno, !.found = r,
                                                   !.name = NameOf[r], !.numdns = 0, !.tmr = 1, !.retries = 0]],
                    i)

\* dns_gethostbyname(): what is known is answered at once.
GetHost(s, r) ==
  LET ip == dns_lookup(s, NameOf[r])
  IN  IF ip # "none" THEN [s EXCEPT !.req[r] = ip] ELSE dns_enqueue(s, r)

dns_gethostbyname(r) ==
  /\ req[r] = "idle"
  /\ Becomes(GetHost(St, r))
  /\ UNCHANGED <<servers, local>>

\* The callback of the entry's request; it may ask for another name.
Tell(s, i, ip, how) ==
  LET r == s.tab[i].found
      t == [s EXCEPT !.req[r] = ip, !.told[r] = @ + 1,
                     !.nested = IF how = "error" THEN @ \cup ({Then[r]} \ {0}) ELSE @]
  IN  IF r = 0 THEN s
      ELSE IF how \in AsksOn /\ Then[r] # 0 /\ s.req[Then[r]] = "idle" THEN GetHost(t, Then[r])
      ELSE [t EXCEPT !.nested = s.nested]

Drop(s, i) == [s EXCEPT !.tab[i].state = "UNUSED", !.tab[i].found = 0]

-----------------------------------------------------------------------------
(* Time.                                                                   *)

\* Mutant: an entry out of retries goes back to the first server.
RetryFirst(s, i) ==
  IF servers \ {0} # {} THEN [s EXCEPT !.tab[i].numdns = 0, !.tab[i].tmr = 1, !.tab[i].retries = 0]
  ELSE Drop(Tell(s, i, "null", "timeout"), i)

\* The next server is tried; without one the request failed.
NextServer(s, i) ==
  IF s.tab[i].numdns + 1 \in servers
  THEN [s EXCEPT !.tab[i].numdns = @ + 1, !.tab[i].tmr = 1, !.tab[i].retries = 0]
  ELSE Drop(Tell(s, i, "null", "timeout"), i)

\* DNS_STATE_ASKING: the interval grows with each retry.
Ask(s, i) ==
  LET e == s.tab[i]
  IN  IF e.tmr # 1 THEN [s EXCEPT !.tab[i].tmr = @ - 1]
      ELSE IF e.retries + 1 = DNS_MAX_RETRIES THEN NextServer(s, i)
      ELSE dns_send([s EXCEPT !.tab[i].retries = @ + 1, !.tab[i].tmr = e.retries + 1], i)

\* DNS_STATE_DONE: the time to live is a u32_t; 0 wraps and lasts (the cap stands
\* for it).
Age1(s, i) ==
  IF s.tab[i].ttl = 1 THEN Drop([s EXCEPT !.tab[i].ttl = 0], i)
  ELSE IF s.tab[i].ttl = 0 THEN s
  ELSE [s EXCEPT !.tab[i].ttl = @ - 1]

dns_check_entry(s, i) ==
  CASE s.tab[i].state = "ASKING" -> Ask(s, i)
    [] s.tab[i].state = "DONE"   -> Age1(s, i)
    [] OTHER                     -> s

\* dns_tmr() and dns_check_entries(): the states after the first i entries.
dns_tmr ==
  LET f[i \in 0 .. DNS_TABLE_SIZE] ==
        IF i = 0 THEN {St} ELSE {dns_check_entry(s, i - 1) : s \in f[i - 1]}
  IN  /\ \E i \in Slots : tab[i].state # "UNUSED"
      /\ \E s \in f[DNS_TABLE_SIZE] : Becomes(s)
      /\ UNCHANGED <<servers, local>>

-----------------------------------------------------------------------------
(* Responses.                                                              *)

\* dns_compare_name() with DNS_DOES_NAME_CHECK.
dns_compare_name(query, name) == query = name

\* The entry is completed before the answer is looked at, and freed after the
\* callback if there is none: a request made in that callback may find the entry
\* with the address it had before, or be given the entry that is then freed.
RespErr(s, i) == Drop(Tell(s, i, "null", "error"), i)

\* An answer: address and time to live are kept and the request is told.
RespOk(s, i, ip, ttl) ==
  Tell([s EXCEPT !.tab[i].ip = ip, !.tab[i].ttl = IF ttl > DNS_MAX_TTL THEN DNS_MAX_TTL ELSE ttl],
       i, ip, "answer")

\* A response to the query q of ours, early or late.  The entry is only the index.
dns_recv(q, good, ttl) ==
  LET s == [St EXCEPT !.tab[q.id].state = "DONE"]
  IN  /\ q.server = peer
      /\ tab[q.id].state = "ASKING"
      /\ Becomes(IF good /\ dns_compare_name(q.name, tab[q.id].name)
                 THEN RespOk(s, q.id, q.name, ttl) ELSE RespErr(s, q.id))
      /\ UNCHANGED <<servers, local>>

Next ==
  \/ \E r \in Reqs : dns_gethostbyname(r)
  \/ dns_tmr
  \/ \E q \in sent, good \in BOOLEAN, ttl \in Ttls : dns_recv(q, good, ttl)
  \/ \E i \in 0 .. DNS_MAX_SERVERS : dns_setserver(i)
  \/ \E n \in LocalNames : dns_local_addhost(n) \/ dns_local_removehost(n)

Spec == Init /\ [][Next]_vars /\ WF_vars(dns_tmr)

-----------------------------------------------------------------------------
(* Properties.                                                             *)

\* Whatever answers come late, to entries reused for another name, from the cache
\* or from within a callback, nobody is told the address of another name: except
\* who asks in the callback of an error response (RespErr).
AnsweredRight ==
  \A r \in Reqs \ nested :
    \/ req[r] \in {"idle", "waiting", "null", NameOf[r]}
    \/ req[r] = "local" /\ NameOf[r] \in LocalNames

\* A request that waits has exactly one entry being asked for, except one made in
\* the callback of an error response, which may have lost it; an entry being asked
\* for has a request that waits, and no callback is made twice.
HeardOnce ==
  /\ \A r \in Reqs :
       LET n == Cardinality({i \in Slots : tab[i].state = "ASKING" /\ tab[i].found = r})
       IN  /\ told[r] <= 1 /\ (req[r] = "waiting" => told[r] = 0)
           /\ n <= (IF req[r] = "waiting" THEN 1 ELSE 0)
           /\ req[r] = "waiting" /\ r \notin nested => n = 1
  /\ \A i \in Slots : tab[i].state = "ASKING" => tab[i].found # 0

Waits(r) == req[r] = "waiting" /\ r \notin nested

\* Who waits is told, an address or the failure, as long as time goes on: each
\* server is asked a bounded number of times.  A request made in the callback of
\* an error response may wait for ever (HeardOnce).
HeardEventually == \A r \in Reqs : Waits(r) ~> ~Waits(r)
=============================================================================
