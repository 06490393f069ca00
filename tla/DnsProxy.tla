------------------------------ MODULE DnsProxy ------------------------------
(***************************************************************************)
(* The DNS proxy (src/dnsproxy.cpp).  A query is answered from the cache   *)
(* if it is for an address and the name is known, and is then also sent on *)
(* to the upstream to refresh the cache; otherwise it is passed to the     *)
(* upstream over a TCP connection of its own, and over a shared UDP socket *)
(* if none can be opened.                                                  *)
(*                                                                         *)
(* onrequest runs in one thread at a time: attachdch and serverfd have no  *)
(* lock.  The TCP connections and the refreshing socket are heard by other *)
(* threads of the poll, which share the cache with it.  Transaction        *)
(* identifiers are the clients' and may coincide.                          *)
(***************************************************************************)
EXTENDS Naturals, Sequences

CONSTANTS
  Query,      \* the queries clients send, each once
  Id,         \* transaction identifiers
  Name,       \* host names
  Type,       \* query types
  A,          \* the type 1
  IdOf, NameOf, TypeOf,
  None        \* no query, no name, no packet

ASSUME DnsAssumption ==
  /\ A \in Type
  /\ IdOf \in [Query -> Id] /\ NameOf \in [Query -> Name] /\ TypeOf \in [Query -> Type]
  /\ None \notin Query /\ None \notin Name

VARIABLES
  bound,      \* what bind_upstream_dns has left: "none", "socket" (serverfd only), "all"
  attachdch,  \* the refreshing socket is in the poll
  todo,       \* queries that have not arrived yet
  cur, at,    \* the query onrequest is working on, and where it stands
  dnscache,   \* a packet for every name, or None
  call,       \* TCP calls: "none", "asked", "answered", "parsed", "closed", "dead"
  heard,      \* the packet such a call was answered with
  caching,    \* the call is a dnsasynccall, not a dnsasynccall_nocache
  synced,     \* queries sent on serverfd
  owed,       \* those of them the upstream has not answered
  arrived,    \* packets in the socket serverfd
  refresh,    \* queries sent on the refreshing socket and not answered
  refreshed,  \* packets in the refreshing socket
  holding,    \* the packet dnsasynccache::notify_in has read and not stored
  sent        \* sent[q]: the packets the client of q has been sent

listenerVars == <<bound, attachdch, todo, cur, at>>
callVars == <<call, heard, caching>>
syncVars == <<synced, owed, arrived>>
refreshVars == <<refresh, refreshed, holding>>
vars == <<listenerVars, dnscache, callVars, syncVars, refreshVars, sent>>

\* rcode 3 is told from an answer by its name, which onrequest leaves empty.
Packet == [id : Id, name : Name \cup {None}, type : Type, answers : BOOLEAN]
AnswerTo(q, some) == [id |-> IdOf[q], name |-> NameOf[q], type |-> TypeOf[q], answers |-> some]
Failure(q) == [id |-> IdOf[q], name |-> None, type |-> A, answers |-> FALSE]

Init ==
  /\ bound \in {"none", "socket", "all"}
  /\ attachdch = FALSE
  /\ todo = Query /\ cur = None /\ at = "idle"
  /\ dnscache = [n \in Name |-> None]
  /\ call = [q \in Query |-> "none"] /\ heard = [q \in Query |-> None]
  /\ caching = [q \in Query |-> FALSE]
  /\ synced = {} /\ owed = {} /\ arrived = {}
  /\ refresh = {} /\ refreshed = {} /\ holding = None
  /\ sent = [q \in Query |-> <<>>]

-----------------------------------------------------------------------------
(* dnsproxy::onrequest.                                                    *)

Reply(p) == sent' = [sent EXCEPT ![cur] = Append(@, p)]
Return == cur' = None /\ at' = "idle"

\* The poll may refuse the socket; the next query tries again.
Attach ==
  attachdch' \in IF bound = "all" /\ ~attachdch THEN BOOLEAN ELSE {attachdch}

Receive(q) ==
  /\ at = "idle" /\ q \in todo
  /\ Attach
  /\ todo' = todo \ {q} /\ cur' = q
  /\ at' = IF TypeOf[q] = A THEN "lookup" ELSE "nocache"
  /\ UNCHANGED <<bound, dnscache, callVars, syncVars, refreshVars, sent>>

Cached(n) == dnscache[n] # None /\ dnscache[n].answers

\* The lock is held for reading from here to CopyOut.
FindHit ==
  /\ at = "lookup" /\ Cached(NameOf[cur])
  /\ dnscache' = [dnscache EXCEPT ![NameOf[cur]] = [@ EXCEPT !.id = IdOf[cur]]]
  /\ at' = "copy"
  /\ UNCHANGED <<bound, attachdch, todo, cur, callVars, syncVars, refreshVars, sent>>

CopyOut ==
  /\ at = "copy"
  /\ Reply(dnscache[NameOf[cur]])
  /\ refresh' = IF bound = "all" THEN refresh \cup {cur} ELSE refresh
  /\ Return
  /\ UNCHANGED <<bound, attachdch, todo, dnscache, callVars, syncVars, refreshed, holding>>

\* get_ipv4_by_host knows no host.
FindMiss ==
  /\ at = "lookup" /\ ~Cached(NameOf[cur])
  /\ at' = "call"
  /\ UNCHANGED <<bound, attachdch, todo, cur, dnscache, callVars, syncVars, refreshVars, sent>>

\* open reports a host that cannot be looked up, but not a connect that fails.
Open(cached) ==
  /\ bound = "all"
  /\ call' = [call EXCEPT ![cur] = "asked"] \/ call' = [call EXCEPT ![cur] = "dead"]
  /\ caching' = [caching EXCEPT ![cur] = cached]
  /\ Return
  /\ UNCHANGED <<bound, attachdch, todo, dnscache, heard, syncVars, refreshVars, sent>>

OpenFails(next) ==
  /\ at' = next
  /\ UNCHANGED <<bound, attachdch, todo, cur, dnscache, callVars, syncVars, refreshVars, sent>>

\* Fault: onrequest goes on after it has passed the query on.
OpenCallNoReturn ==
  /\ at = "call" /\ bound = "all"
  /\ call' = [call EXCEPT ![cur] = "asked"] /\ caching' = [caching EXCEPT ![cur] = TRUE]
  /\ at' = "sync"
  /\ UNCHANGED <<bound, attachdch, todo, cur, dnscache, heard, syncVars, refreshVars, sent>>
OpenCall == at = "call" /\ Open(TRUE)
OpenCallFails == at = "call" /\ OpenFails("nocache")
\* Fault: a call for another type is a dnsasynccall, too.
OpenNoCacheCaching == at = "nocache" /\ Open(TRUE)
OpenNoCache == at = "nocache" /\ Open(FALSE)
OpenNoCacheFails == at = "nocache" /\ OpenFails("sync")

\* sync_call.  Without a socket the send fails, and the poll times out.
SyncSend ==
  /\ at = "sync"
  /\ at' = "recv"
  /\ IF bound = "none" THEN UNCHANGED <<synced, owed>>
     ELSE synced' = synced \cup {cur} /\ owed' = owed \cup {cur}
  /\ UNCHANGED <<bound, attachdch, todo, cur, dnscache, callVars, arrived, refreshVars, sent>>

SyncRecv(p) ==
  /\ at = "recv" /\ p \in arrived
  /\ arrived' = arrived \ {p}
  /\ IF p.id = IdOf[cur] THEN Reply(p) /\ Return ELSE UNCHANGED <<sent, cur, at>>
  /\ UNCHANGED <<bound, attachdch, todo, dnscache, callVars, synced, owed, refreshVars>>

\* Fault: recv without check_read.
SyncTimeoutNever == FALSE

SyncTimeout ==
  /\ at = "recv" /\ arrived = {}
  /\ Reply(Failure(cur)) /\ Return
  /\ UNCHANGED <<bound, attachdch, todo, dnscache, callVars, syncVars, refreshVars>>

-----------------------------------------------------------------------------
(* The other threads of the poll.  A packet is stored under the lock.      *)

Readers == at = "copy"
Store(p) == dnscache' = [dnscache EXCEPT ![p.name] = p]

\* dnsasynccall::notify_in and dnsasynccall_nocache::notify_in up to the lock.
HearCall(q) ==
  /\ call[q] = "answered"
  /\ sent' = [sent EXCEPT ![q] = Append(@, heard[q])]
  /\ call' = [call EXCEPT ![q] = IF caching[q] /\ heard[q].answers THEN "parsed" ELSE "closed"]
  /\ UNCHANGED <<listenerVars, dnscache, heard, caching, syncVars, refreshVars>>

\* Fault: a packet is stored without the lock.
StoreCallUnlocked(q) ==
  /\ call[q] = "parsed"
  /\ Store(heard[q])
  /\ call' = [call EXCEPT ![q] = "closed"]
  /\ UNCHANGED <<listenerVars, heard, caching, syncVars, refreshVars, sent>>

StoreCall(q) ==
  /\ call[q] = "parsed" /\ ~Readers
  /\ Store(heard[q])
  /\ call' = [call EXCEPT ![q] = "closed"]
  /\ UNCHANGED <<listenerVars, heard, caching, syncVars, refreshVars, sent>>

\* dnsasynccache::notify_in
HearRefresh(p) ==
  /\ attachdch /\ holding = None /\ p \in refreshed
  /\ refreshed' = refreshed \ {p}
  /\ holding' = IF p.answers THEN p ELSE None
  /\ UNCHANGED <<listenerVars, dnscache, callVars, syncVars, refresh, sent>>

StoreRefresh ==
  /\ holding # None /\ ~Readers
  /\ Store(holding)
  /\ holding' = None
  /\ UNCHANGED <<listenerVars, callVars, syncVars, refresh, refreshed, sent>>

-----------------------------------------------------------------------------
(* The upstream, which may answer late, without any answer in the packet,  *)
(* or never, and may close a connection.                                   *)

AnswerCall(q, some) ==
  /\ call[q] = "asked"
  /\ call' = [call EXCEPT ![q] = "answered"]
  /\ heard' = [heard EXCEPT ![q] = AnswerTo(q, some)]
  /\ UNCHANGED <<listenerVars, dnscache, caching, syncVars, refreshVars, sent>>

CloseCall(q) ==
  /\ call[q] = "asked"
  /\ call' = [call EXCEPT ![q] = "dead"]
  /\ UNCHANGED <<listenerVars, dnscache, heard, caching, syncVars, refreshVars, sent>>

AnswerSync(q, some) ==
  /\ q \in owed
  /\ owed' = owed \ {q}
  /\ arrived' = arrived \cup {AnswerTo(q, some)}
  /\ UNCHANGED <<listenerVars, dnscache, callVars, synced, refreshVars, sent>>

AnswerRefresh(q, some) ==
  /\ q \in refresh
  /\ refresh' = refresh \ {q}
  /\ refreshed' = refreshed \cup {AnswerTo(q, some)}
  /\ UNCHANGED <<listenerVars, dnscache, callVars, syncVars, holding, sent>>

Listener ==
  \/ FindHit \/ CopyOut \/ FindMiss
  \/ OpenCall \/ OpenCallFails \/ OpenNoCache \/ OpenNoCacheFails
  \/ SyncSend \/ SyncTimeout
  \/ \E p \in arrived : SyncRecv(p)

CallThread(q) == HearCall(q) \/ StoreCall(q)

RefreshThread == StoreRefresh \/ \E p \in refreshed : HearRefresh(p)

Upstream ==
  \E q \in Query :
    \/ CloseCall(q)
    \/ \E some \in BOOLEAN : AnswerCall(q, some) \/ AnswerSync(q, some) \/ AnswerRefresh(q, some)

Next ==
  \/ \E q \in Query : Receive(q)
  \/ Listener
  \/ \E q \in Query : CallThread(q)
  \/ RefreshThread
  \/ Upstream

\* The listener's thread and those of the poll go on; the upstream need not answer.
Fairness ==
  /\ WF_vars(Listener)
  /\ \A q \in Query : WF_vars(CallThread(q))
  /\ WF_vars(RefreshThread)

Spec == Init /\ [][Next]_vars /\ Fairness

-----------------------------------------------------------------------------
MaybePacket == Packet \cup {None}

\* Types.
TypeOK ==
  /\ bound \in {"none", "socket", "all"} /\ attachdch \in BOOLEAN
  /\ todo \subseteq Query /\ cur \in Query \cup {None}
  /\ at \in {"idle", "lookup", "copy", "call", "nocache", "sync", "recv"}
  /\ dnscache \in [Name -> MaybePacket]
  /\ call \in [Query -> {"none", "asked", "answered", "parsed", "closed", "dead"}]
  /\ heard \in [Query -> MaybePacket] /\ caching \in [Query -> BOOLEAN]
  /\ synced \subseteq Query /\ owed \subseteq Query /\ arrived \subseteq Packet
  /\ refresh \subseteq Query /\ refreshed \subseteq Packet /\ holding \in MaybePacket
  /\ sent \in [Query -> Seq(Packet)]

\* A client is sent the answer to what it asked: its own identifier, its name, records of its
\* type. sync_call (568-588) compares identifiers only, so that the late answer to an earlier
\* query with the same identifier may be taken for it; nothing else may be.
Answers(p, q) == p.name = NameOf[q] /\ p.type = TypeOf[q]
AnswerFor(p, q, others) ==
  /\ p.id = IdOf[q]
  /\ \/ p = Failure(q)
     \/ Answers(p, q)
     \/ q \in others /\ \E r \in others : IdOf[r] = IdOf[q] /\ Answers(p, r)
AnswersOwnQuery ==
  \A q \in Query : \A i \in DOMAIN sent[q] : AnswerFor(sent[q][i], q, synced)

\* A query is answered once, by the cache, by a call, by sync_call or by a failure, although
\* each of these is tried where the one before has failed (466-565).
OneAnswer == \A q \in Query : Len(sent[q]) <= 1

\* Nothing is cached under a name but address records of that name (the key is the name
\* alone, 306, 364), and never a packet without answers.
CachedAddresses ==
  \A n \in Name : dnscache[n] # None =>
    dnscache[n].name = n /\ dnscache[n].type = A /\ dnscache[n].answers

\* No query waits for the proxy for ever: again and again every query that has arrived has
\* been answered, or waits for an upstream that is silent, or was refused by it. The time limit
\* of sync_call (575-584) and the readers of the lock may not stop it.
Answered ==
  []<>(\A q \in Query \ todo : sent[q] # <<>> \/ call[q] \in {"asked", "dead"})
=============================================================================
