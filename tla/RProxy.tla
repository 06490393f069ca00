-------------------------------- MODULE RProxy --------------------------------
(***************************************************************************)
(* The reverse proxy (src/sni/rproxy.cpp).  RProxyServer has a public port *)
(* for visitors and a port for its upstreams.  An upstream's thread keeps  *)
(* a control connection, on which the server sends it a cookie, the        *)
(* address of the session object, for every visitor.  The upstream dials a *)
(* data connection to the server for it, sends the cookie back, dials its  *)
(* own service and joins the two.  The server joins the data connection    *)
(* with the session the cookie names, if it is still waiting.              *)
(*                                                                         *)
(* Every visitor's session runs in a thread of the poll, and so does every *)
(* connection of an upstream.  An address is used again after its session  *)
(* was destroyed, so that a cookie may name another visitor than the one   *)
(* it was made for; visitors are numbered to tell them apart.              *)
(***************************************************************************)
EXTENDS Naturals, Sequences

CONSTANTS
  Addr,       \* heap addresses at which a visitor's session may lie
  Upstream,   \* RProxyUpstream threads
  Control,    \* control connections, as objects of both sides
  Data,       \* data connections
  None,       \* no connection
  MaxVisits,  \* bound: how many visitors come
  MaxBreaks   \* bound: how many control connections break

ASSUME RProxyAssumption ==
  /\ None \notin Control
  /\ None \notin Data
  /\ MaxVisits \in Nat
  /\ MaxBreaks \in Nat

VARIABLES
  visitor,    \* visitor[a]: the number of the visitor whose session lies at a, 0: nobody's
  vpc,        \* where the session at a stands: "none", "added", "sent", "waiting", "refused"
  visits,     \* how many visitors have come
  sessions,   \* rproxy_aioserver::sessions
  masters,    \* rproxy_aioserver::masters
  server,     \* the server's session of a control connection:
              \* "none", "fresh", "master", "deaf"
  up,         \* bytes still pass on a control connection
  chan,       \* cookies on their way to the upstream
  conn,       \* the control connection of an upstream's thread
  upc,        \* where this thread stands: "connect", "wait", "dial", "service"
  hand,       \* the cookie it has read
  leg,        \* the data connection it is preparing
  data,       \* data connections: [at, cookie, claimed, open]
  left,       \* visitors that hung up
  lost,       \* visitors whose cookie was lost with a connection, or not dialed for
  breaks,     \* control connections that have broken
  undefined   \* a destroyed session was used

visitorVars == <<visitor, vpc, visits>>
controlVars == <<server, up, chan, breaks>>
upstreamVars == <<conn, upc, hand, leg>>
vars == <<visitorVars, sessions, masters, controlVars, upstreamVars, data, left, lost, undefined>>

Visitor == 1..MaxVisits
\* What travels is the address; "for" is the visitor it was made for.
Cookie == [addr : Addr, for : Visitor]
NoData(k) == [at |-> "none", cookie |-> k, claimed |-> 0, open |-> FALSE]
NoCookie == [addr |-> None, for |-> 0]
CookieOf(a) == [addr |-> a, for |-> visitor[a]]
Cookies(q) == {q[i] : i \in DOMAIN q}
LostWith(q) == {k.for : k \in Cookies(q)}

Init ==
  /\ visitor = [a \in Addr |-> 0] /\ vpc = [a \in Addr |-> "none"] /\ visits = 0
  /\ sessions = {} /\ masters = {}
  /\ server = [c \in Control |-> "none"] /\ up = [c \in Control |-> FALSE]
  /\ chan = [c \in Control |-> <<>>]
  /\ conn = [u \in Upstream |-> None] /\ upc = [u \in Upstream |-> "connect"]
  /\ hand = [u \in Upstream |-> NoCookie] /\ leg = [u \in Upstream |-> None]
  /\ data = [d \in Data |-> NoData(NoCookie)]
  /\ left = {} /\ lost = {} /\ breaks = 0
  /\ undefined = FALSE

-----------------------------------------------------------------------------
(* The session of a visitor.                                               *)

\* An upstream has been told of the session at a.
Announced(a) == vpc[a] \in {"sent", "waiting"}

\* The server has redirected the session at a to a data connection.
Redirected(a) == \E d \in Data : /\ data[d].at = "paired" /\ data[d].cookie.addr = a
                                 /\ data[d].claimed = visitor[a]

\* A connection is accepted: oninit, accept_new_session, add_session.
Arrive(a) ==
  /\ vpc[a] = "none" /\ visits < MaxVisits
  /\ visits' = visits + 1
  /\ visitor' = [visitor EXCEPT ![a] = visits + 1]
  /\ vpc' = [vpc EXCEPT ![a] = "added"]
  /\ sessions' = sessions \cup {a}
  /\ UNCHANGED <<masters, controlVars, upstreamVars, data, left, lost>>

\* Under the reader lock: there is no control connection.  What remove_session returns
\* is not looked at.
Refuse(a) ==
  /\ vpc[a] = "added" /\ masters = {}
  /\ sessions' = sessions \ {a}
  /\ vpc' = [vpc EXCEPT ![a] = "refused"]
  /\ UNCHANGED <<visitor, visits, masters, controlVars, upstreamVars, data, left, lost>>

\* Writes the cookie of a to a control connection.  That the connection may be broken
\* is not looked at.
WriteCookie(a) ==
  /\ vpc[a] = "added"
  /\ \E c \in masters :
       IF up[c] THEN chan' = [chan EXCEPT ![c] = Append(@, CookieOf(a))] /\ UNCHANGED lost
                ELSE lost' = lost \cup {visitor[a]} /\ UNCHANGED chan
  /\ UNCHANGED <<visitor, visits, sessions, masters, server, up, breaks, upstreamVars, data, left>>

\* Fault: oninit returns false although the cookie was sent.
SendCookieRefusing(a) == WriteCookie(a) /\ vpc' = [vpc EXCEPT ![a] = "refused"]

\* Under the reader lock: the cookie goes to the control connection that comes first in
\* the order of addresses, which says nothing of their age.
SendCookie(a) == WriteCookie(a) /\ vpc' = [vpc EXCEPT ![a] = "sent"]

\* oninit returns true, and the poll waits for the visitor.  The upstream may have been
\* faster: its thread needs no lock of this one.
Enter(a) ==
  /\ vpc[a] = "sent"
  /\ vpc' = [vpc EXCEPT ![a] = "waiting"]
  /\ UNCHANGED <<visitor, visits, sessions, masters, controlVars, upstreamVars, data, left, lost>>

\* Fault: the destructor does not take the session out of the set.
DestroyListed(a) ==
  /\ vpc' = [vpc EXCEPT ![a] = "none"]
  /\ visitor' = [visitor EXCEPT ![a] = 0]
  /\ UNCHANGED <<sessions, visits, masters, controlVars, upstreamVars, data, lost>>

\* ~rproxyserver_aiosession.
Destroy(a) ==
  /\ sessions' = sessions \ {a}
  /\ vpc' = [vpc EXCEPT ![a] = "none"]
  /\ visitor' = [visitor EXCEPT ![a] = 0]
  /\ UNCHANGED <<visits, masters, controlVars, upstreamVars, data, lost>>

\* oninit has returned false: the poll destroys the session.
DestroyRefused(a) == vpc[a] = "refused" /\ Destroy(a) /\ UNCHANGED left

\* The visitor hangs up; as long as it was not detached its own thread destroys the session.
HangUp(a) ==
  /\ vpc[a] = "waiting" /\ ~Redirected(a)
  /\ Destroy(a)
  /\ left' = left \cup {visitor[a]}

-----------------------------------------------------------------------------
(* Control connections.                                                    *)

\* reopen() succeeds and the magic is written.
Connect(u, c) ==
  /\ upc[u] = "connect"
  /\ server[c] = "none" /\ \A w \in Upstream : conn[w] # c
  /\ server' = [server EXCEPT ![c] = "fresh"]
  /\ up' = [up EXCEPT ![c] = TRUE]
  /\ conn' = [conn EXCEPT ![u] = c]
  /\ upc' = [upc EXCEPT ![u] = "wait"]
  /\ UNCHANGED <<visitorVars, sessions, masters, chan, breaks, hand, leg, data, left, lost>>

\* onrequest sees the magic.
AddMaster(c) ==
  /\ server[c] = "fresh"
  /\ server' = [server EXCEPT ![c] = "master"]
  /\ masters' = masters \cup {c}
  /\ UNCHANGED <<visitorVars, sessions, up, chan, breaks, upstreamVars, data, left, lost>>

\* The magic arrives in two pieces, which are read as cookies and pings.
MagicCut(c) ==
  /\ server[c] = "fresh"
  /\ server' = [server EXCEPT ![c] = "deaf"]
  /\ UNCHANGED <<visitorVars, sessions, masters, up, chan, breaks, upstreamVars, data, left, lost>>

\* The connection breaks; what was under way on it is lost.
Break(c) ==
  /\ up[c] /\ breaks < MaxBreaks
  /\ breaks' = breaks + 1
  /\ up' = [up EXCEPT ![c] = FALSE]
  /\ chan' = [chan EXCEPT ![c] = <<>>]
  /\ lost' = lost \cup LostWith(chan[c])
  /\ UNCHANGED <<visitorVars, sessions, masters, server, upstreamVars, data, left>>

\* The server notices: ~rproxyserver_aiosession_master.
DropControl(c) ==
  /\ server[c] # "none" /\ ~up[c]
  /\ server' = [server EXCEPT ![c] = "none"]
  /\ masters' = IF server[c] = "master" THEN masters \ {c} ELSE masters
  /\ UNCHANGED <<visitorVars, sessions, up, chan, breaks, upstreamVars, data, left, lost>>

\* The upstream notices, by a PING that fails or by a short read, and begins anew.
LoseControl(u) ==
  /\ upc[u] = "wait" /\ ~up[conn[u]]
  /\ conn' = [conn EXCEPT ![u] = None]
  /\ upc' = [upc EXCEPT ![u] = "connect"]
  /\ UNCHANGED <<visitorVars, sessions, masters, controlVars, hand, leg, data, left, lost>>

-----------------------------------------------------------------------------
(* The thread of an upstream, thread_task.                                 *)

\* Fault: as much as has arrived is read, and the first cookie is taken from it.
ReadFirstOnly(u) ==
  /\ upc[u] = "wait" /\ chan[conn[u]] # <<>>
  /\ hand' = [hand EXCEPT ![u] = Head(chan[conn[u]])]
  /\ chan' = [chan EXCEPT ![conn[u]] = <<>>]
  /\ upc' = [upc EXCEPT ![u] = "dial"]
  /\ UNCHANGED <<visitorVars, sessions, masters, server, up, breaks, conn, leg, data, left, lost>>

ReadCookie(u) ==
  /\ upc[u] = "wait" /\ chan[conn[u]] # <<>>
  /\ hand' = [hand EXCEPT ![u] = Head(chan[conn[u]])]
  /\ chan' = [chan EXCEPT ![conn[u]] = Tail(@)]
  /\ upc' = [upc EXCEPT ![u] = "dial"]
  /\ UNCHANGED <<visitorVars, sessions, masters, server, up, breaks, conn, leg, data, left, lost>>

\* c->open fails: nobody is told.
DialFails(u) ==
  /\ upc[u] = "dial"
  /\ lost' = lost \cup {hand[u].for}
  /\ hand' = [hand EXCEPT ![u] = NoCookie]
  /\ upc' = [upc EXCEPT ![u] = "wait"]
  /\ UNCHANGED <<visitorVars, sessions, masters, controlVars, conn, leg, data, left>>

\* Fault: the dial counts as failed although the cookie was written, and is tried again.
DialTwice(u, d) ==
  /\ upc[u] = "dial" /\ data[d].at = "none"
  /\ data' = [data EXCEPT ![d] = [at |-> "sent", cookie |-> hand[u], claimed |-> 0, open |-> TRUE]]
  /\ UNCHANGED <<visitorVars, sessions, masters, controlVars, upstreamVars, left, lost>>

\* c->open, and the cookie is written.
Dial(u, d) ==
  /\ upc[u] = "dial" /\ data[d].at = "none"
  /\ data' = [data EXCEPT ![d] = [at |-> "sent", cookie |-> hand[u], claimed |-> 0, open |-> TRUE]]
  /\ leg' = [leg EXCEPT ![u] = d]
  /\ hand' = [hand EXCEPT ![u] = NoCookie]
  /\ upc' = [upc EXCEPT ![u] = "service"]
  /\ UNCHANGED <<visitorVars, sessions, masters, controlVars, conn, left, lost>>

\* uc->open succeeds and the two are joined, or it fails and both are deleted.
DialService(u) ==
  /\ upc[u] = "service"
  /\ \E ok \in BOOLEAN : data' = [data EXCEPT ![leg[u]].open = ok]
  /\ leg' = [leg EXCEPT ![u] = None]
  /\ upc' = [upc EXCEPT ![u] = "wait"]
  /\ UNCHANGED <<visitorVars, sessions, masters, controlVars, conn, hand, left, lost>>

-----------------------------------------------------------------------------
(* A data connection, onrequest of the server.                             *)

\* No upstream is busy with d.
Settled(d) == \A u \in Upstream : leg[u] # d

\* Fault: remove_session is not asked, the cookie is believed.
ClaimBlindly(d) ==
  LET a == data[d].cookie.addr IN
  /\ data[d].at = "sent" /\ visitor[a] # 0
  /\ sessions' = sessions \ {a}
  /\ data' = [data EXCEPT ![d].at = "found", ![d].claimed = visitor[a]]
  /\ UNCHANGED <<visitorVars, masters, controlVars, upstreamVars, left, lost>>

\* remove_session finds the session.
Claim(d) ==
  LET a == data[d].cookie.addr IN
  /\ data[d].at = "sent" /\ a \in sessions
  /\ sessions' = sessions \ {a}
  /\ data' = [data EXCEPT ![d].at = "found", ![d].claimed = visitor[a]]
  /\ UNCHANGED <<visitorVars, masters, controlVars, upstreamVars, left, lost>>

\* It does not: the connection is kept, for nothing.
ClaimFails(d) ==
  /\ data[d].at = "sent" /\ data[d].cookie.addr \notin sessions
  /\ data' = [data EXCEPT ![d].at = "idle"]
  /\ UNCHANGED <<visitorVars, sessions, masters, controlVars, upstreamVars, left, lost>>

\* The cookie arrives in two pieces, which are read as pings.
CookieCut(d) ==
  /\ data[d].at = "sent"
  /\ data' = [data EXCEPT ![d].at = "idle"]
  /\ lost' = lost \cup {data[d].cookie.for}
  /\ UNCHANGED <<visitorVars, sessions, masters, controlVars, upstreamVars, left>>

\* pool->detach and async_redirect_to, without a lock.
Redirect(d) ==
  /\ data[d].at = "found" /\ visitor[data[d].cookie.addr] = data[d].claimed
  /\ data' = [data EXCEPT ![d].at = "paired"]
  /\ UNCHANGED <<visitorVars, sessions, masters, controlVars, upstreamVars, left, lost>>

\* The peer of a data connection closes it, or the service behind it does.
CloseData(d) ==
  /\ Settled(d) /\ data[d].at # "none" /\ data[d].open
  /\ data' = [data EXCEPT ![d].open = FALSE]
  /\ UNCHANGED <<visitorVars, sessions, masters, controlVars, upstreamVars, left, lost>>

FreeIdle(d) ==
  /\ Settled(d) /\ data[d].at = "idle" /\ ~data[d].open
  /\ data' = [data EXCEPT ![d] = NoData(NoCookie)]
  /\ UNCHANGED <<visitorVars, sessions, masters, controlVars, upstreamVars, left, lost>>

\* Visitor or data connection is closed: both sessions go.
EndPair(d) ==
  LET a == data[d].cookie.addr IN
  /\ Settled(d) /\ data[d].at = "paired" /\ visitor[a] = data[d].claimed
  /\ vpc[a] = "waiting"
  /\ data' = [data EXCEPT ![d] = NoData(NoCookie)]
  /\ sessions' = sessions \ {a}
  /\ vpc' = [vpc EXCEPT ![a] = "none"]
  /\ visitor' = [visitor EXCEPT ![a] = 0]
  /\ UNCHANGED <<visits, masters, controlVars, upstreamVars, left, lost>>

\* The session that d holds a pointer to was destroyed meanwhile, or is destroyed with
\* the pair while its own thread is still in oninit, before or after it wrote the cookie.
UseDestroyed(d) ==
  /\ \/ /\ data[d].at \in {"found", "paired"}
        /\ visitor[data[d].cookie.addr] # data[d].claimed
     \/ data[d].at = "paired" /\ vpc[data[d].cookie.addr] \in {"added", "sent"}
  /\ undefined' = TRUE
  /\ UNCHANGED <<visitorVars, sessions, masters, controlVars, upstreamVars, data, left, lost>>

Accept(a) == Arrive(a) \/ Refuse(a) \/ SendCookie(a) \/ Enter(a) \/ DestroyRefused(a)
Thread(u) ==
  \/ LoseControl(u) \/ ReadCookie(u) \/ DialFails(u) \/ DialService(u)
  \/ \E d \in Data : Dial(u, d)
OnRequest(d) == Claim(d) \/ ClaimFails(d) \/ CookieCut(d) \/ Redirect(d)

Defined ==
  \/ \E a \in Addr : Accept(a) \/ HangUp(a)
  \/ \E u \in Upstream : Thread(u) \/ \E c \in Control : Connect(u, c)
  \/ \E c \in Control : AddMaster(c) \/ MagicCut(c) \/ Break(c) \/ DropControl(c)
  \/ \E d \in Data : OnRequest(d) \/ CloseData(d) \/ FreeIdle(d) \/ EndPair(d)

\* Nothing is said of what happens after a destroyed session was used.
Go(step) == ~undefined /\ step /\ UNCHANGED undefined
Next == Go(Defined) \/ (~undefined /\ \E d \in Data : UseDestroyed(d))

\* Threads of the poll and of the upstreams go on: connect(2) returns, and what has
\* arrived is handed to onrequest.
Spec ==
  /\ Init /\ [][Next]_vars
  /\ \A a \in Addr : WF_vars(~undefined /\ Accept(a) /\ UNCHANGED undefined)
  /\ \A u \in Upstream : WF_vars(~undefined /\ Thread(u) /\ UNCHANGED undefined)
  /\ \A d \in Data : WF_vars(~undefined /\ OnRequest(d) /\ UNCHANGED undefined)

-----------------------------------------------------------------------------
(* Properties.                                                             *)

\* The values the variables hold; the locals of thread_task are set where they are used.
TypeOK ==
  /\ visits \in 0..MaxVisits
  /\ visitor \in [Addr -> 0..MaxVisits]
  /\ vpc \in [Addr -> {"none", "added", "sent", "waiting", "refused"}]
  /\ sessions \subseteq Addr /\ masters \subseteq Control
  /\ server \in [Control -> {"none", "fresh", "master", "deaf"}]
  /\ up \in [Control -> BOOLEAN] /\ chan \in [Control -> Seq(Cookie)]
  /\ conn \in [Upstream -> Control \cup {None}]
  /\ upc \in [Upstream -> {"connect", "wait", "dial", "service"}]
  /\ hand \in [Upstream -> Cookie \cup {NoCookie}]
  /\ leg \in [Upstream -> Data \cup {None}]
  /\ data \in [Data -> [at : {"none", "sent", "idle", "found", "paired"},
                        cookie : Cookie \cup {NoCookie}, claimed : 0..MaxVisits, open : BOOLEAN]]
  /\ left \subseteq Visitor /\ lost \subseteq Visitor
  /\ breaks \in 0..MaxBreaks /\ undefined \in BOOLEAN
  /\ \A w \in Upstream :
       /\ upc[w] = "connect" <=> conn[w] = None
       /\ upc[w] = "dial" <=> hand[w] # NoCookie
       /\ upc[w] = "service" <=> leg[w] # None

\* What the two sets hold can be used: a listed session is alive and no data connection
\* has claimed it, and a listed control connection is one that is not destroyed, so that
\* accept_new_session writes to no session that is gone and remove_session returns true
\* for none.
Registered ==
  /\ \A a \in sessions : /\ vpc[a] \in {"added", "sent", "waiting"}
                         /\ \A d \in Data : data[d].claimed # visitor[a]
  /\ \A c \in Control : c \in masters <=> server[c] = "master"

\* However cookies cross, come late or name an address again, a visitor is claimed by one
\* data connection at most (remove_session in onrequest).
PairedOnce ==
  \A d, e \in Data : data[d].claimed # 0 /\ data[d].claimed = data[e].claimed => d = e

OnTheWay(k) ==
  \/ \E c \in Control : k \in Cookies(chan[c])
  \/ \E u \in Upstream : hand[u] = k
  \/ \E d \in Data : data[d].at = "sent" /\ data[d].cookie = k

\* A visitor whose cookie was written is not forgotten: until it is claimed the cookie is on its way
\* to an upstream or back, unless a connection was lost with it or could not be dialed.
WaitingOnTheWay ==
  \A a \in sessions : Announced(a) => visitor[a] \in lost \/ OnTheWay(CookieOf(a))

\* A claimed session is still there when it is detached and used, and its own thread has
\* written its cookie, unless its visitor hung up in between, or the cookie that claimed it
\* was made for an earlier visitor at the same address.  With the cookie that was faster
\* than the return of oninit ("sent") these are the only ways into UseDestroyed
\* (accept_new_session, onrequest of the master session, ~rproxyserver_aiosession).
ClaimedAlive ==
  \A d \in Data :
    data[d].at \in {"found", "paired"} =>
      \/ /\ visitor[data[d].cookie.addr] = data[d].claimed
         /\ Announced(data[d].cookie.addr)
      \/ data[d].claimed \in left
      \/ data[d].cookie.for # data[d].claimed

\* A data connection as its visitor sees it; one that carries nobody is free.
LineOf(r) ==
  IF r.at \in {"none", "idle"} THEN [for |-> 0, with |-> 0] ELSE [for |-> r.cookie.for, with |-> r.claimed]

\* The view that the abstract switchboard is compared with: who has come, who may be put through, whom no upstream
\* has been told of, whom a cookie on its way to the thread of an upstream or in its hand tells of.
Come == 1..visits
Awaited == {visitor[a] : a \in sessions}
Unrung == {visitor[a] : a \in {b \in Addr : vpc[b] = "added"}}
Told ==
  {v \in Visitor : \/ \E c \in Control : v \in LostWith(chan[c])
                   \/ \E u \in Upstream : hand[u].for = v}
Lines == [d \in Data |-> LineOf(data[d])]

\* Whatever addresses are used again and whichever connections break, a visitor is dialed for once and put through
\* once, and a line that was dialed for a visitor who still waits is given to no other (accept_new_session,
\* thread_task, remove_session in onrequest).
Board == INSTANCE Switchboard WITH
  Line <- Data, Nobody <- 0,
  come <- Come, waiting <- Awaited, unrung <- Unrung, ringing <- Told, line <- Lines
ImplementsBoard == Board!BoardSpec

Waits(v) == \E a \in sessions : visitor[a] = v /\ Announced(a)

\* Every visitor who waits is claimed, leaves, or its cookie is lost.
Served == \A v \in Visitor : Waits(v) ~> ~Waits(v) \/ v \in lost \/ undefined
=============================================================================
