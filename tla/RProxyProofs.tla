----------------------------- MODULE RProxyProofs -----------------------------
(***************************************************************************)
(* Theorems about RProxy, for any number of visitors, addresses, upstreams *)
(* and connections: a visitor is claimed once, is not forgotten while it   *)
(* waits, and is alive when it is claimed, but for the named exceptions;   *)
(* and to its visitors the proxy is the Switchboard.                       *)
(***************************************************************************)
EXTENDS RProxy, TLAPS

\* A cookie is on its way, or a data connection remembers it.
Carried(k) == OnTheWay(k) \/ \E d \in Data : data[d].at # "none" /\ data[d].cookie = k

\* Numbers name visitors: no two sessions share one, and what claims has one.
Numbered ==
  /\ \A a \in Addr : visitor[a] <= visits /\ (visitor[a] = 0 <=> vpc[a] = "none")
  /\ \A a, b \in Addr : visitor[a] # 0 /\ visitor[a] = visitor[b] => a = b
  /\ \A d \in Data :
       /\ data[d].claimed <= visits
       /\ data[d].at \in {"none", "sent", "idle"} => data[d].claimed = 0
       /\ data[d].at \in {"found", "paired"} => data[d].claimed # 0
       /\ data[d].at # "none" => data[d].cookie \in Cookie

\* A cookie was made for a visitor that has come; if it has not gone, it is at the address
\* in the cookie, and the cookie was written.
CookiesOwned ==
  \A k \in Cookie : Carried(k) =>
     /\ k.for <= visits
     /\ \A a \in Addr : visitor[a] = k.for => a = k.addr /\ Announced(a)

IInv == /\ TypeOK /\ Registered /\ PairedOnce /\ WaitingOnTheWay
        /\ Numbered /\ CookiesOwned /\ ClaimedAlive

-----------------------------------------------------------------------------
(* Cookies and queues.                                                     *)

LEMMA AppendCookies ==
  ASSUME NEW S, NEW q \in Seq(S), NEW k \in S
  PROVE  Cookies(Append(q, k)) = Cookies(q) \cup {k}
<1>1. /\ DOMAIN q = 1..Len(q) /\ Len(q) \in Nat
      /\ DOMAIN Append(q, k) = 1..(Len(q) + 1)
      /\ \A i \in 1..Len(q) : Append(q, k)[i] = q[i]
      /\ Append(q, k)[Len(q) + 1] = k
  OBVIOUS
<1>2. ASSUME NEW x \in Cookies(Append(q, k)) PROVE x \in Cookies(q) \cup {k}
  <2>1. PICK i \in 1..(Len(q) + 1) : x = Append(q, k)[i]
    BY <1>1 DEF Cookies
  <2>2. CASE i = Len(q) + 1
    BY <1>1, <2>1, <2>2
  <2>3. CASE i \in 1..Len(q)
    BY <1>1, <2>1, <2>3 DEF Cookies
  <2> QED BY <1>1, <2>1, <2>2, <2>3
<1>3. ASSUME NEW x \in Cookies(q) PROVE x \in Cookies(Append(q, k))
  <2>1. PICK i \in 1..Len(q) : x = q[i]
    BY <1>1 DEF Cookies
  <2>2. i \in 1..(Len(q) + 1) /\ x = Append(q, k)[i]
    BY <1>1, <2>1
  <2> QED BY <1>1, <2>2 DEF Cookies
<1>4. k \in Cookies(Append(q, k))
  <2>1. Len(q) + 1 \in 1..(Len(q) + 1)
    BY <1>1
  <2> QED BY <1>1, <2>1 DEF Cookies
<1> QED BY <1>2, <1>3, <1>4

LEMMA HeadTailCookies ==
  ASSUME NEW S, NEW q \in Seq(S), q # <<>>
  PROVE  /\ Head(q) \in S /\ Tail(q) \in Seq(S)
         /\ Cookies(q) = {Head(q)} \cup Cookies(Tail(q))
<1>1. /\ DOMAIN q = 1..Len(q) /\ Len(q) \in Nat /\ Len(q) > 0
      /\ Head(q) = q[1] /\ Head(q) \in S /\ Tail(q) \in Seq(S)
      /\ DOMAIN Tail(q) = 1..(Len(q) - 1)
      /\ \A i \in 1..(Len(q) - 1) : Tail(q)[i] = q[i + 1]
  OBVIOUS
<1>2. ASSUME NEW x \in Cookies(q) PROVE x \in {Head(q)} \cup Cookies(Tail(q))
  <2>1. PICK i \in 1..Len(q) : x = q[i]
    BY <1>1 DEF Cookies
  <2>2. CASE i = 1
    BY <1>1, <2>1, <2>2
  <2>3. CASE i # 1
    <3>1. i - 1 \in 1..(Len(q) - 1) /\ (i - 1) + 1 = i
      BY <1>1, <2>1, <2>3
    <3>2. Tail(q)[i - 1] = x
      BY <1>1, <2>1, <3>1
    <3> QED BY <1>1, <3>1, <3>2 DEF Cookies
  <2> QED BY <2>2, <2>3
<1>3. Head(q) \in Cookies(q)
  <2>1. 1 \in 1..Len(q)
    BY <1>1
  <2> QED BY <1>1, <2>1 DEF Cookies
<1>4. ASSUME NEW x \in Cookies(Tail(q)) PROVE x \in Cookies(q)
  <2>1. PICK i \in 1..(Len(q) - 1) : x = Tail(q)[i]
    BY <1>1 DEF Cookies
  <2>2. i + 1 \in 1..Len(q) /\ x = q[i + 1]
    BY <1>1, <2>1
  <2> QED BY <1>1, <2>2 DEF Cookies
<1> QED BY <1>1, <1>2, <1>3, <1>4

LEMMA NoCookies == Cookies(<<>>) = {} /\ <<>> \in Seq(Cookie)
BY DEF Cookies

LEMMA NullIsNoCookie == NoCookie \notin Cookie
BY RProxyAssumption DEF NoCookie, Cookie, Visitor

-----------------------------------------------------------------------------
(* Steps that leave visitors and data connections alone.                   *)

LEMMA ControlFrame ==
  ASSUME IInv, TypeOK', UNCHANGED <<visitorVars, sessions, data, left>>, lost \subseteq lost',
         \A c \in Control : c \in masters' <=> server'[c] = "master",
         \A k \in Cookie : OnTheWay(k)' => OnTheWay(k),
         \A k \in Cookie : OnTheWay(k) => OnTheWay(k)' \/ k.for \in lost'
  PROVE  IInv'
<1>1. Registered' /\ PairedOnce' /\ Numbered' /\ ClaimedAlive'
  BY DEF IInv, Registered, PairedOnce, Numbered, ClaimedAlive, Announced, visitorVars
<1>2. CookiesOwned'
  BY DEF IInv, CookiesOwned, Announced, Carried, visitorVars
<1>3. WaitingOnTheWay'
  <2> SUFFICES ASSUME NEW a \in sessions, Announced(a)
               PROVE  visitor[a] \in lost' \/ OnTheWay(CookieOf(a))'
    BY DEF IInv, WaitingOnTheWay, Announced, visitorVars
  <2>1. CookieOf(a) \in Cookie /\ CookieOf(a).for = visitor[a] /\ CookieOf(a)' = CookieOf(a)
    BY DEF IInv, TypeOK, Numbered, Announced, CookieOf, Cookie, Visitor, visitorVars
  <2>2. visitor[a] \in lost \/ OnTheWay(CookieOf(a))
    BY DEF IInv, WaitingOnTheWay, Announced
  <2>3. OnTheWay(CookieOf(a)) => OnTheWay(CookieOf(a))' \/ visitor[a] \in lost'
    BY <2>1 DEF visitorVars
  <2> QED BY <2>2, <2>3
<1> QED BY <1>1, <1>2, <1>3 DEF IInv

LEMMA ConnectIInv ==
  ASSUME IInv, UNCHANGED undefined, NEW u \in Upstream, NEW c \in Control, Connect(u, c)
  PROVE  IInv'
<1>1. TypeOK'
  BY RProxyAssumption DEF IInv, TypeOK, Connect, visitorVars
<1>2. /\ UNCHANGED <<visitorVars, sessions, data, left>> /\ lost \subseteq lost'
      /\ \A e \in Control : e \in masters' <=> server'[e] = "master"
  BY DEF IInv, TypeOK, Registered, Connect
<1>3. \A k : OnTheWay(k)' <=> OnTheWay(k)
  BY DEF Connect, OnTheWay, Cookies
<1> QED BY <1>1, <1>2, <1>3, ControlFrame

LEMMA AddMasterIInv ==
  ASSUME IInv, UNCHANGED undefined, NEW c \in Control, AddMaster(c)
  PROVE  IInv'
<1>1. TypeOK'
  BY DEF IInv, TypeOK, AddMaster, visitorVars, upstreamVars
<1>2. /\ UNCHANGED <<visitorVars, sessions, data, left>> /\ lost \subseteq lost'
      /\ \A e \in Control : e \in masters' <=> server'[e] = "master"
  BY DEF IInv, TypeOK, Registered, AddMaster
<1>3. \A k : OnTheWay(k)' <=> OnTheWay(k)
  BY DEF AddMaster, OnTheWay, Cookies, upstreamVars
<1> QED BY <1>1, <1>2, <1>3, ControlFrame

LEMMA MagicCutIInv ==
  ASSUME IInv, UNCHANGED undefined, NEW c \in Control, MagicCut(c)
  PROVE  IInv'
<1>1. TypeOK'
  BY DEF IInv, TypeOK, MagicCut, visitorVars, upstreamVars
<1>2. /\ UNCHANGED <<visitorVars, sessions, data, left>> /\ lost \subseteq lost'
      /\ \A e \in Control : e \in masters' <=> server'[e] = "master"
  BY DEF IInv, TypeOK, Registered, MagicCut
<1>3. \A k : OnTheWay(k)' <=> OnTheWay(k)
  BY DEF MagicCut, OnTheWay, Cookies, upstreamVars
<1> QED BY <1>1, <1>2, <1>3, ControlFrame

LEMMA DropControlIInv ==
  ASSUME IInv, UNCHANGED undefined, NEW c \in Control, DropControl(c)
  PROVE  IInv'
<1>1. TypeOK'
  BY DEF IInv, TypeOK, DropControl, visitorVars, upstreamVars
<1>2. /\ UNCHANGED <<visitorVars, sessions, data, left>> /\ lost \subseteq lost'
      /\ \A e \in Control : e \in masters' <=> server'[e] = "master"
  BY DEF IInv, TypeOK, Registered, DropControl
<1>3. \A k : OnTheWay(k)' <=> OnTheWay(k)
  BY DEF DropControl, OnTheWay, Cookies, upstreamVars
<1> QED BY <1>1, <1>2, <1>3, ControlFrame

LEMMA LoseControlIInv ==
  ASSUME IInv, UNCHANGED undefined, NEW u \in Upstream, LoseControl(u)
  PROVE  IInv'
<1>1. TypeOK'
  BY DEF IInv, TypeOK, LoseControl, visitorVars, controlVars
<1>2. /\ UNCHANGED <<visitorVars, sessions, data, left>> /\ lost \subseteq lost'
      /\ \A e \in Control : e \in masters' <=> server'[e] = "master"
  BY DEF IInv, Registered, LoseControl, controlVars
<1>3. \A k : OnTheWay(k)' <=> OnTheWay(k)
  BY DEF LoseControl, OnTheWay, Cookies, controlVars
<1> QED BY <1>1, <1>2, <1>3, ControlFrame

\* What is lost with a connection is in lost.
LEMMA BreakIInv ==
  ASSUME IInv, UNCHANGED undefined, NEW c \in Control, Break(c)
  PROVE  IInv'
<1>1. LostWith(chan[c]) \subseteq Visitor
  <2>1. chan[c] \in Seq(Cookie)
    BY DEF IInv, TypeOK
  <2>2. \A i \in DOMAIN chan[c] : chan[c][i] \in Cookie
    BY <2>1
  <2> QED BY <2>2 DEF LostWith, Cookies, Cookie
<1>2. TypeOK'
  <2>1. chan' \in [Control -> Seq(Cookie)] /\ up' \in [Control -> BOOLEAN]
    BY NoCookies DEF IInv, TypeOK, Break
  <2>2. lost' \subseteq Visitor
    BY <1>1 DEF IInv, TypeOK, Break
  <2>3. breaks' \in 0..MaxBreaks
    BY RProxyAssumption DEF IInv, TypeOK, Break
  <2> QED BY <2>1, <2>2, <2>3 DEF IInv, TypeOK, Break, visitorVars, upstreamVars
<1>3. /\ UNCHANGED <<visitorVars, sessions, data, left>> /\ lost \subseteq lost'
      /\ \A e \in Control : e \in masters' <=> server'[e] = "master"
  BY DEF IInv, Registered, Break
<1>4. \A e \in Control : chan'[e] = IF e = c THEN <<>> ELSE chan[e]
  BY DEF IInv, TypeOK, Break
<1>5. ASSUME NEW k \in Cookie, OnTheWay(k)' PROVE OnTheWay(k)
  BY <1>4, <1>5, NoCookies DEF Break, OnTheWay, upstreamVars
<1>6. ASSUME NEW k \in Cookie, OnTheWay(k) PROVE OnTheWay(k)' \/ k.for \in lost'
  <2>1. CASE k \in Cookies(chan[c])
    BY <2>1 DEF Break, LostWith
  <2>2. CASE k \notin Cookies(chan[c])
    BY <1>4, <1>6, <2>2 DEF Break, OnTheWay, upstreamVars
  <2> QED BY <2>1, <2>2
<1> QED BY <1>2, <1>3, <1>5, <1>6, ControlFrame

LEMMA ReadCookieIInv ==
  ASSUME IInv, UNCHANGED undefined, NEW u \in Upstream, ReadCookie(u)
  PROVE  IInv'
<1>1. PICK c \in Control : c = conn[u]
  BY DEF IInv, TypeOK, ReadCookie
<1>2. chan[c] \in Seq(Cookie) /\ chan[c] # <<>> /\ hand[u] = NoCookie
  BY <1>1 DEF IInv, TypeOK, ReadCookie
<1>3. /\ Head(chan[c]) \in Cookie /\ Tail(chan[c]) \in Seq(Cookie)
      /\ Cookies(chan[c]) = {Head(chan[c])} \cup Cookies(Tail(chan[c]))
  BY <1>2, HeadTailCookies
<1>4. /\ \A e \in Control : chan'[e] = IF e = c THEN Tail(chan[c]) ELSE chan[e]
      /\ \A w \in Upstream : hand'[w] = IF w = u THEN Head(chan[c]) ELSE hand[w]
  BY <1>1 DEF IInv, TypeOK, ReadCookie
<1>5. TypeOK'
  <2>1. chan' \in [Control -> Seq(Cookie)] /\ hand' \in [Upstream -> Cookie \cup {NoCookie}]
    BY <1>1, <1>3 DEF IInv, TypeOK, ReadCookie
  <2>2. upc' \in [Upstream -> {"connect", "wait", "dial", "service"}]
    BY DEF IInv, TypeOK, ReadCookie
  <2>3. \A w \in Upstream : upc'[w] = IF w = u THEN "dial" ELSE upc[w]
    BY DEF IInv, TypeOK, ReadCookie
  <2>4. \A w \in Upstream : /\ upc'[w] = "connect" <=> conn'[w] = None
                            /\ upc'[w] = "dial" <=> hand'[w] # NoCookie
                            /\ upc'[w] = "service" <=> leg'[w] # None
    BY <1>3, <1>4, <2>3, NullIsNoCookie DEF IInv, TypeOK, ReadCookie
  <2> QED BY <2>1, <2>2, <2>4 DEF IInv, TypeOK, ReadCookie, visitorVars
<1>6. /\ UNCHANGED <<visitorVars, sessions, data, left>> /\ lost \subseteq lost'
      /\ \A e \in Control : e \in masters' <=> server'[e] = "master"
  BY DEF IInv, Registered, ReadCookie
<1>7. ASSUME NEW k \in Cookie PROVE OnTheWay(k)' <=> OnTheWay(k)
  <2>1. (\E e \in Control : k \in Cookies(chan[e]))
        <=> k = Head(chan[c]) \/ \E e \in Control : k \in Cookies(chan'[e])
    BY <1>3, <1>4
  <2>2. (\E w \in Upstream : hand'[w] = k)
        <=> k = Head(chan[c]) \/ \E w \in Upstream : hand[w] = k
    BY <1>2, <1>4, NullIsNoCookie
  <2>3. UNCHANGED data
    BY DEF ReadCookie
  <2> QED BY <2>1, <2>2, <2>3 DEF OnTheWay
<1> QED BY <1>5, <1>6, <1>7, ControlFrame

LEMMA DialFailsIInv ==
  ASSUME IInv, UNCHANGED undefined, NEW u \in Upstream, DialFails(u)
  PROVE  IInv'
<1>1. hand[u] \in Cookie /\ hand[u].for \in Visitor
  BY DEF IInv, TypeOK, DialFails, Cookie
<1>2. \A w \in Upstream : /\ hand'[w] = IF w = u THEN NoCookie ELSE hand[w]
                          /\ upc'[w] = IF w = u THEN "wait" ELSE upc[w]
  BY DEF IInv, TypeOK, DialFails
<1>3. TypeOK'
  BY <1>1, <1>2 DEF IInv, TypeOK, DialFails, visitorVars, controlVars
<1>4. /\ UNCHANGED <<visitorVars, sessions, data, left>> /\ lost \subseteq lost'
      /\ \A e \in Control : e \in masters' <=> server'[e] = "master"
  BY DEF IInv, Registered, DialFails, controlVars
<1>5. ASSUME NEW k \in Cookie, OnTheWay(k)' PROVE OnTheWay(k)
  BY <1>2, <1>5, NullIsNoCookie DEF DialFails, OnTheWay, controlVars
<1>6. ASSUME NEW k \in Cookie, OnTheWay(k) PROVE OnTheWay(k)' \/ k.for \in lost'
  <2>1. CASE k = hand[u]
    BY <2>1 DEF DialFails
  <2>2. CASE k # hand[u]
    BY <1>2, <1>6, <2>2 DEF DialFails, OnTheWay, controlVars
  <2> QED BY <2>1, <2>2
<1> QED BY <1>3, <1>4, <1>5, <1>6, ControlFrame

-----------------------------------------------------------------------------
(* Steps of data connections that claim nobody.                            *)

\* What these steps may do with the data connections.
Unclaiming ==
  \A d \in Data :
    /\ data'[d].claimed \in {0, data[d].claimed}
    /\ data'[d].at \in {"none", "sent", "idle"} => data'[d].claimed = 0
    /\ data'[d].at \in {"found", "paired"} =>
         /\ data[d].at \in {"found", "paired"}
         /\ data'[d].cookie = data[d].cookie /\ data'[d].claimed = data[d].claimed
    /\ data'[d].at # "none" => data'[d].cookie \in Cookie

LEMMA DataFrame ==
  ASSUME IInv, TypeOK', Unclaiming,
         UNCHANGED <<visitorVars, sessions, masters, server, left>>, lost \subseteq lost',
         \A k \in Cookie : Carried(k)' => Carried(k),
         \A k \in Cookie, a \in sessions :
           k = CookieOf(a) /\ OnTheWay(k) => OnTheWay(k)' \/ k.for \in lost'
  PROVE  IInv'
<1>1. Numbered'
  <2>1. visits \in Nat
    BY RProxyAssumption DEF IInv, TypeOK
  <2>2. \A d \in Data : data[d].claimed <= visits
    BY DEF IInv, Numbered
  <2>3. \A d \in Data : data'[d].claimed <= visits
    BY <2>1, <2>2 DEF Unclaiming
  <2> QED BY <2>3 DEF IInv, Numbered, Unclaiming, visitorVars
<1>2. Registered'
  <2>1. \A a \in sessions : visitor[a] # 0
    BY DEF IInv, TypeOK, Registered, Numbered
  <2> QED BY <2>1 DEF IInv, Registered, Unclaiming, visitorVars
<1>3. PairedOnce'
  BY DEF IInv, PairedOnce, Unclaiming
<1>4. CookiesOwned'
  BY DEF IInv, CookiesOwned, Announced, visitorVars
<1>5. ClaimedAlive'
  BY DEF IInv, ClaimedAlive, Announced, Unclaiming, visitorVars
<1>6. WaitingOnTheWay'
  <2> SUFFICES ASSUME NEW a \in sessions, Announced(a)
               PROVE  visitor[a] \in lost' \/ OnTheWay(CookieOf(a))'
    BY DEF IInv, WaitingOnTheWay, Announced, visitorVars
  <2>1. CookieOf(a) \in Cookie /\ CookieOf(a).for = visitor[a] /\ CookieOf(a)' = CookieOf(a)
    BY DEF IInv, TypeOK, Numbered, Announced, CookieOf, Cookie, Visitor, visitorVars
  <2>2. visitor[a] \in lost \/ OnTheWay(CookieOf(a))
    BY DEF IInv, WaitingOnTheWay, Announced
  <2>3. OnTheWay(CookieOf(a)) => OnTheWay(CookieOf(a))' \/ visitor[a] \in lost'
    BY <2>1 DEF visitorVars
  <2> QED BY <2>2, <2>3
<1> QED BY <1>1, <1>2, <1>3, <1>4, <1>5, <1>6 DEF IInv

DataType ==
  data \in [Data -> [at : {"none", "sent", "idle", "found", "paired"},
                     cookie : Cookie \cup {NoCookie}, claimed : 0..MaxVisits, open : BOOLEAN]]

LEMMA DialIInv ==
  ASSUME IInv, UNCHANGED undefined, NEW u \in Upstream, NEW d \in Data, Dial(u, d)
  PROVE  IInv'
<1>1. hand[u] \in Cookie /\ d # None
  BY RProxyAssumption DEF IInv, TypeOK, Dial
<1>2. /\ \A w \in Upstream : /\ hand'[w] = IF w = u THEN NoCookie ELSE hand[w]
                             /\ upc'[w] = IF w = u THEN "service" ELSE upc[w]
                             /\ leg'[w] = IF w = u THEN d ELSE leg[w]
      /\ \A e \in Data \ {d} : data'[e] = data[e]
      /\ data'[d] = [at |-> "sent", cookie |-> hand[u], claimed |-> 0, open |-> TRUE]
      /\ data[d].at = "none" /\ UNCHANGED chan
  BY DEF IInv, TypeOK, Dial, controlVars
<1>3. TypeOK'
  <2>1. DataType'
    BY <1>1, RProxyAssumption DEF IInv, TypeOK, DataType, Dial
  <2> QED BY <1>1, <1>2, <2>1, RProxyAssumption
          DEF IInv, TypeOK, DataType, Dial, visitorVars, controlVars
<1>4. Unclaiming
  BY <1>1, <1>2 DEF IInv, Numbered, Unclaiming
<1>5. ASSUME NEW k \in Cookie PROVE Carried(k)' => Carried(k)
  BY <1>1, <1>2, NullIsNoCookie DEF Carried, OnTheWay
<1>6. ASSUME NEW k \in Cookie, OnTheWay(k) PROVE OnTheWay(k)'
  BY <1>1, <1>2, <1>6 DEF OnTheWay
<1> QED BY <1>3, <1>4, <1>5, <1>6, DataFrame DEF Dial, controlVars

LEMMA DialServiceIInv ==
  ASSUME IInv, UNCHANGED undefined, NEW u \in Upstream, DialService(u)
  PROVE  IInv'
<1>1. PICK d \in Data : d = leg[u]
  BY DEF IInv, TypeOK, DialService
<1>2. PICK ok \in BOOLEAN : data' = [data EXCEPT ![d].open = ok]
  BY <1>1 DEF DialService
<1>3. \A e \in Data : /\ data'[e].at = data[e].at /\ data'[e].cookie = data[e].cookie
                      /\ data'[e].claimed = data[e].claimed
  BY <1>2 DEF IInv, TypeOK
<1>4. \A w \in Upstream : /\ upc'[w] = IF w = u THEN "wait" ELSE upc[w]
                          /\ leg'[w] = IF w = u THEN None ELSE leg[w]
  BY DEF IInv, TypeOK, DialService
<1>5. TypeOK'
  <2>0. DataType
    BY DEF IInv, TypeOK, DataType
  <2>1. DataType'
    BY <1>1, <1>2, <2>0 DEF DataType
  <2> QED BY <1>1, <1>4, <2>1 DEF IInv, TypeOK, DataType, DialService, visitorVars, controlVars
<1>6. Unclaiming
  BY <1>3 DEF IInv, Numbered, Unclaiming
<1>7. \A k : (Carried(k)' <=> Carried(k)) /\ (OnTheWay(k)' <=> OnTheWay(k))
  BY <1>3 DEF Carried, OnTheWay, DialService, controlVars
<1> QED BY <1>5, <1>6, <1>7, DataFrame DEF DialService, controlVars

\* The session a cookie does not find is not listed, so that nobody waits for this cookie.
LEMMA ClaimFailsIInv ==
  ASSUME IInv, UNCHANGED undefined, NEW d \in Data, ClaimFails(d)
  PROVE  IInv'
<1>1. /\ \A e \in Data \ {d} : data'[e] = data[e]
      /\ data'[d].at = "idle" /\ data'[d].cookie = data[d].cookie
      /\ data'[d].claimed = data[d].claimed /\ data[d].at = "sent"
  BY DEF IInv, TypeOK, ClaimFails
<1>2. TypeOK'
  <2>0. DataType
    BY DEF IInv, TypeOK, DataType
  <2>1. DataType'
    BY <2>0 DEF DataType, ClaimFails
  <2> QED BY <2>1 DEF IInv, TypeOK, DataType, ClaimFails, visitorVars, controlVars, upstreamVars
<1>3. Unclaiming
  BY <1>1 DEF IInv, Numbered, Unclaiming
<1>4. ASSUME NEW k \in Cookie PROVE Carried(k)' => Carried(k)
  BY <1>1 DEF Carried, OnTheWay, ClaimFails, controlVars, upstreamVars
<1>5. ASSUME NEW k \in Cookie, NEW a \in sessions, k = CookieOf(a), OnTheWay(k)
      PROVE  OnTheWay(k)'
  <2>1. data[d].cookie # k
    BY <1>5 DEF ClaimFails, CookieOf
  <2> QED BY <1>1, <1>5, <2>1 DEF OnTheWay, ClaimFails, controlVars, upstreamVars
<1> QED BY <1>2, <1>3, <1>4, <1>5, DataFrame DEF ClaimFails, controlVars

LEMMA CookieCutIInv ==
  ASSUME IInv, UNCHANGED undefined, NEW d \in Data, CookieCut(d)
  PROVE  IInv'
<1>1. /\ \A e \in Data \ {d} : data'[e] = data[e]
      /\ data'[d].at = "idle" /\ data'[d].cookie = data[d].cookie
      /\ data'[d].claimed = data[d].claimed /\ data[d].at = "sent"
  BY DEF IInv, TypeOK, CookieCut
<1>2. TypeOK'
  <2>0. DataType
    BY DEF IInv, TypeOK, DataType
  <2>1. DataType'
    BY <2>0 DEF DataType, CookieCut
  <2>2. lost' \subseteq Visitor
    BY <1>1 DEF IInv, TypeOK, Numbered, CookieCut, Cookie
  <2> QED BY <2>1, <2>2
          DEF IInv, TypeOK, DataType, CookieCut, visitorVars, controlVars, upstreamVars
<1>3. Unclaiming
  BY <1>1 DEF IInv, Numbered, Unclaiming
<1>4. ASSUME NEW k \in Cookie PROVE Carried(k)' => Carried(k)
  BY <1>1 DEF Carried, OnTheWay, CookieCut, controlVars, upstreamVars
<1>5. ASSUME NEW k \in Cookie, OnTheWay(k) PROVE OnTheWay(k)' \/ k.for \in lost'
  <2>1. CASE data[d].cookie = k
    BY <2>1 DEF CookieCut
  <2>2. CASE data[d].cookie # k
    BY <1>1, <1>5, <2>2 DEF OnTheWay, CookieCut, controlVars, upstreamVars
  <2> QED BY <2>1, <2>2
<1> QED BY <1>2, <1>3, <1>4, <1>5, DataFrame DEF CookieCut, controlVars

LEMMA RedirectIInv ==
  ASSUME IInv, UNCHANGED undefined, NEW d \in Data, Redirect(d)
  PROVE  IInv'
<1>1. /\ \A e \in Data \ {d} : data'[e] = data[e]
      /\ data'[d].at = "paired" /\ data'[d].cookie = data[d].cookie
      /\ data'[d].claimed = data[d].claimed /\ data[d].at = "found"
  BY DEF IInv, TypeOK, Redirect
<1>2. TypeOK'
  <2>0. DataType
    BY DEF IInv, TypeOK, DataType
  <2>1. DataType'
    BY <2>0 DEF DataType, Redirect
  <2> QED BY <2>1 DEF IInv, TypeOK, DataType, Redirect, visitorVars, controlVars, upstreamVars
<1>3. Unclaiming
  BY <1>1 DEF IInv, Numbered, Unclaiming
<1>4. \A k : (Carried(k)' <=> Carried(k)) /\ (OnTheWay(k)' <=> OnTheWay(k))
  BY <1>1 DEF Carried, OnTheWay, Redirect, controlVars, upstreamVars
<1> QED BY <1>2, <1>3, <1>4, DataFrame DEF Redirect, controlVars

LEMMA CloseDataIInv ==
  ASSUME IInv, UNCHANGED undefined, NEW d \in Data, CloseData(d)
  PROVE  IInv'
<1>1. \A e \in Data : /\ data'[e].at = data[e].at /\ data'[e].cookie = data[e].cookie
                      /\ data'[e].claimed = data[e].claimed
  BY DEF IInv, TypeOK, CloseData
<1>2. TypeOK'
  <2>0. DataType
    BY DEF IInv, TypeOK, DataType
  <2>1. DataType'
    BY <2>0 DEF DataType, CloseData
  <2> QED BY <2>1 DEF IInv, TypeOK, DataType, CloseData, visitorVars, controlVars, upstreamVars
<1>3. Unclaiming
  BY <1>1 DEF IInv, Numbered, Unclaiming
<1>4. \A k : (Carried(k)' <=> Carried(k)) /\ (OnTheWay(k)' <=> OnTheWay(k))
  BY <1>1 DEF Carried, OnTheWay, CloseData, controlVars, upstreamVars
<1> QED BY <1>2, <1>3, <1>4, DataFrame DEF CloseData, controlVars

LEMMA FreeIdleIInv ==
  ASSUME IInv, UNCHANGED undefined, NEW d \in Data, FreeIdle(d)
  PROVE  IInv'
<1>1. /\ \A e \in Data \ {d} : data'[e] = data[e]
      /\ data'[d] = NoData(NoCookie) /\ data[d].at = "idle"
  BY DEF IInv, TypeOK, FreeIdle
<1>2. TypeOK'
  <2>1. DataType'
    BY RProxyAssumption DEF IInv, TypeOK, DataType, FreeIdle, NoData
  <2> QED BY <2>1 DEF IInv, TypeOK, DataType, FreeIdle, visitorVars, controlVars, upstreamVars
<1>3. Unclaiming
  BY <1>1 DEF IInv, Numbered, Unclaiming, NoData
<1>4. \A k : (Carried(k)' => Carried(k)) /\ (OnTheWay(k) => OnTheWay(k)')
  BY <1>1 DEF Carried, OnTheWay, FreeIdle, controlVars, upstreamVars, NoData
<1> QED BY <1>2, <1>3, <1>4, DataFrame DEF FreeIdle, controlVars

-----------------------------------------------------------------------------
(* Steps that make, claim and destroy sessions.                            *)

LEMMA ArriveIInv ==
  ASSUME IInv, UNCHANGED undefined, NEW a \in Addr, Arrive(a)
  PROVE  IInv'
<1>0. /\ visits \in Nat /\ visits' = visits + 1 /\ visits' \in 1..MaxVisits
      /\ \A b \in Addr : /\ visitor'[b] = IF b = a THEN visits + 1 ELSE visitor[b]
                         /\ vpc'[b] = IF b = a THEN "added" ELSE vpc[b]
      /\ sessions' = sessions \cup {a} /\ vpc[a] = "none" /\ visitor[a] = 0
      /\ UNCHANGED <<masters, server, chan, hand, data, left, lost>>
  BY RProxyAssumption DEF IInv, TypeOK, Numbered, Arrive, controlVars, upstreamVars
<1>1. TypeOK'
  <2>1. /\ visitor' \in [Addr -> 0..MaxVisits]
        /\ vpc' \in [Addr -> {"none", "added", "sent", "waiting", "refused"}]
    BY <1>0 DEF IInv, TypeOK, Arrive
  <2> QED BY <1>0, <2>1 DEF IInv, TypeOK, Arrive, controlVars, upstreamVars
<1>2. \A d \in Data : data[d].claimed \in Nat /\ data[d].claimed <= visits
  BY DEF IInv, TypeOK, Numbered
<1>3. \A b \in Addr : visitor[b] \in Nat /\ visitor[b] <= visits
  BY DEF IInv, TypeOK, Numbered
<1>4. Registered'
  BY <1>0, <1>2 DEF IInv, TypeOK, Registered
<1>5. PairedOnce'
  BY <1>0 DEF IInv, PairedOnce
<1>6. Numbered'
  <2>1. \A b \in Addr : visitor'[b] <= visits' /\ (visitor'[b] = 0 <=> vpc'[b] = "none")
    BY <1>0, <1>3 DEF IInv, Numbered
  <2>2. \A b, e \in Addr : visitor'[b] # 0 /\ visitor'[b] = visitor'[e] => b = e
    BY <1>0, <1>3 DEF IInv, Numbered
  <2> QED BY <1>0, <1>2, <2>1, <2>2 DEF IInv, Numbered
<1>7. CookiesOwned'
  BY <1>0, <1>3 DEF IInv, CookiesOwned, Announced, Carried, OnTheWay, Cookie, Visitor
<1>8. ClaimedAlive'
  BY <1>0 DEF IInv, ClaimedAlive, Announced, Numbered, Cookie
<1>9. WaitingOnTheWay'
  <2> SUFFICES ASSUME NEW b \in sessions', Announced(b)'
               PROVE  visitor'[b] \in lost' \/ OnTheWay(CookieOf(b))'
    BY DEF WaitingOnTheWay, Announced
  <2>1. b \in sessions /\ b # a /\ Announced(b) /\ visitor'[b] = visitor[b]
    BY <1>0 DEF IInv, TypeOK, Announced
  <2>2. CookieOf(b)' = CookieOf(b)
    BY <2>1 DEF CookieOf
  <2>3. visitor[b] \in lost \/ OnTheWay(CookieOf(b))
    BY <2>1 DEF IInv, WaitingOnTheWay, Announced
  <2>4. \A k : OnTheWay(k) => OnTheWay(k)'
    BY <1>0 DEF OnTheWay, Cookies
  <2>5. OnTheWay(CookieOf(b)) => OnTheWay(CookieOf(b))'
    BY <2>2, <2>4
  <2> QED BY <1>0, <2>1, <2>3, <2>5
<1> QED BY <1>1, <1>4, <1>5, <1>6, <1>7, <1>8, <1>9 DEF IInv

\* A session that is refused has sent no cookie of its own.
LEMMA RefuseIInv ==
  ASSUME IInv, UNCHANGED undefined, NEW a \in Addr, Refuse(a)
  PROVE  IInv'
<1>0. /\ \A b \in Addr : vpc'[b] = IF b = a THEN "refused" ELSE vpc[b]
      /\ sessions' = sessions \ {a} /\ vpc[a] = "added"
      /\ UNCHANGED <<visitor, visits, masters, server, chan, hand, data, left, lost>>
  BY DEF IInv, TypeOK, Refuse, controlVars, upstreamVars
<1>1. TypeOK'
  <2>1. vpc' \in [Addr -> {"none", "added", "sent", "waiting", "refused"}]
    BY DEF IInv, TypeOK, Refuse
  <2> QED BY <1>0, <2>1 DEF IInv, TypeOK, Refuse, controlVars, upstreamVars
<1>2. Registered' /\ PairedOnce' /\ Numbered'
  BY <1>0 DEF IInv, TypeOK, Registered, PairedOnce, Numbered
<1>3. CookiesOwned'
  BY <1>0 DEF IInv, CookiesOwned, Announced, Carried, OnTheWay
<1>4. ClaimedAlive'
  BY <1>0 DEF IInv, ClaimedAlive, Announced, Numbered, Cookie
<1>5. WaitingOnTheWay'
  <2> SUFFICES ASSUME NEW b \in sessions', Announced(b)'
               PROVE  visitor'[b] \in lost' \/ OnTheWay(CookieOf(b))'
    BY DEF WaitingOnTheWay, Announced
  <2>1. b \in sessions /\ b # a /\ Announced(b) /\ visitor'[b] = visitor[b]
    BY <1>0 DEF IInv, TypeOK, Announced
  <2>2. CookieOf(b)' = CookieOf(b)
    BY <2>1 DEF CookieOf
  <2>3. visitor[b] \in lost \/ OnTheWay(CookieOf(b))
    BY <2>1 DEF IInv, WaitingOnTheWay, Announced
  <2>4. \A k : OnTheWay(k) => OnTheWay(k)'
    BY <1>0 DEF OnTheWay, Cookies
  <2>5. OnTheWay(CookieOf(b)) => OnTheWay(CookieOf(b))'
    BY <2>2, <2>4
  <2> QED BY <1>0, <2>1, <2>3, <2>5
<1> QED BY <1>1, <1>2, <1>3, <1>4, <1>5 DEF IInv

LEMMA SendCookieIInv ==
  ASSUME IInv, UNCHANGED undefined, NEW a \in Addr, SendCookie(a)
  PROVE  IInv'
<1> DEFINE k0 == CookieOf(a)
<1>0. /\ \A b \in Addr : vpc'[b] = IF b = a THEN "sent" ELSE vpc[b]
      /\ vpc[a] = "added" /\ visitor[a] \in Visitor
      /\ k0 \in Cookie /\ k0.for = visitor[a] /\ k0.addr = a /\ k0' = k0
      /\ UNCHANGED <<visitor, visits, sessions, masters, server, hand, data, left>>
  BY DEF IInv, TypeOK, Numbered, SendCookie, WriteCookie, CookieOf, Cookie, Visitor, upstreamVars
<1>1. \/ /\ lost' = lost /\ chan' \in [Control -> Seq(Cookie)]
         /\ \E c \in Control :
              \A e \in Control : Cookies(chan'[e]) = IF e = c THEN Cookies(chan[c]) \cup {k0}
                                                     ELSE Cookies(chan[e])
      \/ lost' = lost \cup {visitor[a]} /\ UNCHANGED chan
  <2>1. PICK c \in masters :
          IF up[c] THEN chan' = [chan EXCEPT ![c] = Append(chan[c], k0)] /\ UNCHANGED lost
                   ELSE lost' = lost \cup {visitor[a]} /\ UNCHANGED chan
    BY DEF SendCookie, WriteCookie
  <2>2. c \in Control /\ chan \in [Control -> Seq(Cookie)] /\ chan[c] \in Seq(Cookie)
    BY DEF IInv, TypeOK
  <2>3. CASE up[c]
    <3>1. Append(chan[c], k0) \in Seq(Cookie)
      BY <1>0, <2>2
    <3>2. Cookies(Append(chan[c], k0)) = Cookies(chan[c]) \cup {k0}
      BY <1>0, <2>2, AppendCookies
    <3> QED BY <2>1, <2>2, <2>3, <3>1, <3>2
  <2>4. CASE ~up[c]
    BY <2>1, <2>4
  <2> QED BY <2>3, <2>4
<1>2. TypeOK'
  <2>1. vpc' \in [Addr -> {"none", "added", "sent", "waiting", "refused"}]
    BY DEF IInv, TypeOK, SendCookie
  <2>2. lost' \subseteq Visitor /\ chan' \in [Control -> Seq(Cookie)]
    BY <1>0, <1>1 DEF IInv, TypeOK
  <2> QED BY <1>0, <2>1, <2>2 DEF IInv, TypeOK, SendCookie, WriteCookie, upstreamVars
<1>3. ASSUME NEW k \in Cookie, OnTheWay(k)' PROVE OnTheWay(k) \/ k = k0
  <2>1. (\E c \in Control : k \in Cookies(chan'[c]))
        => k = k0 \/ \E c \in Control : k \in Cookies(chan[c])
    BY <1>1
  <2>2. \/ \E c \in Control : k \in Cookies(chan'[c])
        \/ \E u \in Upstream : hand[u] = k
        \/ \E d \in Data : data[d].at = "sent" /\ data[d].cookie = k
    BY <1>0, <1>3 DEF OnTheWay
  <2> QED BY <2>1, <2>2 DEF OnTheWay
<1>4. ASSUME NEW k \in Cookie, OnTheWay(k) PROVE OnTheWay(k)'
  BY <1>0, <1>1, <1>4 DEF OnTheWay
<1>5. visitor[a] \in lost' \/ OnTheWay(k0)'
  <2>1. CASE UNCHANGED chan
    BY <1>0, <1>1, <2>1 DEF OnTheWay
  <2>2. CASE \E c \in Control : k0 \in Cookies(chan'[c])
    <3>1. \A k : (\E c \in Control : k \in Cookies(chan'[c])) => OnTheWay(k)'
      BY DEF OnTheWay
    <3> QED BY <1>0, <2>2, <3>1
  <2> QED BY <1>1, <2>1, <2>2
<1>6. Registered' /\ PairedOnce' /\ Numbered'
  BY <1>0 DEF IInv, TypeOK, Registered, PairedOnce, Numbered
<1>7. CookiesOwned'
  <2> SUFFICES ASSUME NEW k \in Cookie, Carried(k)'
               PROVE  /\ k.for <= visits
                      /\ \A b \in Addr : visitor[b] = k.for => b = k.addr /\ Announced(b)'
    BY <1>0 DEF CookiesOwned, Announced
  <2>1. Carried(k) \/ k = k0
    BY <1>0, <1>3 DEF Carried
  <2>2. CASE Carried(k)
    BY <1>0, <2>2 DEF IInv, CookiesOwned, Announced
  <2>3. CASE k = k0
    BY <1>0, <2>3 DEF IInv, Numbered, Announced, Visitor
  <2> QED BY <2>1, <2>2, <2>3
<1>8. ClaimedAlive'
  BY <1>0 DEF IInv, ClaimedAlive, Announced, Numbered, Cookie
<1>9. WaitingOnTheWay'
  <2> SUFFICES ASSUME NEW b \in sessions, Announced(b)'
               PROVE  visitor[b] \in lost' \/ OnTheWay(CookieOf(b))'
    BY <1>0 DEF WaitingOnTheWay, Announced
  <2>1. CASE b = a
    BY <1>5, <2>1
  <2>2. CASE b # a
    <3>1. Announced(b) /\ lost \subseteq lost'
      BY <1>0, <1>1, <2>2 DEF IInv, TypeOK, Announced
    <3>2. CookieOf(b) \in Cookie /\ CookieOf(b)' = CookieOf(b)
      BY <1>0, <3>1 DEF IInv, TypeOK, Numbered, Announced, CookieOf, Cookie, Visitor
    <3>3. visitor[b] \in lost \/ OnTheWay(CookieOf(b))
      BY <3>1 DEF IInv, WaitingOnTheWay, Announced
    <3>4. OnTheWay(CookieOf(b)) => OnTheWay(CookieOf(b))'
      BY <1>4, <3>2
    <3> QED BY <3>1, <3>3, <3>4
  <2> QED BY <2>1, <2>2
<1> QED BY <1>2, <1>6, <1>7, <1>8, <1>9 DEF IInv

\* oninit returns: nothing changes but that the session is in the poll.
LEMMA EnterIInv ==
  ASSUME IInv, UNCHANGED undefined, NEW a \in Addr, Enter(a)
  PROVE  IInv'
<1>0. /\ \A b \in Addr : vpc'[b] = IF b = a THEN "waiting" ELSE vpc[b]
      /\ vpc[a] = "sent" /\ sessions \subseteq Addr
      /\ UNCHANGED <<visitor, visits, sessions, masters, server, chan, hand, data, left, lost>>
  BY DEF IInv, TypeOK, Enter, controlVars, upstreamVars
<1>1. TypeOK'
  <2>1. vpc' \in [Addr -> {"none", "added", "sent", "waiting", "refused"}]
    BY DEF IInv, TypeOK, Enter
  <2> QED BY <1>0, <2>1 DEF IInv, TypeOK, Enter, controlVars, upstreamVars
<1>2. Registered' /\ PairedOnce' /\ Numbered'
  BY <1>0 DEF IInv, Registered, PairedOnce, Numbered
<1>3. \A b \in Addr : Announced(b)' <=> Announced(b)
  BY <1>0 DEF Announced
<1>4. CookiesOwned'
  BY <1>0, <1>3 DEF IInv, CookiesOwned, Carried, OnTheWay
<1>5. ClaimedAlive'
  <2> SUFFICES ASSUME NEW d \in Data, data[d].at \in {"found", "paired"}
               PROVE  \/ /\ visitor[data[d].cookie.addr] = data[d].claimed
                         /\ Announced(data[d].cookie.addr)'
                      \/ data[d].claimed \in left
                      \/ data[d].cookie.for # data[d].claimed
    BY <1>0 DEF ClaimedAlive
  <2>1. data[d].cookie.addr \in Addr
    BY DEF IInv, Numbered, Cookie
  <2> QED BY <1>0, <2>1 DEF IInv, ClaimedAlive, Announced
<1>6. WaitingOnTheWay'
  <2> SUFFICES ASSUME NEW b \in sessions, Announced(b)'
               PROVE  visitor[b] \in lost \/ OnTheWay(CookieOf(b))'
    BY <1>0 DEF WaitingOnTheWay
  <2>1. visitor[b] \in lost \/ OnTheWay(CookieOf(b))
    BY <1>0, <1>3 DEF IInv, WaitingOnTheWay
  <2>2. CookieOf(b)' = CookieOf(b)
    BY <1>0 DEF CookieOf
  <2>3. \A k : OnTheWay(k) => OnTheWay(k)'
    BY <1>0 DEF OnTheWay
  <2>4. OnTheWay(CookieOf(b)) => OnTheWay(CookieOf(b))'
    BY <2>2, <2>3
  <2> QED BY <2>1, <2>4
<1> QED BY <1>1, <1>2, <1>4, <1>5, <1>6 DEF IInv

\* remove_session finds a session that nobody has claimed; if it was the session's own
\* cookie that found it, an upstream was told of it.
LEMMA ClaimIInv ==
  ASSUME IInv, UNCHANGED undefined, NEW d \in Data, Claim(d)
  PROVE  IInv'
<1>0. PICK a \in sessions : a = data[d].cookie.addr
  BY DEF Claim
<1>1. /\ a \in Addr /\ visitor[a] \in Visitor /\ visitor[a] <= visits
      /\ data[d].at = "sent" /\ data[d].cookie \in Cookie /\ data[d].claimed = 0
      /\ vpc[a] \in {"added", "sent", "waiting"}
  BY <1>0, RProxyAssumption DEF IInv, TypeOK, Registered, Numbered, Claim, Visitor
<1>2. /\ \A e \in Data \ {d} : data'[e] = data[e]
      /\ data'[d].at = "found" /\ data'[d].cookie = data[d].cookie
      /\ data'[d].claimed = visitor[a] /\ sessions' = sessions \ {a}
      /\ UNCHANGED <<visitor, vpc, visits, masters, server, chan, hand, left, lost>>
  BY <1>0 DEF IInv, TypeOK, Claim, visitorVars, controlVars, upstreamVars
<1>3. TypeOK'
  <2>0. DataType
    BY DEF IInv, TypeOK, DataType
  <2>1. DataType'
    <3>1. data' = [data EXCEPT ![d].at = "found", ![d].claimed = visitor[a]]
      BY <1>0 DEF Claim
    <3>2. visitor[a] \in 0..MaxVisits
      BY <1>1 DEF Visitor
    <3> DEFINE found == [data EXCEPT ![d].at = "found"]
               Datum == [at : {"none", "sent", "idle", "found", "paired"},
                         cookie : Cookie \cup {NoCookie}, claimed : 0..MaxVisits, open : BOOLEAN]
    <3>3. data' = [found EXCEPT ![d].claimed = visitor[a]]
      BY <3>1
    <3>4. found \in [Data -> Datum]
      BY ONLY <2>0 DEF DataType
    <3> HIDE DEF found
    <3>5. [found EXCEPT ![d].claimed = visitor[a]] \in [Data -> Datum]
      BY ONLY <3>2, <3>4
    <3> QED BY <3>3, <3>5 DEF DataType
  <2> QED BY <1>2, <2>1, SMTT(30)
          DEF IInv, TypeOK, DataType, Claim, visitorVars, controlVars, upstreamVars
<1>4. Registered'
  <2>1. \A b \in sessions' : b \in sessions /\ visitor[b] # visitor[a]
    BY <1>1, <1>2 DEF IInv, TypeOK, Numbered, Visitor
  <2> QED BY <1>2, <2>1 DEF IInv, Registered
<1>5. PairedOnce'
  <2>1. \A e \in Data : data[e].claimed # visitor[a]
    BY DEF IInv, Registered
  <2> QED BY <1>2, <2>1 DEF IInv, PairedOnce
<1>6. Numbered'
  BY <1>1, <1>2 DEF IInv, Numbered, Visitor
<1>7. CookiesOwned'
  <2>1. ASSUME NEW k \in Cookie, Carried(k)' PROVE Carried(k)
    BY <1>1, <1>2, <2>1 DEF Carried, OnTheWay
  <2> QED BY <1>2, <2>1 DEF IInv, CookiesOwned, Announced
<1>8. ClaimedAlive'
  <2>1. Carried(data[d].cookie)
    BY <1>1 DEF Carried
  <2>2. Announced(a) \/ data[d].cookie.for # visitor[a]
    BY <1>1, <2>1 DEF IInv, CookiesOwned, Announced
  <2> QED BY <1>0, <1>2, <2>2 DEF IInv, ClaimedAlive, Announced
<1>9. WaitingOnTheWay'
  <2> SUFFICES ASSUME NEW b \in sessions', Announced(b)
               PROVE  visitor[b] \in lost \/ OnTheWay(CookieOf(b))'
    BY <1>2 DEF WaitingOnTheWay, Announced
  <2>1. b \in sessions /\ b # a /\ CookieOf(b)' = CookieOf(b)
    BY <1>2 DEF CookieOf
  <2>2. visitor[b] \in lost \/ OnTheWay(CookieOf(b))
    BY <2>1 DEF IInv, WaitingOnTheWay, Announced
  <2>3. data[d].cookie # CookieOf(b)
    BY <1>0, <2>1 DEF CookieOf
  <2>4. \A k : k # data[d].cookie /\ OnTheWay(k) => OnTheWay(k)'
    BY <1>2 DEF OnTheWay, Cookies
  <2>5. OnTheWay(CookieOf(b)) => OnTheWay(CookieOf(b))'
    BY <2>1, <2>3, <2>4
  <2> QED BY <2>2, <2>5
<1> QED BY <1>3, <1>4, <1>5, <1>6, <1>7, <1>8, <1>9 DEF IInv

\* A session is destroyed, and with it at most data connections that claim nobody afterwards.
LEMMA DestroyFrame ==
  ASSUME IInv, TypeOK', Unclaiming, NEW a \in Addr,
         sessions' = sessions \ {a},
         \A b \in Addr : /\ vpc'[b] = IF b = a THEN "none" ELSE vpc[b]
                         /\ visitor'[b] = IF b = a THEN 0 ELSE visitor[b],
         UNCHANGED <<visits, masters, server, chan, hand, lost>>, left \subseteq left',
         \A k \in Cookie : Carried(k)' => Carried(k),
         \A k \in Cookie : OnTheWay(k) => OnTheWay(k)',
         \A d \in Data :
           (/\ data'[d].at \in {"found", "paired"}
            /\ data'[d].claimed = visitor[a] /\ data'[d].cookie.for = visitor[a])
           => visitor[a] \in left'
  PROVE  IInv'
<1>1. Numbered'
  <2>1. visits \in Nat /\ \A d \in Data : data[d].claimed <= visits
    BY RProxyAssumption DEF IInv, TypeOK, Numbered
  <2>2. \A d \in Data : data'[d].claimed <= visits
    BY <2>1 DEF Unclaiming
  <2>3. \A b \in Addr : visitor'[b] <= visits /\ (visitor'[b] = 0 <=> vpc'[b] = "none")
    BY <2>1 DEF IInv, Numbered
  <2> QED BY <2>2, <2>3 DEF IInv, Numbered, Unclaiming
<1>2. Registered'
  <2>1. \A b \in sessions : visitor[b] # 0
    BY DEF IInv, TypeOK, Registered, Numbered
  <2> QED BY <2>1 DEF IInv, TypeOK, Registered, Unclaiming
<1>3. PairedOnce'
  BY DEF IInv, PairedOnce, Unclaiming
<1>4. CookiesOwned'
  BY DEF IInv, CookiesOwned, Announced, Cookie, Visitor
<1>5. ClaimedAlive'
  <2> SUFFICES ASSUME NEW d \in Data, data'[d].at \in {"found", "paired"}
               PROVE  \/ /\ visitor'[data'[d].cookie.addr] = data'[d].claimed
                         /\ Announced(data[d].cookie.addr)'
                      \/ data'[d].claimed \in left'
                      \/ data'[d].cookie.for # data'[d].claimed
    BY DEF ClaimedAlive, Announced
  <2>1. /\ data[d].at \in {"found", "paired"} /\ data'[d].cookie = data[d].cookie
        /\ data'[d].claimed = data[d].claimed /\ data[d].cookie.addr \in Addr
    BY DEF Unclaiming, IInv, Numbered, Cookie
  <2>2. \/ /\ visitor[data[d].cookie.addr] = data[d].claimed
           /\ Announced(data[d].cookie.addr)
        \/ data[d].claimed \in left
        \/ data[d].cookie.for # data[d].claimed
    BY <2>1 DEF IInv, ClaimedAlive
  <2> QED BY <2>1, <2>2 DEF Announced
<1>6. WaitingOnTheWay'
  <2> SUFFICES ASSUME NEW b \in sessions', Announced(b)'
               PROVE  visitor'[b] \in lost' \/ OnTheWay(CookieOf(b))'
    BY DEF WaitingOnTheWay, Announced
  <2>1. b \in sessions /\ b # a /\ Announced(b) /\ visitor'[b] = visitor[b]
    BY DEF IInv, TypeOK, Announced
  <2>2. CookieOf(b) \in Cookie /\ CookieOf(b)' = CookieOf(b)
    BY <2>1 DEF IInv, TypeOK, Numbered, Announced, CookieOf, Cookie, Visitor
  <2>3. visitor[b] \in lost \/ OnTheWay(CookieOf(b))
    BY <2>1 DEF IInv, WaitingOnTheWay, Announced
  <2>4. OnTheWay(CookieOf(b)) => OnTheWay(CookieOf(b))'
    BY <2>2
  <2> QED BY <2>1, <2>3, <2>4
<1> QED BY <1>1, <1>2, <1>3, <1>4, <1>5, <1>6 DEF IInv

LEMMA DestroyType ==
  ASSUME IInv, NEW a \in Addr, DataType', left' \subseteq Visitor, UNCHANGED undefined,
         sessions' = sessions \ {a},
         vpc' = [vpc EXCEPT ![a] = "none"], visitor' = [visitor EXCEPT ![a] = 0],
         UNCHANGED <<visits, masters, controlVars, upstreamVars, lost>>
  PROVE  /\ TypeOK'
         /\ \A b \in Addr : /\ vpc'[b] = IF b = a THEN "none" ELSE vpc[b]
                            /\ visitor'[b] = IF b = a THEN 0 ELSE visitor[b]
<1>1. /\ visitor' \in [Addr -> 0..MaxVisits]
      /\ vpc' \in [Addr -> {"none", "added", "sent", "waiting", "refused"}]
  BY RProxyAssumption DEF IInv, TypeOK
<1>2. \A b \in Addr : /\ vpc'[b] = IF b = a THEN "none" ELSE vpc[b]
                      /\ visitor'[b] = IF b = a THEN 0 ELSE visitor[b]
  BY DEF IInv, TypeOK
<1> QED BY <1>1, <1>2 DEF IInv, TypeOK, DataType, controlVars, upstreamVars

LEMMA DestroyRefusedIInv ==
  ASSUME IInv, UNCHANGED undefined, NEW a \in Addr, DestroyRefused(a)
  PROVE  IInv'
<1>1. DataType' /\ left' \subseteq Visitor
  BY DEF IInv, TypeOK, DataType, DestroyRefused, Destroy
<1>2. /\ TypeOK'
      /\ \A b \in Addr : /\ vpc'[b] = IF b = a THEN "none" ELSE vpc[b]
                         /\ visitor'[b] = IF b = a THEN 0 ELSE visitor[b]
  BY <1>1, DestroyType DEF DestroyRefused, Destroy
<1>3. Unclaiming
  BY DEF IInv, Numbered, Unclaiming, DestroyRefused, Destroy
<1>4. \A k : (Carried(k)' <=> Carried(k)) /\ (OnTheWay(k)' <=> OnTheWay(k))
  BY DEF Carried, OnTheWay, Cookies, DestroyRefused, Destroy, controlVars, upstreamVars
<1>5. \A d \in Data : data[d].at \in {"found", "paired"} => data[d].cookie.for # visitor[a]
  <2> SUFFICES ASSUME NEW d \in Data, data[d].at \in {"found", "paired"}
               PROVE  data[d].cookie.for # visitor[a]
    OBVIOUS
  <2>1. data[d].cookie \in Cookie /\ Carried(data[d].cookie)
    BY DEF IInv, Numbered, Carried
  <2> QED BY <2>1 DEF IInv, CookiesOwned, Announced, DestroyRefused
<1> QED BY <1>2, <1>3, <1>4, <1>5, DestroyFrame
        DEF DestroyRefused, Destroy, controlVars, upstreamVars

LEMMA HangUpIInv ==
  ASSUME IInv, UNCHANGED undefined, NEW a \in Addr, HangUp(a)
  PROVE  IInv'
<1>0. visitor[a] \in Visitor
  BY RProxyAssumption DEF IInv, TypeOK, Numbered, HangUp, Visitor
<1>1. DataType' /\ left' \subseteq Visitor
  BY <1>0 DEF IInv, TypeOK, DataType, HangUp, Destroy
<1>2. /\ TypeOK'
      /\ \A b \in Addr : /\ vpc'[b] = IF b = a THEN "none" ELSE vpc[b]
                         /\ visitor'[b] = IF b = a THEN 0 ELSE visitor[b]
  BY <1>1, DestroyType DEF HangUp, Destroy
<1>3. Unclaiming
  BY DEF IInv, Numbered, Unclaiming, HangUp, Destroy
<1>4. \A k : (Carried(k)' <=> Carried(k)) /\ (OnTheWay(k)' <=> OnTheWay(k))
  BY DEF Carried, OnTheWay, Cookies, HangUp, Destroy, controlVars, upstreamVars
<1> QED BY <1>2, <1>3, <1>4, DestroyFrame DEF HangUp, Destroy, controlVars, upstreamVars

\* Nobody else has claimed the visitor of a pair that ends.
LEMMA EndPairIInv ==
  ASSUME IInv, UNCHANGED undefined, NEW d \in Data, EndPair(d)
  PROVE  IInv'
<1>0. PICK a \in Addr : a = data[d].cookie.addr
  BY DEF IInv, Numbered, EndPair, Cookie
<1>1. /\ \A e \in Data \ {d} : data'[e] = data[e]
      /\ data'[d] = NoData(NoCookie) /\ data[d].at = "paired"
      /\ visitor[a] = data[d].claimed /\ visitor[a] # 0
  BY <1>0 DEF IInv, TypeOK, Numbered, EndPair
<1>2. DataType' /\ left' \subseteq Visitor
  BY RProxyAssumption DEF IInv, TypeOK, DataType, EndPair, NoData
<1>3. /\ TypeOK'
      /\ \A b \in Addr : /\ vpc'[b] = IF b = a THEN "none" ELSE vpc[b]
                         /\ visitor'[b] = IF b = a THEN 0 ELSE visitor[b]
  BY <1>0, <1>2, DestroyType DEF EndPair
<1>4. Unclaiming
  BY <1>1 DEF IInv, Numbered, Unclaiming, NoData
<1>5. \A k : (Carried(k)' => Carried(k)) /\ (OnTheWay(k) => OnTheWay(k)')
  BY <1>1 DEF Carried, OnTheWay, Cookies, EndPair, controlVars, upstreamVars, NoData
<1>6. \A e \in Data : data'[e].at \in {"found", "paired"} => data'[e].claimed # visitor[a]
  BY <1>1 DEF IInv, PairedOnce, NoData
<1> QED BY <1>0, <1>3, <1>4, <1>5, <1>6, DestroyFrame DEF EndPair, controlVars, upstreamVars

-----------------------------------------------------------------------------
(* The theorems.                                                           *)

LEMMA UndefinedIInv ==
  ASSUME IInv, NEW d \in Data, UseDestroyed(d)
  PROVE  IInv'
<1>1. TypeOK'
  BY DEF IInv, TypeOK, UseDestroyed, visitorVars, controlVars, upstreamVars
<1>2. \A k : (Carried(k)' <=> Carried(k)) /\ (OnTheWay(k)' <=> OnTheWay(k))
  BY DEF Carried, OnTheWay, Cookies, UseDestroyed, controlVars, upstreamVars
<1>3. Unclaiming
  BY DEF IInv, Numbered, Unclaiming, UseDestroyed
<1> QED BY <1>1, <1>2, <1>3, DataFrame DEF UseDestroyed, controlVars

LEMMA StutterIInv ==
  ASSUME IInv, UNCHANGED vars
  PROVE  IInv'
<1>1. TypeOK'
  BY DEF IInv, TypeOK, vars, visitorVars, controlVars, upstreamVars
<1>2. \A k : (Carried(k)' <=> Carried(k)) /\ (OnTheWay(k)' <=> OnTheWay(k))
  BY DEF Carried, OnTheWay, Cookies, vars, controlVars, upstreamVars
<1>3. Unclaiming
  BY DEF IInv, Numbered, Unclaiming, vars
<1> QED BY <1>1, <1>2, <1>3, DataFrame DEF vars, controlVars

LEMMA InitIInv == Init => IInv
<1> SUFFICES ASSUME Init PROVE IInv
  OBVIOUS
<1>1. TypeOK
  <2>1. DataType
    BY RProxyAssumption DEF Init, DataType, NoData
  <2>2. chan \in [Control -> Seq(Cookie)] /\ visitor \in [Addr -> 0..MaxVisits]
    BY RProxyAssumption, NoCookies DEF Init
  <2>3. \A w \in Upstream : upc[w] = "connect" /\ conn[w] = None /\ hand[w] = NoCookie /\ leg[w] = None
    BY DEF Init
  <2>4. visits \in 0..MaxVisits /\ breaks \in 0..MaxBreaks
    BY RProxyAssumption DEF Init
  <2> QED BY <2>1, <2>2, <2>3, <2>4 DEF Init, TypeOK, DataType
<1>2. Registered /\ PairedOnce /\ WaitingOnTheWay /\ ClaimedAlive
  BY DEF Init, Registered, PairedOnce, WaitingOnTheWay, Announced, ClaimedAlive, NoData
<1>3. Numbered
  BY DEF Init, Numbered, NoData
<1>4. CookiesOwned
  BY NoCookies, NullIsNoCookie DEF Init, CookiesOwned, Announced, Carried, OnTheWay, NoData
<1> QED BY <1>1, <1>2, <1>3, <1>4 DEF IInv

LEMMA NextIInv ==
  ASSUME IInv, [Next]_vars
  PROVE  IInv'
<1>1. ASSUME UNCHANGED undefined, NEW a \in Addr, Accept(a) \/ HangUp(a) PROVE IInv'
  BY <1>1, ArriveIInv, RefuseIInv, SendCookieIInv, EnterIInv, DestroyRefusedIInv,
     HangUpIInv DEF Accept
<1>2. ASSUME UNCHANGED undefined, NEW u \in Upstream,
             Thread(u) \/ \E c \in Control : Connect(u, c)
      PROVE  IInv'
  BY <1>2, LoseControlIInv, ReadCookieIInv, DialFailsIInv, DialServiceIInv, DialIInv,
     ConnectIInv DEF Thread
<1>3. ASSUME UNCHANGED undefined, NEW c \in Control,
             AddMaster(c) \/ MagicCut(c) \/ Break(c) \/ DropControl(c)
      PROVE  IInv'
  BY <1>3, AddMasterIInv, MagicCutIInv, BreakIInv, DropControlIInv
<1>4. ASSUME UNCHANGED undefined, NEW d \in Data,
             OnRequest(d) \/ CloseData(d) \/ FreeIdle(d) \/ EndPair(d)
      PROVE  IInv'
  BY <1>4, ClaimIInv, ClaimFailsIInv, CookieCutIInv, RedirectIInv, CloseDataIInv,
     FreeIdleIInv, EndPairIInv DEF OnRequest
<1>5. ASSUME Go(Defined) PROVE IInv'
  BY <1>1, <1>2, <1>3, <1>4, <1>5 DEF Go, Defined
<1> QED BY <1>5, UndefinedIInv, StutterIInv DEF Next

\* The invariant holds in every reachable state.
THEOREM InvariantHolds == Spec => []IInv
BY InitIInv, NextIInv, PTL DEF Spec

\* Every variable keeps its type, and a thread's locals are set where it uses them.
THEOREM TypeCorrect == Spec => []TypeOK
BY InvariantHolds, PTL DEF IInv

\* No destroyed session or control connection is in the sets the server works with.
THEOREM ListsAlive == Spec => []Registered
BY InvariantHolds, PTL DEF IInv

\* No visitor is joined with two data connections.
THEOREM ClaimedOnce == Spec => []PairedOnce
BY InvariantHolds, PTL DEF IInv

\* No waiting visitor is forgotten as long as connections hold.
THEOREM NotForgotten == Spec => []WaitingOnTheWay
BY InvariantHolds, PTL DEF IInv

\* A claimed session is alive, and an upstream was told of it, but for the two named exceptions: a visitor that hung
\* up after the claim and a cookie that was made for an earlier one.  That its thread is still in oninit is no
\* contradiction to this: with the redirection before the return it is the third way into UseDestroyed.
THEOREM ClaimsAreAlive == Spec => []ClaimedAlive
BY InvariantHolds, PTL DEF IInv

-----------------------------------------------------------------------------
(* Cookies are not doubled.                                                *)

Distinct(q) == \A i, j \in DOMAIN q : q[i].for = q[j].for => i = j

\* No two cookies on their way to the thread of an upstream, or in its hand, are for one visitor.
Once ==
  /\ \A c \in Control : Distinct(chan[c])
  /\ \A c, e \in Control : \A v \in LostWith(chan[c]) : v \in LostWith(chan[e]) => c = e
  /\ \A c \in Control, u \in Upstream : hand[u].for \notin LostWith(chan[c])
  /\ \A u, w \in Upstream : hand[u] # NoCookie /\ hand[u].for = hand[w].for => u = w

LEMMA AppendDistinct ==
  ASSUME NEW q \in Seq(Cookie), NEW k \in Cookie, Distinct(q), k.for \notin LostWith(q)
  PROVE  Distinct(Append(q, k)) /\ LostWith(Append(q, k)) = LostWith(q) \cup {k.for}
<1>1. /\ DOMAIN q = 1..Len(q) /\ Len(q) \in Nat
      /\ DOMAIN Append(q, k) = 1..(Len(q) + 1)
      /\ \A i \in 1..Len(q) : Append(q, k)[i] = q[i]
      /\ Append(q, k)[Len(q) + 1] = k
  OBVIOUS
<1>2. \A i \in 1..Len(q) : q[i].for # k.for
  BY <1>1 DEF LostWith, Cookies
<1>3. ASSUME NEW i \in 1..(Len(q) + 1), NEW j \in 1..(Len(q) + 1), Append(q, k)[i].for = Append(q, k)[j].for
      PROVE  i = j
  <2>1. (i \in 1..Len(q) \/ i = Len(q) + 1) /\ (j \in 1..Len(q) \/ j = Len(q) + 1)
    BY <1>1
  <2>2. CASE i \in 1..Len(q) /\ j \in 1..Len(q)
    BY <1>1, <1>3, <2>2 DEF Distinct
  <2>3. CASE i = Len(q) + 1 \/ j = Len(q) + 1
    BY <1>1, <1>2, <1>3, <2>1, <2>3
  <2> QED BY <2>1, <2>2, <2>3
<1>4. Cookies(Append(q, k)) = Cookies(q) \cup {k}
  BY AppendCookies
<1> QED BY <1>1, <1>3, <1>4 DEF Distinct, LostWith

LEMMA TailDistinct ==
  ASSUME NEW q \in Seq(Cookie), q # <<>>, Distinct(q)
  PROVE  /\ Distinct(Tail(q)) /\ Head(q).for \notin LostWith(Tail(q))
         /\ LostWith(q) = LostWith(Tail(q)) \cup {Head(q).for}
<1>1. /\ DOMAIN q = 1..Len(q) /\ Len(q) \in Nat /\ Len(q) > 0 /\ Head(q) = q[1]
      /\ DOMAIN Tail(q) = 1..(Len(q) - 1)
      /\ \A i \in 1..(Len(q) - 1) : Tail(q)[i] = q[i + 1]
  OBVIOUS
<1>2. \A i \in 1..(Len(q) - 1) : i + 1 \in 1..Len(q) /\ i + 1 # 1
  BY <1>1
<1>3. Distinct(Tail(q))
  <2> SUFFICES ASSUME NEW i \in 1..(Len(q) - 1), NEW j \in 1..(Len(q) - 1), Tail(q)[i].for = Tail(q)[j].for PROVE i = j
    BY <1>1 DEF Distinct
  <2>1. q[i + 1].for = q[j + 1].for
    BY <1>1
  <2>2. i + 1 = j + 1
    BY <1>1, <1>2, <2>1 DEF Distinct
  <2> QED BY <1>1, <2>2
<1>4. Head(q).for \notin LostWith(Tail(q))
  <2> SUFFICES ASSUME NEW i \in 1..(Len(q) - 1), Tail(q)[i].for = Head(q).for PROVE FALSE
    BY <1>1 DEF LostWith, Cookies
  <2>1. q[i + 1].for = q[1].for /\ 1 \in 1..Len(q)
    BY <1>1
  <2> QED BY <1>1, <1>2, <2>1 DEF Distinct
<1>5. Cookies(q) = {Head(q)} \cup Cookies(Tail(q))
  BY HeadTailCookies
<1> QED BY <1>3, <1>4, <1>5 DEF LostWith

LEMMA OnceFrame == ASSUME Once, UNCHANGED <<chan, hand>> PROVE Once'
BY DEF Once, Distinct, LostWith, Cookies

LEMMA NobodyLost == LostWith(<<>>) = {} /\ Distinct(<<>>)
BY NoCookies DEF LostWith, Distinct

\* A cookie that is told of is carried, hence its visitor waits.
LEMMA ToldWaits ==
  ASSUME IInv, NEW v \in Told, NEW a \in Addr, visitor[a] = v
  PROVE  Announced(a)
<1>1. CASE \E u \in Upstream : hand[u].for = v
  <2>1. PICK u \in Upstream : hand[u].for = v
    BY <1>1
  <2>2. v # 0 /\ hand[u] \in Cookie
    BY <2>1, NullIsNoCookie DEF IInv, TypeOK, Told, Visitor, NoCookie
  <2>3. Carried(hand[u])
    BY DEF Carried, OnTheWay
  <2> QED BY <2>1, <2>2, <2>3 DEF IInv, CookiesOwned, Announced
<1>2. CASE \E c \in Control : v \in LostWith(chan[c])
  <2>1. PICK c \in Control : v \in LostWith(chan[c])
    BY <1>2
  <2>2. PICK k \in Cookies(chan[c]) : k.for = v
    BY <2>1 DEF LostWith
  <2>3. k \in Cookie
    <3>1. chan[c] \in Seq(Cookie)
      BY DEF IInv, TypeOK
    <3> QED BY <3>1 DEF Cookies
  <2>4. Carried(k)
    BY DEF Carried, OnTheWay
  <2> QED BY <2>2, <2>3, <2>4 DEF IInv, CookiesOwned, Announced
<1> QED BY <1>1, <1>2 DEF Told

-----------------------------------------------------------------------------
(* The steps of the switchboard.                                           *)

LEMMA BoardStutter ==
  ASSUME UNCHANGED <<Come, Awaited, Unrung, Told, Lines>>
  PROVE  UNCHANGED Board!boardVars
BY DEF Board!boardVars

\* Nothing that the view shows has changed.
LEMMA ViewFrame ==
  /\ UNCHANGED visits => UNCHANGED Come
  /\ UNCHANGED <<visitor, sessions>> => UNCHANGED Awaited
  /\ UNCHANGED <<visitor, vpc>> => UNCHANGED Unrung
  /\ UNCHANGED <<chan, hand>> => UNCHANGED Told
  /\ UNCHANGED data => UNCHANGED Lines
BY DEF Come, Awaited, Unrung, Told, Lines, LostWith, Cookies

LEMMA BoardCome ==
  ASSUME IInv, NEW a \in Addr, Arrive(a)
  PROVE  visits + 1 \in Visitor /\ Board!Come(visits + 1)
<1>1. /\ visits \in Nat /\ visits' = visits + 1 /\ visits + 1 \in Visitor
      /\ \A b \in Addr : /\ visitor'[b] = IF b = a THEN visits + 1 ELSE visitor[b]
                         /\ vpc'[b] = IF b = a THEN "added" ELSE vpc[b]
      /\ sessions' = sessions \cup {a} /\ sessions \subseteq Addr /\ vpc[a] = "none"
      /\ UNCHANGED <<chan, hand, data>>
  BY RProxyAssumption DEF IInv, TypeOK, Arrive, Visitor, controlVars, upstreamVars
<1>2. a \notin sessions
  BY <1>1 DEF IInv, Registered
<1>3. visits + 1 \notin Come /\ Come' = Come \cup {visits + 1}
  BY <1>1 DEF Come
<1>4. Awaited' = Awaited \cup {visits + 1}
  BY <1>1, <1>2 DEF Awaited
<1>5. Unrung' = Unrung \cup {visits + 1}
  BY <1>1 DEF Unrung
<1>6. UNCHANGED <<Told, Lines>>
  BY <1>1, ViewFrame
<1> QED BY <1>1, <1>3, <1>4, <1>5, <1>6 DEF Board!Come

LEMMA BoardRefuse ==
  ASSUME IInv, NEW a \in Addr, Refuse(a)
  PROVE  visitor[a] \in Visitor /\ Board!Leave(visitor[a])
<1>1. /\ \A b \in Addr : vpc'[b] = IF b = a THEN "refused" ELSE vpc[b]
      /\ sessions' = sessions \ {a} /\ sessions \subseteq Addr /\ vpc[a] = "added" /\ visitor[a] \in Visitor
      /\ UNCHANGED <<visitor, visits, chan, hand, data>>
  BY RProxyAssumption DEF IInv, TypeOK, Numbered, Refuse, Visitor, controlVars, upstreamVars
<1>2. \A b \in Addr : visitor[b] = visitor[a] <=> b = a
  BY <1>1 DEF IInv, Numbered, Visitor
<1>3. Awaited' = Awaited \ {visitor[a]}
  BY <1>1, <1>2 DEF Awaited
<1>4. Unrung' = Unrung \ {visitor[a]}
  BY <1>1, <1>2 DEF Unrung
<1>5. UNCHANGED <<Come, Told, Lines>>
  BY <1>1, ViewFrame
<1> QED BY <1>1, <1>3, <1>4, <1>5 DEF Board!Leave

\* The session of a visitor that was refused or is waiting is destroyed.
LEMMA BoardDestroy ==
  ASSUME IInv, NEW a \in Addr, vpc[a] \in {"waiting", "refused"}, Destroy(a)
  PROVE  visitor[a] \in Visitor /\ Board!Leave(visitor[a])
<1>1. /\ \A b \in Addr : /\ vpc'[b] = IF b = a THEN "none" ELSE vpc[b]
                         /\ visitor'[b] = IF b = a THEN 0 ELSE visitor[b]
      /\ sessions' = sessions \ {a} /\ sessions \subseteq Addr /\ visitor[a] \in Visitor
      /\ UNCHANGED <<visits, chan, hand, data>>
  BY RProxyAssumption DEF IInv, TypeOK, Numbered, Destroy, Visitor, controlVars, upstreamVars
<1>2. \A b \in Addr : visitor[b] = visitor[a] <=> b = a
  BY <1>1 DEF IInv, Numbered, Visitor
<1>3. Awaited' = Awaited \ {visitor[a]}
  BY <1>1, <1>2 DEF Awaited
<1>4. Unrung' = Unrung \ {visitor[a]}
  BY <1>1, <1>2 DEF Unrung
<1>5. UNCHANGED <<Come, Told, Lines>>
  BY <1>1, ViewFrame
<1> QED BY <1>1, <1>3, <1>4, <1>5 DEF Board!Leave

LEMMA BoardRing ==
  ASSUME IInv, Once, NEW a \in Addr, SendCookie(a)
  PROVE  visitor[a] \in Visitor /\ Board!Ring(visitor[a]) /\ Once'
<1> DEFINE v == visitor[a]
           k == CookieOf(a)
<1>1. /\ \A b \in Addr : vpc'[b] = IF b = a THEN "sent" ELSE vpc[b]
      /\ vpc[a] = "added" /\ v \in Visitor /\ k \in Cookie /\ k.for = v
      /\ UNCHANGED <<visitor, visits, sessions, hand, data>>
  BY DEF IInv, TypeOK, Numbered, SendCookie, WriteCookie, CookieOf, Cookie, Visitor, upstreamVars
<1>2. \A b \in Addr : visitor[b] = v <=> b = a
  BY <1>1 DEF IInv, Numbered, Visitor
<1>3. v \in Unrung /\ Unrung' = Unrung \ {v}
  BY <1>1, <1>2 DEF Unrung
<1>4. UNCHANGED <<Come, Awaited, Lines>>
  BY <1>1, ViewFrame
<1>5. v \notin Told
  BY <1>1, ToldWaits DEF Announced
<1>6. PICK c \in Control : IF up[c] THEN chan' = [chan EXCEPT ![c] = Append(chan[c], k)] ELSE UNCHANGED chan
  BY DEF IInv, TypeOK, SendCookie, WriteCookie
<1>7. CASE ~up[c]
  <2>1. UNCHANGED <<chan, hand>>
    BY <1>1, <1>6, <1>7
  <2>2. UNCHANGED Told
    BY <2>1, ViewFrame
  <2> QED BY <1>1, <1>3, <1>4, <2>1, <2>2, OnceFrame DEF Board!Ring
<1>8. CASE up[c]
  <2>1. chan \in [Control -> Seq(Cookie)] /\ chan[c] \in Seq(Cookie)
    BY DEF IInv, TypeOK
  <2>2. \A e \in Control : v \notin LostWith(chan[e])
    BY <1>1, <1>5 DEF Told
  <2>3. \A u \in Upstream : hand[u].for # v
    BY <1>1, <1>5 DEF Told
  <2>4. Distinct(Append(chan[c], k)) /\ LostWith(Append(chan[c], k)) = LostWith(chan[c]) \cup {v}
    BY <1>1, <2>1, <2>2, AppendDistinct DEF Once
  <2>5. \A e \in Control : /\ LostWith(chan'[e]) = IF e = c THEN LostWith(chan[c]) \cup {v} ELSE LostWith(chan[e])
                           /\ Distinct(chan'[e])
    BY <1>6, <1>8, <2>1, <2>4 DEF Once
  <2> HIDE DEF v, k
  <2>6. Once'
    BY <1>1, <2>2, <2>3, <2>5 DEF Once
  <2>7. Told' = Told \cup {v}
    BY <1>1, <2>5 DEF Told
  <2> QED BY <1>1, <1>3, <1>4, <2>6, <2>7 DEF Board!Ring, v
<1> QED BY <1>7, <1>8

LEMMA BoardBreak ==
  ASSUME IInv, Once, NEW c \in Control, Break(c)
  PROVE  Board!Forget /\ Once'
<1>1. /\ \A e \in Control : chan'[e] = IF e = c THEN <<>> ELSE chan[e]
      /\ UNCHANGED <<visitor, vpc, visits, sessions, hand, data>>
  BY DEF IInv, TypeOK, Break, visitorVars, upstreamVars
<1>2. \A e \in Control : /\ LostWith(chan'[e]) = IF e = c THEN {} ELSE LostWith(chan[e])
                         /\ Distinct(chan[e]) => Distinct(chan'[e])
  BY <1>1, NobodyLost
<1>3. Once'
  BY <1>1, <1>2 DEF Once
<1>4. Told' \subseteq Told
  BY <1>1, <1>2 DEF Told
<1>5. UNCHANGED <<Come, Awaited, Unrung, Lines>>
  BY <1>1, ViewFrame
<1> QED BY <1>3, <1>4, <1>5 DEF Board!Forget

LEMMA BoardRead ==
  ASSUME IInv, Once, NEW u \in Upstream, ReadCookie(u)
  PROVE  UNCHANGED Board!boardVars /\ Once'
<1>1. PICK c \in Control : c = conn[u]
  BY DEF IInv, TypeOK, ReadCookie
<1>2. chan[c] \in Seq(Cookie) /\ chan[c] # <<>> /\ hand[u] = NoCookie
  BY <1>1 DEF IInv, TypeOK, ReadCookie
<1>3. /\ \A e \in Control : chan'[e] = IF e = c THEN Tail(chan[c]) ELSE chan[e]
      /\ \A w \in Upstream : hand'[w] = IF w = u THEN Head(chan[c]) ELSE hand[w]
      /\ UNCHANGED <<visitor, vpc, visits, sessions, data>>
  BY <1>1 DEF IInv, TypeOK, ReadCookie, visitorVars
<1> DEFINE v == Head(chan[c]).for
<1>4. /\ Distinct(Tail(chan[c])) /\ v \notin LostWith(Tail(chan[c]))
      /\ LostWith(chan[c]) = LostWith(Tail(chan[c])) \cup {v}
  BY <1>2, TailDistinct DEF Once
<1>5. v # 0 /\ \A w \in Upstream : hand[w].for # v
  <2>1. Head(chan[c]) \in Cookie
    BY <1>2
  <2>2. v \in LostWith(chan[c])
    BY <1>4
  <2> QED BY <2>1, <2>2 DEF Once, Cookie, Visitor
<1>6. hand[u].for = 0
  BY <1>2 DEF NoCookie
<1> HIDE DEF v
<1>7. \A e \in Control : /\ LostWith(chan'[e]) = IF e = c THEN LostWith(Tail(chan[c])) ELSE LostWith(chan[e])
                         /\ Distinct(chan'[e])
  BY <1>3, <1>4 DEF Once
<1>8. \A w \in Upstream : hand'[w].for = IF w = u THEN v ELSE hand[w].for
  BY <1>3 DEF v
<1>9. Once'
  <2>1. \A e, f \in Control : \A x \in LostWith(chan'[e]) : x \in LostWith(chan'[f]) => e = f
    BY <1>4, <1>7 DEF Once
  <2>2. \A e \in Control, w \in Upstream : hand'[w].for \notin LostWith(chan'[e])
    BY <1>4, <1>7, <1>8 DEF Once
  <2>3. \A w, x \in Upstream : hand'[w] # NoCookie /\ hand'[w].for = hand'[x].for => w = x
    BY <1>3, <1>5, <1>8 DEF Once
  <2> QED BY <1>7, <2>1, <2>2, <2>3 DEF Once
<1>10. Told' = Told
  BY <1>4, <1>6, <1>7, <1>8 DEF Told, Visitor
<1>11. UNCHANGED <<Come, Awaited, Unrung, Lines>>
  BY <1>3, ViewFrame
<1> QED BY <1>9, <1>10, <1>11, BoardStutter

\* What the thread had in its hand is gone.
LEMMA HandEmptied ==
  ASSUME IInv, Once, NEW u \in Upstream, upc[u] = "dial", hand' = [hand EXCEPT ![u] = NoCookie], UNCHANGED chan
  PROVE  hand[u] \in Cookie /\ hand[u].for \in Told /\ Told' = Told \ {hand[u].for} /\ Once'
<1>1. hand[u] \in Cookie /\ hand[u].for \in Visitor /\ hand[u] # NoCookie
  BY NullIsNoCookie DEF IInv, TypeOK, Cookie
<1>2. /\ \A w \in Upstream : hand'[w] = IF w = u THEN NoCookie ELSE hand[w]
      /\ NoCookie.for = 0 /\ 0 \notin Visitor
  BY DEF IInv, TypeOK, NoCookie, Visitor
<1>3. \A c \in Control : LostWith(chan'[c]) = LostWith(chan[c]) /\ Distinct(chan'[c]) = Distinct(chan[c])
  BY DEF LostWith, Cookies, Distinct
<1>4. \A c \in Control : 0 \notin LostWith(chan[c])
  <2> SUFFICES ASSUME NEW c \in Control PROVE 0 \notin LostWith(chan[c])
    OBVIOUS
  <2>1. chan[c] \in Seq(Cookie)
    BY DEF IInv, TypeOK
  <2>2. \A k \in Cookies(chan[c]) : k \in Cookie
    BY <2>1 DEF Cookies
  <2> QED BY <1>2, <2>2 DEF LostWith, Cookie
<1>5. Once'
  <2>1. \A w \in Upstream : hand'[w].for = IF w = u THEN 0 ELSE hand[w].for
    BY <1>2
  <2>2. \A c \in Control, w \in Upstream : hand'[w].for \notin LostWith(chan'[c])
    BY <1>3, <1>4, <2>1 DEF Once
  <2>3. \A w, x \in Upstream : hand'[w] # NoCookie /\ hand'[w].for = hand'[x].for => w = x
    <3> SUFFICES ASSUME NEW w \in Upstream, NEW x \in Upstream, hand'[w] # NoCookie, hand'[w].for = hand'[x].for
                 PROVE  w = x
      OBVIOUS
    <3>1. w # u /\ hand'[w] = hand[w] /\ hand[w] \in Cookie
      BY <1>2 DEF IInv, TypeOK
    <3>2. hand'[w].for # 0
      BY <1>2, <3>1 DEF Cookie
    <3>3. x # u /\ hand[w].for = hand[x].for
      BY <2>1, <3>1, <3>2
    <3> QED BY <3>1, <3>3 DEF Once
  <2> QED BY <1>3, <2>2, <2>3 DEF Once
<1>6. Told' = Told \ {hand[u].for}
  BY <1>1, <1>2, <1>3 DEF Told, Once
<1>7. hand[u].for \in Told
  BY <1>1 DEF Told
<1> QED BY <1>1, <1>5, <1>6, <1>7

LEMMA BoardDialFails ==
  ASSUME IInv, Once, NEW u \in Upstream, DialFails(u)
  PROVE  Board!Forget /\ Once'
<1>1. Told' \subseteq Told /\ Once'
  BY HandEmptied DEF DialFails, controlVars
<1>2. UNCHANGED <<Come, Awaited, Unrung, Lines>>
  BY ViewFrame DEF DialFails, visitorVars
<1> QED BY <1>1, <1>2 DEF Board!Forget

\* One line changes.
LEMMA LinesAt ==
  ASSUME IInv, NEW d \in Data, \A e \in Data \ {d} : data'[e] = data[e]
  PROVE  Lines' = [Lines EXCEPT ![d] = LineOf(data'[d])]
BY DEF Lines, LineOf

LEMMA BoardDial ==
  ASSUME IInv, Once, NEW u \in Upstream, NEW d \in Data, Dial(u, d)
  PROVE  (\E v \in Visitor : Board!Dial(d, v)) /\ Once'
<1>1. hand[u] \in Cookie /\ hand[u].for \in Told /\ Told' = Told \ {hand[u].for} /\ Once'
  BY HandEmptied DEF Dial, controlVars
<1>2. /\ \A e \in Data \ {d} : data'[e] = data[e]
      /\ data'[d] = [at |-> "sent", cookie |-> hand[u], claimed |-> 0, open |-> TRUE] /\ data[d].at = "none"
  BY DEF IInv, TypeOK, Dial
<1>3. Lines[d] = Board!Free
  BY <1>2 DEF Lines, LineOf, Board!Free
<1>4. Lines' = [Lines EXCEPT ![d] = [for |-> hand[u].for, with |-> 0]]
  <2>1. LineOf(data'[d]) = [for |-> hand[u].for, with |-> 0]
    BY <1>2 DEF LineOf
  <2> QED BY <1>2, <2>1, LinesAt
<1>5. UNCHANGED <<Come, Awaited, Unrung>>
  BY ViewFrame DEF Dial, visitorVars
<1>6. Board!Dial(d, hand[u].for)
  BY <1>1, <1>3, <1>4, <1>5 DEF Board!Dial
<1>7. hand[u].for \in Visitor
  BY <1>1 DEF Cookie
<1> QED BY <1>1, <1>6, <1>7

LEMMA BoardClaim ==
  ASSUME IInv, NEW d \in Data, Claim(d)
  PROVE  \E v \in Visitor : Board!PutThrough(d, v)
<1>1. PICK a \in sessions : a = data[d].cookie.addr
  BY DEF Claim
<1>2. /\ a \in Addr /\ visitor[a] \in Visitor /\ sessions \subseteq Addr
      /\ data[d].at = "sent" /\ data[d].cookie \in Cookie /\ data[d].claimed = 0
      /\ sessions' = sessions \ {a} /\ UNCHANGED <<visitor, vpc, visits, chan, hand>>
      /\ \A e \in Data \ {d} : data'[e] = data[e]
      /\ data'[d].at = "found" /\ data'[d].cookie = data[d].cookie /\ data'[d].claimed = visitor[a]
  BY <1>1, RProxyAssumption DEF IInv, TypeOK, Registered, Numbered, Claim, Visitor, visitorVars, controlVars, upstreamVars
<1>3. \A b \in Addr : visitor[b] = visitor[a] <=> b = a
  BY <1>2 DEF IInv, Numbered, Visitor
<1>4. visitor[a] \in Awaited /\ Awaited' = Awaited \ {visitor[a]}
  BY <1>1, <1>2, <1>3 DEF Awaited
<1>5. Lines[d] = [for |-> data[d].cookie.for, with |-> 0] /\ Lines[d].for # 0
  BY <1>2 DEF Lines, LineOf, Cookie, Visitor
<1>6. Lines' = [Lines EXCEPT ![d].with = visitor[a]]
  <2>1. LineOf(data'[d]) = [for |-> data[d].cookie.for, with |-> visitor[a]]
    BY <1>2 DEF LineOf
  <2>2. Lines' = [Lines EXCEPT ![d] = LineOf(data'[d])]
    BY <1>2, LinesAt
  <2>3. [Lines EXCEPT ![d].with = visitor[a]] = [Lines EXCEPT ![d] = [Lines[d] EXCEPT !.with = visitor[a]]]
    OBVIOUS
  <2>4. [Lines[d] EXCEPT !.with = visitor[a]] = [for |-> data[d].cookie.for, with |-> visitor[a]]
    BY <1>5
  <2> QED BY <2>1, <2>2, <2>3, <2>4
<1>7. Lines[d].for \in Awaited => visitor[a] = Lines[d].for
  <2> SUFFICES ASSUME NEW b \in sessions, visitor[b] = data[d].cookie.for PROVE b = a
    BY <1>5 DEF Awaited
  <2>1. Carried(data[d].cookie)
    BY <1>2 DEF Carried
  <2> QED BY <1>1, <1>2, <2>1 DEF IInv, CookiesOwned, Announced
<1>8. UNCHANGED <<Come, Unrung, Told>>
  BY <1>2, ViewFrame
<1>9. Board!PutThrough(d, visitor[a])
  BY <1>4, <1>5, <1>6, <1>7, <1>8 DEF Board!PutThrough
<1> QED BY <1>2, <1>9

\* A data connection that carries nobody any more is a free line.
LEMMA BoardFreed ==
  ASSUME IInv, NEW d \in Data, \A e \in Data \ {d} : data'[e] = data[e], data'[d].at \in {"none", "idle"},
         UNCHANGED <<Come, Awaited, Unrung, Told>>
  PROVE  Board!HangUp(d)
<1>1. LineOf(data'[d]) = Board!Free
  BY DEF LineOf, Board!Free
<1>2. Lines' = [Lines EXCEPT ![d] = Board!Free]
  BY <1>1, LinesAt
<1> QED BY <1>2 DEF Board!HangUp

LEMMA BoardHangUp ==
  ASSUME IInv, NEW d \in Data, ClaimFails(d) \/ CookieCut(d) \/ EndPair(d)
  PROVE  Board!HangUp(d)
<1>1. CASE ClaimFails(d) \/ CookieCut(d)
  <2>1. data'[d].at = "idle" /\ \A e \in Data \ {d} : data'[e] = data[e]
    BY <1>1 DEF IInv, TypeOK, ClaimFails, CookieCut
  <2>2. UNCHANGED <<Come, Awaited, Unrung, Told>>
    BY <1>1, ViewFrame DEF ClaimFails, CookieCut, visitorVars, controlVars, upstreamVars
  <2> QED BY <2>1, <2>2, BoardFreed
<1>2. CASE EndPair(d)
  <2>1. PICK a \in Addr : a = data[d].cookie.addr
    BY <1>2 DEF IInv, Numbered, EndPair, Cookie
  <2>2. /\ \A e \in Data \ {d} : data'[e] = data[e]
        /\ data'[d].at = "none" /\ data[d].at = "paired" /\ visitor[a] = data[d].claimed /\ vpc[a] = "waiting"
        /\ \A b \in Addr : /\ vpc'[b] = IF b = a THEN "none" ELSE vpc[b]
                           /\ visitor'[b] = IF b = a THEN 0 ELSE visitor[b]
        /\ sessions' = sessions \ {a} /\ sessions \subseteq Addr /\ UNCHANGED <<visits, chan, hand>>
    BY <1>2, <2>1 DEF IInv, TypeOK, EndPair, NoData, controlVars, upstreamVars
  <2>3. a \notin sessions
    BY <2>2 DEF IInv, Registered
  <2>4. UNCHANGED Awaited
    BY <2>2, <2>3 DEF Awaited
  <2>5. UNCHANGED Unrung
    BY <2>2 DEF Unrung
  <2>6. UNCHANGED <<Come, Told>>
    BY <2>2, ViewFrame
  <2> QED BY <2>2, <2>4, <2>5, <2>6, BoardFreed
<1> QED BY <1>1, <1>2

\* Steps that no visitor sees: no line changes hands.
LEMMA BoardUnseen ==
  ASSUME UNCHANGED <<visitor, vpc, visits, sessions, chan, hand>>, \A d \in Data : LineOf(data'[d]) = LineOf(data[d])
  PROVE  UNCHANGED Board!boardVars
<1>1. UNCHANGED Lines
  BY DEF Lines
<1> QED BY <1>1, ViewFrame, BoardStutter

-----------------------------------------------------------------------------
(* The proxy implements the switchboard.                                   *)

BoardStep == [Board!NextBoard]_(Board!boardVars)

LEMMA BoardVisitor ==
  ASSUME IInv, Once, NEW a \in Addr, Accept(a) \/ HangUp(a)
  PROVE  BoardStep /\ Once'
<1>1. ASSUME NEW v \in Visitor, Board!Come(v) \/ Board!Leave(v) \/ Board!Ring(v) PROVE BoardStep
  BY <1>1 DEF BoardStep, Board!NextBoard
<1>2. CASE Arrive(a)
  <2>1. Once'
    BY <1>2, OnceFrame DEF Arrive, controlVars, upstreamVars
  <2> QED BY <1>1, <1>2, <2>1, BoardCome
<1>3. CASE Refuse(a)
  <2>1. Once'
    BY <1>3, OnceFrame DEF Refuse, controlVars, upstreamVars
  <2> QED BY <1>1, <1>3, <2>1, BoardRefuse
<1>4. CASE SendCookie(a)
  BY <1>1, <1>4, BoardRing
<1>6. CASE Enter(a)
  <2>1. /\ \A b \in Addr : vpc'[b] = "added" <=> vpc[b] = "added"
        /\ UNCHANGED <<visitor, visits, sessions, chan, hand, data>>
    BY <1>6 DEF IInv, TypeOK, Enter, controlVars, upstreamVars
  <2>2. UNCHANGED Unrung
    BY <2>1 DEF Unrung
  <2> QED BY <2>1, <2>2, ViewFrame, BoardStutter, OnceFrame DEF BoardStep
<1>5. CASE DestroyRefused(a) \/ HangUp(a)
  <2>1. vpc[a] \in {"waiting", "refused"} /\ Destroy(a)
    BY <1>5 DEF DestroyRefused, HangUp
  <2>2. Once'
    BY <2>1, OnceFrame DEF Destroy, controlVars, upstreamVars
  <2> QED BY <1>1, <2>1, <2>2, BoardDestroy
<1> QED BY <1>2, <1>3, <1>4, <1>5, <1>6 DEF Accept

LEMMA BoardThread ==
  ASSUME IInv, Once, NEW u \in Upstream, Thread(u) \/ \E c \in Control : Connect(u, c)
  PROVE  BoardStep /\ Once'
<1>1. CASE ReadCookie(u)
  BY <1>1, BoardRead DEF BoardStep
<1>2. CASE DialFails(u)
  BY <1>2, BoardDialFails DEF BoardStep, Board!NextBoard
<1>3. CASE \E d \in Data : Dial(u, d)
  <2>1. PICK d \in Data : Dial(u, d)
    BY <1>3
  <2>2. PICK v \in Visitor : Board!Dial(d, v)
    BY <2>1, BoardDial
  <2>3. Once'
    BY <2>1, BoardDial
  <2> QED BY <2>2, <2>3 DEF BoardStep, Board!NextBoard
<1>4. CASE LoseControl(u) \/ DialService(u) \/ \E c \in Control : Connect(u, c)
  <2>1. UNCHANGED <<visitor, vpc, visits, sessions, chan, hand>>
    BY <1>4 DEF LoseControl, DialService, Connect, visitorVars, controlVars
  <2>2. \A d \in Data : LineOf(data'[d]) = LineOf(data[d])
    <3>1. CASE UNCHANGED data
      BY <3>1
    <3>2. CASE DialService(u)
      <4>1. PICK e \in Data, ok \in BOOLEAN : data' = [data EXCEPT ![e].open = ok]
        BY <3>2 DEF IInv, TypeOK, DialService
      <4>2. \A d \in Data : /\ data'[d].at = data[d].at /\ data'[d].cookie = data[d].cookie
                            /\ data'[d].claimed = data[d].claimed
        BY <4>1 DEF IInv, TypeOK
      <4> QED BY <4>2 DEF LineOf
    <3> QED BY <1>4, <3>1, <3>2 DEF LoseControl, Connect
  <2> QED BY <2>1, <2>2, BoardUnseen, OnceFrame DEF BoardStep
<1> QED BY <1>1, <1>2, <1>3, <1>4 DEF Thread

LEMMA BoardControl ==
  ASSUME IInv, Once, NEW c \in Control, AddMaster(c) \/ MagicCut(c) \/ Break(c) \/ DropControl(c)
  PROVE  BoardStep /\ Once'
<1>1. CASE Break(c)
  BY <1>1, BoardBreak DEF BoardStep, Board!NextBoard
<1>2. CASE AddMaster(c) \/ MagicCut(c) \/ DropControl(c)
  <2>1. UNCHANGED <<visitor, vpc, visits, sessions, chan, hand, data>>
    BY <1>2 DEF AddMaster, MagicCut, DropControl, visitorVars, upstreamVars
  <2> QED BY <2>1, BoardUnseen, OnceFrame DEF BoardStep
<1> QED BY <1>1, <1>2

LEMMA BoardData ==
  ASSUME IInv, Once, NEW d \in Data, OnRequest(d) \/ CloseData(d) \/ FreeIdle(d) \/ EndPair(d)
  PROVE  BoardStep /\ Once'
<1>1. UNCHANGED <<chan, hand>>
  BY DEF OnRequest, Claim, ClaimFails, CookieCut, Redirect, CloseData, FreeIdle, EndPair, controlVars, upstreamVars
<1>2. Once'
  BY <1>1, OnceFrame
<1>3. CASE Claim(d)
  <2>1. PICK v \in Visitor : Board!PutThrough(d, v)
    BY <1>3, BoardClaim
  <2> QED BY <1>2, <2>1 DEF BoardStep, Board!NextBoard
<1>4. CASE ClaimFails(d) \/ CookieCut(d) \/ EndPair(d)
  BY <1>2, <1>4, BoardHangUp DEF BoardStep, Board!NextBoard
<1>5. CASE Redirect(d) \/ CloseData(d) \/ FreeIdle(d)
  <2>1. UNCHANGED <<visitor, vpc, visits, sessions>>
    BY <1>5 DEF Redirect, CloseData, FreeIdle, visitorVars
  <2>2. \A e \in Data \ {d} : data'[e] = data[e]
    BY <1>5 DEF IInv, TypeOK, Redirect, CloseData, FreeIdle
  <2>3. \/ /\ data'[d].at = data[d].at \/ (data[d].at = "found" /\ data'[d].at = "paired")
           /\ data'[d].cookie = data[d].cookie /\ data'[d].claimed = data[d].claimed
        \/ data[d].at = "idle" /\ data'[d].at = "none"
    BY <1>5 DEF IInv, TypeOK, Redirect, CloseData, FreeIdle, NoData
  <2>4. LineOf(data'[d]) = LineOf(data[d])
    BY <2>3 DEF LineOf
  <2>5. \A e \in Data : LineOf(data'[e]) = LineOf(data[e])
    BY <2>2, <2>4
  <2> QED BY <1>1, <1>2, <2>1, <2>5, BoardUnseen DEF BoardStep
<1> QED BY <1>3, <1>4, <1>5 DEF OnRequest

LEMMA BoardNext ==
  ASSUME IInv, Once, [Next]_vars
  PROVE  BoardStep /\ Once'
<1>1. CASE Go(Defined)
  BY <1>1, BoardVisitor, BoardThread, BoardControl, BoardData DEF Go, Defined
<1>2. CASE UNCHANGED vars \/ \E d \in Data : UseDestroyed(d)
  <2>1. UNCHANGED <<visitor, vpc, visits, sessions, chan, hand, data>>
    BY <1>2 DEF UseDestroyed, vars, visitorVars, controlVars, upstreamVars
  <2> QED BY <2>1, BoardUnseen, OnceFrame DEF BoardStep
<1> QED BY <1>1, <1>2 DEF Next

LEMMA BoardInit == Init => Board!InitBoard /\ Once
<1> SUFFICES ASSUME Init PROVE Board!InitBoard /\ Once
  OBVIOUS
<1>1. Come = {} /\ Awaited = {} /\ Unrung = {}
  BY DEF Init, Come, Awaited, Unrung
<1>2. \A c \in Control : LostWith(chan[c]) = {} /\ Distinct(chan[c])
  BY NobodyLost DEF Init
<1>3. Told = {}
  BY <1>2 DEF Init, Told, NoCookie, Visitor
<1>4. Lines = [d \in Data |-> Board!Free]
  BY DEF Init, Lines, LineOf, NoData, Board!Free
<1>5. Once
  BY <1>2 DEF Init, Once
<1> QED BY <1>1, <1>3, <1>4, <1>5 DEF Board!InitBoard

\* No visitor is dialed for twice, however often connections break: its cookie is in one place.
THEOREM CookiesOnce == Spec => []Once
<1>1. IInv /\ Once /\ [Next]_vars => Once'
  BY BoardNext
<1> QED BY <1>1, BoardInit, InvariantHolds, PTL DEF Spec

\* To its visitors the proxy, with its addresses that are used again, its late cookies and its broken connections, is
\* a switchboard: each is rung for once, dialed for once and put through once, over the line that was dialed for it
\* as long as it waits.
THEOREM ProxyIsSwitchboard == Spec => ImplementsBoard
<1>1. IInv /\ Once /\ [Next]_vars => [Board!NextBoard]_(Board!boardVars)
  BY BoardNext DEF BoardStep
<1>2. Init => Board!InitBoard
  BY BoardInit
<1> QED BY <1>1, <1>2, InvariantHolds, CookiesOnce, PTL DEF Spec, ImplementsBoard, Board!BoardSpec
=============================================================================
