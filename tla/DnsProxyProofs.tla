--------------------------- MODULE DnsProxyProofs ---------------------------
(***************************************************************************)
(* Theorems about DnsProxy: clients are sent the answers to their own      *)
(* queries, once, and the cache holds addresses only.                      *)
(***************************************************************************)
EXTENDS DnsProxy, TLAPS

\* Where onrequest stands, and that its query has neither been answered nor passed on.
Working ==
  /\ at = "idle" <=> cur = None
  /\ at \in {"lookup", "copy", "call"} => TypeOf[cur] = A
  /\ at = "copy" => /\ dnscache[NameOf[cur]] \in Packet
                    /\ dnscache[NameOf[cur]].id = IdOf[cur]
                    /\ Answers(dnscache[NameOf[cur]], cur)
  /\ cur \notin todo
  /\ \A q \in Query : q \in todo \/ q = cur => sent[q] = <<>> /\ call[q] = "none"

\* What a call has heard is the upstream's answer to its query, and not yet passed on.
Calls ==
  \A q \in Query :
    /\ call[q] \in {"asked", "answered"} => sent[q] = <<>>
    /\ call[q] \in {"answered", "parsed"} =>
         heard[q] = AnswerTo(q, TRUE) \/ heard[q] = AnswerTo(q, FALSE)
    /\ call[q] = "parsed" => heard[q].answers /\ caching[q]
    /\ caching[q] => TypeOf[q] = A

\* Only queries for addresses are sent on the refreshing socket.
Refreshing ==
  /\ \A q \in refresh : TypeOf[q] = A
  /\ \A p \in refreshed : p.type = A /\ p.name \in Name
  /\ holding # None => holding.type = A /\ holding.name \in Name /\ holding.answers

\* What comes in through serverfd answers a query that went out through it.
Syncing ==
  /\ owed \subseteq synced
  /\ \A p \in arrived : \E r \in synced : p.id = IdOf[r] /\ Answers(p, r)
  /\ bound = "none" => synced = {}
  /\ at = "recv" /\ bound # "none" => cur \in synced

IInv ==
  /\ TypeOK /\ Working /\ Calls /\ Refreshing /\ Syncing
  /\ CachedAddresses /\ OneAnswer /\ AnswersOwnQuery

USE DnsAssumption

-----------------------------------------------------------------------------
(* Packets.                                                                *)

LEMMA PacketTypes ==
  ASSUME NEW q \in Query
  PROVE  /\ \A some \in BOOLEAN : AnswerTo(q, some) \in Packet
         /\ Failure(q) \in Packet
BY DEF AnswerTo, Failure, Packet

LEMMA AppendToEmpty ==
  ASSUME NEW p \in Packet
  PROVE  /\ Append(<<>>, p) \in Seq(Packet)
         /\ Len(Append(<<>>, p)) = 1
         /\ DOMAIN Append(<<>>, p) = {1}
         /\ Append(<<>>, p)[1] = p
OBVIOUS

\* What one reply to a query that had none leaves of the properties of replies.
Replied(q, p) ==
  /\ q \in Query /\ sent[q] = <<>> /\ p \in Packet
  /\ sent' = [sent EXCEPT ![q] = Append(@, p)]

LEMMA ReplyOnce ==
  ASSUME TypeOK, OneAnswer, AnswersOwnQuery, NEW q, NEW p, Replied(q, p), AnswerFor(p, q, synced),
         UNCHANGED synced
  PROVE  /\ sent' \in [Query -> Seq(Packet)]
         /\ \A r \in Query : r # q => sent'[r] = sent[r]
         /\ OneAnswer' /\ AnswersOwnQuery'
<1>1. \A r \in Query : sent'[r] = IF r = q THEN Append(<<>>, p) ELSE sent[r]
  BY DEF Replied, TypeOK
<1>2. p \in Packet /\ q \in Query
  BY DEF Replied
<1>3. sent' \in [Query -> Seq(Packet)]
  BY <1>1, <1>2, AppendToEmpty DEF Replied, TypeOK
<1>4. OneAnswer'
  <2> SUFFICES ASSUME NEW r \in Query
               PROVE  Len(sent'[r]) <= 1
    BY DEF OneAnswer
  <2>1. CASE r = q
    <3>1. Len(sent'[r]) = 1
      BY <2>1, <1>1, <1>2, AppendToEmpty
    <3> QED
      BY <3>1
  <2>2. CASE r # q
    BY <2>2, <1>1 DEF OneAnswer
  <2> QED
    BY <2>1, <2>2
<1>5. AnswersOwnQuery'
  <2> SUFFICES ASSUME NEW r \in Query, NEW i \in DOMAIN sent'[r]
               PROVE  AnswerFor(sent'[r][i], r, synced)
    BY DEF AnswersOwnQuery
  <2>1. CASE r = q
    BY <2>1, <1>1, <1>2, AppendToEmpty
  <2>2. CASE r # q
    BY <2>2, <1>1 DEF AnswersOwnQuery
  <2> QED
    BY <2>1, <2>2
<1> QED
  BY <1>1, <1>3, <1>4, <1>5

\* A step that replies to nobody disturbs none of the two.
LEMMA NoReply ==
  ASSUME OneAnswer, AnswersOwnQuery, UNCHANGED sent, synced \subseteq synced'
  PROVE  OneAnswer' /\ AnswersOwnQuery'
<1>1. OneAnswer'
  BY DEF OneAnswer
<1>2. AnswersOwnQuery'
  BY DEF AnswersOwnQuery, AnswerFor
<1> QED
  BY <1>1, <1>2
-----------------------------------------------------------------------------
(* One lemma for every action.                                             *)

LEMMA ReceiveStep ==
  ASSUME IInv, NEW q \in Query, Receive(q)
  PROVE  IInv'
<1> USE DEF IInv, Receive, Attach, callVars, syncVars, refreshVars
<1>1. TypeOK'
  BY DEF TypeOK, MaybePacket
<1>2. Working'
  BY DEF Working, TypeOK
<1>3. Calls'
  BY DEF Calls, TypeOK, Working
<1>4. Refreshing'
  BY DEF Refreshing, TypeOK, Working
<1>5. Syncing'
  BY DEF Syncing, TypeOK, Working
<1>6. CachedAddresses'
  BY DEF CachedAddresses, TypeOK
<1>7. OneAnswer' /\ AnswersOwnQuery'
  BY NoReply
<1> QED
  BY <1>1, <1>2, <1>3, <1>4, <1>5, <1>6, <1>7

LEMMA FindHitStep ==
  ASSUME IInv, FindHit
  PROVE  IInv'
<1> USE DEF IInv, FindHit, Cached, callVars, syncVars, refreshVars
<1>1. cur \in Query /\ TypeOf[cur] = A /\ NameOf[cur] \in Name
  BY DEF TypeOK, Working
<1>2. dnscache[NameOf[cur]] \in Packet /\ Answers(dnscache[NameOf[cur]], cur)
  BY <1>1 DEF TypeOK, MaybePacket, CachedAddresses, Answers
<1> DEFINE p == [dnscache[NameOf[cur]] EXCEPT !.id = IdOf[cur]]
<1>3. /\ p \in Packet /\ p.id = IdOf[cur] /\ Answers(p, cur)
      /\ p.answers = dnscache[NameOf[cur]].answers
  BY <1>1, <1>2 DEF Packet, Answers
<1>4. \A n \in Name : dnscache'[n] = IF n = NameOf[cur] THEN p ELSE dnscache[n]
  BY DEF TypeOK
<1>5. dnscache' \in [Name -> MaybePacket]
  BY <1>3 DEF TypeOK, MaybePacket
<1> HIDE DEF p
<1>6. TypeOK'
  BY <1>5 DEF TypeOK
<1>7. Working'
  BY <1>1, <1>3, <1>4 DEF Working, Answers
<1>8. Calls'
  BY DEF Calls, TypeOK, Working
<1>9. Refreshing'
  BY DEF Refreshing, TypeOK, Working
<1>10. Syncing'
  BY DEF Syncing, TypeOK, Working
<1>11. CachedAddresses'
  BY <1>1, <1>2, <1>3, <1>4 DEF CachedAddresses, Answers
<1>12. OneAnswer' /\ AnswersOwnQuery'
  BY NoReply
<1> QED
  BY <1>6, <1>7, <1>8, <1>9, <1>10, <1>11, <1>12

LEMMA FindMissStep ==
  ASSUME IInv, FindMiss
  PROVE  IInv'
<1> USE DEF IInv, FindMiss, Cached, callVars, syncVars, refreshVars
<1>1. TypeOK'
  BY DEF TypeOK, MaybePacket
<1>2. Working'
  BY DEF Working, TypeOK
<1>3. Calls'
  BY DEF Calls, TypeOK, Working
<1>4. Refreshing'
  BY DEF Refreshing, TypeOK, Working
<1>5. Syncing'
  BY DEF Syncing, TypeOK, Working
<1>6. CachedAddresses'
  BY DEF CachedAddresses, TypeOK
<1>7. OneAnswer' /\ AnswersOwnQuery'
  BY NoReply
<1> QED
  BY <1>1, <1>2, <1>3, <1>4, <1>5, <1>6, <1>7

LEMMA OpenCallStep ==
  ASSUME IInv, OpenCall
  PROVE  IInv'
<1> USE DEF IInv, OpenCall, Open, Return, syncVars, refreshVars
<1>1. TypeOK'
  BY DEF TypeOK, MaybePacket, Working
<1>2. Working'
  BY DEF Working, TypeOK
<1>3. Calls'
  <2>1. cur \in Query /\ sent[cur] = <<>> /\ TypeOf[cur] = A
    BY DEF TypeOK, Working
  <2>2. /\ call'[cur] \in {"asked", "dead"} /\ caching'[cur] = TRUE
        /\ \A q \in Query \ {cur} : call'[q] = call[q] /\ caching'[q] = caching[q]
    BY <2>1 DEF TypeOK
  <2> QED BY <2>1, <2>2 DEF Calls
<1>4. Refreshing'
  BY DEF Refreshing, TypeOK, Working
<1>5. Syncing'
  BY DEF Syncing, TypeOK, Working
<1>6. CachedAddresses'
  BY DEF CachedAddresses, TypeOK
<1>7. OneAnswer' /\ AnswersOwnQuery'
  BY NoReply
<1> QED
  BY <1>1, <1>2, <1>3, <1>4, <1>5, <1>6, <1>7

LEMMA OpenNoCacheStep ==
  ASSUME IInv, OpenNoCache
  PROVE  IInv'
<1> USE DEF IInv, OpenNoCache, Open, Return, syncVars, refreshVars
<1>1. TypeOK'
  BY DEF TypeOK, MaybePacket, Working
<1>2. Working'
  BY DEF Working, TypeOK
<1>3. Calls'
  <2>1. cur \in Query /\ sent[cur] = <<>>
    BY DEF TypeOK, Working
  <2>2. /\ call'[cur] \in {"asked", "dead"} /\ caching'[cur] = FALSE
        /\ \A q \in Query \ {cur} : call'[q] = call[q] /\ caching'[q] = caching[q]
    BY <2>1 DEF TypeOK
  <2> QED BY <2>1, <2>2 DEF Calls
<1>4. Refreshing'
  BY DEF Refreshing, TypeOK, Working
<1>5. Syncing'
  BY DEF Syncing, TypeOK, Working
<1>6. CachedAddresses'
  BY DEF CachedAddresses, TypeOK
<1>7. OneAnswer' /\ AnswersOwnQuery'
  BY NoReply
<1> QED
  BY <1>1, <1>2, <1>3, <1>4, <1>5, <1>6, <1>7

LEMMA OpenCallFailsStep ==
  ASSUME IInv, OpenCallFails
  PROVE  IInv'
<1> USE DEF IInv, OpenCallFails, OpenFails, callVars, syncVars, refreshVars
<1>1. TypeOK'
  BY DEF TypeOK, MaybePacket, Working
<1>2. Working'
  BY DEF Working, TypeOK
<1>3. Calls'
  BY DEF Calls, TypeOK, Working
<1>4. Refreshing'
  BY DEF Refreshing, TypeOK, Working
<1>5. Syncing'
  BY DEF Syncing, TypeOK, Working
<1>6. CachedAddresses'
  BY DEF CachedAddresses, TypeOK
<1>7. OneAnswer' /\ AnswersOwnQuery'
  BY NoReply
<1> QED
  BY <1>1, <1>2, <1>3, <1>4, <1>5, <1>6, <1>7

LEMMA OpenNoCacheFailsStep ==
  ASSUME IInv, OpenNoCacheFails
  PROVE  IInv'
<1> USE DEF IInv, OpenNoCacheFails, OpenFails, callVars, syncVars, refreshVars
<1>1. TypeOK'
  BY DEF TypeOK, MaybePacket, Working
<1>2. Working'
  BY DEF Working, TypeOK
<1>3. Calls'
  BY DEF Calls, TypeOK, Working
<1>4. Refreshing'
  BY DEF Refreshing, TypeOK, Working
<1>5. Syncing'
  BY DEF Syncing, TypeOK, Working
<1>6. CachedAddresses'
  BY DEF CachedAddresses, TypeOK
<1>7. OneAnswer' /\ AnswersOwnQuery'
  BY NoReply
<1> QED
  BY <1>1, <1>2, <1>3, <1>4, <1>5, <1>6, <1>7

LEMMA SyncSendStep ==
  ASSUME IInv, SyncSend
  PROVE  IInv'
<1> USE DEF IInv, SyncSend, callVars, refreshVars
<1>1. TypeOK'
  BY DEF TypeOK, MaybePacket, Working
<1>2. Working'
  BY DEF Working, TypeOK
<1>3. Calls'
  BY DEF Calls, TypeOK, Working
<1>4. Refreshing'
  BY DEF Refreshing, TypeOK, Working
<1>5. Syncing'
  BY DEF Syncing, TypeOK, Working
<1>6. CachedAddresses'
  BY DEF CachedAddresses, TypeOK
<1>7. OneAnswer' /\ AnswersOwnQuery'
  BY NoReply
<1> QED
  BY <1>1, <1>2, <1>3, <1>4, <1>5, <1>6, <1>7

LEMMA CopyOutStep ==
  ASSUME IInv, CopyOut
  PROVE  IInv'
<1> USE DEF IInv, CopyOut, Return, callVars, syncVars
<1>1. cur \in Query /\ sent[cur] = <<>>
  BY DEF TypeOK, Working, Calls
<1>2. dnscache[NameOf[cur]] \in Packet /\ AnswerFor(dnscache[NameOf[cur]], cur, synced)
  BY <1>1 DEF Working, AnswerFor
<1>3. Replied(cur, dnscache[NameOf[cur]])
  BY <1>1, <1>2 DEF Reply, Replied
<1>4. /\ sent' \in [Query -> Seq(Packet)]
      /\ \A r \in Query : r # cur => sent'[r] = sent[r]
      /\ OneAnswer' /\ AnswersOwnQuery'
  BY <1>2, <1>3, ReplyOnce
<1>5. TypeOK'
  BY <1>1, <1>4 DEF TypeOK, MaybePacket
<1>6. Working'
  BY <1>1, <1>4 DEF Working, TypeOK
<1>7. Calls'
  BY <1>1, <1>4 DEF Calls, TypeOK, Working
<1>8. Refreshing'
  BY <1>1, <1>4 DEF Refreshing, TypeOK, Working
<1>9. Syncing'
  BY <1>1, <1>4 DEF Syncing, TypeOK, Working
<1>10. CachedAddresses'
  BY <1>1, <1>4 DEF CachedAddresses, TypeOK
<1>11. OneAnswer' /\ AnswersOwnQuery'
  BY <1>4
<1> QED
  BY <1>5, <1>6, <1>7, <1>8, <1>9, <1>10, <1>11

LEMMA SyncTimeoutStep ==
  ASSUME IInv, SyncTimeout
  PROVE  IInv'
<1> USE DEF IInv, SyncTimeout, Return, callVars, syncVars, refreshVars
<1>1. cur \in Query /\ sent[cur] = <<>>
  BY DEF TypeOK, Working, Calls
<1>2. Failure(cur) \in Packet /\ AnswerFor(Failure(cur), cur, synced)
  BY <1>1, PacketTypes DEF AnswerFor, Failure
<1>3. Replied(cur, Failure(cur))
  BY <1>1, <1>2 DEF Reply, Replied
<1>4. /\ sent' \in [Query -> Seq(Packet)]
      /\ \A r \in Query : r # cur => sent'[r] = sent[r]
      /\ OneAnswer' /\ AnswersOwnQuery'
  BY <1>2, <1>3, ReplyOnce
<1>5. TypeOK'
  BY <1>1, <1>4 DEF TypeOK, MaybePacket
<1>6. Working'
  BY <1>1, <1>4 DEF Working, TypeOK
<1>7. Calls'
  BY <1>1, <1>4 DEF Calls, TypeOK, Working
<1>8. Refreshing'
  BY <1>1, <1>4 DEF Refreshing, TypeOK, Working
<1>9. Syncing'
  BY <1>1, <1>4 DEF Syncing, TypeOK, Working
<1>10. CachedAddresses'
  BY <1>1, <1>4 DEF CachedAddresses, TypeOK
<1>11. OneAnswer' /\ AnswersOwnQuery'
  BY <1>4
<1> QED
  BY <1>5, <1>6, <1>7, <1>8, <1>9, <1>10, <1>11

LEMMA HearCallStep ==
  ASSUME IInv, NEW q \in Query, HearCall(q)
  PROVE  IInv'
<1> USE DEF IInv, HearCall, listenerVars, syncVars, refreshVars
<1>1. q \in Query /\ sent[q] = <<>>
  BY DEF TypeOK, Working, Calls
<1>2. heard[q] \in Packet /\ AnswerFor(heard[q], q, synced)
  <2>1. PICK some \in BOOLEAN : heard[q] = AnswerTo(q, some)
    BY DEF Calls
  <2> QED
    BY <2>1, PacketTypes DEF AnswerFor, Answers, AnswerTo
<1>3. Replied(q, heard[q])
  BY <1>1, <1>2 DEF Replied
<1>4. /\ sent' \in [Query -> Seq(Packet)]
      /\ \A r \in Query : r # q => sent'[r] = sent[r]
      /\ OneAnswer' /\ AnswersOwnQuery'
  BY <1>2, <1>3, ReplyOnce
<1>5. TypeOK'
  BY <1>1, <1>4 DEF TypeOK, MaybePacket
<1>6. Working'
  BY <1>1, <1>4 DEF Working, TypeOK
<1>7. Calls'
  <2>1. \A r \in Query \ {q} : call'[r] = call[r] /\ sent'[r] = sent[r]
    BY <1>4 DEF TypeOK
  <2>2. call'[q] = IF caching[q] /\ heard[q].answers THEN "parsed" ELSE "closed"
    BY DEF TypeOK
  <2> SUFFICES ASSUME NEW r \in Query
               PROVE  Calls!(r)'
    BY DEF Calls
  <2>3. CASE r = q
    <3>1. call'[q] \in {"parsed", "closed"}
      BY <2>2
    <3>2. call'[q] = "parsed" => heard[q].answers /\ caching[q]
      BY <2>2
    <3>3. UNCHANGED <<heard, caching>> /\ call[q] = "answered"
      OBVIOUS
    <3> QED
      BY <2>3, <3>1, <3>2, <3>3 DEF Calls
  <2>4. CASE r # q
    BY <2>1, <2>4 DEF Calls
  <2> QED
    BY <2>3, <2>4
<1>8. Refreshing'
  BY <1>1, <1>4 DEF Refreshing, TypeOK, Working
<1>9. Syncing'
  BY <1>1, <1>4 DEF Syncing, TypeOK, Working
<1>10. CachedAddresses'
  BY <1>1, <1>4 DEF CachedAddresses, TypeOK
<1>11. OneAnswer' /\ AnswersOwnQuery'
  BY <1>4
<1> QED
  BY <1>5, <1>6, <1>7, <1>8, <1>9, <1>10, <1>11

LEMMA StoreCallStep ==
  ASSUME IInv, NEW q \in Query, StoreCall(q)
  PROVE  IInv'
<1> USE DEF IInv, StoreCall, Readers, Store, listenerVars, syncVars, refreshVars
<1>1. TypeOK'
  BY PacketTypes DEF TypeOK, MaybePacket, Calls
<1>2. Working'
  BY DEF Working, TypeOK
<1>3. Calls'
  BY DEF Calls, TypeOK, Working
<1>4. Refreshing'
  BY DEF Refreshing, TypeOK, Working
<1>5. Syncing'
  BY DEF Syncing, TypeOK, Working
<1>6. CachedAddresses'
  BY DEF CachedAddresses, TypeOK, Calls, AnswerTo
<1>7. OneAnswer' /\ AnswersOwnQuery'
  BY NoReply
<1> QED
  BY <1>1, <1>2, <1>3, <1>4, <1>5, <1>6, <1>7

LEMMA HearRefreshStep ==
  ASSUME IInv, NEW p \in refreshed, HearRefresh(p)
  PROVE  IInv'
<1> USE DEF IInv, HearRefresh, listenerVars, callVars, syncVars
<1>1. TypeOK'
  BY DEF TypeOK, MaybePacket
<1>2. Working'
  BY DEF Working, TypeOK
<1>3. Calls'
  BY DEF Calls, TypeOK, Working
<1>4. Refreshing'
  BY DEF Refreshing, TypeOK, Working
<1>5. Syncing'
  BY DEF Syncing, TypeOK, Working
<1>6. CachedAddresses'
  BY DEF CachedAddresses, TypeOK
<1>7. OneAnswer' /\ AnswersOwnQuery'
  BY NoReply
<1> QED
  BY <1>1, <1>2, <1>3, <1>4, <1>5, <1>6, <1>7

LEMMA StoreRefreshStep ==
  ASSUME IInv, StoreRefresh
  PROVE  IInv'
<1> USE DEF IInv, StoreRefresh, Readers, Store, listenerVars, callVars, syncVars
<1>1. TypeOK'
  BY DEF TypeOK, MaybePacket
<1>2. Working'
  BY DEF Working, TypeOK
<1>3. Calls'
  BY DEF Calls, TypeOK, Working
<1>4. Refreshing'
  BY DEF Refreshing, TypeOK, Working
<1>5. Syncing'
  BY DEF Syncing, TypeOK, Working
<1>6. CachedAddresses'
  BY DEF CachedAddresses, TypeOK, Refreshing
<1>7. OneAnswer' /\ AnswersOwnQuery'
  BY NoReply
<1> QED
  BY <1>1, <1>2, <1>3, <1>4, <1>5, <1>6, <1>7

LEMMA AnswerCallStep ==
  ASSUME IInv, NEW q \in Query, NEW some \in BOOLEAN, AnswerCall(q, some)
  PROVE  IInv'
<1> USE DEF IInv, AnswerCall, listenerVars, syncVars, refreshVars
<1>1. TypeOK'
  BY PacketTypes DEF TypeOK, MaybePacket
<1>2. Working'
  BY DEF Working, TypeOK
<1>3. Calls'
  BY DEF Calls, TypeOK, Working
<1>4. Refreshing'
  BY DEF Refreshing, TypeOK, Working
<1>5. Syncing'
  BY DEF Syncing, TypeOK, Working
<1>6. CachedAddresses'
  BY DEF CachedAddresses, TypeOK
<1>7. OneAnswer' /\ AnswersOwnQuery'
  BY NoReply
<1> QED
  BY <1>1, <1>2, <1>3, <1>4, <1>5, <1>6, <1>7

LEMMA CloseCallStep ==
  ASSUME IInv, NEW q \in Query, CloseCall(q)
  PROVE  IInv'
<1> USE DEF IInv, CloseCall, listenerVars, syncVars, refreshVars
<1>1. TypeOK'
  BY DEF TypeOK, MaybePacket
<1>2. Working'
  BY DEF Working, TypeOK
<1>3. Calls'
  BY DEF Calls, TypeOK, Working
<1>4. Refreshing'
  BY DEF Refreshing, TypeOK, Working
<1>5. Syncing'
  BY DEF Syncing, TypeOK, Working
<1>6. CachedAddresses'
  BY DEF CachedAddresses, TypeOK
<1>7. OneAnswer' /\ AnswersOwnQuery'
  BY NoReply
<1> QED
  BY <1>1, <1>2, <1>3, <1>4, <1>5, <1>6, <1>7

LEMMA AnswerSyncStep ==
  ASSUME IInv, NEW q \in Query, NEW some \in BOOLEAN, AnswerSync(q, some)
  PROVE  IInv'
<1> USE DEF IInv, AnswerSync, listenerVars, callVars, refreshVars
<1>1. TypeOK'
  BY PacketTypes DEF TypeOK, MaybePacket
<1>2. Working'
  BY DEF Working, TypeOK
<1>3. Calls'
  BY DEF Calls, TypeOK, Working
<1>4. Refreshing'
  BY DEF Refreshing, TypeOK, Working
<1>5. Syncing'
  <2>1. q \in synced /\ owed' \subseteq synced /\ UNCHANGED <<synced, bound, at, cur>>
    BY DEF Syncing
  <2>2. AnswerTo(q, some).id = IdOf[q] /\ Answers(AnswerTo(q, some), q)
    BY DEF Answers, AnswerTo
  <2>3. \A p \in arrived' : \E r \in synced : p.id = IdOf[r] /\ Answers(p, r)
    BY <2>1, <2>2 DEF Syncing
  <2> QED
    BY <2>1, <2>3 DEF Syncing
<1>6. CachedAddresses'
  BY DEF CachedAddresses, TypeOK
<1>7. OneAnswer' /\ AnswersOwnQuery'
  BY NoReply
<1> QED
  BY <1>1, <1>2, <1>3, <1>4, <1>5, <1>6, <1>7

LEMMA AnswerRefreshStep ==
  ASSUME IInv, NEW q \in Query, NEW some \in BOOLEAN, AnswerRefresh(q, some)
  PROVE  IInv'
<1> USE DEF IInv, AnswerRefresh, listenerVars, callVars, syncVars
<1>1. TypeOK'
  BY PacketTypes DEF TypeOK, MaybePacket
<1>2. Working'
  BY DEF Working, TypeOK
<1>3. Calls'
  BY DEF Calls, TypeOK, Working
<1>4. Refreshing'
  BY DEF Refreshing, TypeOK, AnswerTo
<1>5. Syncing'
  BY DEF Syncing, TypeOK, Working
<1>6. CachedAddresses'
  BY DEF CachedAddresses, TypeOK
<1>7. OneAnswer' /\ AnswersOwnQuery'
  BY NoReply
<1> QED
  BY <1>1, <1>2, <1>3, <1>4, <1>5, <1>6, <1>7

LEMMA SyncRecvStep ==
  ASSUME IInv, NEW p \in arrived, SyncRecv(p)
  PROVE  IInv'
<1>1. cur \in Query /\ sent[cur] = <<>> /\ p \in Packet
  BY DEF IInv, SyncRecv, TypeOK, Working
<1>2. UNCHANGED <<bound, attachdch, todo, dnscache, callVars, synced, owed, refreshVars>>
      /\ arrived' = arrived \ {p}
  BY DEF SyncRecv
<1>3. CASE p.id # IdOf[cur]
  <2>1. UNCHANGED <<sent, cur, at>>
    BY <1>3 DEF SyncRecv
  <2>2. TypeOK'
    BY <1>2, <2>1 DEF IInv, TypeOK, callVars, refreshVars
  <2>3. Working' /\ Calls' /\ Refreshing' /\ CachedAddresses'
    BY <1>2, <2>1 DEF IInv, Working, Calls, Refreshing, CachedAddresses, callVars, refreshVars
  <2>4. Syncing'
    BY <1>2, <2>1 DEF IInv, Syncing
  <2>5. OneAnswer' /\ AnswersOwnQuery'
    BY <1>2, <2>1, NoReply DEF IInv
  <2> QED
    BY <2>2, <2>3, <2>4, <2>5 DEF IInv
<1>4. CASE p.id = IdOf[cur]
  <2>1. Reply(p) /\ Return
    BY <1>4 DEF SyncRecv
  <2>2. cur \in synced
    BY DEF IInv, SyncRecv, Syncing
  <2>3. AnswerFor(p, cur, synced)
    BY <1>4, <2>2 DEF IInv, Syncing, AnswerFor
  <2>4. Replied(cur, p)
    BY <1>1, <2>1 DEF Reply, Replied
  <2>5. /\ sent' \in [Query -> Seq(Packet)]
        /\ \A r \in Query : r # cur => sent'[r] = sent[r]
        /\ OneAnswer' /\ AnswersOwnQuery'
    BY <1>1, <1>2, <2>3, <2>4, ReplyOnce DEF IInv
  <2>6. TypeOK'
    BY <1>2, <2>1, <2>5 DEF IInv, TypeOK, Return, callVars, refreshVars
  <2>7. Working'
    <3>1. cur' = None /\ at' = "idle" /\ UNCHANGED <<todo, call>>
      BY <1>2, <2>1 DEF Return, callVars
    <3>2. \A q \in todo : q # cur
      BY DEF IInv, Working
    <3> QED
      BY <1>1, <2>5, <3>1, <3>2 DEF IInv, TypeOK, Working
  <2>8. Calls'
    BY <1>1, <1>2, <2>5 DEF IInv, Calls, Working, callVars
  <2>9. Refreshing' /\ CachedAddresses'
    BY <1>2 DEF IInv, Refreshing, CachedAddresses, refreshVars
  <2>10. Syncing'
    BY <1>2, <2>1 DEF IInv, Syncing, Return
  <2> QED
    BY <2>5, <2>6, <2>7, <2>8, <2>9, <2>10 DEF IInv
<1> QED
  BY <1>3, <1>4

-----------------------------------------------------------------------------
(* The theorems.                                                           *)

LEMMA InitInv == Init => IInv
<1> SUFFICES ASSUME Init
             PROVE  IInv
  OBVIOUS
<1>1. TypeOK
  <2>1. <<>> \in Seq(Packet)
    OBVIOUS
  <2> QED
    BY <2>1 DEF Init, TypeOK, MaybePacket
<1>2. Working /\ Calls /\ Refreshing /\ Syncing /\ CachedAddresses
  BY DEF Init, Working, Calls, Refreshing, Syncing, CachedAddresses
<1>3. OneAnswer /\ AnswersOwnQuery
  BY DEF Init, OneAnswer, AnswersOwnQuery
<1> QED
  BY <1>1, <1>2, <1>3 DEF IInv

LEMMA StutterInv == IInv /\ UNCHANGED vars => IInv'
<1> SUFFICES ASSUME IInv, UNCHANGED vars
             PROVE  IInv'
  OBVIOUS
<1> USE DEF vars, listenerVars, callVars, syncVars, refreshVars
<1>1. TypeOK' /\ Working'
  BY DEF IInv, TypeOK, Working
<1>2. Calls' /\ Refreshing' /\ Syncing' /\ CachedAddresses'
  BY DEF IInv, Calls, Refreshing, Syncing, CachedAddresses
<1>3. OneAnswer' /\ AnswersOwnQuery'
  BY NoReply DEF IInv
<1> QED
  BY <1>1, <1>2, <1>3 DEF IInv

LEMMA NextInv == IInv /\ [Next]_vars => IInv'
<1> SUFFICES ASSUME IInv, [Next]_vars
             PROVE  IInv'
  OBVIOUS
<1>1. ASSUME NEW q \in Query, Receive(q)
      PROVE  IInv'
  BY <1>1, ReceiveStep
<1>2. CASE Listener
  BY <1>2, FindHitStep, CopyOutStep, FindMissStep, OpenCallStep, OpenCallFailsStep,
     OpenNoCacheStep, OpenNoCacheFailsStep, SyncSendStep, SyncTimeoutStep, SyncRecvStep
  DEF Listener
<1>3. ASSUME NEW q \in Query, CallThread(q)
      PROVE  IInv'
  BY <1>3, HearCallStep, StoreCallStep DEF CallThread
<1>4. CASE RefreshThread
  BY <1>4, StoreRefreshStep, HearRefreshStep DEF RefreshThread
<1>5. CASE Upstream
  BY <1>5, CloseCallStep, AnswerCallStep, AnswerSyncStep, AnswerRefreshStep DEF Upstream
<1>6. CASE UNCHANGED vars
  BY <1>6, StutterInv
<1> QED
  BY <1>1, <1>2, <1>3, <1>4, <1>5, <1>6 DEF Next

\* The strengthened invariant holds of every behaviour.
THEOREM InvariantHolds == Spec => []IInv
<1>1. Init => IInv
  BY InitInv
<1>2. IInv /\ [Next]_vars => IInv'
  BY NextInv
<1> QED
  BY <1>1, <1>2, PTL DEF Spec

\* Variables keep their types.
THEOREM TypeCorrect == Spec => []TypeOK
<1>1. IInv => TypeOK
  BY DEF IInv
<1> QED
  BY <1>1, InvariantHolds, PTL

\* What onrequest and the other threads send a client answers its query.
THEOREM AnswersAreDue == Spec => []AnswersOwnQuery
<1>1. IInv => AnswersOwnQuery
  BY DEF IInv
<1> QED
  BY <1>1, InvariantHolds, PTL

\* No client is answered twice, by whichever of the four ways.
THEOREM AnsweredOnce == Spec => []OneAnswer
<1>1. IInv => OneAnswer
  BY DEF IInv
<1> QED
  BY <1>1, InvariantHolds, PTL

\* The cache, whose key is a name alone, holds the addresses of that name.
THEOREM CacheIsRight == Spec => []CachedAddresses
<1>1. IInv => CachedAddresses
  BY DEF IInv
<1> QED
  BY <1>1, InvariantHolds, PTL
=============================================================================
