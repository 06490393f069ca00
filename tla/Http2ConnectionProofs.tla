------------------------- MODULE Http2ConnectionProofs -------------------------
(***************************************************************************)
(* What Http2Connection promises, proved for every number of streams, with *)
(* every kind of requests, every size of the answers and of the window.    *)
(***************************************************************************)
EXTENDS Http2Connection, TLAPS

Frames == Seq(SUBSET Part)
States == {"idle", "open", "body", "ended", "submitted", "sending", "closed", "reset"}

\* The objects that all streams share, and what is known of each stream.
ObjectsOK ==
  /\ request \subseteq Part /\ header \subseteq Part /\ body \in Frames
  /\ pri_ss \in {"0", "nobody", "need_body"} /\ close \in BOOLEAN
Others ==
  /\ pc \in {"recv", "send", "closed"} /\ credit \in 0..Window /\ settings \in {"queued", "sent", "acked"}
  /\ answer \in [Stream -> [header : SUBSET Part, data : Frames]] /\ disturbed \subseteq Stream
CallsOK == calls \in [Stream -> Seq(Nat)]
AsyncsOK ==
  /\ asyncs \in [started : 0..MaxAsync, open : 0..MaxAsync] /\ asyncs.open <= asyncs.started

LEMMA Types ==
  TypeOK <=> /\ ObjectsOK /\ CallsOK /\ AsyncsOK /\ stained \in BOOLEAN
             /\ stream \in [Stream -> States] /\ closeconnect \in BOOLEAN /\ Others
BY DEF Others, TypeOK, ObjectsOK, CallsOK, AsyncsOK, Frames, States

LEMMA InitType == Init => TypeOK
<1> SUFFICES ASSUME Init PROVE TypeOK
  OBVIOUS
<1>1. <<>> \in Frames /\ <<>> \in Seq(Nat)
  BY DEF Frames
<1>2. credit \in 0..Window
  BY Http2Assumption DEF Init
<1>3. AsyncsOK
  BY Http2Assumption DEF Init, AsyncsOK
<1> QED BY <1>1, <1>2, <1>3, Types DEF Init, Others, States, ObjectsOK, CallsOK

LEMMA SendableType ==
  ASSUME NEW made \in SUBSET Part, NEW page \in BOOLEAN, NEW frames \in Frames
  PROVE  Sendable(made, page, frames) \in Frames
<1>1. <<>> \in Frames /\ <<made>> \in Frames
  BY DEF Frames
<1> QED BY <1>1 DEF Sendable

LEMMA SendableLen ==
  ASSUME NEW made, NEW page \in BOOLEAN, NEW n \in 0..MaxBody
  PROVE  Len(Sendable(made, page, [i \in 1..n |-> made])) \in Nat
<1>1. Len(<<>>) \in Nat /\ Len(<<made>>) \in Nat /\ Len([i \in 1..n |-> made]) \in Nat
  <2>1. [i \in 1..n |-> made] \in Seq({made})
    OBVIOUS
  <2> QED BY <2>1
<1> QED BY <1>1 DEF Sendable

\* The selectors add frames to the body and to what is known of the streams whose heads are there.
LEMMA CallType ==
  ASSUME ObjectsOK, CallsOK, AsyncsOK, NEW made \in SUBSET Part, Call(made), request' = made
  PROVE  ObjectsOK' /\ CallsOK' /\ AsyncsOK'
<1>1. PICK n \in 0..MaxBody, page \in BOOLEAN :
        LET own == [i \in 1..n |-> made] IN
          /\ close' \in BOOLEAN
          /\ Finish(made, page, body \o own)
          /\ calls' = [s \in Stream |->
                        IF <<s, "head">> \in made
                          THEN Append(calls[s], Len(Sendable(made, page, own))) ELSE calls[s]]
  BY DEF Call
<1> DEFINE own == [i \in 1..n |-> made]
<1>2. body \o own \in Frames
  <2>1. own \in Frames
    BY DEF Frames
  <2> QED BY <2>1 DEF ObjectsOK, Frames
<1>3. Sendable(made, page, body \o own) \in Frames
  BY <1>2, SendableType
<1>4. Len(Sendable(made, page, own)) \in Nat
  BY SendableLen
<1>5. Finish(made, page, body \o own)
  BY <1>1
<1>6. body' \in Frames /\ header' \subseteq Part /\ pri_ss' \in {"0", "nobody", "need_body"}
  <2> HIDE DEF own
  <2> QED BY <1>2, <1>3, <1>5 DEF Finish, ObjectsOK
<1>7. CallsOK'
  <2> SUFFICES ASSUME NEW s \in Stream
               PROVE  (IF <<s, "head">> \in made
                         THEN Append(calls[s], Len(Sendable(made, page, own))) ELSE calls[s]) \in Seq(Nat)
    BY <1>1 DEF CallsOK
  <2>1. calls[s] \in Seq(Nat)
    BY DEF CallsOK
  <2> QED BY <1>4, <2>1
<1>8. AsyncsOK'
  <2>1. asyncs' = asyncs \/ CallAsync
    BY DEF Call
  <2>2. CASE asyncs' = asyncs
    BY <2>2 DEF AsyncsOK
  <2>3. CASE CallAsync
    <3>1. asyncs.started \in Nat /\ asyncs.open \in Nat /\ asyncs.open <= asyncs.started /\ MaxAsync \in Nat
      BY Http2Assumption DEF AsyncsOK
    <3>2. asyncs.started + 1 \in 0..MaxAsync /\ asyncs.open + 1 \in 0..MaxAsync
          /\ asyncs.open + 1 <= asyncs.started + 1
      BY <2>3, <3>1 DEF CallAsync
    <3> QED BY <2>3, <3>2 DEF CallAsync, AsyncsOK
  <2> QED BY <2>1, <2>2, <2>3
<1> QED BY <1>1, <1>6, <1>7, <1>8 DEF ObjectsOK

LEMMA EndStreamType ==
  ASSUME TypeOK, NEW parts \in SUBSET Part, NEW streams \in [Stream -> States], NEW id \in Nat,
         EndStream(parts, streams, id)
  PROVE  /\ ObjectsOK' /\ CallsOK' /\ AsyncsOK'
         /\ stream' \in [Stream -> States] /\ pc' \in {"recv", "send", "closed"}
<1>1. ObjectsOK /\ CallsOK /\ AsyncsOK /\ pc \in {"recv", "send", "closed"} /\ request' = parts
  BY Types DEF EndStream, Others
<1>2. CASE NoHead(parts)
  <2>1. UNCHANGED <<header, body, pri_ss, close, calls, pc, asyncs>> /\ stream' = streams
    BY <1>2 DEF EndStream
  <2> QED BY <1>1, <2>1 DEF ObjectsOK, CallsOK, AsyncsOK
<1>3. CASE ~NoHead(parts)
  <2>1. /\ Call(parts) /\ pc' = "send"
        /\ stream' = IF id = 0 THEN streams ELSE [streams EXCEPT ![id] = "submitted"]
    BY <1>3 DEF EndStream
  <2>2. stream' \in [Stream -> States]
    BY <2>1 DEF States
  <2> QED BY <1>1, <2>1, <2>2, CallType
<1> QED BY <1>2, <1>3

LEMMA FrameType ==
  ASSUME TypeOK, NEW s \in Stream, NEW end \in BOOLEAN, NEW part \in SUBSET Part, Frame(s, end, part)
  PROVE  /\ ObjectsOK' /\ CallsOK' /\ AsyncsOK'
         /\ stream' \in [Stream -> States] /\ pc' \in {"recv", "send", "closed"}
<1>1. ObjectsOK /\ CallsOK /\ AsyncsOK /\ stream \in [Stream -> States] /\ pc \in {"recv", "send", "closed"}
  BY Types DEF Others
<1>2. request \cup part \in SUBSET Part
  BY <1>1 DEF ObjectsOK
<1>3. CASE end
  <2>1. [stream EXCEPT ![s] = "ended"] \in [Stream -> States] /\ s \in Nat
    BY <1>1 DEF States, Stream
  <2>2. EndStream(request \cup part, [stream EXCEPT ![s] = "ended"], s)
    BY <1>3 DEF Frame
  <2> QED BY <1>2, <2>1, <2>2, EndStreamType
<1>4. CASE ~end
  <2>1. /\ request' = request \cup part /\ UNCHANGED <<header, body, pri_ss, close, calls, pc, asyncs>>
        /\ stream' = [stream EXCEPT ![s] = IF stream[s] = "idle" THEN "open" ELSE "body"]
    BY <1>4 DEF Frame
  <2>2. stream' \in [Stream -> States]
    BY <1>1, <2>1 DEF States
  <2> QED BY <1>1, <1>2, <2>1, <2>2 DEF ObjectsOK, CallsOK, AsyncsOK
<1> QED BY <1>3, <1>4

LEMMA CloseType ==
  ASSUME TypeOK, NEW s \in Stream, NEW how \in {"closed", "reset"}, OnStreamClose(s, how)
  PROVE  ObjectsOK' /\ stream' \in [Stream -> States] /\ closeconnect' \in BOOLEAN /\ stained' \in BOOLEAN
<1>1. /\ ObjectsOK /\ stream \in [Stream -> States] /\ closeconnect \in BOOLEAN /\ close \in BOOLEAN
      /\ stained \in BOOLEAN
  BY Types DEF ObjectsOK
<1>2. stream' \in [Stream -> States]
  BY <1>1 DEF OnStreamClose, States
<1>3. CASE close
  BY <1>1, <1>2, <1>3 DEF OnStreamClose, ObjectsOK
<1>4. CASE ~close
  <2>1. <<>> \in Frames
    BY DEF Frames
  <2> QED BY <1>1, <1>2, <1>4, <2>1 DEF OnStreamClose, Reset, ObjectsOK
<1> QED BY <1>3, <1>4

LEMMA StepType == TypeOK /\ [Next]_vars => TypeOK'
<1> SUFFICES ASSUME TypeOK, [Next]_vars PROVE TypeOK'
  OBVIOUS
<1>0. /\ ObjectsOK' /\ CallsOK' /\ AsyncsOK' /\ stained' \in BOOLEAN
      /\ stream' \in [Stream -> States] /\ closeconnect' \in BOOLEAN /\ Others'
      => TypeOK'
  BY DEF TypeOK, ObjectsOK, CallsOK, AsyncsOK, Frames, States, Others
<1>1. /\ ObjectsOK /\ CallsOK /\ AsyncsOK /\ stained \in BOOLEAN /\ stream \in [Stream -> States] /\ closeconnect \in BOOLEAN /\ Others
      /\ Open \subseteq Stream
  BY Types DEF Open, Others
<1>2. ASSUME NEW s \in Stream, RecvHeaders(s) PROVE TypeOK'
  <2>1. {<<s, "head">>} \in SUBSET Part /\ (s \notin Posts) \in BOOLEAN /\ Frame(s, s \notin Posts, {<<s, "head">>})
    BY <1>2 DEF Part, RecvHeaders
  <2>2. /\ ObjectsOK' /\ CallsOK' /\ AsyncsOK'
        /\ stream' \in [Stream -> States] /\ pc' \in {"recv", "send", "closed"}
    BY <2>1, FrameType
  <2>3. disturbed' \subseteq Stream
    BY <1>1, <1>2 DEF RecvHeaders, Disturbs, Others
  <2> QED BY <1>1, <1>2, <2>2, <2>3, <1>0 DEF Others, RecvHeaders
<1>3. ASSUME NEW s \in Stream, NEW end \in BOOLEAN, RecvData(s, end) PROVE TypeOK'
  <2>1. {<<s, "body">>} \in SUBSET Part /\ Frame(s, end, {<<s, "body">>})
    BY <1>3 DEF Part, RecvData
  <2>2. /\ ObjectsOK' /\ CallsOK' /\ AsyncsOK'
        /\ stream' \in [Stream -> States] /\ pc' \in {"recv", "send", "closed"}
    BY <2>1, FrameType
  <2> QED BY <1>1, <1>3, <2>2, <1>0 DEF Others, RecvData
<1>4. ASSUME NEW s \in Stream, RecvEnd(s) PROVE TypeOK'
  <2>1. {} \in SUBSET Part /\ TRUE \in BOOLEAN /\ Frame(s, TRUE, {})
    BY <1>4 DEF RecvEnd
  <2>2. /\ ObjectsOK' /\ CallsOK' /\ AsyncsOK'
        /\ stream' \in [Stream -> States] /\ pc' \in {"recv", "send", "closed"}
    BY <2>1, FrameType
  <2> QED BY <1>1, <1>4, <2>2, <1>0 DEF Others, RecvEnd
<1>5. CASE RecvSettingsAck
  <2>1. request \in SUBSET Part /\ 0 \in Nat /\ EndStream(request, stream, 0)
    BY <1>1, <1>5 DEF RecvSettingsAck, ObjectsOK
  <2>2. /\ ObjectsOK' /\ CallsOK' /\ AsyncsOK'
        /\ stream' \in [Stream -> States] /\ pc' \in {"recv", "send", "closed"}
    BY <1>1, <2>1, EndStreamType
  <2> QED BY <1>1, <1>5, <2>2, <1>0 DEF Others, RecvSettingsAck
<1>6. CASE RecvWindowUpdate
  <2>1. ObjectsOK' /\ CallsOK' /\ AsyncsOK' /\ Window \in 0..Window
    BY <1>1, <1>6, Http2Assumption DEF RecvWindowUpdate, response, Others, ObjectsOK, CallsOK, AsyncsOK
  <2> QED BY <1>1, <1>6, <2>1, <1>0 DEF Others, RecvWindowUpdate
<1>7. ASSUME NEW s \in Stream, RecvRstStream(s) PROVE TypeOK'
  <2>1. ObjectsOK' /\ stream' \in [Stream -> States] /\ closeconnect' \in BOOLEAN /\ stained' \in BOOLEAN
    BY <1>7, CloseType DEF RecvRstStream
  <2>2. CallsOK' /\ AsyncsOK'
    BY <1>1, <1>7 DEF RecvRstStream, CallsOK, AsyncsOK
  <2> QED BY <1>1, <1>7, <2>1, <2>2, <1>0 DEF Others, RecvRstStream
<1>8. CASE CloseConnection \/ SendDone \/ UNCHANGED vars
  <2>1. ObjectsOK' /\ CallsOK' /\ AsyncsOK'
    BY <1>1, <1>8 DEF CloseConnection, SendDone, vars, response, ObjectsOK, CallsOK, AsyncsOK
  <2> QED BY <1>1, <1>8, <2>1, <1>0 DEF Others, CloseConnection, SendDone, vars, response
<1>9. ASSUME NEW s \in Stream, SendHeaders(s) PROVE TypeOK'
  <2>1. ObjectsOK' /\ stream' \in [Stream -> States] /\ closeconnect' \in BOOLEAN /\ stained' \in BOOLEAN
    <3>1. CASE body = <<>>
      BY <1>9, <3>1, CloseType DEF SendHeaders
    <3>2. CASE body # <<>>
      BY <1>1, <1>9, <3>2 DEF SendHeaders, response, ObjectsOK, States
    <3> QED BY <3>1, <3>2
  <2>2. CallsOK' /\ AsyncsOK' /\ settings' \in {"queued", "sent", "acked"}
    BY <1>1, <1>9 DEF SendHeaders, CallsOK, AsyncsOK, Others
  <2>3. answer' \in [Stream -> [header : SUBSET Part, data : Frames]]
    BY <1>1, <1>9 DEF SendHeaders, ObjectsOK, Others
  <2> QED BY <1>1, <1>9, <2>1, <2>2, <2>3, <1>0 DEF Others, SendHeaders
<1>10. ASSUME NEW s \in Stream, SendLast(s) PROVE TypeOK'
  <2>1. ObjectsOK' /\ stream' \in [Stream -> States] /\ closeconnect' \in BOOLEAN /\ stained' \in BOOLEAN
    BY <1>10, CloseType DEF SendLast
  <2>2. CallsOK' /\ AsyncsOK' /\ credit' \in 0..Window
    BY <1>1, <1>10, Http2Assumption DEF SendLast, DataDue, CallsOK, AsyncsOK, Others
  <2>3. answer' \in [Stream -> [header : SUBSET Part, data : Frames]]
    <3>1. answer[s].data \o body \in Frames
      BY <1>1 DEF ObjectsOK, Frames, Others
    <3> QED BY <1>1, <1>10, <3>1 DEF SendLast, Others
  <2> QED BY <1>1, <1>10, <2>1, <2>2, <2>3, <1>0 DEF Others, SendLast
<1>11. ASSUME NEW s \in Stream, SendData(s) PROVE TypeOK'
  <2>1. body \in Frames /\ body # <<>>
    BY <1>1, <1>11 DEF ObjectsOK, SendData, Frames
  <2>2. Head(body) \in SUBSET Part /\ Tail(body) \in Frames
    BY <2>1 DEF Frames
  <2>3. ObjectsOK' /\ CallsOK' /\ AsyncsOK'
    BY <1>1, <1>11, <2>2 DEF SendData, ObjectsOK, CallsOK, AsyncsOK
  <2>4. credit' \in 0..Window
    BY <1>1, <1>11, Http2Assumption DEF SendData, DataDue, Others
  <2>5. answer' \in [Stream -> [header : SUBSET Part, data : Frames]]
    <3>1. Append(answer[s].data, Head(body)) \in Frames
      BY <1>1, <2>2 DEF Frames, Others
    <3> QED BY <1>1, <1>11, <3>1 DEF SendData, Others
  <2> QED BY <1>1, <1>11, <2>3, <2>4, <2>5, <1>0 DEF Others, SendData
<1>12. CASE NotifyIn
  <2>1. ObjectsOK' /\ disturbed' \subseteq Stream /\ stained' \in BOOLEAN
    <3>1. CASE UNCHANGED <<response, stained, disturbed>>
      BY <1>1, <3>1 DEF response, ObjectsOK, Others
    <3>2. CASE ~UNCHANGED <<response, stained, disturbed>>
      <4> DEFINE made == {Foreign} \cup {k \in request : k[2] # "head"}
      <4>1. /\ request' = made /\ close' \in BOOLEAN /\ stained' = TRUE
            /\ disturbed' = disturbed \cup Open /\ UNCHANGED <<header, pri_ss>>
            /\ \E n \in 0..MaxBody : body' = body \o [i \in 1..n |-> made]
        BY <1>12, <3>2 DEF NotifyIn
      <4>2. made \in SUBSET Part
        BY <1>1 DEF ObjectsOK, Part
      <4>3. PICK n \in 0..MaxBody : body' = body \o [i \in 1..n |-> made]
        BY <4>1
      <4> HIDE DEF made
      <4>4. body' \in Frames
        <5>1. [i \in 1..n |-> made] \in Frames
          BY <4>2 DEF Frames
        <5>2. body \in Seq(SUBSET Part) /\ [i \in 1..n |-> made] \in Seq(SUBSET Part)
          BY <1>1, <5>1 DEF ObjectsOK, Frames
        <5>3. body \o [i \in 1..n |-> made] \in Seq(SUBSET Part)
          BY ONLY <5>2
        <5> QED BY <4>3, <5>3 DEF Frames
      <4> QED BY <1>1, <4>1, <4>2, <4>4 DEF ObjectsOK, Others
    <3> QED BY <3>1, <3>2
  <2>2. AsyncsOK'
    <3>1. asyncs' = [asyncs EXCEPT !.open = @ - 1] /\ asyncs.open > 0
      BY <1>12 DEF NotifyIn
    <3>2. asyncs.started \in Nat /\ asyncs.open \in Nat /\ asyncs.open <= asyncs.started /\ MaxAsync \in Nat
      BY <1>1, Http2Assumption DEF AsyncsOK
    <3> QED BY <1>1, <3>1, <3>2 DEF AsyncsOK
  <2>3. UNCHANGED <<stream, closeconnect, pc, credit, settings, answer, calls>>
    BY <1>12 DEF NotifyIn
  <2> QED BY <1>1, <2>1, <2>2, <2>3, <1>0 DEF Others, CallsOK
<1> QED
  BY <1>12, <1>2, <1>3, <1>4, <1>5, <1>6, <1>7, <1>8, <1>9, <1>10, <1>11 DEF Next, Client, Server

\* The variables keep the values that the adapter gives them, whatever frames arrive in whatever order.
THEOREM TypeCorrect == Spec => []TypeOK
BY InitType, StepType, PTL DEF Spec

----------------------------------------------------------------------------
(* OwnAnswer *)

\* Frames made of one request.
AllOf(frames, made) == \A i \in DOMAIN frames : frames[i] = made

\* Nothing of an answer is in the objects.
Clean == header = {} /\ body = <<>> /\ pri_ss = "0" /\ ~close

Alone(s) == s \in Stream \ disturbed /\ Alive(s)

\* A stream that is alone is the only one ...
Single == \A s \in Stream : Alone(s) => (\A t \in Stream : Alive(t) => t = s) /\ ~closeconnect
\* ... found the objects empty ...
Empty == (\A t \in Stream : ~Alive(t)) /\ ~closeconnect /\ ~stained => request = {} /\ Clean
\* ... and finds in them what is its own.
Own(s) ==
  /\ stream[s] # "ended"
  /\ stream[s] \in {"open", "body"} => s \in Posts
  /\ stream[s] = "open" => request = {<<s, "head">>} /\ Clean
  /\ stream[s] = "body" => request = Whole(s) /\ Clean
  /\ stream[s] \in {"submitted", "sending"} => header = Whole(s) /\ AllOf(body, Whole(s))
Owns == \A s \in Stream : Alone(s) => Own(s)
Inv == Single /\ Empty /\ Owns /\ OwnAnswer

LEMMA InitInv == Init => Inv
BY DEF Init, Inv, Single, Empty, Owns, OwnAnswer, Alone, Alive, Clean

LEMMA WholeHead == ASSUME NEW s \in Stream PROVE <<s, "head">> \in Whole(s) /\ Whole(s) \in SUBSET Part
BY DEF Whole, Part

LEMMA WholeNotEmpty == ASSUME NEW s \in Stream PROVE ~NoHead(Whole(s))
BY WholeHead DEF NoHead

\* From empty objects the selectors make an answer to the request alone.
LEMMA CallOwn ==
  ASSUME Clean, NEW made \in SUBSET Part, Call(made)
  PROVE  header' = made /\ AllOf(body', made)
<1>1. PICK n \in 0..MaxBody, page \in BOOLEAN : Finish(made, page, body \o [i \in 1..n |-> made])
  BY DEF Call
<1> DEFINE own == [i \in 1..n |-> made]
<1>2. body \o own \in Seq({made}) /\ AllOf(body \o own, made)
  <2>1. own \in Seq({made}) /\ body \in Seq({made})
    BY DEF Clean
  <2>2. body \o own \in Seq({made})
    BY <2>1
  <2> QED BY <2>2 DEF AllOf
<1>3. AllOf(Sendable(made, page, body \o own), made)
  <2>1. AllOf(<<>>, made) /\ AllOf(<<made>>, made)
    BY DEF AllOf
  <2> QED BY <1>2, <2>1 DEF Sendable
<1>4. header' = header \cup made /\ body' = Sendable(made, page, body \o own)
  BY <1>1 DEF Finish, Clean
<1> QED BY <1>3, <1>4 DEF Clean

\* The end of its request gives the stream that is alone an answer of its own.
LEMMA EndOwn ==
  ASSUME Clean, NEW s \in Stream, NEW streams \in [Stream -> States], EndStream(Whole(s), streams, s)
  PROVE  /\ stream' = [streams EXCEPT ![s] = "submitted"]
         /\ header' = Whole(s) /\ AllOf(body', Whole(s))
<1>1. s # 0
  BY Http2Assumption DEF Stream
<1>2. Call(Whole(s)) /\ stream' = [streams EXCEPT ![s] = "submitted"]
  BY <1>1, WholeNotEmpty DEF EndStream
<1> QED BY <1>2, CallOwn, WholeHead

\* When a stream closes no stream is alone, and the objects are empty or the connection is to be closed.
LEMMA CloseInv ==
  ASSUME TypeOK, Inv, NEW t \in Stream, Alive(t), NEW how \in {"closed", "reset"}, OnStreamClose(t, how),
         disturbed' = disturbed
  PROVE  Single' /\ Empty' /\ Owns'
<1>1. stream' = [stream EXCEPT ![t] = how] /\ stream \in [Stream -> States]
  BY Types DEF OnStreamClose
<1>2. ~Alive(t)' /\ \A s \in Stream : s # t => (Alive(s)' <=> Alive(s))
  BY <1>1 DEF Alive, States
<1>3. \A s \in Stream : ~Alone(s)'
  BY <1>2 DEF Alone, Inv, Single
<1>4. Empty'
  BY DEF OnStreamClose, Reset, Empty, Clean
<1> QED BY <1>3, <1>4 DEF Single, Owns

\* A frame on an open stream: if that stream is alone it goes on with its own.
LEMMA FrameInv ==
  ASSUME TypeOK, Inv, NEW t \in Stream, stream[t] \in {"open", "body"}, NEW end \in BOOLEAN,
         NEW part \in SUBSET {<<t, "body">>}, stream[t] = "open" => part = {<<t, "body">>},
         Frame(t, end, part), UNCHANGED <<closeconnect, stained, disturbed, answer>>
  PROVE  Inv'
<1>1. stream \in [Stream -> States] /\ Alive(t)
  BY Types DEF Alive
<1>2. stream'[t] \in {"body", "ended", "submitted"} /\ \A s \in Stream : s # t => stream'[s] = stream[s]
  <2>1. t # 0
    BY Http2Assumption DEF Stream
  <2> QED BY <1>1, <2>1 DEF Frame, EndStream, States
<1>3. Alive(t)' /\ \A s \in Stream : Alive(s)' <=> Alive(s)
  BY <1>1, <1>2 DEF Alive
<1>4. Single' /\ Empty' /\ OwnAnswer'
  BY <1>3 DEF Inv, Single, Empty, Alone, OwnAnswer
<1>5. Owns'
  <2> SUFFICES ASSUME NEW s \in Stream, Alone(s)' PROVE Own(s)'
    BY DEF Owns
  <2>1. s = t /\ Alone(t)
    BY <1>1, <1>3 DEF Inv, Single, Alone
  <2>2. Clean /\ t \in Posts /\ request \cup part = Whole(t)
    <3>1. Own(t)
      BY <2>1 DEF Inv, Owns
    <3>2. Clean /\ t \in Posts /\ Whole(t) = {<<t, "head">>, <<t, "body">>}
      BY <3>1 DEF Own, Whole
    <3>3. CASE stream[t] = "open"
      BY <3>1, <3>2, <3>3 DEF Own
    <3>4. CASE stream[t] = "body"
      BY <3>1, <3>2, <3>4 DEF Own
    <3> QED BY <3>2, <3>3, <3>4
  <2>3. CASE end
    <3>1. EndStream(Whole(t), [stream EXCEPT ![t] = "ended"], t) /\ [stream EXCEPT ![t] = "ended"] \in [Stream -> States]
      BY <1>1, <2>2, <2>3 DEF Frame, States
    <3>2. stream'[t] = "submitted" /\ header' = Whole(t) /\ AllOf(body', Whole(t))
      BY <1>1, <2>2, <3>1, EndOwn
    <3> QED BY <2>1, <3>2 DEF Own
  <2>4. CASE ~end
    <3>1. stream'[t] = "body" /\ request' = Whole(t) /\ UNCHANGED <<header, body, pri_ss, close>>
      BY <1>1, <2>2, <2>4 DEF Frame
    <3> QED BY <2>1, <2>2, <3>1 DEF Own, Clean
  <2> QED BY <2>3, <2>4
<1> QED BY <1>4, <1>5 DEF Inv

LEMMA HeadersInv == ASSUME TypeOK, Inv, NEW t \in Stream, RecvHeaders(t) PROVE Inv'
<1>1. /\ stream \in [Stream -> States] /\ stream[t] = "idle" /\ Disturbs(t)
      /\ Frame(t, t \notin Posts, {<<t, "head">>}) /\ UNCHANGED <<closeconnect, stained, answer>>
  BY Types DEF RecvHeaders
<1>2. stream'[t] \in {"open", "ended", "submitted"} /\ \A s \in Stream : s # t => stream'[s] = stream[s]
  <2>1. t # 0
    BY Http2Assumption DEF Stream
  <2> QED BY <1>1, <2>1 DEF Frame, EndStream, States
<1>3. Alive(t)' /\ \A s \in Stream : s # t => (Alive(s)' <=> Alive(s))
  BY <1>2 DEF Alive
<1>4. Empty'
  BY <1>3 DEF Empty
<1>5. OwnAnswer'
  BY <1>1 DEF Inv, OwnAnswer, Disturbs
<1>6. CASE Open = {} /\ ~closeconnect /\ ~stained
  <2>1. request = {} /\ Clean /\ \A s \in Stream : ~Alive(s)
    BY <1>6 DEF Inv, Empty, Open
  <2>2. Single'
    BY <1>1, <1>3, <1>6, <2>1 DEF Single, Alone
  <2>3. Own(t)'
    <3>1. CASE t \in Posts
      BY <1>1, <2>1, <3>1 DEF Frame, Own, Clean
    <3>2. CASE t \notin Posts
      <4>1. request \cup {<<t, "head">>} = Whole(t)
        BY <2>1, <3>2 DEF Whole
      <4>2. EndStream(Whole(t), [stream EXCEPT ![t] = "ended"], t) /\ [stream EXCEPT ![t] = "ended"] \in [Stream -> States]
        BY <1>1, <3>2, <4>1 DEF Frame, States
      <4>3. stream'[t] = "submitted" /\ header' = Whole(t) /\ AllOf(body', Whole(t))
        BY <1>1, <2>1, <4>2, EndOwn
      <4> QED BY <4>3 DEF Own
    <3> QED BY <3>1, <3>2
  <2>4. Owns'
    BY <1>3, <2>1, <2>3 DEF Owns, Alone
  <2> QED BY <1>4, <1>5, <2>2, <2>4 DEF Inv
<1>7. CASE ~(Open = {} /\ ~closeconnect /\ ~stained)
  <2>1. disturbed' = disturbed \cup Open \cup {t}
    BY <1>1, <1>7 DEF Disturbs
  <2>2. \A s \in Stream : ~Alone(s)'
    BY <1>3, <2>1 DEF Alone, Open
  <2> QED BY <1>4, <1>5, <2>2 DEF Inv, Single, Owns
<1> QED BY <1>6, <1>7

\* An acknowledgement calls the selectors only for a request that is open, which it disturbs.
LEMMA AckInv == ASSUME TypeOK, Inv, RecvSettingsAck PROVE Inv'
<1>1. /\ EndStream(request, stream, 0) /\ disturbed' = disturbed \cup Open
      /\ UNCHANGED <<closeconnect, stained, answer>>
  BY DEF RecvSettingsAck
<1>2. stream' = stream /\ request' = request
  BY <1>1 DEF EndStream
<1>3. \A s \in Stream : ~Alone(s)'
  BY <1>1, <1>2 DEF Alone, Open, Alive
<1>4. OwnAnswer'
  BY <1>1 DEF Inv, OwnAnswer
<1>5. Empty'
  <2> SUFFICES ASSUME \A t \in Stream : ~Alive(t), ~closeconnect, ~stained PROVE request' = {} /\ Clean'
    BY <1>1, <1>2 DEF Empty, Alive
  <2>1. request = {} /\ Clean
    BY DEF Inv, Empty
  <2>2. UNCHANGED <<header, body, pri_ss, close>>
    BY <1>1, <2>1 DEF EndStream, NoHead
  <2> QED BY <1>2, <2>1, <2>2 DEF Clean
<1> QED BY <1>3, <1>4, <1>5 DEF Inv, Single, Owns

LEMMA SendHeadersInv == ASSUME TypeOK, Inv, NEW t \in Stream, SendHeaders(t) PROVE Inv'
<1>1. /\ stream \in [Stream -> States] /\ stream[t] = "submitted" /\ disturbed' = disturbed
      /\ answer' = [answer EXCEPT ![t].header = header]
      /\ answer \in [Stream -> [header : SUBSET Part, data : Frames]]
  BY Types DEF SendHeaders, Others
<1>2. Alive(t)
  BY <1>1 DEF Alive
<1>3. OwnAnswer'
  <2> SUFFICES ASSUME NEW s \in Stream \ disturbed
               PROVE  /\ answer'[s].header \in {{}, Whole(s)}
                      /\ \A i \in DOMAIN answer'[s].data : answer'[s].data[i] = Whole(s)
    BY <1>1 DEF OwnAnswer
  <2>1. s # t => answer'[s] = answer[s]
    BY <1>1
  <2>2. s = t => answer'[s].header = header /\ answer'[s].data = answer[s].data
    BY <1>1
  <2>3. s = t => header = Whole(s)
    BY <1>1, <1>2 DEF Inv, Owns, Own, Alone
  <2> QED BY <2>1, <2>2, <2>3 DEF Inv, OwnAnswer
<1>4. CASE body = <<>>
  <2>1. OnStreamClose(t, "closed")
    BY <1>4 DEF SendHeaders
  <2> QED BY <1>1, <1>2, <1>3, <2>1, CloseInv DEF Inv
<1>5. CASE body # <<>>
  <2>1. /\ stream' = [stream EXCEPT ![t] = "sending"]
        /\ UNCHANGED <<request, header, body, pri_ss, close, closeconnect, stained>>
    BY <1>5 DEF SendHeaders, response
  <2>2. stream'[t] = "sending" /\ \A s \in Stream : s # t => stream'[s] = stream[s]
    BY <1>1, <2>1 DEF States
  <2>3. \A s \in Stream : Alive(s)' <=> Alive(s)
    BY <1>2, <2>2 DEF Alive
  <2>4. Single' /\ Empty'
    BY <1>1, <1>2, <2>1, <2>3 DEF Inv, Single, Empty, Alone, Clean
  <2>5. Owns'
    <3> SUFFICES ASSUME NEW s \in Stream, Alone(s)' PROVE Own(s)'
      BY DEF Owns
    <3>1. s = t /\ Alone(t)
      BY <1>1, <1>2, <2>3 DEF Inv, Single, Alone
    <3> QED BY <1>1, <2>1, <2>2, <3>1 DEF Inv, Owns, Own
  <2> QED BY <1>3, <2>4, <2>5 DEF Inv
<1> QED BY <1>4, <1>5

LEMMA SendLastInv == ASSUME TypeOK, Inv, NEW t \in Stream, SendLast(t) PROVE Inv'
<1>1. /\ stream[t] = "sending" /\ disturbed' = disturbed /\ OnStreamClose(t, "closed")
      /\ answer' = [answer EXCEPT ![t].data = @ \o body] /\ body \in Frames
      /\ answer \in [Stream -> [header : SUBSET Part, data : Frames]]
  BY Types DEF SendLast, DataDue, Others, ObjectsOK
<1>2. Alive(t)
  BY <1>1 DEF Alive
<1>3. OwnAnswer'
  <2> SUFFICES ASSUME NEW s \in Stream \ disturbed
               PROVE  /\ answer'[s].header \in {{}, Whole(s)}
                      /\ \A i \in DOMAIN answer'[s].data : answer'[s].data[i] = Whole(s)
    BY <1>1 DEF OwnAnswer
  <2>1. s # t => answer'[s] = answer[s]
    BY <1>1
  <2>2. s = t => answer'[s].header = answer[s].header /\ answer'[s].data = answer[s].data \o body
    BY <1>1
  <2>3. s = t => \A i \in DOMAIN (answer[s].data \o body) : (answer[s].data \o body)[i] = Whole(s)
    <3> SUFFICES ASSUME s = t PROVE \A i \in DOMAIN (answer[s].data \o body) : (answer[s].data \o body)[i] = Whole(s)
      OBVIOUS
    <3>1. AllOf(body, Whole(s)) /\ AllOf(answer[s].data, Whole(s))
      BY <1>1, <1>2 DEF Inv, Owns, Own, Alone, OwnAnswer, AllOf
    <3>2. answer[s].data \in Frames
      BY <1>1
    <3> QED BY <1>1, <3>1, <3>2 DEF AllOf, Frames
  <2> QED BY <2>1, <2>2, <2>3 DEF Inv, OwnAnswer
<1> QED BY <1>1, <1>2, <1>3, CloseInv DEF Inv

LEMMA SendDataInv == ASSUME TypeOK, Inv, NEW t \in Stream, SendData(t) PROVE Inv'
<1>1. /\ stream[t] = "sending" /\ body' = Tail(body) /\ body \in Frames /\ Len(body) > 1
      /\ UNCHANGED <<stream, request, header, pri_ss, close, closeconnect, stained, disturbed>>
      /\ answer' = [answer EXCEPT ![t].data = Append(@, Head(body))]
      /\ answer \in [Stream -> [header : SUBSET Part, data : Frames]]
  BY Types DEF SendData, DataDue, Others, ObjectsOK
<1>2. Alive(t) /\ \A s \in Stream : Alive(s)' <=> Alive(s)
  BY <1>1 DEF Alive
<1>3. \A s \in Stream : Alone(s) => s = t
  BY <1>2 DEF Inv, Single
<1>4. Alone(t) => AllOf(body, Whole(t))
  BY <1>1 DEF Inv, Owns, Own
<1>5. Single' /\ Empty'
  BY <1>1, <1>2 DEF Inv, Single, Empty, Alone
<1>6. Owns'
  <2> SUFFICES ASSUME Alone(t) PROVE Own(t)'
    BY <1>1, <1>2, <1>3 DEF Owns, Alone
  <2>1. AllOf(Tail(body), Whole(t))
    BY <1>1, <1>4 DEF AllOf, Frames
  <2> QED BY <1>1, <2>1 DEF Inv, Owns, Own
<1>7. OwnAnswer'
  <2> SUFFICES ASSUME NEW s \in Stream \ disturbed
               PROVE  /\ answer'[s].header \in {{}, Whole(s)}
                      /\ \A i \in DOMAIN answer'[s].data : answer'[s].data[i] = Whole(s)
    BY <1>1 DEF OwnAnswer
  <2>1. s # t => answer'[s] = answer[s]
    BY <1>1
  <2>2. s = t => answer'[s].header = answer[s].header /\ answer'[s].data = Append(answer[s].data, Head(body))
    BY <1>1
  <2>3. s = t => \A i \in DOMAIN Append(answer[s].data, Head(body)) : Append(answer[s].data, Head(body))[i] = Whole(s)
    <3> SUFFICES ASSUME s = t
                 PROVE  \A i \in DOMAIN Append(answer[s].data, Head(body)) : Append(answer[s].data, Head(body))[i] = Whole(s)
      OBVIOUS
    <3>1. AllOf(answer[s].data, Whole(s)) /\ Head(body) = Whole(s)
      BY <1>1, <1>2, <1>4 DEF Inv, Alone, OwnAnswer, AllOf, Frames
    <3>2. answer[s].data \in Frames
      BY <1>1
    <3> QED BY <1>1, <3>1, <3>2 DEF AllOf, Frames
  <2> QED BY <2>1, <2>2, <2>3 DEF Inv, OwnAnswer
<1> QED BY <1>5, <1>6, <1>7 DEF Inv

\* An upstream's answer that is not dropped disturbs every stream that is open.
LEMMA NotifyInv == ASSUME TypeOK, Inv, NotifyIn PROVE Inv'
<1>1. UNCHANGED <<stream, closeconnect, answer>>
  BY DEF NotifyIn
<1>2. CASE UNCHANGED <<response, stained, disturbed>>
  BY <1>1, <1>2 DEF response, Inv, Single, Empty, Owns, Own, OwnAnswer, Alone, Alive, Clean
<1>3. CASE ~UNCHANGED <<response, stained, disturbed>>
  <2>1. stained' = TRUE /\ disturbed' = disturbed \cup Open
    BY <1>3 DEF NotifyIn
  <2>2. \A s \in Stream : ~Alone(s)'
    BY <1>1, <2>1 DEF Alone, Open, Alive
  <2>3. OwnAnswer'
    BY <1>1, <2>1 DEF Inv, OwnAnswer
  <2> QED BY <2>1, <2>2, <2>3 DEF Inv, Single, Empty, Owns
<1> QED BY <1>2, <1>3

LEMMA StepInv == TypeOK /\ Inv /\ [Next]_vars => Inv'
<1> SUFFICES ASSUME TypeOK, Inv, [Next]_vars PROVE Inv'
  OBVIOUS
<1>1. ASSUME NEW s \in Stream, RecvHeaders(s) PROVE Inv'
  BY <1>1, HeadersInv
<1>2. ASSUME NEW s \in Stream, NEW end \in BOOLEAN, RecvData(s, end) PROVE Inv'
  BY <1>2, FrameInv DEF RecvData
<1>3. ASSUME NEW s \in Stream, RecvEnd(s) PROVE Inv'
  BY <1>3, FrameInv DEF RecvEnd
<1>4. CASE RecvSettingsAck
  BY <1>4, AckInv
<1>5. ASSUME NEW s \in Stream, RecvRstStream(s) PROVE Inv'
  <2>1. OwnAnswer'
    BY <1>5 DEF RecvRstStream, Inv, OwnAnswer
  <2> QED BY <1>5, <2>1, CloseInv DEF RecvRstStream, Inv
<1>6. CASE RecvWindowUpdate \/ CloseConnection \/ SendDone \/ UNCHANGED vars
  <2>1. UNCHANGED <<stream, request, header, body, pri_ss, close, closeconnect, answer, stained, disturbed>>
    BY <1>6 DEF RecvWindowUpdate, CloseConnection, SendDone, vars, response
  <2> QED BY <2>1 DEF Inv, Single, Empty, Owns, Own, OwnAnswer, Alone, Alive, Clean
<1>7. ASSUME NEW s \in Stream, SendHeaders(s) \/ SendData(s) \/ SendLast(s) PROVE Inv'
  BY <1>7, SendHeadersInv, SendDataInv, SendLastInv
<1>8. CASE NotifyIn
  BY <1>8, NotifyInv
<1> QED
  BY <1>1, <1>2, <1>3, <1>4, <1>5, <1>6, <1>7, <1>8 DEF Next, Client, Server

\* A stream that was alone gets an answer made of its own, whole request, and of nothing that an earlier
\* one has left in the objects that all streams share (on_stream_close_callback, reset).
THEOREM AnswersNotMixed == Spec => []OwnAnswer
<1>1. Inv => OwnAnswer
  BY DEF Inv
<1> QED BY <1>1, InitType, StepType, InitInv, StepInv, PTL DEF Spec

----------------------------------------------------------------------------
(* HandledOnce *)

\* The request object does not hold the head of a stream that is yet to come, nor, unless the connection
\* is to be closed, of one that is over.
Unheard ==
  \A s \in Stream : stream[s] = "idle" \/ (~Alive(s) /\ ~closeconnect) => <<s, "head">> \notin request

\* What the selectors have sent for a stream is in its answer or still in the body.
Ledger(s) ==
  /\ Len(calls[s]) <= 1 \/ closeconnect
  /\ stream[s] \in {"idle", "open", "body"} => calls[s] = <<>> /\ answer[s].data = <<>>
  /\ stream[s] = "submitted" => answer[s].data = <<>>
  /\ stream[s] \in {"submitted", "sending"} => calls[s] # <<>> /\ Len(answer[s].data) + Len(body) = calls[s][1]
  /\ answer[s].data # <<>> => calls[s] # <<>> /\ Len(answer[s].data) <= calls[s][1]
  /\ stream[s] = "closed" => calls[s] # <<>> /\ Len(answer[s].data) = calls[s][1]
Ledgers == \A s \in Stream \ disturbed : Ledger(s)

LEMMA InitLedgers == Init => Unheard /\ Ledgers
BY DEF Init, Unheard, Ledgers, Ledger

LEMMA Lengths ==
  ASSUME TypeOK, NEW s \in Stream
  PROVE  /\ calls[s] \in Seq(Nat) /\ answer[s].data \in Frames /\ body \in Frames
         /\ Len(answer[s].data) \in Nat /\ Len(body) \in Nat
         /\ stream[s] \in States /\ closeconnect \in BOOLEAN
         /\ calls[s] # <<>> => calls[s][1] \in Nat
<1>1. /\ calls[s] \in Seq(Nat) /\ answer[s].data \in Frames /\ body \in Frames
      /\ stream[s] \in States /\ closeconnect \in BOOLEAN
  BY Types DEF CallsOK, Others, ObjectsOK
<1>2. Len(answer[s].data) \in Nat /\ Len(body) \in Nat
  BY <1>1 DEF Frames
<1>3. calls[s] # <<>> => calls[s][1] \in Nat
  BY <1>1
<1> QED BY <1>1, <1>2, <1>3

\* A call is counted for the streams whose heads are in the request, and for no other.
LEMMA CallCounted ==
  ASSUME TypeOK, NEW made \in SUBSET Part, Call(made), NEW s \in Stream
  PROVE  /\ <<s, "head">> \notin made => calls'[s] = calls[s]
         /\ <<s, "head">> \in made => \E k \in Nat : calls'[s] = Append(calls[s], k)
<1>1. PICK n \in 0..MaxBody, page \in BOOLEAN :
        calls' = [t \in Stream |->
                   IF <<t, "head">> \in made
                     THEN Append(calls[t], Len(Sendable(made, page, [i \in 1..n |-> made]))) ELSE calls[t]]
  BY DEF Call
<1>2. Len(Sendable(made, page, [i \in 1..n |-> made])) \in Nat
  BY SendableLen
<1> QED BY <1>1, <1>2

LEMMA EndCounted ==
  ASSUME TypeOK, NEW parts \in SUBSET Part, NEW streams, NEW id, EndStream(parts, streams, id), NEW s \in Stream
  PROVE  /\ <<s, "head">> \notin parts => calls'[s] = calls[s]
         /\ <<s, "head">> \in parts => \E k \in Nat : calls'[s] = Append(calls[s], k)
<1>1. CASE NoHead(parts)
  <2>1. <<s, "head">> \notin parts
    BY <1>1 DEF NoHead
  <2> QED BY <1>1, <2>1 DEF EndStream
<1>2. CASE ~NoHead(parts)
  <2>1. Call(parts)
    BY <1>2 DEF EndStream
  <2> QED BY <2>1, CallCounted
<1> QED BY <1>1, <1>2

\* From empty objects the body becomes as long as what is counted.
LEMMA CallLedger ==
  ASSUME TypeOK, Clean, NEW s \in Stream, Call(Whole(s)), calls[s] = <<>>
  PROVE  calls'[s] # <<>> /\ Len(calls'[s]) = 1 /\ calls'[s][1] = Len(body') /\ Len(body') \in Nat
<1>1. PICK n \in 0..MaxBody, page \in BOOLEAN :
        /\ Finish(Whole(s), page, body \o [i \in 1..n |-> Whole(s)])
        /\ calls' = [t \in Stream |->
                      IF <<t, "head">> \in Whole(s)
                        THEN Append(calls[t], Len(Sendable(Whole(s), page, [i \in 1..n |-> Whole(s)]))) ELSE calls[t]]
  BY DEF Call
<1> DEFINE own == [i \in 1..n |-> Whole(s)]
<1>2. body \o own = own
  <2>1. own \in Seq({Whole(s)}) /\ body = <<>>
    BY DEF Clean
  <2> QED BY <2>1
<1>3. body' = Sendable(Whole(s), page, own)
  BY <1>1, <1>2 DEF Finish, Clean
<1>4. Len(Sendable(Whole(s), page, own)) \in Nat
  BY SendableLen
<1>5. calls'[s] = Append(<<>>, Len(Sendable(Whole(s), page, own)))
  BY <1>1, WholeHead
<1> HIDE DEF own
<1> QED BY <1>3, <1>4, <1>5

\* A stream that is over, or yet to come, is not called again before the connection is to be closed.
LEMMA Untouched ==
  ASSUME TypeOK, NEW s \in Stream, Ledger(s), ~Alive(s),
         stream'[s] = stream[s], answer'[s].data = answer[s].data, closeconnect' = closeconnect,
         \/ calls'[s] = calls[s]
         \/ closeconnect /\ stream[s] # "idle" /\ \E k \in Nat : calls'[s] = Append(calls[s], k)
  PROVE  Ledger(s)'
<1>1. calls[s] \in Seq(Nat) /\ stream[s] \in {"idle", "closed", "reset"}
  BY Lengths DEF Alive
<1>2. CASE calls'[s] = calls[s]
  BY <1>1, <1>2 DEF Ledger
<1>3. CASE closeconnect /\ stream[s] # "idle" /\ \E k \in Nat : calls'[s] = Append(calls[s], k)
  <2>1. PICK k \in Nat : calls'[s] = Append(calls[s], k)
    BY <1>3
  <2>2. calls'[s] # <<>> /\ (calls[s] # <<>> => calls'[s][1] = calls[s][1])
    BY <1>1, <2>1
  <2> QED BY <1>1, <1>3, <2>2 DEF Ledger
<1> QED BY <1>2, <1>3

\* A frame on an open stream.
LEMMA FrameLedger ==
  ASSUME TypeOK, Inv, Unheard, Ledgers,
         NEW t \in Stream, stream[t] \in {"open", "body"}, NEW end \in BOOLEAN,
         NEW part \in SUBSET {<<t, "body">>}, stream[t] = "open" => part = {<<t, "body">>},
         Frame(t, end, part), UNCHANGED <<closeconnect, stained, disturbed, answer>>
  PROVE  Unheard' /\ Ledgers'
<1>1. stream \in [Stream -> States] /\ Alive(t) /\ request \cup part \in SUBSET Part
  BY Types DEF Alive, ObjectsOK, Part
<1>2. stream'[t] \in {"body", "ended", "submitted"} /\ \A s \in Stream : s # t => stream'[s] = stream[s]
  <2>1. t # 0
    BY Http2Assumption DEF Stream
  <2> QED BY <1>1, <2>1 DEF Frame, EndStream, States
<1>3. \A s \in Stream : Alive(s)' <=> Alive(s)
  BY <1>1, <1>2 DEF Alive
<1>4. request' = request \cup part
  BY DEF Frame, EndStream
<1>5. Unheard'
  BY <1>1, <1>2, <1>3, <1>4 DEF Unheard, Alive
<1>6. ASSUME NEW s \in Stream
      PROVE  /\ <<s, "head">> \notin request => calls'[s] = calls[s]
             /\ calls'[s] = calls[s] \/ \E k \in Nat : calls'[s] = Append(calls[s], k)
  BY <1>1, EndCounted DEF Frame
<1>7. ASSUME NEW s \in Stream \ disturbed, s # t PROVE Ledger(s)'
  <2>1. ~Alive(s)
    BY <1>1, <1>7 DEF Inv, Single, Alone
  <2> QED BY <1>2, <1>6, <1>7, <2>1, Untouched DEF Ledgers, Unheard
<1>8. ASSUME t \notin disturbed PROVE Ledger(t)'
  <2>1. Own(t) /\ Clean /\ t \in Posts /\ Ledger(t)
    BY <1>1, <1>8 DEF Inv, Owns, Own, Alone, Ledgers
  <2>2. calls[t] = <<>> /\ answer[t].data = <<>>
    BY <2>1 DEF Ledger
  <2>3. CASE end
    <3>1. request \cup part = Whole(t)
      <4>1. Whole(t) = {<<t, "head">>, <<t, "body">>}
        BY <2>1 DEF Whole
      <4>2. CASE stream[t] = "open"
        BY <2>1, <4>1, <4>2 DEF Own
      <4>3. CASE stream[t] = "body"
        BY <2>1, <4>1, <4>3 DEF Own
      <4> QED BY <4>2, <4>3
    <3>2. EndStream(Whole(t), [stream EXCEPT ![t] = "ended"], t)
      BY <2>3, <3>1 DEF Frame
    <3>3. Call(Whole(t))
      BY <3>2, WholeNotEmpty DEF EndStream
    <3>4. Len(calls'[t]) = 1 /\ calls'[t][1] = Len(body')
      BY <2>1, <2>2, <3>3, CallLedger
    <3>5. stream'[t] = "submitted"
      <4>1. t # 0
        BY Http2Assumption DEF Stream
      <4> QED BY <1>1, <3>2, <4>1, WholeNotEmpty DEF EndStream, States
    <3>6. calls'[t] # <<>> /\ Len(answer'[t].data) = 0 /\ Len(body') \in Nat
      BY <2>1, <2>2, <3>3, CallLedger
    <3> QED BY <2>2, <3>4, <3>5, <3>6 DEF Ledger
  <2>4. CASE ~end
    <3>1. calls' = calls /\ stream'[t] = "body"
      BY <1>1, <1>2, <2>4 DEF Frame
    <3> QED BY <2>1, <2>2, <3>1 DEF Ledger
  <2> QED BY <2>3, <2>4
<1> QED BY <1>5, <1>7, <1>8 DEF Ledgers

LEMMA HeadersLedger ==
  ASSUME TypeOK, Inv, Unheard, Ledgers, NEW t \in Stream, RecvHeaders(t)
  PROVE  Unheard' /\ Ledgers'
<1>1. /\ stream \in [Stream -> States] /\ stream[t] = "idle" /\ Disturbs(t) /\ closeconnect \in BOOLEAN
      /\ Frame(t, t \notin Posts, {<<t, "head">>}) /\ UNCHANGED <<closeconnect, answer>>
      /\ request \cup {<<t, "head">>} \in SUBSET Part
  BY Types DEF RecvHeaders, ObjectsOK, Part
<1>2. stream'[t] \in {"open", "ended", "submitted"} /\ \A s \in Stream : s # t => stream'[s] = stream[s]
  <2>1. t # 0
    BY Http2Assumption DEF Stream
  <2> QED BY <1>1, <2>1 DEF Frame, EndStream, States
<1>3. Alive(t)' /\ \A s \in Stream : s # t => (Alive(s)' <=> Alive(s))
  BY <1>2 DEF Alive
<1>4. request' = request \cup {<<t, "head">>}
  BY <1>1 DEF Frame, EndStream
<1>5. Unheard'
  BY <1>1, <1>2, <1>3, <1>4 DEF Unheard
<1>6. ASSUME NEW s \in Stream, s # t
      PROVE  /\ <<s, "head">> \notin request => calls'[s] = calls[s]
             /\ calls'[s] = calls[s] \/ \E k \in Nat : calls'[s] = Append(calls[s], k)
  BY <1>1, <1>6, EndCounted DEF Frame
<1>7. ASSUME NEW s \in Stream \ disturbed', s # t PROVE Ledger(s)'
  <2>1. ~Alive(s) /\ s \notin disturbed
    <3>1. CASE Open = {} /\ ~closeconnect /\ ~stained
      BY <1>1, <1>7, <3>1 DEF Disturbs, Open
    <3>2. CASE ~(Open = {} /\ ~closeconnect /\ ~stained)
      BY <1>1, <1>7, <3>2 DEF Disturbs, Open
    <3> QED BY <3>1, <3>2
  <2> QED BY <1>1, <1>2, <1>6, <1>7, <2>1, Untouched DEF Ledgers, Unheard
<1>8. ASSUME t \notin disturbed' PROVE Ledger(t)'
  <2>1. t \notin disturbed /\ request = {} /\ Clean
    BY <1>1, <1>8 DEF Disturbs, Inv, Empty, Open
  <2>2. calls[t] = <<>> /\ answer[t].data = <<>>
    BY <1>1, <2>1 DEF Ledgers, Ledger
  <2>3. CASE t \in Posts
    <3>1. calls' = calls /\ stream'[t] = "open"
      BY <1>1, <2>3 DEF Frame
    <3> QED BY <1>1, <2>2, <3>1 DEF Ledger
  <2>4. CASE t \notin Posts
    <3>1. EndStream(Whole(t), [stream EXCEPT ![t] = "ended"], t)
      BY <1>1, <2>1, <2>4 DEF Frame, Whole
    <3>2. Call(Whole(t)) /\ stream'[t] = "submitted"
      <4>1. t # 0
        BY Http2Assumption DEF Stream
      <4> QED BY <1>1, <3>1, <4>1, WholeNotEmpty DEF EndStream, States
    <3>3. calls'[t] # <<>> /\ Len(calls'[t]) = 1 /\ calls'[t][1] = Len(body') /\ Len(body') \in Nat
      BY <2>1, <2>2, <3>2, CallLedger
    <3> QED BY <1>1, <2>2, <3>2, <3>3 DEF Ledger
  <2> QED BY <2>3, <2>4
<1> QED BY <1>5, <1>7, <1>8 DEF Ledgers

LEMMA AckLedger ==
  ASSUME TypeOK, Inv, Unheard, Ledgers, RecvSettingsAck
  PROVE  Unheard' /\ Ledgers'
<1>1. /\ EndStream(request, stream, 0) /\ disturbed' = disturbed \cup Open
      /\ UNCHANGED <<closeconnect, answer>> /\ request \in SUBSET Part
  BY Types DEF RecvSettingsAck, ObjectsOK
<1>2. stream' = stream /\ request' = request
  BY <1>1 DEF EndStream
<1>3. Unheard'
  BY <1>1, <1>2 DEF Unheard, Alive
<1>4. ASSUME NEW s \in Stream \ disturbed' PROVE Ledger(s)'
  <2>1. ~Alive(s) /\ s \notin disturbed
    BY <1>1, <1>4 DEF Open
  <2>2. /\ <<s, "head">> \notin request => calls'[s] = calls[s]
        /\ calls'[s] = calls[s] \/ \E k \in Nat : calls'[s] = Append(calls[s], k)
    BY <1>1, <1>4, EndCounted
  <2> QED BY <1>1, <1>2, <1>4, <2>1, <2>2, Untouched DEF Ledgers, Unheard
<1> QED BY <1>3, <1>4 DEF Ledgers

\* What the close of a stream does to all others.
LEMMA CloseLedger ==
  ASSUME TypeOK, Inv, Unheard, Ledgers, NEW t \in Stream, Alive(t), NEW how \in {"closed", "reset"},
         OnStreamClose(t, how), UNCHANGED <<calls, disturbed>>
  PROVE  /\ Unheard' /\ stream'[t] = how
         /\ closeconnect => closeconnect'
         /\ \A s \in Stream \ disturbed : s # t /\ answer'[s] = answer[s] => Ledger(s)'
<1>1. stream' = [stream EXCEPT ![t] = how] /\ stream \in [Stream -> States] /\ closeconnect \in BOOLEAN
  BY Types DEF OnStreamClose
<1>2. stream'[t] = how /\ \A s \in Stream : s # t => stream'[s] = stream[s]
  BY <1>1
<1>3. closeconnect => closeconnect'
  BY DEF OnStreamClose
<1>4. Unheard'
  <2>1. CASE close
    BY <1>2, <2>1 DEF OnStreamClose, Unheard, Alive
  <2>2. CASE ~close
    BY <2>2 DEF OnStreamClose, Reset, Unheard
  <2> QED BY <2>1, <2>2
<1>5. ASSUME NEW s \in Stream \ disturbed, s # t, answer'[s] = answer[s] PROVE Ledger(s)'
  <2>1. ~Alive(s)
    BY <1>5 DEF Inv, Single, Alone
  <2> QED BY <1>2, <1>3, <1>5, <2>1 DEF Ledgers, Ledger, Alive
<1> QED BY <1>2, <1>3, <1>4, <1>5

LEMMA RstLedger ==
  ASSUME TypeOK, Inv, Unheard, Ledgers, NEW t \in Stream, RecvRstStream(t)
  PROVE  Unheard' /\ Ledgers'
<1>1. Alive(t) /\ OnStreamClose(t, "reset") /\ UNCHANGED <<calls, disturbed, answer>>
  BY DEF RecvRstStream
<1>2. ASSUME t \notin disturbed PROVE Ledger(t)'
  BY <1>1, <1>2, CloseLedger DEF Ledgers, Ledger
<1> QED BY <1>1, <1>2, CloseLedger DEF Ledgers

LEMMA SendHeadersLedger ==
  ASSUME TypeOK, Inv, Unheard, Ledgers, NEW t \in Stream, SendHeaders(t)
  PROVE  Unheard' /\ Ledgers'
<1>1. /\ stream \in [Stream -> States] /\ stream[t] = "submitted" /\ Alive(t) /\ UNCHANGED <<calls, disturbed>>
      /\ answer' = [answer EXCEPT ![t].header = header]
      /\ answer \in [Stream -> [header : SUBSET Part, data : Frames]]
  BY Types DEF SendHeaders, Others, Alive
<1>2. answer'[t].data = answer[t].data /\ \A s \in Stream : s # t => answer'[s] = answer[s]
  BY <1>1
<1>3. CASE body = <<>>
  <2>1. OnStreamClose(t, "closed")
    BY <1>3 DEF SendHeaders
  <2>2. ASSUME t \notin disturbed PROVE Ledger(t)'
    <3>1. Ledger(t) /\ Len(body) = 0 /\ stream'[t] = "closed" /\ (closeconnect => closeconnect')
      BY <1>1, <1>3, <2>1, <2>2, CloseLedger DEF Ledgers
    <3>2. calls[t] # <<>> /\ answer[t].data = <<>> /\ Len(answer[t].data) = calls[t][1]
      BY <1>1, <3>1, Lengths DEF Ledger
    <3> QED BY <1>1, <1>2, <3>1, <3>2 DEF Ledger
  <2> QED BY <1>1, <1>2, <2>1, <2>2, CloseLedger DEF Ledgers
<1>4. CASE body # <<>>
  <2>1. stream' = [stream EXCEPT ![t] = "sending"] /\ UNCHANGED <<request, body, closeconnect>>
    BY <1>4 DEF SendHeaders, response
  <2>2. stream'[t] = "sending" /\ \A s \in Stream : s # t => stream'[s] = stream[s]
    BY <1>1, <2>1
  <2>3. Unheard'
    BY <1>1, <2>1, <2>2 DEF Unheard, Alive
  <2>4. ASSUME NEW s \in Stream \ disturbed PROVE Ledger(s)'
    <3>1. CASE s = t
      BY <1>1, <1>2, <2>1, <2>2, <2>4, <3>1 DEF Ledgers, Ledger
    <3>2. CASE s # t
      BY <1>1, <1>2, <2>1, <2>2, <2>4, <3>2 DEF Ledgers, Ledger
    <3> QED BY <3>1, <3>2
  <2> QED BY <1>1, <2>3, <2>4 DEF Ledgers
<1> QED BY <1>3, <1>4

LEMMA SendLastLedger ==
  ASSUME TypeOK, Inv, Unheard, Ledgers, NEW t \in Stream, SendLast(t)
  PROVE  Unheard' /\ Ledgers'
<1>1. /\ stream[t] = "sending" /\ Alive(t) /\ OnStreamClose(t, "closed") /\ UNCHANGED <<calls, disturbed>>
      /\ answer' = [answer EXCEPT ![t].data = @ \o body]
      /\ answer \in [Stream -> [header : SUBSET Part, data : Frames]]
  BY Types DEF SendLast, DataDue, Others, Alive
<1>2. answer'[t].data = answer[t].data \o body /\ \A s \in Stream : s # t => answer'[s] = answer[s]
  BY <1>1
<1>3. ASSUME t \notin disturbed PROVE Ledger(t)'
  <2>1. Ledger(t) /\ stream'[t] = "closed" /\ (closeconnect => closeconnect')
    BY <1>1, <1>3, CloseLedger DEF Ledgers
  <2>2. Len(answer[t].data \o body) = Len(answer[t].data) + Len(body)
    BY Lengths DEF Frames
  <2>3. calls[t] # <<>> /\ Len(answer'[t].data) = calls[t][1] /\ calls[t][1] \in Nat
    BY <1>1, <1>2, <2>1, <2>2, Lengths DEF Ledger
  <2> QED BY <1>1, <2>1, <2>3 DEF Ledger
<1> QED BY <1>1, <1>2, <1>3, CloseLedger DEF Ledgers

LEMMA SendDataLedger ==
  ASSUME TypeOK, Inv, Unheard, Ledgers, NEW t \in Stream, SendData(t)
  PROVE  Unheard' /\ Ledgers'
<1>1. /\ stream[t] = "sending" /\ Alive(t) /\ body' = Tail(body) /\ Len(body) > 1
      /\ UNCHANGED <<stream, request, closeconnect, calls, disturbed>>
      /\ answer' = [answer EXCEPT ![t].data = Append(@, Head(body))]
      /\ answer \in [Stream -> [header : SUBSET Part, data : Frames]]
  BY Types DEF SendData, DataDue, Others, Alive
<1>2. answer'[t].data = Append(answer[t].data, Head(body)) /\ \A s \in Stream : s # t => answer'[s] = answer[s]
  BY <1>1
<1>3. Unheard'
  BY <1>1 DEF Unheard, Alive
<1>4. ASSUME NEW s \in Stream \ disturbed, s # t PROVE Ledger(s)'
  <2>1. ~Alive(s)
    BY <1>1, <1>4 DEF Inv, Single, Alone
  <2> QED BY <1>1, <1>2, <1>4, <2>1 DEF Ledgers, Ledger, Alive
<1>5. ASSUME t \notin disturbed PROVE Ledger(t)'
  <2>1. Len(answer'[t].data) = Len(answer[t].data) + 1 /\ Len(body') = Len(body) - 1
    BY <1>1, <1>2, Lengths DEF Frames
  <2>2. Ledger(t) /\ calls[t] # <<>> /\ calls[t][1] \in Nat
    BY <1>1, <1>5, Lengths DEF Ledgers, Ledger
  <2>3. Len(answer'[t].data) + Len(body') = calls[t][1] /\ Len(answer'[t].data) <= calls[t][1]
    <3>1. Len(answer[t].data) + Len(body) = calls[t][1]
      BY <1>1, <2>2 DEF Ledger
    <3>2. Len(answer[t].data) \in Nat /\ Len(body) \in Nat
      BY Lengths
    <3>3. Len(body) > 1
      BY <1>1
    <3> QED BY <2>1, <3>1, <3>2, <3>3
  <2> QED BY <1>1, <2>2, <2>3 DEF Ledger
<1> QED BY <1>1, <1>3, <1>4, <1>5 DEF Ledgers

LEMMA NotifyLedger == ASSUME TypeOK, Inv, Unheard, Ledgers, NotifyIn PROVE Unheard' /\ Ledgers'
<1>1. UNCHANGED <<stream, closeconnect, answer, calls>>
  BY DEF NotifyIn
<1>2. CASE UNCHANGED <<response, stained, disturbed>>
  BY <1>1, <1>2 DEF response, Unheard, Ledgers, Ledger, Alive
<1>3. CASE ~UNCHANGED <<response, stained, disturbed>>
  <2>1. request' = {Foreign} \cup {k \in request : k[2] # "head"} /\ disturbed' = disturbed \cup Open
    BY <1>3 DEF NotifyIn
  <2>2. ASSUME NEW s \in Stream PROVE <<s, "head">> \notin request'
    BY <2>1, Http2Assumption DEF Foreign, Stream
  <2>3. ASSUME NEW s \in Stream \ disturbed' PROVE Ledger(s)'
    <3>1. ~Alive(s) /\ Ledger(s)
      BY <2>1, <2>3 DEF Open, Ledgers
    <3> QED BY <1>1, <3>1 DEF Ledger, Alive
  <2> QED BY <2>2, <2>3 DEF Unheard, Ledgers
<1> QED BY <1>2, <1>3

LEMMA StepLedgers == TypeOK /\ Inv /\ Unheard /\ Ledgers /\ [Next]_vars => Unheard' /\ Ledgers'
<1> SUFFICES ASSUME TypeOK, Inv, Unheard, Ledgers, [Next]_vars PROVE Unheard' /\ Ledgers'
  OBVIOUS
<1>1. ASSUME NEW s \in Stream, RecvHeaders(s) PROVE Unheard' /\ Ledgers'
  BY <1>1, HeadersLedger
<1>2. ASSUME NEW s \in Stream, NEW end \in BOOLEAN, RecvData(s, end) PROVE Unheard' /\ Ledgers'
  BY <1>2, FrameLedger DEF RecvData
<1>3. ASSUME NEW s \in Stream, RecvEnd(s) PROVE Unheard' /\ Ledgers'
  BY <1>3, FrameLedger DEF RecvEnd
<1>4. CASE RecvSettingsAck
  BY <1>4, AckLedger
<1>5. ASSUME NEW s \in Stream, RecvRstStream(s) PROVE Unheard' /\ Ledgers'
  BY <1>5, RstLedger
<1>6. CASE RecvWindowUpdate \/ CloseConnection \/ SendDone \/ UNCHANGED vars
  <2>1. UNCHANGED <<stream, request, body, closeconnect, answer, calls, disturbed>>
    BY <1>6 DEF RecvWindowUpdate, CloseConnection, SendDone, vars, response
  <2> QED BY <2>1 DEF Unheard, Ledgers, Ledger, Alive
<1>7. ASSUME NEW s \in Stream, SendHeaders(s) \/ SendData(s) \/ SendLast(s) PROVE Unheard' /\ Ledgers'
  BY <1>7, SendHeadersLedger, SendDataLedger, SendLastLedger
<1>8. CASE NotifyIn
  BY <1>8, NotifyLedger
<1> QED
  BY <1>1, <1>2, <1>3, <1>4, <1>5, <1>6, <1>7, <1>8 DEF Next, Client, Server

\* A request on a stream that was alone is given to the selectors once, and their answer arrives whole,
\* however many frames and windows it takes (on_frame_recv_callback, data_prd_read_callback).
THEOREM HandledOnceEach == Spec => []HandledOnce
<1>1. Ledgers => HandledOnce
  BY DEF Ledgers, Ledger, HandledOnce
<1> QED BY <1>1, InitType, StepType, InitInv, StepInv, InitLedgers, StepLedgers, PTL DEF Spec
=============================================================================
