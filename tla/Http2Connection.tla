--------------------------- MODULE Http2Connection ---------------------------
(***************************************************************************)
(* One HTTP/2 connection (src/http_2_0_nghttp2.cpp).  nghttp2 calls the    *)
(* adapter back for every frame it receives.  The adapter has one request, *)
(* one response_header and one response_body for all streams; when a frame *)
(* ends a stream it calls the selectors, submits the answer and sends, and *)
(* when a stream closes it resets all three.  A script may have asked an   *)
(* upstream for something (async_url_get): its answer comes when the       *)
(* stream is over, and is written to the same objects.                     *)
(*                                                                         *)
(* nghttp2 and the client are external: streams open in the order of their *)
(* numbers, and data are sent while the client's window allows.            *)
(***************************************************************************)
EXTENDS Naturals, Sequences

CONSTANTS
  MaxStream,  \* bound: how many requests the client sends
  Posts,      \* those with a body, which end with a DATA frame
  Heads,      \* those whose method is HEAD
  MaxBody,    \* bound: how many frames of data an answer has
  MaxAsync,   \* bound: calls of async_url_get
  Window      \* how many frames the client lets the server send before it updates the window

ASSUME Http2Assumption ==
  /\ MaxStream \in Nat /\ MaxBody \in Nat /\ Window \in Nat /\ MaxAsync \in Nat
  /\ Posts \subseteq 1..MaxStream /\ Heads \subseteq 1..MaxStream

Stream == 1..MaxStream
\* The fields of an upstream's answer count as the head of a stream that is none.
Foreign == <<0, "head">>
Part == {Foreign} \cup (Stream \X {"head", "body"})
Whole(s) == {<<s, "head">>} \cup (IF s \in Posts THEN {<<s, "body">>} ELSE {})

VARIABLES
  stream,       \* streams: "idle", "open", "body" (some of it), "ended", "submitted", "sending",
                \* "closed" (by the end of the answer), "reset" (by the client)
  request,      \* the parts of requests that the request object holds
  header,       \* response_header: the parts it was made for, {} when cleared
  body,         \* response_body: for every frame the parts it was made for
  pri_ss,       \* "0", "nobody", "need_body"
  close,        \* the response says Connection: close
  closeconnect,
  pc,           \* "recv", "send" (in nghttp2_session_send), "closed"
  credit,       \* what is left of the window
  settings,     \* the server's SETTINGS: "queued", "sent", "acked"
  answer,       \* answer[s]: [header, data], what the client has received on s
  calls,        \* calls[s]: how often the selectors were called for s, and with how much to send
  asyncs,       \* upstream_callers started, and how many of them have not answered
  stained,      \* an upstream's answer was written to the objects, and they were not reset since
  disturbed     \* streams that were not alone (see Disturbs)

response == <<request, header, body, pri_ss, close>>
vars == <<stream, response, closeconnect, pc, credit, settings, answer, calls, asyncs, stained, disturbed>>

Init ==
  /\ stream = [s \in Stream |-> "idle"]
  /\ request = {} /\ header = {} /\ body = <<>> /\ pri_ss = "0" /\ close = FALSE
  /\ closeconnect = FALSE
  /\ pc = "recv" /\ credit = Window /\ settings = "queued"
  /\ answer = [s \in Stream |-> [header |-> {}, data |-> <<>>]]
  /\ calls = [s \in Stream |-> <<>>]
  /\ asyncs = [started |-> 0, open |-> 0] /\ stained = FALSE
  /\ disturbed = {}

Alive(s) == stream[s] \notin {"idle", "closed", "reset"}

-----------------------------------------------------------------------------
(* The answer: on_frame_recv_callback for a frame with END_STREAM.         *)

ForHead(made) == \E s \in Heads : <<s, "head">> \in made

\* What send_header makes of response_body: nothing for HEAD, an error page in its place.
Sendable(made, page, frames) ==
  IF ForHead(made) THEN <<>> ELSE IF page THEN <<made>> ELSE frames

\* request_finish: send_header, once.
Finish(made, page, frames) ==
  IF pri_ss # "0" THEN body' = frames /\ UNCHANGED <<header, pri_ss>>
  ELSE /\ header' = header \cup made
       /\ body' = Sendable(made, page, frames)
       /\ pri_ss' = IF ForHead(made) \/ page THEN "nobody" ELSE "need_body"

\* A script calls async_url_get: code = 0, so that its selector sends nothing.
CallAsync ==
  /\ asyncs.started < MaxAsync
  /\ asyncs' = [started |-> asyncs.started + 1, open |-> asyncs.open + 1]

\* The selectors answer made, whatever it was collected from: with up to MaxBody frames, or
\* with a status that has a page.
Call(made) ==
  \E n \in 0..MaxBody, page \in BOOLEAN :
    LET own == [i \in 1..n |-> made] IN
    /\ UNCHANGED asyncs \/ (n = 0 /\ ~page /\ CallAsync)
    /\ close' \in BOOLEAN
    /\ Finish(made, page, body \o own)
    /\ calls' = [s \in Stream |->
                  IF <<s, "head">> \in made
                    THEN Append(calls[s], Len(Sendable(made, page, own))) ELSE calls[s]]

\* request->empty()
NoHead(parts) == \A k \in parts : k[2] # "head"

\* What a frame with the flag END_STREAM on a stream, or with the flag ACK, sets off;
\* streams is the state of the streams after the frame.
EndStream(parts, streams, id) ==
  /\ request' = parts
  /\ IF NoHead(parts)
       THEN /\ stream' = streams
            /\ UNCHANGED <<header, body, pri_ss, close, calls, pc, asyncs>>
       ELSE /\ Call(parts)
            /\ stream' = IF id = 0 THEN streams ELSE [streams EXCEPT ![id] = "submitted"]
            /\ pc' = "send"

-----------------------------------------------------------------------------
(* Frames.                                                                 *)

Open == {t \in Stream : Alive(t)}

\* A stream is alone while no other is open, no acknowledgement comes, the connection is
\* not about to be closed, and no answer of an upstream has come since the last reset.
Disturbs(s) ==
  disturbed' = IF Open = {} /\ ~closeconnect /\ ~stained THEN disturbed ELSE disturbed \cup Open \cup {s}

Frame(s, end, part) ==
  LET parts == request \cup part IN
  IF end THEN EndStream(parts, [stream EXCEPT ![s] = "ended"], s)
  ELSE /\ request' = parts
       /\ stream' = [stream EXCEPT ![s] = IF stream[s] = "idle" THEN "open" ELSE "body"]
       /\ UNCHANGED <<header, body, pri_ss, close, calls, pc, asyncs>>

RecvHeaders(s) ==
  /\ pc = "recv" /\ stream[s] = "idle"
  /\ \A t \in 1..(s - 1) : stream[t] # "idle"
  /\ Disturbs(s)
  /\ Frame(s, s \notin Posts, {<<s, "head">>})
  /\ UNCHANGED <<closeconnect, credit, settings, answer, stained>>

\* on_data_chunk_recv_callback, and on_frame_recv_callback when it is the last.
RecvData(s, end) ==
  /\ pc = "recv" /\ s \in Posts /\ stream[s] = "open"
  /\ Frame(s, end, {<<s, "body">>})
  /\ UNCHANGED <<closeconnect, credit, settings, answer, stained, disturbed>>

\* Fault: only a frame with data is taken for the end of the request.
RecvEndUnheard(s) ==
  /\ pc = "recv" /\ stream[s] = "body"
  /\ stream' = [stream EXCEPT ![s] = "ended"]
  /\ UNCHANGED <<response, pc, calls, closeconnect, credit, settings, answer, asyncs, stained, disturbed>>

\* An empty DATA frame ends the stream.
RecvEnd(s) ==
  /\ pc = "recv" /\ stream[s] = "body"
  /\ Frame(s, TRUE, {})
  /\ UNCHANGED <<closeconnect, credit, settings, answer, stained, disturbed>>

\* ACK and END_STREAM are the same bit of flags, and stream 0 cannot be answered.
RecvSettingsAck ==
  /\ pc = "recv" /\ settings = "sent"
  /\ settings' = "acked"
  /\ EndStream(request, stream, 0)
  /\ disturbed' = disturbed \cup Open
  /\ UNCHANGED <<closeconnect, credit, answer, stained>>

\* Nothing is sent for a WINDOW_UPDATE.
RecvWindowUpdate ==
  /\ pc = "recv" /\ credit < Window
  /\ credit' = Window
  /\ UNCHANGED <<stream, response, closeconnect, pc, settings, answer, calls, asyncs, stained, disturbed>>

-----------------------------------------------------------------------------
(* on_stream_close_callback and reset.                                     *)

\* Fault: response_header is not cleared.
ResetKeepsHeader ==
  /\ request' = {} /\ body' = <<>> /\ pri_ss' = "0" /\ close' = FALSE
  /\ UNCHANGED header

\* Fault: the request is not reset.
ResetKeepsRequest ==
  /\ header' = {} /\ body' = <<>> /\ pri_ss' = "0" /\ close' = FALSE
  /\ UNCHANGED request

Reset ==
  /\ request' = {} /\ header' = {} /\ body' = <<>> /\ pri_ss' = "0" /\ close' = FALSE

OnStreamClose(s, how) ==
  /\ stream' = [stream EXCEPT ![s] = how]
  /\ IF close THEN closeconnect' = TRUE /\ UNCHANGED <<request, header, body, pri_ss, close, stained>>
     ELSE Reset /\ stained' = FALSE /\ UNCHANGED closeconnect

RecvRstStream(s) ==
  /\ pc = "recv" /\ Alive(s)
  /\ OnStreamClose(s, "reset")
  /\ UNCHANGED <<pc, credit, settings, answer, calls, asyncs, disturbed>>

\* onrequest returns false at the end of the chunk.
CloseConnection ==
  /\ pc = "recv" /\ closeconnect
  /\ pc' = "closed"
  /\ UNCHANGED <<stream, response, closeconnect, credit, settings, answer, calls, asyncs, stained, disturbed>>

\* upstream_caller::notify_in, between two chunks.  A status other than 200 is dropped.  Else the
\* upstream's fields replace those of the request, and the selectors are called with them: what
\* they send goes to response_body.  Nobody calls request_finish, submits or resets afterwards.
NotifyIn ==
  /\ pc = "recv" /\ asyncs.open > 0
  /\ asyncs' = [asyncs EXCEPT !.open = @ - 1]
  /\ \/ UNCHANGED <<response, stained, disturbed>>
     \/ LET made == {Foreign} \cup {k \in request : k[2] # "head"} IN
        /\ request' = made
        /\ \E n \in 0..MaxBody : body' = body \o [i \in 1..n |-> made]
        /\ close' \in BOOLEAN
        /\ stained' = TRUE
        /\ disturbed' = disturbed \cup Open
        /\ UNCHANGED <<header, pri_ss>>
  /\ UNCHANGED <<stream, closeconnect, pc, credit, settings, answer, calls>>

-----------------------------------------------------------------------------
(* nghttp2_session_send: HEADERS, then data_prd_read_callback per frame.   *)

\* Without a body the HEADERS end the stream.
SendHeaders(s) ==
  /\ pc = "send" /\ stream[s] = "submitted"
  /\ settings' = IF settings = "queued" THEN "sent" ELSE settings
  /\ answer' = [answer EXCEPT ![s].header = header]
  /\ IF body = <<>> THEN OnStreamClose(s, "closed")
     ELSE stream' = [stream EXCEPT ![s] = "sending"] /\ UNCHANGED <<response, closeconnect, stained>>
  /\ UNCHANGED <<pc, credit, calls, asyncs, disturbed>>

\* Data are sent after all HEADERS.
DataDue(s) ==
  /\ pc = "send" /\ stream[s] = "sending" /\ credit > 0
  /\ \A t \in Stream : stream[t] # "submitted"

\* The frame that empties response_body has the flag END_STREAM.
SendLast(s) ==
  /\ DataDue(s)
  /\ Len(body) <= 1
  /\ answer' = [answer EXCEPT ![s].data = @ \o body]
  /\ OnStreamClose(s, "closed")
  /\ credit' = credit - 1
  /\ UNCHANGED <<pc, settings, calls, asyncs, disturbed>>

SendData(s) ==
  /\ DataDue(s)
  /\ Len(body) > 1
  /\ answer' = [answer EXCEPT ![s].data = Append(@, Head(body))]
  /\ body' = Tail(body)
  /\ credit' = credit - 1
  /\ UNCHANGED <<stream, request, header, pri_ss, close, closeconnect, pc, settings, calls, asyncs, stained,
                 disturbed>>

SendDone ==
  /\ pc = "send"
  /\ \A s \in Stream : stream[s] # "submitted" /\ ~DataDue(s)
  /\ pc' = "recv"
  /\ UNCHANGED <<stream, response, closeconnect, credit, settings, answer, calls, asyncs, stained, disturbed>>

Server ==
  SendDone \/ \E s \in Stream : SendHeaders(s) \/ SendData(s) \/ SendLast(s)

Client ==
  \/ \E s \in Stream :
       \/ RecvHeaders(s) \/ RecvEnd(s) \/ RecvRstStream(s)
       \/ \E end \in BOOLEAN : RecvData(s, end)
  \/ RecvSettingsAck \/ RecvWindowUpdate

Next == Client \/ Server \/ CloseConnection \/ NotifyIn

\* onrequest returns: what nghttp2 has to send is sent.
Spec == Init /\ [][Next]_vars /\ WF_vars(Server)

-----------------------------------------------------------------------------
\* Types.
TypeOK ==
  /\ stream \in [Stream -> {"idle", "open", "body", "ended", "submitted", "sending",
                           "closed", "reset"}]
  /\ request \subseteq Part /\ header \subseteq Part /\ body \in Seq(SUBSET Part)
  /\ pri_ss \in {"0", "nobody", "need_body"} /\ close \in BOOLEAN /\ closeconnect \in BOOLEAN
  /\ pc \in {"recv", "send", "closed"} /\ credit \in 0..Window
  /\ settings \in {"queued", "sent", "acked"}
  /\ answer \in [Stream -> [header : SUBSET Part, data : Seq(SUBSET Part)]]
  /\ calls \in [Stream -> Seq(Nat)] /\ disturbed \subseteq Stream
  /\ asyncs \in [started : 0..MaxAsync, open : 0..MaxAsync] /\ asyncs.open <= asyncs.started
  /\ stained \in BOOLEAN

\* Nothing that one request leaves in the shared objects gets into the answer to a later one:
\* every frame on a stream that was alone was made from its own, whole request. Between
\* them stand the close of the earlier stream and reset (http_2_0_nghttp2.cpp 146-156, 249-256).
\* The late answer of an upstream disturbs the streams that are open and the next one, and the
\* reset after that one removes what it has left (upstream_caller.cpp 37-51).
OwnAnswer ==
  \A s \in Stream \ disturbed :
    /\ answer[s].header \in {{}, Whole(s)}
    /\ \A i \in DOMAIN answer[s].data : answer[s].data[i] = Whole(s)

\* A stream that was alone is handed to the selectors once, and what they have sent has arrived
\* when it is closed by the server, no more and no less, however the window cut it; nothing that
\* the selectors have sent for the late answer of an upstream goes to a stream but the one before
\* the next reset, which is disturbed by it.
HandledOnce ==
  \A s \in Stream \ disturbed :
    /\ Len(calls[s]) <= 1 \/ closeconnect
    /\ answer[s].data # <<>> => calls[s] # <<>> /\ Len(answer[s].data) <= calls[s][1]
    /\ stream[s] = "closed" => calls[s] # <<>> /\ Len(answer[s].data) = calls[s][1]

\* A request on a stream that was alone is answered to its end, unless the client's window was
\* too small; then nothing is sent any more (WINDOW_UPDATE is not heard, 50-56).
Answered ==
  \A s \in Stream :
    stream[s] \in {"ended", "submitted"}
      ~> (stream[s] \in {"closed", "reset"} \/ credit = 0 \/ s \in disturbed)
=============================================================================
