---------------------------- MODULE HttpConnection ----------------------------
(***************************************************************************)
(* One HTTP/1.x connection of teapoy: aiohttpchannel (src/webservice.cpp)  *)
(* picks an adapter, http_1_1 or http_1_0, from the first chunk it is      *)
(* given; the adapter feeds its mime parser (src/mime.cpp), and when a     *)
(* request is complete calls a url_selector and sends the answer with      *)
(* send_header, send_data and request_finish.                              *)
(*                                                                         *)
(* The client may pipeline its requests and its bytes arrive in chunks cut *)
(* anywhere.  A byte stream is a sequence of tokens [req, part]: request k *)
(* is "line" (its request line without the CRLF), "eol", "blank" (its      *)
(* header fields and the empty line) and as many "body" as its             *)
(* Content-Length.  What the connection writes is read at once by a client *)
(* that follows the HTTP framing rules (external).                         *)
(***************************************************************************)
EXTENDS Integers, SequencesExt

CONSTANTS
  ReqSet,     \* requests a client may send: [head, len, conn, ok]
  MaxReqs,    \* bound: how many requests a client sends
  Versions,   \* subset of {"1.1", "1.0", "other"}: the version in the request lines
  Pages,      \* status codes a handler may choose that have an error page
  Plain,      \* status codes it may choose that have none (2xx)
  MaxPieces,  \* bound: how often one handler calls send_data
  MaxAsync    \* bound: calls of async_url_get

ASSUME HttpAssumption ==
  /\ \A r \in ReqSet : /\ r.head \in BOOLEAN /\ r.ok \in BOOLEAN
                       /\ r.len \in Nat /\ r.conn \in {"none", "keep-alive", "close"}
  /\ MaxReqs \in Nat /\ MaxPieces \in Nat /\ MaxAsync \in Nat
  /\ Versions \subseteq {"1.1", "1.0", "other"}
  /\ Pages \cap Plain = {} /\ 0 \notin Pages \cup Plain
  /\ 404 \in Pages

VARIABLES
  reqs,      \* the requests the client sends on this connection
  ver,       \* the version they name
  unsent,    \* tokens that have not arrived yet
  chunk,     \* cache, size: the part of the arrived chunk that is not consumed
  buf,       \* request_cache: what mime::write has collected
  request,   \* the header fields of the current request
  resp,      \* httpresponse and the adapter's pri_ss
  pc,        \* "sniff" (adapter == nullptr), "recv", "write", "call", "send", "closed"
  todo,      \* how many more pieces the handler sends before it returns
  body,      \* body_ptr, body_size of the request that is being answered
  calls,     \* how many requests have been handed to a selector
  asyncs,    \* upstream_callers started, and how many of them have not answered
  reader,    \* the client's view of the answers
  odd        \* an answer was sent that its client takes for another (see Misleads)

http == <<chunk, buf, request, resp, body, calls>>
vars == <<reqs, ver, unsent, http, pc, todo, asyncs, reader, odd>>

Part(k, p) == [req |-> k, part |-> p]
Tokens(k) == <<Part(k, "line"), Part(k, "eol"), Part(k, "blank")>>
             \o [i \in 1..reqs[k].len |-> Part(k, "body")]
\* The bytes of the requests from k on.
StreamFrom[k \in 1..(Len(reqs) + 1)] == IF k > Len(reqs) THEN <<>> ELSE Tokens(k) \o StreamFrom[k + 1]

\* request after reset(): pps is mp_http_s0, no header fields.
NoRequest == [pps |-> "s0", head |-> FALSE, conn |-> "none", len |-> 0]
FreshResponse == [code |-> 0, length |-> -1, chunked |-> FALSE, ss |-> "0", conn |-> "none"]

-----------------------------------------------------------------------------
(* The client.  It reads the status line and the fields of an answer, then *)
(* the body they announce.  Answers to HEAD, 204 and 304 have none, a 1xx  *)
(* is not the answer yet, and to a client of version 1.0 chunks are bytes  *)
(* like any other, which end when the connection does.                     *)

FreshReader == [at |-> "header", left |-> 0, done |-> 0, keep |-> TRUE]

Interim(code) == code \in 100..199
NoContent(code) == code \in {204, 304}
Bodiless(k, u) == NoContent(u.code) \/ (k <= Len(reqs) /\ reqs[k].head)

Read(r, u) ==
  CASE r.at = "header" /\ u.kind = "header" ->
         LET h == [r EXCEPT !.keep = u.keep]
         IN IF Interim(u.code) THEN h
            ELSE IF Bodiless(r.done + 1, u) \/ u.length = 0 THEN [h EXCEPT !.done = @ + 1]
            ELSE IF u.chunked THEN [h EXCEPT !.at = IF ver = "1.0" THEN "stream" ELSE "chunks"]
            ELSE IF u.length < 0 THEN [h EXCEPT !.at = "broken"]
            ELSE [h EXCEPT !.at = "body", !.left = u.length]
    [] r.at = "stream" -> r
    [] r.at = "body" /\ u.kind = "data" /\ u.n < r.left -> [r EXCEPT !.left = @ - u.n]
    [] r.at = "body" /\ u.kind = "data" /\ u.n = r.left ->
         [r EXCEPT !.left = 0, !.at = "header", !.done = @ + 1]
    [] r.at = "chunks" /\ u.kind = "chunk" -> r
    [] r.at = "chunks" /\ u.kind = "last" -> [r EXCEPT !.at = "header", !.done = @ + 1]
    [] OTHER -> [r EXCEPT !.at = "broken"]

\* What the Connection field of an answer tells a client of version ver.
Persists(conn) == IF ver = "1.0" THEN conn = "keep-alive" ELSE conn # "close"

Header(code, length, chunked, keep) ==
  [kind |-> "header", code |-> code, length |-> length, chunked |-> chunked, keep |-> keep]
Bytes(chunked, n) == [kind |-> IF chunked THEN "chunk" ELSE "data", n |-> n]
LastChunk == [kind |-> "last"]

-----------------------------------------------------------------------------
(* send_header, send_data, request_finish: what becomes of the response    *)
(* and of the client that reads what they write; p is [resp, reader].      *)

PageLen == 2

SendHeader(p) ==
  LET r == p.resp
      chunked == r.chunked \/ r.length = -1
      says(length, c) == Read(p.reader, Header(r.code, length, c, Persists(r.conn)))
  IN IF r.code \in Pages
       THEN [resp   |-> [r EXCEPT !.ss = "nobody"],
             reader |-> Read(says(PageLen, FALSE), Bytes(FALSE, PageLen))]
     ELSE [resp   |-> [r EXCEPT !.ss = IF request.head THEN "nobody" ELSE "need_body", !.chunked = chunked],
           reader |-> says(r.length, chunked)]

SendHeaderOnce(p) == IF p.resp.ss = "0" THEN SendHeader(p) ELSE p

SendData(p, n) ==
  LET q == SendHeaderOnce(p)
  IN IF q.resp.ss # "need_body" THEN q ELSE [q EXCEPT !.reader = Read(@, Bytes(q.resp.chunked, n))]

\* Fault: a chunked body is not ended.
FinishUnended(p) == SendHeaderOnce(p)

Finish(p) ==
  LET q == SendHeaderOnce(p)
  IN IF q.resp.chunked THEN [q EXCEPT !.reader = Read(@, LastChunk)] ELSE q

Answering == [resp |-> resp, reader |-> reader]

\* Fault: the rule of HTTP/1.1 for both versions.
KeepsAliveAlways(r) == r.conn # "close"

\* The adapter keeps the connection.
KeepsAlive(r) == IF ver = "1.0" THEN r.conn = "keep-alive" ELSE r.conn # "close"

\* The handler leaves r and sends so many bytes, and a client that keeps to the rules does
\* not find the end of the answer: a page or a last chunk where there may be no body, a
\* body that has not the length of its Content-Length, chunks in version 1.0 on a
\* connection that stays open, a status that is none of a final answer.
Misleads(r, times) ==
  LET empty == request.head \/ NoContent(r.code)
  IN \/ Interim(r.code)
     \/ r.code \in Pages /\ empty
     \/ r.code \notin Pages /\ empty /\ (r.length = -1 \/ (times > 0 /\ ~request.head))
     \/ r.code \notin Pages /\ ~empty /\ r.length # -1 /\ times # r.length
     \/ r.code \notin Pages /\ ~empty /\ r.length = -1 /\ ver = "1.0" /\ KeepsAlive(r)

-----------------------------------------------------------------------------
Init ==
  /\ \E n \in 1..MaxReqs : reqs \in [1..n -> ReqSet]
  /\ ver \in Versions
  /\ unsent = StreamFrom[1]
  /\ chunk = <<>> /\ buf = <<>> /\ body = <<>>
  /\ request = NoRequest
  /\ resp = FreshResponse
  /\ pc = "sniff" /\ todo = 0
  /\ calls = 0
  /\ asyncs = [started |-> 0, open |-> 0]
  /\ reader = FreshReader
  /\ odd = FALSE

\* The next bytes arrive, cut anywhere.
Deliver ==
  /\ pc \in {"sniff", "recv"} /\ chunk = <<>>
  /\ \E n \in 1..Len(unsent) :
       /\ chunk' = SubSeq(unsent, 1, n)
       /\ unsent' = SubSeq(unsent, n + 1, Len(unsent))
  /\ pc' = IF pc = "sniff" THEN "sniff" ELSE "write"
  /\ UNCHANGED <<reqs, ver, buf, request, resp, body, calls, todo, asyncs, reader, odd>>

\* The version is found: the chunk holds the whole first line, which has three fields.
Recognised ==
  /\ Len(chunk) >= 2
  /\ reqs[1].ok
  /\ ver # "other"

Sniff ==
  /\ pc = "sniff" /\ chunk # <<>> /\ Recognised
  /\ pc' = "write"
  /\ UNCHANGED <<reqs, ver, unsent, http, todo, asyncs, reader, odd>>

Sniff505 ==
  /\ pc = "sniff" /\ chunk # <<>> /\ ~Recognised
  /\ reader' = Read(reader, Header(505, 0, FALSE, FALSE))
  /\ pc' = "closed"
  /\ UNCHANGED <<reqs, ver, unsent, http, todo, asyncs, odd>>

-----------------------------------------------------------------------------
(* http_1_1::onrequest, http_1_0::onrequest.                               *)

Collected == buf \o chunk
\* The position of the last token of the header, 0 if it has not arrived.
HeaderEnd == SelectInSeq(Collected, LAMBDA t : t.part = "blank")
\* The request line and the fields that parse finds in the collected bytes.
Sent == reqs[Collected[1].req]

\* The request after mime::parse.  A field the client did not send keeps its value,
\* and a parsed header is not parsed again.
Parsed ==
  IF HeaderEnd = 0 \/ request.pps = "lengthed" THEN request
  ELSE [pps  |-> "lengthed",
        head |-> Sent.head,
        conn |-> IF Sent.conn = "none" THEN request.conn ELSE Sent.conn,
        len  |-> IF Sent.len = 0 THEN request.len ELSE Sent.len]

\* Fault: the last byte of the body is waited for in vain.
CompleteStrict == Parsed.pps = "lengthed" /\ Len(Collected) - HeaderEnd > Parsed.len

\* mime::parse is satisfied: the header is there, and at least Content-Length bytes.
Complete == Parsed.pps = "lengthed" /\ Len(Collected) - HeaderEnd >= Parsed.len

\* Fault: bytes that came with earlier chunks are counted in this one.
UsedWhole == HeaderEnd + Parsed.len

\* bytesused: what mime::write says it took from the chunk.
Used == Len(chunk) - (Len(Collected) - (HeaderEnd + Parsed.len))

WriteBad ==
  /\ pc = "write"
  /\ HeaderEnd # 0 /\ request.pps = "s0" /\ ~Sent.ok
  /\ pc' = "closed"
  /\ UNCHANGED <<reqs, ver, unsent, http, todo, asyncs, reader, odd>>

WriteMore ==
  /\ pc = "write"
  /\ HeaderEnd # 0 => Sent.ok
  /\ ~Complete
  /\ request' = Parsed
  /\ buf' = Collected
  /\ chunk' = <<>>
  /\ pc' = "recv"
  /\ UNCHANGED <<reqs, ver, unsent, resp, body, calls, todo, asyncs, reader, odd>>

WriteDone ==
  /\ pc = "write"
  /\ HeaderEnd # 0 => Sent.ok
  /\ Complete
  /\ request' = Parsed
  /\ buf' = <<>>
  /\ body' = SubSeq(Collected, HeaderEnd + 1, Len(Collected))
  /\ chunk' = SubSeq(chunk, Used + 1, Len(chunk))
  /\ resp' = [resp EXCEPT !.conn =
                IF ver = "1.1" /\ Parsed.conn = "none" THEN "keep-alive" ELSE Parsed.conn]
  /\ calls' = calls + 1
  /\ pc' = "call"
  /\ UNCHANGED <<reqs, ver, unsent, todo, asyncs, reader, odd>>

-----------------------------------------------------------------------------
(* service->call: what the selectors leave in the response, and what they  *)
(* send before they return.                                                *)

\* The handler leaves r in the response and calls send_data times times.
Answer(r, times) ==
  /\ pc = "call" /\ pc' = "send"
  /\ resp' = r /\ todo' = times
  /\ odd' = (odd \/ Misleads(r, times))
  /\ UNCHANGED <<reqs, ver, unsent, chunk, buf, request, body, calls, reader>>

\* No selector takes the request, or one fails (a script that does not load or throws).
CallMiss ==
  /\ Answer([resp EXCEPT !.code = 404], 0)
  /\ UNCHANGED asyncs

\* A script (js, jshtml) or the health page: content_length is set, then the body is
\* sent; a script that returns false has set Connection to close.
CallCounted ==
  /\ \E c \in Pages \cup Plain, times \in 0..MaxPieces, stop \in BOOLEAN :
       Answer([resp EXCEPT !.code = c, !.length = times,
                           !.conn = IF stop THEN "close" ELSE @], times)
  /\ UNCHANGED asyncs

\* A file: content_length is what stat and Range make it, negative for a range behind the
\* end (and -1 is no length at all); of a range that begins before the file, or when the
\* file has become shorter, less is read.
CallFile ==
  /\ \E c \in Pages \cup Plain, length \in -2..MaxPieces :
     \E times \in 0..length \cup {0} : Answer([resp EXCEPT !.code = c, !.length = length], times)
  /\ UNCHANGED asyncs

\* http_chunked_gzip (which needs allow_chunk) and webdav's PROPFIND: no length is set.
CallChunked ==
  /\ \E c \in Pages \cup Plain, times \in 1..(IF ver = "1.1" THEN MaxPieces ELSE 1) :
       Answer([resp EXCEPT !.code = c], times)
  /\ UNCHANGED asyncs

\* cs_ok and nothing sent: a status of webdav, a file that is not modified, a refusal.
CallBare ==
  /\ \E c \in Pages \cup Plain : Answer([resp EXCEPT !.code = c], 0)
  /\ UNCHANGED asyncs

\* A script calls async_url_get: code = 0, so that the selector sends nothing.
CallAsync ==
  /\ asyncs.started < MaxAsync
  /\ asyncs' = [started |-> asyncs.started + 1, open |-> asyncs.open + 1]
  /\ Answer([resp EXCEPT !.code = 0], 0)

\* The handler sends its next piece, a byte.
SendPiece ==
  /\ pc = "send" /\ todo > 0
  /\ todo' = todo - 1
  /\ LET p == SendData(Answering, 1) IN resp' = p.resp /\ reader' = p.reader
  /\ UNCHANGED <<reqs, ver, unsent, chunk, buf, request, body, calls, pc, asyncs, odd>>

\* reset() of the request and of the response, and on with the rest of the chunk.
NextRequest ==
  /\ resp' = FreshResponse
  /\ request' = NoRequest
  /\ body' = <<>>
  /\ pc' = IF chunk = <<>> THEN "recv" ELSE "write"

RequestFinish ==
  /\ pc = "send" /\ todo = 0
  /\ LET p == Finish(Answering)
     IN /\ reader' = p.reader
        /\ IF KeepsAlive(resp) THEN NextRequest
           ELSE resp' = p.resp /\ pc' = "closed" /\ UNCHANGED <<request, body>>
  /\ UNCHANGED <<reqs, ver, unsent, chunk, buf, calls, todo, asyncs, odd>>

\* upstream_caller::notify_in, when the adapter is at rest: the fields of the upstream's
\* answer replace those of the request, and a script, if one takes it, answers again.
\* Nobody calls request_finish or reset afterwards.
NotifyIn ==
  /\ pc = "recv"
  /\ asyncs.open > 0
  /\ asyncs' = [asyncs EXCEPT !.open = @ - 1]
  /\ \E c \in {"none", "close"}, l \in 0..1 :
       request' = [request EXCEPT !.head = FALSE, !.conn = c,
                                  !.len = IF request.pps = "s0" THEN l ELSE @]
  /\ \/ LET p == SendData([Answering EXCEPT !.resp = [@ EXCEPT !.code = 200, !.length = 1]], 1)
        IN resp' = p.resp /\ reader' = p.reader
     \/ UNCHANGED <<resp, reader>>
  /\ UNCHANGED <<reqs, ver, unsent, chunk, buf, pc, todo, body, calls, odd>>

Call == CallMiss \/ CallCounted \/ CallFile \/ CallChunked \/ CallBare \/ CallAsync
Server == Sniff \/ Sniff505 \/ WriteBad \/ WriteMore \/ WriteDone \/ Call \/ SendPiece \/ RequestFinish
Next == Deliver \/ Server \/ NotifyIn

\* The poll thread that is running the handler goes on to its end.
Spec == Init /\ [][Next]_vars /\ WF_vars(Server)

-----------------------------------------------------------------------------
(* Properties.                                                             *)

Plainly == asyncs.started = 0

\* The values the variables hold.
TypeOK ==
  /\ pc \in {"sniff", "recv", "write", "call", "send", "closed"}
  /\ calls \in 0..Len(reqs)
  /\ request.len \in Nat /\ request.pps \in {"s0", "lengthed"}
  /\ resp.ss \in {"0", "nobody", "need_body"}
  /\ reader.at \in {"header", "body", "chunks", "stream", "broken"}
  /\ pc \in {"call", "send"} => request.pps = "lengthed"
  /\ pc = "recv" => chunk = <<>>

\* However the bytes are cut and the requests pipelined, every request is parsed from
\* exactly its own bytes: what is collected, what is left of the chunk and what has not
\* arrived are the requests that were not handed to a selector, none lost and none read
\* twice, and the body handed over begins with the bytes of its own request
\* (mime::write, the recursion in onrequest).
Boundaries ==
  Plainly =>
    /\ pc # "closed" => buf \o chunk \o unsent = StreamFrom[calls + 1]
    /\ pc \in {"call", "send"} =>
         /\ request.len = reqs[calls].len
         /\ \A i \in 1..request.len : body[i] = Part(calls, "body")

\* A client that counts bytes by the HTTP rules never loses its place: between two
\* requests it has read exactly one whole answer for each request handed to a selector,
\* whatever mix of pages, counted and chunked bodies they had.  It breaks with the answers of
\* Misleads, a file sent in part among them, and with a late second answer (send_header,
\* send_data, request_finish).
WellFramed ==
  (Plainly /\ ~odd) =>
    /\ reader.at # "broken"
    /\ pc \in {"sniff", "recv", "write"} => reader.at = "header" /\ reader.done = calls

\* The connection is closed after an answer exactly if that answer said so, except that a
\* line that is no request line closes it without one (Connection in onrequest).
KeepAliveAnnounced ==
  (Plainly /\ ~odd) =>
    /\ pc = "closed" => ~reader.keep \/ \E k \in DOMAIN reqs : k = calls + 1 /\ ~reqs[k].ok
    /\ pc \in {"recv", "write"} => reader.keep

\* No answer is written that no request asked for; send_header refuses to send a second
\* header ("重复发送http头").
HeaderOnce == pc # "closed" => reader.done <= calls

\* When all its bytes have arrived a client gets an answer to every request, or the
\* connection is closed (the poll thread runs onrequest to its end).
Answered ==
  unsent = <<>> ~> \/ pc = "closed"
                   \/ reader.done = Len(reqs)
                   \/ odd \/ ~Plainly
=============================================================================
