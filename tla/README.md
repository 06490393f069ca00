# teapoy in TLA+

TLA+ modules, TLC configurations and TLAPS proofs for teapoy, the C++ application
server of this repository (`src/teapoy`): an HTTP/1.x and HTTP/2 server that hands
requests to scripts, files and upstreams, with a session manager, pools of data base
connections, a reverse proxy and a DNS proxy. Event loop, threads, locks and script
values come from the library libmilk, whose code is not in the repository; what the
modules say of it is what the code here relies on.

Paths below are relative to `src/teapoy/src`, unless they say otherwise.

## The system

| part | code | state it keeps | operations |
|---|---|---|---|
| session manager | `sessionmgr.cpp`, `webservice.cpp:269-397`, `sni/httpsession.cpp` | map from identifiers to sessions; per session its attributes, expiry and pointer count | get_session, set and get of attributes, copy and death of pointers, the reaper thread |
| pools of instances | `functional_master.cpp`, `functional_impl_{redis,mysql}.cpp`, `crontab.cpp` | list of instances, a mutex; per instance a lock and a pointer count | get_instance, underflow, pointers, try_del |
| HTTP/1.x connection | `webservice.cpp:560-680`, `http_1_0.cpp`, `http_1_1.cpp`, `mime.cpp` | adapter, partial request, header fields, response, send status | onrequest, mime::write, send_header, send_data, request_finish, reset |
| request cache | `fcache.cpp`, used by `mime.cpp:100-190` | buffer, temporary file, mapping | write, length, data, invalid_mapping |
| dispatch and selectors | `httplistener.cpp`, `url_dispatcher.cpp`, `url_selector_*.cpp`, `teapoy_gzip.cpp`, `webdav.cpp` | hosts and their selectors; per answer the response; the files | hittest, check_auth, send a file or the result of a script, list, write, move and remove files |
| upstream calls | `upstream_caller.cpp`, `sni/httpsession.cpp:190-240` | one object per async_url_get | start, notify_in |
| HTTP client | `httpclient.cpp` | one connection, buffered answer | open, request, get_response |
| HTTP/2 | `http_2_0_nghttp2.cpp` | an nghttp2 session, one request, one response | callbacks of nghttp2 |
| reverse proxy | `sni/rproxy.cpp` | set of waiting visitors, set of control connections | accept, pair, PING, dial |
| DNS proxy | `dnsproxy.cpp` | cache of packets | query, hit, miss, upstream answer |
| scripts | `js_extend17.cpp`, `script.cpp`, `url_selector_jshtml.cpp`, `sni/sys.cpp` | cache of byte code, engines, tasks | translate a page, load, call, reload, run tasks |
| environment | `env.cpp` | one map | get, set |
| daemon | `app/teapoyd.cc` | options, no_exit_mode | fork, wait, fork again; noexit |

How they interact. A thread of a poll (`aiopoll` of libmilk) reads a chunk from a
connection and calls the adapter's `onrequest`; when `mime` has a whole request the
same thread calls the selectors, a script runs in it, and the answer is written. Scripts
get a session (`getSession`) and hold it through an `httpsessionptr`; they construct
`Redis` or `Mysql` objects that hold an instance of a pool until they are collected.
Several poll threads share the session manager, the pools, the caches of byte code and
DNS and the sets of the reverse proxy. The session manager has a thread of its own.

What is hard, in one place each, is listed under `hazards` in `PROJECT.json`: the reaper
racing a lookup; identifiers that repeat; references that outlive a lock; the instance
that everybody sees before its creator has locked it; a spin with a mutex held;
requests cut and pipelined anywhere; answers of which length, chunking and keep-alive
are decided by different functions; an upstream heard after the request was finished;
short and failing writes into the spill file; cookies that are addresses; files and scripts that
change between a stat and the open, and twice within the second that a stat can tell.

## The modules

| module | what it is |
|---|---|
| `SessionStore` | what the session manager promises: identifiers name contents, a held session stays |
| `SessionMgr` | the manager, its sessions, pointers and reaper, step by step |
| `SessionMgrProofs` | its theorems |
| `InstanceAllocator` | what a pool promises: every instance has at most one user |
| `FunctionalPool` | get_instance, underflow, pointers and try_del of a pool |
| `FunctionalPoolProofs` | its theorems |
| `HttpConnection` | one HTTP/1.x connection with adapter, parser, handlers and client |
| `FCache` | the cache `mime::write` collects a request in, with failing system calls |
| `ConnectionProofs` | the theorems of these two |
| `Switchboard` | what the reverse proxy promises its visitors: dialed for once, put through once |
| `RProxy` | the reverse proxy: visitors, control and data connections, upstream threads |
| `RProxyProofs` | its theorems |
| `DnsProxy` | the DNS proxy: onrequest, its cache, and the threads that hear the upstream |
| `DnsProxyProofs` | its theorems |
| `Http2Connection` | one HTTP/2 connection whose streams share a request and an answer |
| `Http2ConnectionProofs` | its theorems |
| `FileSelectors` | dispatcher, static, gzstatic and webdav over one file system |
| `FileSelectorsProofs` | its theorems |
| `JsHtml` | the translation of a page into a script, as functions of the page |
| `ByteCodeCache` | engines that load a page through the common cache of byte code |
| `Tasks` | the supervisor, the server and the threads that run and reload scripts |
| `ScriptProofs` | the theorems of `JsHtml`, `ByteCodeCache` and `Tasks` |
| `MC*` | instances for TLC |

`PROJECT.json` (`map`) names the lines each definition stands for. Definitions that begin
with the comment `Fault:` are no part of the model: they are plausible bugs, each of which
breaks one of the properties when it takes the place of the definition it belongs to.

### SessionMgr

`allocated`, `sid`, `tm_life`, `smap`, `refs` are the session objects by address, `mgr` is
the map, `ptr` the `httpsessionptr` variables. A pointer variable also stands for the thread
that fills it: `pc`, `arg`, `due`, `ins`, `rehashed` are the locals of `get_session`.
`reaper`, `tm_now`, `unseen`, `sids` are the reaper's; `renewed`, a history variable, are those of
`sids` whose session a request has renewed since the scan collected it. One action is what happens between
two points at which another thread can intervene:

- `GetWithCookie`, `FindHit`, `FindMiss`, `Allocate`, `InsertNew`, `InsertTaken`:
  get_session, with the clock read and the object made before the lock is taken;
- `CopyPtr`, `DropPtr`: the pointer's constructor and destructor;
- `SetAttribute`, `GetReference`, `CopyAttribute`: `get` unlocks and returns a reference, so
  that reading an attribute is two steps;
- `Wake`, `ScanBegin`, `ScanOne`, `ScanEnd`, `ReapUsed`, `ReapUnused`, `ReapEnd`: `svc`.

The identifier of a session is the digest of its address, rehashed when it is taken, given
as the constant `Hash`. An address is used again after a session was deleted, so digests
repeat. The manager's reader/writer lock matters to other steps only during the scan; a
writer waits while `reaper = "scan"`.

`SessionStore` has two variables, the content of every identifier and the held pointers with
their session. Its steps open, close and copy pointers, create, modify and expire sessions; a
session may expire only while nobody holds it. `SessionMgr` implements it: contents are read
through the map, pointers through their address.

### FunctionalPool

The three pools (Redis, MySQL, crontab) have the same get_instance; the model is of one
pool. `es` is the list, `mutex` the mutex `l`, `locked` and `payload` the instances,
`ptrs[c][i]` how many pointers client `c` has to instance `i`. `TryLock`, `TryLockBusy`
walk the list without the mutex; `Underflow`, `PushBack`, `SpinLock` make an instance, publish
it and only then lock it, with the mutex held over the spin. `Store`, `DropLocal`,
`DropMember`, `TryDelUsed`, `TryDelLast` are the script object's pointer, the local pointer and
`functional_nonreentrant::try_del`. `InstanceAllocator` says what this has to amount to:
an instance is given to a client only when nobody has it.

### HttpConnection

The bytes of the client are tokens `[req, part]`: the request line, its end of line, the
fields with the empty line, and one token for every byte of the body. `unsent` is what has
not arrived, `chunk` what the adapter is looking at, `buf` what `mime` has collected. `Deliver`
cuts the stream anywhere. `Sniff` and `Sniff505` choose the adapter; `WriteBad`, `WriteMore`,
`WriteDone` are `mime::write` and the checks of `onrequest` around it; the `Call` actions are
what selectors leave in the response, and how many pieces of a body they send, one in each `SendPiece`;
`RequestFinish` ends the answer, closes or resets, and goes on with the rest of the chunk. `NotifyIn` is `upstream_caller::notify_in`.
`SendHeader`, `SendData`, `Finish` write units (header, data, chunk, last chunk), each of which the
client's `Read` counts by the rules of HTTP framing when it is written, so that `reader` is where the client
stands. The client is external: answers to HEAD, 204 and 304 have no body for it, a 1xx is not the answer yet, and a client
of version 1.0 takes chunks for bytes of a body that ends with the connection.

`CallFile` is `url_selector_static`, which announces what `stat` and the range make of the file and sends what it can read
of it: of a suffix range longer than the file one byte is announced and none sent, behind the end the count is
negative, and a file that has become shorter since the stat ends early.

The ghost `odd` records that an answer was sent in which a client that keeps to the rules does not find the end
(`Misleads`): a page or a chunk terminator where there is no body, as for HEAD, 204 and 304; a body of which more or fewer bytes are
sent than its Content-Length, or an impossible one; chunks in version 1.0 on a connection that stays open; a status 1xx. The framing
properties hold of connections on which that did not happen, and say that there is no other way to break them; nothing
in the repository promises otherwise, and the hazards are listed.

### FCache

`static` is the buffer up to `p`, `file` and `fd` the spill file, `mapped` and `mlen` the mapping,
`given` the bytes `parse` may read. A request is a sequence of writes, each followed by
`length` and `data`. write(2) returns anything from -1 to what was asked, mkstemp may
fail. Bytes are numbered in the order of their arrival, so that order and loss can be told.

### RProxy

A visitor's session lies at an address (`vpc`, `visitor`); `sessions` and `masters` are the
two sets of `rproxy_aioserver` with a lock each. `Arrive`, `Refuse`, `SendCookie`, `Enter`, `DestroyRefused` are
`accept_new_session` and what libmilk does with its result; the check of `masters` and the write
are under one lock and one step. Between the write (`SendCookie`) and the return of `oninit` (`Enter`) the cookie may already
have come back through an upstream, whose thread takes none of these locks. `Connect`, `AddMaster`, `MagicCut`, `DropControl`, `LoseControl`
are the two ends of a control connection, `Break` the network's part; either end may notice first,
so that the server may send cookies into a connection that is dead. `ReadCookie`, `Dial`,
`DialFails`, `DialService` are `thread_task`, one cookie at a time. `Claim`, `ClaimFails`, `CookieCut`
and `Redirect` are `onrequest` on a data connection: `remove_session` is under a lock, `detach` and
`async_redirect_to` come after it.

`Switchboard` is the visitors' view: who has come, who may be put through, whom no upstream has been told of, whom one
has been told of and not dialed for, and the lines, each with the visitor it was dialed for and the one it carries. It knows
no addresses, cookies, threads or locks. `Board` is the refinement mapping: `Awaited` are the visitors of the listed
sessions, `Told` those with a cookie on a control connection or in the hand of a thread, `LineOf` reads a data connection,
which is free until the cookie was sent and after it was found to name nobody. That the switchboard gives a line to another
visitor only when the one it was dialed for no longer waits is what is left of the promise when an address is used again.

A cookie is an address. The number of the visitor it was made for (`for`) and of the visitor a data
connection has claimed (`claimed`) are ghosts, as are `left` and `lost`. `UseDestroyed` is the step in
which a data connection uses a session that was destroyed; after it the behaviour of the
program is undefined and the model stops; so it is when a pair ends whose visitor's thread is still in `oninit`. `ClaimedAlive`
leaves three ways to it: the visitor hangs up between `remove_session` and `detach`, a cookie of an earlier visitor at the
address claims the session, or its own cookie is faster than the return of `oninit` (`vpc` is `"sent"`). The
connection that `thread_task` opens first and closes again without a word is left out, and so
are pings, which change nothing, and bytes an upstream sends on a data connection whose
cookie named nobody.

### DnsProxy

`cur`, `at` are the query `onrequest` is working on and where it stands: `Receive` (and the attempt to
put the refreshing socket into the poll), `FindHit` and `CopyOut` (one section under the lock for
readers), `FindMiss`, `OpenCall`, `OpenNoCache` and their failures, `SyncSend`, `SyncRecv`, `SyncTimeout`.
`call` are the `dnsasynccall` and `dnsasynccall_nocache` objects: `HearCall` passes the answer on,
`StoreCall` waits for the lock. `HearRefresh` and `StoreRefresh` are `dnsasynccache`. A packet is its
identifier, name, type and whether it has answers.

onrequest runs in one thread at a time: `attachdch`, `serverfd` and the write to the cached packet under a
lock for readers rely on that. `bound` is what `bind_upstream_dns` has left, which looks the host up twice
and may fail in between. A connection that cannot be made is `dead` at once: `open` logs a failing
connect and returns true, so that the client is never told. The upstream answers late or not at all.

### Http2Connection

The adapter has one `request`, one `response_header` (`header`) and one `response_body` (`body`) for all streams
of a connection. `request` is the set of parts of requests that it holds, and whatever is made of it carries
that set, so that an answer shows what it was made from. `RecvHeaders`, `RecvData`, `RecvEnd` are the callbacks
for headers and data; a frame with END_STREAM calls the selectors, submits and sends (`EndStream`, `Call`,
`Finish`), all within `on_frame_recv_callback`. ACK is the same bit as END_STREAM, so that `RecvSettingsAck` runs
the same code on stream 0: a request of which only the fields have come is handled then, and a second time
when it ends. `SendHeaders`, `SendData`, `SendLast` are `nghttp2_session_send` and the callback that reads the
body; `OnStreamClose` resets the shared objects, or, after `Connection: close`, makes `onrequest` return
false. Nothing is sent for a WINDOW_UPDATE. nghttp2 and the client are external, as far as the adapter sees them.

`CallAsync` is a script that calls `async_url_get`, and `NotifyIn` the answer of its upstream, which comes when the stream
may have been closed and reset: the fields of the upstream (`Foreign`) replace those of the request, the selectors are called with
them, and what they send is added to the shared body, where the next stream would send it; `stained` is a ghost that says
that this has happened since the last reset. `notify_in` does not finish, submit or reset anything, and no selector calls
`request_finish`, so that `pri_ss` stays as it is. A script that asks another upstream from within is left out.

The ghost `disturbed` has the streams that were not alone: another was open, SETTINGS were acknowledged
meanwhile, the connection was about to be closed, or the late answer of an upstream came since the reset before it. For these nothing holds, and nothing in the repository
says it should; that browsers overlap their requests makes it a hazard, which is listed. `calls` records how often
a stream's request was handed to the selectors, and for how much data.

### FileSelectors

Every slot is a poll thread with one request. `Hosts` gives each host its list of selectors, `real` of a selector
what its pattern makes of a URL. `Skip`, `Locate`, `TryPage`, `Pass` are the walk through the list and `hittest` with its
stats of the default pages, `Auth` is `check_auth` with every outcome the script may have. `Examine` is `vcall` of
static up to the header: stat, tag, If-None-Match, If-Range, ranges, gzip; `ExamineGz` that of gzstatic. `OpenFile`
opens by name what the stat has seen by name; `SendPlain` and `SendGzip` read it piece by piece. The webdav methods are
an action each, PUT, PROPPATCH and PROPFIND several, one per system call. `Fd` says when a file is closed.

The body that PUT writes (`Body`) is all that `mime` has collected behind the header: `over` bytes beyond the request's own
are those its client had pipelined.

A name stands for nothing, a folder or a file; a file stays readable after its name is gone. A byte is the request that
wrote it and its position, so that a body made of two writes is seen. `copy` is what a client keeps, with the tag;
it sends the tag along with its next request for that URL. `torn` are the threads whose file another request has
changed, `changed` and `blurred` what is needed to say when two contents may have one tag. A tag does not
name its file, so that default pages of one size and time have one tag; `Revalidated` compares copies of one name.

What the code does, and the model with it: a suffix range is the single byte `N` from the end, and the first range is the one that
begins first; a gzip stream of a multiple of the block is never finished; the result of write in PUT is not looked at;
a file that vanishes during PROPFIND is listed without a name; PROPFIND never closes the directory it opens
(`url_selector_webdav.cpp:80`). Reads go through the buffer of a stream in the code, so that the model's steps are finer.

### JsHtml and ByteCodeCache

`JsHtml` are operators and recursive functions. `Turn` is the automaton of `code_find`, `Scanned` its loop over the line, `CodeFind`
the search for `%>`; `Turns` and `Converting` are the loops of `code_convert`. What is written is a sequence of rows, a row standing for
a line of the script; `rlines` is the table that leads an error back to the page. `Faithful` is what a translation should be: the
rows are in the order of their lines, what they stand for (`Text`) is what the line says, a line break is written where the page has
one, except for blank lines, which vanish; and code ends at the first `%>` outside quotation marks. The history `odd` tells when the
code differs from that, and `Faithful` asks nothing of such a page: a slash that begins no comment is copied twice
(`Twice`), so that the copy that is searched is longer than the line and all positions after it are shifted; and a line that ends
between the two characters that begin or end a comment leaves the second to the search in the next line, where it has the
same effect. An earlier form of this exception, which named the characters of such pages (a slash with no slash or star beside it), was
wrong in both directions, as the proof showed: `<%/**//` followed by `%>` escaped it, and every page with `</p>` was excepted. Others need no
exception, but are worth knowing: `//` hides `%>` up to the end of the line, and a line of code that
begins with `=` is taken for an expression. What `html_2_str` makes of quotation marks is left out, as is the text
of the calls that are put around.

A row is written on a line of its own, but `getline` leaves the carriage return of a CRLF page in it, and nothing takes it out: in
code it is one more line for the compiler (`FirstLine`), so that the table, which has a line for each row (`LineTold`), tells
lines that are too low down for what stands below; in HTML it comes to lie in a string literal, and the page does not compile
(`Compilable`). `Reported` is about the rows above which there is none.

`ByteCodeCache` is `load_file` by several engines, and the pool that resets an engine after its request. `Stat`, `Hit`, `Miss`,
`Read`, `Compile`, `Execute`, `Publish`, `Bind` are its system calls and its two sections under the lock; `Bind` looks the table up
without it. `private` is what the context of the engine points at: the table on the stack of `load_file`, the one in
the map, or nothing once the pool has reset the engine. `Read` is one turn of the loop that reads the file, and `code` has what the
file contained at each turn until the read that is short: as turns take place at any time, a file that is edited in place, or removed
and written again, may be read as a mixture. A turn takes a line of the page, where the code takes 4096 bytes, so that
the blocks of a mixture end where lines do. `Blocks` are all mixtures of the pages that may be read, and `Script` is
what each is translated to. There is one page: entries of two pages share only the lock. `held`,
`mixed` and `replaced` are ghosts: what the file contained since an engine's stat, the seconds with two contents, and the engines whose
entry was replaced by that of an engine which had not loaded the same file (`SameFile`). Of other engines that compiled the same
file `Reported` says that their entry may take the place of an engine's own: `bytecodemap[scriptfile] = c` (535) assigns to the
vector that other contexts point into, and what they find there is right. That the file is removed counts as an edit with a time of its own, which makes the model
more cautious than it has to be. Not modelled: the data race of the lookup without the lock, byte code that cannot be encoded or
decoded. Where a division makes `substr` throw, the load counts as one that fails to compile.

### Tasks

`Fork`, `Wait` are the supervisor, `NoExit`, `Start`, `Stay`, `Exit`, `Crash` the server: the main script starts tasks and
returns, the process stays or ends. waitpid answers with a number that is not 0 also when it fails, so that the
supervisor starts the server again whatever happened, even when its script has returned as it should. `Stat0`, `Load`, `Stat1`,
`Reload`, `Ontimer`, `Onthread`, `Sleep`, `End` are the two threads of `sni/sys.cpp`, which are the same but for the call and the
loop. The result of `load_file` in `Reload` is ignored, as in the code: a script that was read while it was half
written leaves the engine with nothing to call until the time of the file changes. Nothing a process has survives it.
Each task is started once by a server; `pthread_create` and the pool are taken to succeed.

## What the runs check

| run | question | bounds |
|---|---|---|
| `session` | held sessions live, none is lost, counters are exact, readers are disturbed only by peers, a session goes before its time only on a verdict of the scan that a renewal has overtaken, the store is implemented, expired sessions go | 2 pointers, 2 addresses whose first digests collide, 3 identifiers, 1 attribute, clock 0..2, lifetime 1, 1 rehash |
| `pool` | no instance is shared or lost, get_instance returns, the allocator is implemented | 3 clients, 3 instances, 1 held at a time, 2 gets each |
| `pool_nested` | does get_instance still return when a client holds two instances? No | 2 clients, 3 instances, 2 held at a time |
| `http` | requests keep their boundaries, answers their framing, closing is announced, every request is answered | up to 3 requests (HEAD or not, body or not, three Connection fields, bad lines), all cuts, statuses 100, 200, 304 and 404, lengths -2 to 2, up to 2 pieces, 1 asynchronous call |
| `http_async` | is a request answered only once when a script calls async_url_get? No | 1.1, one request |
| `fcache` | parse is given the bytes that arrived, in order; the mapping is never stale | buffer of 3, chunks of 1 to 3, 7 bytes, descriptors 0 and 3 |
| `rproxy` | a waiting visitor is claimed once and not forgotten, lists hold no destroyed session, and is served unless its cookie was lost; the switchboard is implemented | 2 visitors, 2 addresses, 1 upstream, 2 control connections of which one may break, 2 data connections |
| `dns` | a query is answered once, with what it asked for, whatever is stored meanwhile | 4 queries: 3 for one host, 1 for another type; 2 identifiers |
| `http2` | a request that is alone on its connection is handled once and answered whole, with nothing of those before it | 3 requests: HEAD, without a body, with one; up to 2 frames of data and a window of 2; 1 asynchronous call |
| `web` | an answer is what was asked of one state of a file, a copy that is called current is, a PUT leaves its body | 2 threads, 3 requests out of 14, one of them a PUT with a pipelined byte behind it, 2 names and a directory with default pages, 3 files, clock 0..1, files of 3 bytes, blocks of 2 |
| `engines` | a request runs a fresh script, whatever is edited while it is read, its engine points at a table that is right for it, and every page and mixture is translated faithfully | 2 engines, 3 loads, 2 edits, 8 pages of which 2 are written by edits, clock 0..2 |
| `tasks` | a task calls a fresh script, and in the end the last one | 1 timer, 1 task that runs once, 3 contents of which one cannot be loaded, 3 edits, clock 0..2; any number of crashes |

Why the bounds are enough. Sessions: two pointers give every race of two handlers, of a
handler and the reaper, and of two pointers to one session; two addresses that collide give
the rehash and the reuse of an address; the clock may pass an expiry once and again after
a renewal, which lets a session be renewed while it waits to be reaped. Pool: the creator, a thief of the fresh instance and a third client that scans
meanwhile; an instance comes back and is given out again. HTTP: a file is sent of any length up to 2 under any from -2 on; the second request is
the one that finds what the first left behind, the third one that finds what only the
recursion inside the recursion leaves; a cut may fall before, in and after every part. FCache: 7
bytes reach the buffer's end, the spill and two writes after it, with every short write.
Reverse proxy: the second visitor may come to the address of the first while its cookie is under
way; the control connection may break with cookies on it and be replaced while the server still has
the old one. DNS: the first query fills the cache, the third is answered from it while the answer to the second is
stored, and the fourth would be served records of the wrong type if it were cached; equal identifiers let late
answers of sync_call be taken for another's. HTTP/2: the window is used up exactly by one answer of full length, so that the next
waits with all or half of its data; the last request may find what either of two others, or an upstream that was asked by one
of them, has left. Files: a thread
reads while the other changes what it reads, then a third request sees what both have left, which is a copy, a
write that it is compared with, and a revalidation; 3 bytes in blocks of 2 are sent in two
steps, and a body of 2 is a multiple of the block; two ranges come in the wrong order. Engines: one compiles while the page is edited
and the other hits or replaces its entry, then one loads again. The 8 pages are the empty one, one with a line
before the function, two with carriage returns in code and in HTML, and four whose first line has a quotation mark or the beginning of a
comment and `%>`, in either order, or a whole comment, so that the end of the code may be hidden and a string or a
comment go on in the next line; the theorem is about all pages. Two reads with an edit between them, and a third that
finds the end, are all that a mixture needs; edits write the empty page and the one with a line before the function. Tasks: an edit in every place of a load, a second one in
the same second or a later one, and a third that brings back what was there.

Deadlock is checked in `session` (the clock stops, handlers and the reaper do not) and
`fcache` (a request may always begin anew). `pool`, `rproxy`, `dns`, `http2`, `web`, `engines` and the two HTTP/1.x runs end when the
clients have used up their requests, and `tasks` when a server without a supervisor has ended; they say `CHECK_DEADLOCK FALSE`.

The type invariants of `SessionMgr`, `FunctionalPool`, `HttpConnection`, `FCache`, `RProxy`, `DnsProxy`, `Http2Connection`, `FileSelectors`, `ByteCodeCache`
and `Tasks` are not repeated by a run, since they are proved.

### The two runs that end in a violation

- `pool_nested`: the creator publishes its instance, another client's scan locks it first,
  and asks the pool for a second one, for which it needs the mutex that the creator holds
  while it spins. `src/teapoy/include/teapoy/functional_master.h:35` says that several instances
  may be got and that the pool allocates them safely.
- `http_async`: `async_url_get` sets `code = 0` so that the selector sends nothing, but
  `onrequest` goes on to `request_finish`, which sends a header (500) and an empty chunked body,
  and to `reset`. When the upstream is heard, the same request is answered again.
  `http_1_1.cpp:94` refuses to send a header twice, by a status that `reset` has set back.

### Fairness

- `SessionMgr`: `WF_vars(Reaper)`. `svc` is a thread's own loop; no handler keeps the lock for
  longer than a map operation. Nothing is assumed of the handlers or the clock: `ExpiredReaped`
  says that a session that has expired is reaped, renewed or held again.
- `FunctionalPool`: `WF_vars(Step(c))` and `WF_vars(Collect(c))` for every client: a thread goes on,
  and a script's objects are collected at its end. The spin needs the second: what it
  waits for is an object of another script.
- `HttpConnection`: `WF_vars(Server)`, the poll thread that runs `onrequest` to its end. The
  client need not send, and `Answered` asks for nothing until all its bytes have arrived.
- `RProxy`: weak fairness for the thread of every session, of every upstream and of every data
  connection: each is driven by a poll or a loop of its own, and `connect` returns in the end, if
  only with an error. Nothing is assumed of the network or of a visitor.
- `DnsProxy`: weak fairness for the thread of the listener, for that of every call and for the one that hears
  the refreshing socket. The upstream is not assumed to answer, and `Answered` does not ask for it.
- `Http2Connection`: `WF_vars(Server)`: `nghttp2_session_send` runs until nothing may be sent. The client need not
  send, nor update the window.
- `Tasks`: `WF_vars(Fork)` and `WF_vars(Wait)`, the loop of the supervisor, and `WF_vars(TaskStep(t))` for every task, a
  thread of its own: sleeps end and calls of scripts return. Nothing is assumed of the main script, of crashes or of edits:
  `Reloaded` asks for nothing unless the timer goes on running and the file stays as it is.
- `FCache`, `FileSelectors` and `ByteCodeCache` state no liveness.

## What is proved

All theorems are for every value of the constants allowed by the module's `ASSUME`.

**SessionMgrProofs**, from `SessionAssumption` (the sentinels are no members of the sets they
are sentinels for, `Hash` is a total table, the set of pointers is finite). The invariant is

    IInv == TypeOK /\ Phases /\ FreshObjects /\ HeldAlive /\ MapMatchesHeap /\ RefsCountPointers

`Phases` ties every pointer's locals to its place in `get_session`; without it a step of the
second half could not know what the first half left. `FreshObjects` says that an object that is
not in the map yet has no content: without it `InsertNew` could publish a session that already
has attributes, which no step of `SessionStore` does. `HeldAlive` is inductive only together with
`RefsCountPointers` (the reaper deletes at count zero, so that count zero has to mean that there
is no pointer) and with `MapMatchesHeap` (deleting one entry must not delete the object of
another). `ReapedExpired`, which relates a deletion to a scan that may be long over, rests on a second
invariant, `Verdicts`: an entry the scan has yet to visit or has collected is still in the map, the reaper
having alone the right to take it out, and a collected session either was over when the reaper read its
clock or has been renewed since; no allocation, rehash or deletion of another entry touches its lifetime.
Theorems: `TypeCorrect`, `HeldSessionsAlive`, `NoSessionLost`, `CountersExact`,
`ReadersDisturbedOnlyByPeers`, `VerdictsHold`, `ReapedOnlyExpired`, and `ManagerIsStore`, the refinement of `SessionStore`.

**FunctionalPoolProofs**, from `PoolAssumption`. The invariant joins `TypeOK`, `Phases` (what a
client's `pos` and `cur` are at each place), `Counted` (an instance has at most one claimant, that is, a user or
a client about to unlock it; it is locked exactly while it has one, and its payload is the number
of that client's pointers: `Exclusive` and `LockedWhileUsed` follow from it, and neither is
inductive without the payload, by which `try_del` decides), `Fresh` (an instance that is yet to be
appended has one appender and is not in the list) and `PooledOnce`. The theorems do not depend on
`MaxHeld`: safety holds even where `GetReturns` fails. Theorems: `TypeCorrect`, `MutualExclusion`, `NoInstanceLost`,
`ListComplete`, and `PoolIsAllocator`, the refinement of `InstanceAllocator`.

**ConnectionProofs**, about `HttpConnection` from `HttpAssumption`: any list of requests, any cut of their bytes, any number of pieces and
of asynchronous calls. The invariant comes in three layers. `Parsing` joins the types with `Ordered` (what is in the buffer, in the chunk and
yet to arrive are tokens in the order of their requests, with one empty line each, and none of a request that was called: `calls` cannot pass the
number of requests, whatever `notify_in` has done to the parser) and `Waits` (the header or the body of a request that is
waited for is incomplete in the buffer, so that the empty line of a later request cannot be taken for its end); `TypeOK` follows. `Own` is the part
that `Boundaries` rests on: what is not read yet is exactly the stream from the next request on, and the fields are those of the request at
hand; without the fields a body could be cut by the length of another request. `Framing` says where the client stands at
each place of the code: before the header, after it with as many bytes to come as the handler still sends, among chunks, or after an
answer; `WellFramed` alone is not inductive, because it says nothing between a header and the end of its body. It holds of every
answer but those of `Misleads`, which are defined by what the handler leaves and sends, not by what its client makes of it. The stream is a recursive
function; that it unfolds, and is sorted, is shown through least elements (`LeastNat`, `Counting`), since no induction theorem can be used.
Theorems: `ConnectionTypeCorrect`, `RequestsCutRight`, `ClientKeepsPlace`, `KeepAliveKept`; the last three hold of connections without asynchronous
calls, and `http_async` shows why.

The second half is about `FCache`, from `FCacheAssumption`. `CacheInv` joins `CacheTypeOK`, `Stored` (buffer or file
hold what arrived, as long as no call failed), `Measured` (what `length` returned is what is
stored, and nothing is mapped between `length` and `data`), `MappingCurrent` and `GivenAll`. `InOrder` needs `StoredInOrder`: what is
stored are bytes of the request in their order, or there is junk in the file; `TwiceOrdered` is the lemma about the two tries of `write`.
Theorems: `CacheTypeCorrect`, `ParserSeesRequest`, `MappingNeverStale`, `NothingTwice`. The real buffer has 65536 bytes and the run one of 3; the theorem
closes that gap.

**RProxyProofs**, from `RProxyAssumption`. The invariant joins the run's safety properties with `Numbered`
(visitors' numbers are unique and a claim has one; `PairedOnce` needs it against addresses that are used
again) and `CookiesOwned` (a cookie was made for a visitor that has come, and if that visitor is still
there, its thread has written the cookie of that address; without it a session could be claimed by its own cookie
and then refused). `ClaimedAlive` holds from the write on, and so from before `oninit` returns. That the proxy implements `Switchboard` needs one thing more, `Once`: on all control connections and in
all hands there is at most one cookie for a visitor. Without it a thread could dial for a visitor whom another thread still
holds a cookie for, which is no step of the switchboard. `Once` holds because a cookie is written while its session
is `"added"`, and `CookiesOwned` says that a session a cookie was made for is not. Every action is then shown to be a step of
the switchboard or none: `Arrive` is `Come`, `Refuse` and the destructor are `Leave`, `SendCookie` is `Ring`, `Break` and
`DialFails` are `Forget`, `Dial` is `Dial`, `Claim` is `PutThrough` (by `CookiesOwned` it is the right visitor as long as
that one waits), `ClaimFails`, `CookieCut` and `EndPair` are `HangUp`, and the rest, `Enter` among it, is not seen. Theorems: `TypeCorrect`,
`ListsAlive`, `ClaimedOnce`, `NotForgotten`, `ClaimsAreAlive`, `CookiesOnce`, and `ProxyIsSwitchboard`, the refinement of
`Switchboard`.

**DnsProxyProofs**, from `DnsAssumption`. The invariant joins the safety properties with `Working` (the query at
hand has been neither answered nor passed on, which is why it is answered once; and under the lock the cached packet keeps the
identifier it was given), `Calls`, `Refreshing` (only queries for addresses go where the answers are
cached) and `Syncing` (what comes in through `serverfd` answers what went out through it, so that the
exception of `AnswersOwnQuery` is the only one). Theorems: `TypeCorrect`, `AnswersAreDue`, `AnsweredOnce`,
`CacheIsRight`.

**Http2ConnectionProofs**, from the assumption on the constants. `OwnAnswer` rests on three conjuncts: `Single` (as long as a stream
is undisturbed, no other is open), `Empty` (when no request is at hand, the shared objects are as `reset` leaves them;
this is what carries over from one request to the next) and `Owns` (what the shared objects hold
belongs to the one open stream, part by part as it goes through its states). `HandledOnce` rests on `Ledger` (what the selectors have sent for
a stream is in its answer or still in the body) and `Unheard` (the request object does not hold the head of a stream that is over, so that no
later call is counted for it). `Empty` excepts a connection that is `stained`: what `NotifyIn` has left stays until the next stream,
which is disturbed by it, is closed and reset. Theorems: `TypeCorrect`, `AnswersNotMixed`, `HandledOnceEach`.

**FileSelectorsProofs**, from `FilesAssumption`: any number of threads, any hosts and requests, files of any length. The step `Does(x)` of a
thread is taken apart once, into what it does to itself (`Moves`), to the files, and to the name another thread works on; the invariants use only
that. `Stored` needs `Owned`: a writer nobody has disturbed has open the file of its name, which is empty still; what it then
writes are the bytes of the request and those pipelined behind it, for any number of both. `Delivered` needs, of every
thread that answers, `Coded` and `Headers` (length and range that the header announced are those of the stat), `Counts` (how far the file has been
read, whoever writes to it), `Reads` (the file of a thread that is not torn has the bytes of its stat) and `Sent` (what is sent so far is
what was announced, up to the position). `Revalidated` is the deepest: a tag is a time in seconds and a length, so that it needs `Dated` (a file has the
time of the last change of its name, or is empty), `Linked` (names and descriptors that share a file are blurred), `Sound` (of a name that is not
blurred one tag has one content, for every copy and every stat a thread still has) and, for the moment in which PUT has emptied a file and not
written it yet, `Emptied` (a tag of this second is that of the empty file). `Overtaken` is what makes a torn answer harmless: its tag is out of
date before the client can send it back. Theorems: `TypeCorrect`, `BodyStored`, `SentAsAnnounced`, `CopiesCurrent`. The proof of
`Delivered` showed that the ghost `torn` was wrong: a thread between its stat and its open is disturbed, too, by a write to the file through
another name; TLC had not reached it with the files of the run, and `Tear` has it now.

**ScriptProofs**, about `ByteCodeCache` from `PageAssumption`, `HtmlAssumption` and `TimeAssumption`. `FreshCode` is not inductive: an engine may take an
entry that another has stored. The invariant `Fresh` says of all code, an engine's and the entry's, what it is worth to any
other engine: as long as the file has the time the code was stored with, each block of it is of what the file contains (`OwnIsOf`,
`EntryIsOf`), and an engine whose stat gave that time has seen, since, every content that a block is of (`OwnUsable`, `EntryUsable`); all this
unless two contents shared the second. A turn of the loop adds a block of what the file contains to those that were read (`ReadFresh`). It needs that no such time lies ahead of the file's (`Times`) and that an engine has what the file
contains now among what it has seen (`Present`). That what was read is among the `Blocks` for which there is a script, however the file
is edited, is `ReadBlocks`. `Reported` needs `Same`: the entry has the code of every engine that points at it, or the engine is
excepted. When another engine replaces the entry this rests on `Fresh`: loads of the same file, which has had one content since, have
read the same blocks, and as many (`OneReading`, `SameCode`). Theorems: `TypeCorrect`, `Freshness`, `Reporting`. Of the translation they use
only that the table has an entry for each row.

The first half of the module is about the translation itself, from `CharAssumption` (the pages may have any characters beside those of the
tags) and `HtmlAssumption` (a page is a sequence of sequences of characters). `EveryPage` says that every page, of any length, is
translated faithfully, and `Conversion` that hence every script that is run is, also of a mixture; TLC checks `Converted` for the 8 pages of the
run and their mixtures. Each of the loops is a recursive function; that it has the values its definition says (`Loop`) and that a fact which a turn
preserves holds at the end (`Counting`) rest on least elements (`LeastNat`), as no induction theorem of the library can be used. Then
there is an invariant for each loop. For the characters of `code_find` (`Reads`): what has been copied is, character by character, what was read or
the placeholder, one for one, except for a star that may end a comment and the rest of a line behind `//`; so a position in the copy
is one in the line (`CodeFindRight`). In code without double quotes, escapes and slashes, moreover, the status
is `apos` exactly behind an odd number of apostrophes (`Quoted`), which gives `EndsRight` (`CodeEnds`). For the turns of a line (`Whole`, from
`Core`, `Plain`, `Partly` and `Upto`): what the rows of the line stand for is what has been read of it (`Told`), the line break is in the last row if
the line is over (`Broken`, `Unbroken`), HTML and code alternate, and code that follows HTML begins in normal status. For the lines (`Between`): so it
is of all lines before. A row is appended in one place (`Write`), which the parts of a turn (`InitPartRight`, `HtmlPartRight`,
`CodePartRight`) cite. That no page but an odd one makes `substr` throw is part of it (`~thrown`). What remains open is `EndsRight` for
code with double quotes, backslashes, slashes (comments among them), code that does not begin behind HTML, and code over several
lines: `Faithful` asks it only of the rest. Theorems: `EveryPage`, `Conversion`.

The last part is about `Tasks`, from its three assumptions. As above, the invariant says that no time lies ahead of the file's (`StampsPast`),
that the file is among what a task has seen since its stat (`SeenSince`) and that an engine whose task has the time of the file has what the file contains, or
had nothing that could be loaded, unless two contents share the second (`Sync`). Theorems: `TasksTypeCorrect`, `TasksFresh`.

Only model-checked: the liveness properties `ExpiredReaped`, `GetReturns`, `Answered` (of three modules), `Served` and `Reloaded`
(fairness is out of the prover's reach). Every
other property of a run that passes is a theorem. The two violations are TLC's, as a counterexample has to be.

## What is left out, and why

- Sessions: the two dispatch layers above `get_session`; `operator=` of `httpsessionptr`, which
  would leak a count if it were used on a pointer that is not null, and is not.
- Pools: what an instance does with its data base; that a failed `init` is ignored is in
  the hazards. The list is read while it is appended to; the model lets a reader see it before
  or after.
- HTTP/1.x: cookies, parameters, multipart bodies, request bodies with
  Transfer-Encoding, the upgrade to HTTP/2. A handler and
  `notify_in` are assumed not to run at once, since libmilk locks the session.
- FCache: a failing `mmap`, and `invalid_mapping`, which has no caller.
- DNS proxy: the layout of packets; `bind_upstream` called again while queries are served, which deletes a socket
  that is in the poll; the last two bytes of a TCP answer, for which `notify_in` does not wait (410: the
  length does not count its own two bytes).
- HTTP/2: the TLS socket, names and values of fields, cookies, which no reset clears, so that they go to later streams, too; a script
  that calls `async_url_get` again from within `notify_in`.
- Files: errors other than a missing file (EACCES, ENAMETOOLONG), the options `nocache` and `nogzip`, which nothing sets
  true, types of contents, If-Match lists; folders inside folders. The script that authorises stands for its answers.
- Scripts: a read of a page that ends within a line, so that a mixture may have a line of two contents; SpiderMonkey, `require`, Lua, and scripts other than pages, which no cache keeps.
- Not yet: the HTTP client and the Redis client (see the plan).
- Not at all: MySQL, MongoDB and other data base clients, console, curl, process start, which are sequential and mostly input
  and output; the environment, one map whose reference after the unlock has the same shape as `get` of a session;
  `http_2_0_hpack.cpp` and its table, which nothing uses.

## Plan

Done: all modules above, with their runs and theorems. Next, in this order:

1. Theorems: the end of code with double quotes and comments; a client of `HttpConnection` that is told which of its answers were odd.
2. The HTTP client and the Redis client: readers of answers that arrive in pieces, composed with `upstream_caller` and
   with the pool.
3. The parser of `mime.cpp` in more detail: header fields, chunked and multipart bodies.
