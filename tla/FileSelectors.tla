----------------------------- MODULE FileSelectors -----------------------------
(***************************************************************************)
(* Files that are sent and files that are changed: the dispatcher          *)
(* (src/url_dispatcher.cpp, httplistener.cpp) and the selectors static,    *)
(* gzstatic and webdav.  Every slot is a poll thread with a request at     *)
(* hand; the file system is shared, and a step ends at every system call   *)
(* that reads or changes it.                                               *)
(*                                                                         *)
(* A byte is <<source, position>>: it shows what it was made from.  The    *)
(* file system, zlib, pcre and the script that authorises are external,    *)
(* as far as the selectors see them.                                       *)
(***************************************************************************)
EXTENDS Integers, Sequences, FiniteSets, FiniteSetsExt

CONSTANTS
  Slot,         \* poll threads
  Path, Inode,  \* names and files
  Root,         \* a directory with nothing but default pages
  None, Folder, \* what a name may stand for, if not a file
  Index,        \* the default pages of Root, in order
  Hosts,        \* Hosts[h]: the selectors of a host, [kind, methods, auth, real]; "*" is any other host
  Requests,     \* what clients ask: [host, method, url, cond, range, gzip, dest, size, over, mtime]
  MaxRequests,  \* bound: how many requests
  MaxTime,      \* bound: the clock, in seconds
  Present,      \* the names that there are in the beginning ...
  Size,         \* ... and how long their files are
  Threshold,    \* static: smaller files are neither tagged nor compressed
  Buf, Block    \* how many bytes are read at a time, plain and to be compressed (16384)

Name == Path \cup {Root}
Changing == {"PUT", "DELETE", "MOVE", "MKCOL", "PROPPATCH"}

ASSUME FilesAssumption ==
  /\ None \notin Inode \cup Name /\ Folder \notin Inode /\ None # Folder /\ Root \notin Path
  /\ Buf \in Nat \ {0} /\ Block \in Nat \ {0}
  /\ {MaxTime, MaxRequests, Threshold, Size} \subseteq Nat
  /\ Present \subseteq Path /\ Index \in Seq(Path) /\ "*" \in DOMAIN Hosts
  /\ Folder \notin Nat \X Nat
  /\ \A h \in DOMAIN Hosts : Hosts[h] \in Seq({Hosts[h][i] : i \in DOMAIN Hosts[h]})
  /\ \A h \in DOMAIN Hosts : \A i \in DOMAIN Hosts[h] : LET s == Hosts[h][i] IN
       /\ s.kind \in {"static", "gzstatic", "webdav"} /\ s.auth \in BOOLEAN
       /\ \A url \in DOMAIN s.real : s.real[url] \in Name
       \* Root itself stays.
       /\ \A q \in Requests : q.method \in Changing =>
            \A url \in {q.url, q.dest} \cap DOMAIN s.real : s.real[url] \in Path
  /\ \A q \in Requests :
       /\ q.size \in Nat /\ q.over \in Nat /\ q.mtime \in 0..MaxTime /\ q.gzip \in BOOLEAN
       /\ q.range \in Seq({q.range[i] : i \in DOMAIN q.range})
       /\ \A i \in DOMAIN q.range : LET e == q.range[i] IN
            \/ Len(e) = 1 /\ e[1] \in Nat
            \/ Len(e) = 2 /\ {e[1], e[2]} \subseteq Nat \cup {None} /\ {e[1], e[2]} # {None}

VARIABLES
  dir,     \* dir[p]: the file of a name, None or Folder
  data,    \* data[i]: the bytes of a file
  mtime,   \* mtime[i]: when it was changed last, in seconds
  now,
  asked,   \* how many requests there were
  run,     \* run[r]: the request of a thread and the locals of its handlers
  \* Ghosts.
  copy,    \* copy[url]: what the client was sent last for url, with its tag
  torn,    \* threads whose file was changed while they sent or wrote it
  changed, \* changed[p]: when a file of this name was written or removed last
  blurred  \* names whose files may have had one tag twice: see Revalidated

files == <<dir, data, mtime>>
ghosts == <<copy, torn, changed, blurred>>
vars == <<files, now, asked, run, ghosts>>

Urls == {q.url : q \in Requests}
NoFile == [name |-> None, tag |-> None, bytes |-> <<>>]
\* first and last: the Content-Range; ended: the gzip stream is complete; list: what PROPFIND has found.
NoAnswer == [code |-> 0, coding |-> "none", length |-> -1, first |-> 0, last |-> -1,
             sent |-> <<>>, ended |-> FALSE, list |-> {}]
\* at: the selector that is tried; page: the default page; no: the number of the request, that of its body;
\* st: what stat found; left: datacount; todo: names yet to be listed; held: the copy of its client.
Rest == [pc |-> "idle", q |-> CHOOSE q \in Requests : TRUE, no |-> 0, at |-> 1, page |-> 1, real |-> Root,
         st |-> NoFile, fd |-> None, pos |-> 0, left |-> 0, todo |-> {}, held |-> NoFile, ans |-> NoAnswer]

Init ==
  /\ dir \in [Path -> {None} \cup Inode]
  /\ \A p \in Path : dir[p] # None <=> p \in Present
  /\ \A p, o \in Present : dir[p] = dir[o] => p = o
  /\ data = [i \in Inode |-> IF \E p \in Path : dir[p] = i
                             THEN [n \in 1..Size |-> <<CHOOSE p \in Path : dir[p] = i, n>>] ELSE <<>>]
  /\ mtime = [i \in Inode |-> 0]
  /\ now = 0 /\ asked = 0
  /\ run = [r \in Slot |-> Rest]
  /\ copy = [u \in Urls |-> NoFile] /\ torn = {} /\ changed = [p \in Path |-> 0] /\ blurred = {}

----------------------------------------------------------------------------
(* The dispatcher *)

\* What the requests of a host are tried on, one after the other.
SelectorsOf(q) == IF q.host \in DOMAIN Hosts THEN Hosts[q.host] ELSE Hosts["*"]
\* url_to_localtion: assertions and pattern of the selector match.
Matches(s, url) == url \in DOMAIN s.real
Selector(r) == SelectorsOf(run[r].q)[run[r].at]
Answer(r, code) == run' = [run EXCEPT ![r].pc = "done", ![r].ans.code = code]
NextSelector(r) == run' = [run EXCEPT ![r].pc = "locate", ![r].at = @ + 1]
Call(r, p) ==
  run' = [run EXCEPT ![r].pc = IF Selector(r).auth THEN "auth" ELSE "call", ![r].real = p]

Begin(r, q) ==
  /\ run[r].pc = "idle" /\ asked < MaxRequests
  /\ asked' = asked + 1
  /\ run' = [run EXCEPT ![r] = [Rest EXCEPT !.pc = "locate", !.q = q, !.no = asked', !.held = copy[q.url]]]
  /\ torn' = torn \ {r}
  /\ UNCHANGED <<files, now, copy, changed, blurred>>

\* No selector wants the request.
Pass(r) ==
  /\ run[r].pc = "locate" /\ run[r].at > Len(SelectorsOf(run[r].q))
  /\ Answer(r, 404)
  /\ UNCHANGED <<files, now, asked, ghosts>>

\* The selector's method, pattern and, but for webdav, the stat of hittest: it passes ...
Skip(r) ==
  /\ run[r].pc = "locate" /\ run[r].at <= Len(SelectorsOf(run[r].q))
  /\ LET s == Selector(r) u == run[r].q.url IN
       \/ run[r].q.method \notin s.methods
       \/ ~Matches(s, u)
       \/ s.kind # "webdav" /\ s.real[u] \in Path /\ dir[s.real[u]] \in {None, Folder}
  /\ NextSelector(r)
  /\ UNCHANGED <<files, now, asked, ghosts>>

\* ... or takes the request, or tries the default pages.
Locate(r) ==
  /\ run[r].pc = "locate" /\ run[r].at <= Len(SelectorsOf(run[r].q))
  /\ LET s == Selector(r) u == run[r].q.url IN
       /\ run[r].q.method \in s.methods
       /\ Matches(s, u)
       /\ \/ (s.kind = "webdav" \/ (s.real[u] \in Path /\ dir[s.real[u]] \in Inode)) /\ Call(r, s.real[u])
          \/ s.kind # "webdav" /\ s.real[u] = Root /\ run' = [run EXCEPT ![r].pc = "pages", ![r].page = 1]
  /\ UNCHANGED <<files, now, asked, ghosts>>

\* One stat after the other.
TryPage(r) ==
  /\ run[r].pc = "pages"
  /\ LET k == run[r].page IN
       \/ k > Len(Index) /\ NextSelector(r)
       \/ k <= Len(Index) /\ dir[Index[k]] \in Inode /\ Call(r, Index[k])
       \/ k <= Len(Index) /\ dir[Index[k]] \notin Inode /\ run' = [run EXCEPT ![r].page = k + 1]
  /\ UNCHANGED <<files, now, asked, ghosts>>

\* check_auth: the script says true, answers itself, or fails.
Auth(r) ==
  /\ run[r].pc = "auth"
  /\ \/ run' = [run EXCEPT ![r].pc = "call"]
     \/ Answer(r, 401)
     \/ Answer(r, 500)
  /\ UNCHANGED <<files, now, asked, ghosts>>

----------------------------------------------------------------------------
(* static and gzstatic *)

\* Fault: the tag is the size alone.
TagSize(i) == <<0, Len(data[i])>>

Tag(i) == <<mtime[i], Len(data[i])>>

\* Fault: the end of a range is taken for exclusive.
RangeExclusive(e, size) ==
  IF e[1] = None THEN <<size - e[2], size - e[2]>>
  ELSE <<e[1], IF e[2] = None THEN size - 1 ELSE e[2] - 1>>

\* The entry <<a, b>> of a Range field; None stands for what is not there, <<a>> for an entry without a dash.
RangeOf(e, size) ==
  IF Len(e) = 1 THEN <<e[1], e[1]>>
  ELSE IF e[1] = None THEN <<size - e[2], size - e[2]>>
  ELSE <<e[1], IF e[2] = None THEN size - 1 ELSE e[2]>>

\* range_map holds the ends by their beginnings; the first of the map is sent.
FirstRange(range, size) ==
  LET rs == [i \in DOMAIN range |-> RangeOf(range[i], size)]
      s  == Min({rs[i][1] : i \in DOMAIN rs})
  IN <<s, rs[Max({i \in DOMAIN rs : rs[i][1] = s})][2]>>

\* If-Range and If-Match, with the tag of the copy.
RangeValid(r, tag) == run[r].held.tag = None \/ run[r].q.cond \notin {"If-Range", "If-Match"} \/ run[r].held.tag = tag

\* The header, before the file is opened: Content-Length is datacount, whatever it is.
Header(r, st, coding, code, range, count) ==
  run' = [run EXCEPT ![r].pc = "open", ![r].st = st, ![r].left = count, ![r].pos = range[1],
    ![r].ans = [NoAnswer EXCEPT !.code = code, !.coding = coding, !.length = IF coding = "gzip" THEN -1 ELSE count,
                                !.first = range[1], !.last = range[2]]]

Matched(r, tag) == run[r].q.cond = "If-None-Match" /\ tag # None /\ run[r].held.tag = tag
NotModified(r, st) ==
  run' = [run EXCEPT ![r].pc = "done", ![r].st = st, ![r].ans.code = 304]

\* stat fails, or finds a folder.
Gone(r) ==
  /\ run[r].pc = "call" /\ Selector(r).kind # "webdav"
  /\ run[r].real = Root \/ dir[run[r].real] \notin Inode
  /\ Answer(r, 404)
  /\ UNCHANGED <<files, now, asked, ghosts>>

Examine(r) ==
  /\ run[r].pc = "call" /\ Selector(r).kind = "static"
  /\ run[r].real \in Path /\ dir[run[r].real] \in Inode
  /\ LET i      == dir[run[r].real]  q == run[r].q
         size   == Len(data[i])
         st     == [name |-> run[r].real, tag |-> IF size >= Threshold THEN Tag(i) ELSE None, bytes |-> data[i]]
         gzip   == q.gzip /\ Threshold > 0 /\ size > Threshold
         ranged == ~gzip /\ q.range # <<>> /\ RangeValid(r, st.tag)
         range  == IF ranged THEN FirstRange(q.range, size) ELSE <<0, size - 1>>
     IN IF Matched(r, st.tag) THEN NotModified(r, st)
        ELSE Header(r, st, IF gzip THEN "gzip" ELSE "plain", IF ranged THEN 206 ELSE 200,
                    <<range[1], Min({range[2], size - 1})>>, Min({range[2] + 1, size}) - range[1])
  /\ UNCHANGED <<files, now, asked, ghosts>>

\* A file that is compressed already: always tagged, never in parts.
ExamineGz(r) ==
  /\ run[r].pc = "call" /\ Selector(r).kind = "gzstatic"
  /\ run[r].real \in Path /\ dir[run[r].real] \in Inode
  /\ LET i  == dir[run[r].real]
         st == [name |-> run[r].real, tag |-> Tag(i), bytes |-> data[i]]
     IN IF Matched(r, st.tag)
        THEN NotModified(r, st) ELSE Header(r, st, "plain", 200, <<0, Len(data[i]) - 1>>, Len(data[i]))
  /\ UNCHANGED <<files, now, asked, ghosts>>

\* The name may stand for another file by now, or for a folder, which can be opened but not read.
OpenFile(r) ==
  /\ run[r].pc = "open"
  /\ LET i == dir[run[r].real] IN
       \/ i = None /\ Answer(r, IF run[r].ans.coding = "gzip" THEN 500 ELSE 403)
       \/ i # None /\ run' = [run EXCEPT ![r].fd = i, ![r].pc = IF run[r].ans.coding = "gzip" THEN "gzip" ELSE "send"]
  /\ UNCHANGED <<files, now, asked, ghosts>>

\* What read gets: at most n bytes of the open file, from pos; nothing if seekg failed.
Got(r, n) ==
  IF run[r].fd = Folder \/ run[r].pos < 0 THEN <<>>
  ELSE SubSeq(data[run[r].fd], run[r].pos + 1, Min({run[r].pos + n, Len(data[run[r].fd])}))

\* The file is closed when its loop is left.
Fd(r, stop) == IF stop THEN None ELSE run[r].fd

\* One turn of the loop; a short read ends it, and so does datacount.
SendPlain(r) ==
  /\ run[r].pc = "send"
  /\ LET want == Min({Buf, run[r].left})
         got  == IF want > 0 THEN Got(r, want) ELSE <<>>
         left == run[r].left - Len(got)
         stop == Len(got) < want \/ left <= 0
     IN run' = [run EXCEPT ![r] = [run[r] EXCEPT
                  !.pc = IF stop THEN "done" ELSE "send", !.fd = Fd(r, stop),
                  !.left = left, !.pos = @ + Len(got), !.ans.sent = @ \o got]]
  /\ UNCHANGED <<files, now, asked, ghosts>>

\* http_chunked_gzip: it reads whole blocks and finishes the stream with the first that is short.
SendGzip(r) ==
  /\ run[r].pc = "gzip"
  /\ LET got  == IF run[r].left > 0 THEN Got(r, Block) ELSE <<>>
         left == run[r].left - Len(got)
         stop == Len(got) < Block \/ left <= 0
     IN run' = [run EXCEPT ![r] = [run[r] EXCEPT
                  !.pc = IF stop THEN "done" ELSE "gzip", !.fd = Fd(r, stop),
                  !.left = left, !.pos = @ + Len(got), !.ans.sent = @ \o got,
                  !.ans.ended = run[r].left > 0 /\ Len(got) < Block]]
  /\ UNCHANGED <<files, now, asked, ghosts>>

\* The answer is complete.  The client keeps a file that came whole, with its tag.
Reply(r) ==
  /\ run[r].pc = "done"
  /\ copy' = IF run[r].ans.code = 200 /\ run[r].ans.coding # "none"
             THEN [copy EXCEPT ![run[r].q.url] = [run[r].st EXCEPT !.bytes = run[r].ans.sent]] ELSE copy
  /\ run' = [run EXCEPT ![r] = Rest]
  /\ torn' = torn \ {r}
  /\ UNCHANGED <<files, now, asked, changed, blurred>>

----------------------------------------------------------------------------
(* webdav *)

Webdav(r, method) == run[r].pc = "call" /\ Selector(r).kind = "webdav" /\ run[r].q.method = method

\* Who is disturbed by a change of names ps and files is.
Tear(r, ps, is) ==
  {x \in Slot \ {r} : \/ run[x].pc \in {"open", "write"} /\ run[x].real \in ps
                      \/ run[x].pc = "open" /\ dir[run[x].real] \in is
                      \/ run[x].pc \in {"send", "gzip", "write"} /\ run[x].fd \in is}

Options(r) ==
  /\ Webdav(r, "OPTIONS")
  /\ Answer(r, 200)
  /\ UNCHANGED <<files, now, asked, ghosts>>

\* Methods it does not know; the next selector may.
Other(r) ==
  /\ run[r].pc = "call" /\ Selector(r).kind = "webdav"
  /\ run[r].q.method \notin {"OPTIONS", "PROPFIND"} \cup Changing
  /\ NextSelector(r)
  /\ UNCHANGED <<files, now, asked, ghosts>>

\* The stat, and the names that readdir yields.
PropFind(r) ==
  /\ Webdav(r, "PROPFIND")
  /\ LET p == run[r].real IN
       IF p \in Path /\ dir[p] = None THEN Answer(r, 404)
       ELSE run' = [run EXCEPT ![r] = [run[r] EXCEPT !.pc = "list", !.ans.code = 207,
                      !.todo = {p} \cup IF p = Root THEN {o \in Path : dir[o] # None} ELSE {}]]
  /\ UNCHANGED <<files, now, asked, ghosts>>

\* fileemulator: what another stat finds under the name.
FileEmulator(p) ==
  IF p \in Path /\ dir[p] \in Inode THEN [name |-> p, tag |-> Tag(dir[p]), bytes |-> data[dir[p]]]
  ELSE [name |-> p, tag |-> IF p \in Path THEN dir[p] ELSE Folder, bytes |-> <<>>]

\* One entry after the other, ...
PropEntry(r, p) ==
  /\ run[r].pc = "list" /\ p \in run[r].todo
  /\ run' = [run EXCEPT ![r].todo = @ \ {p}, ![r].ans.list = @ \cup {FileEmulator(p)}]
  /\ UNCHANGED <<files, now, asked, ghosts>>

\* ... then the list is sent.  A file that is gone by then has a status, but no name.
ToXml(f) == IF f.tag = None THEN [f EXCEPT !.name = None] ELSE f
PropSend(r) ==
  /\ run[r].pc = "list" /\ run[r].todo = {}
  /\ run' = [run EXCEPT ![r].pc = "done", ![r].ans.list = {ToXml(f) : f \in @}]
  /\ UNCHANGED <<files, now, asked, ghosts>>

\* PROPPATCH: fileemulator's stat first, ...
PropPatch(r) ==
  /\ Webdav(r, "PROPPATCH")
  /\ IF dir[run[r].real] = None THEN Answer(r, 404) ELSE run' = [run EXCEPT ![r].pc = "touch"]
  /\ UNCHANGED <<files, now, asked, ghosts>>

\* ... then utime, by name.
Touch(r) ==
  /\ run[r].pc = "touch"
  /\ LET i == dir[run[r].real] IN
       /\ Answer(r, IF i = None THEN 404 ELSE 200)
       /\ mtime' = IF i \in Inode THEN [mtime EXCEPT ![i] = run[r].q.mtime] ELSE mtime
       /\ blurred' = blurred \cup {run[r].real}
  /\ UNCHANGED <<dir, data, now, asked, copy, torn, changed>>

MkCol(r) ==
  /\ Webdav(r, "MKCOL")
  /\ LET p == run[r].real IN
       /\ Answer(r, IF dir[p] = None THEN 201 ELSE 500)
       /\ dir' = IF dir[p] = None THEN [dir EXCEPT ![p] = Folder] ELSE dir
  /\ UNCHANGED <<data, mtime, now, asked, ghosts>>

Unused(i) == (\A p \in Path : dir[p] # i) /\ (\A r \in Slot : run[r].fd # i)

\* Fault: the file is opened without O_TRUNC.
Kept(i) == data

\* O_TRUNC.
Truncated(i) == [data EXCEPT ![i] = <<>>]

\* PUT: open makes the file or empties it, ...
PutOpen(r) ==
  /\ Webdav(r, "PUT")
  /\ LET p == run[r].real IN
       \/ dir[p] = Folder /\ Answer(r, 500) /\ UNCHANGED <<files, torn, changed, blurred>>
       \/ \E i \in Inode :
            /\ IF dir[p] = None THEN Unused(i) ELSE i = dir[p]
            /\ dir' = [dir EXCEPT ![p] = i]
            /\ data' = Truncated(i)
            /\ mtime' = [mtime EXCEPT ![i] = now]
            /\ run' = [run EXCEPT ![r].pc = "write", ![r].fd = i]
            /\ torn' = torn \cup Tear(r, {p}, {i})
            /\ changed' = [changed EXCEPT ![p] = now]
            /\ blurred' = IF changed[p] = now THEN blurred \cup {p} ELSE blurred
  /\ UNCHANGED <<now, asked, copy>>

\* get_body_ptr and get_body_size: the body of the request, and behind it whatever had arrived
\* by then of the requests that the client has pipelined (bytes beyond size).
BodySize(r) == run[r].q.size + run[r].q.over
Body(r) == [n \in 1..BodySize(r) |-> <<run[r].no, n>>]

\* ... and write, which may write less, is not asked what it wrote.
PutWrite(r) ==
  /\ run[r].pc = "write"
  /\ \E n \in 0..BodySize(r) : LET i == run[r].fd  p == run[r].real IN
       /\ data' = [data EXCEPT ![i] = SubSeq(Body(r), 1, n) \o SubSeq(@, n + 1, Len(@))]
       /\ mtime' = IF n > 0 THEN [mtime EXCEPT ![i] = now] ELSE mtime
       /\ run' = [run EXCEPT ![r] = [run[r] EXCEPT !.pc = "done", !.fd = None, !.left = BodySize(r) - n,
                                                   !.ans.code = 201]]
       /\ torn' = IF n > 0 THEN torn \cup Tear(r, {p}, {i}) ELSE torn
       /\ changed' = [changed EXCEPT ![p] = now]
       /\ blurred' = IF r \in torn THEN blurred \cup {p} ELSE blurred
  /\ UNCHANGED <<dir, now, asked, copy>>

Delete(r) ==
  /\ Webdav(r, "DELETE")
  /\ LET p == run[r].real IN
       /\ Answer(r, IF dir[p] = None THEN 403 ELSE 205)
       /\ dir' = [dir EXCEPT ![p] = None]
       /\ torn' = torn \cup Tear(r, {p}, {})
       /\ changed' = [changed EXCEPT ![p] = now]
  /\ UNCHANGED <<data, mtime, now, asked, copy, blurred>>

\* MOVE: the destination goes through the selector's own pattern; then rename.
Move(r) ==
  /\ Webdav(r, "MOVE")
  /\ LET p == run[r].real  o == Selector(r).real[run[r].q.dest] IN
       \/ ~Matches(Selector(r), run[r].q.dest) /\ Answer(r, 403) /\ UNCHANGED <<dir, torn, blurred>>
       \/ /\ Matches(Selector(r), run[r].q.dest)
          /\ \/ dir[p] = None /\ Answer(r, 404) /\ UNCHANGED <<dir, torn, blurred>>
             \/ dir[p] # None /\ p = o /\ Answer(r, 205) /\ UNCHANGED <<dir, torn, blurred>>
             \/ /\ dir[p] # None /\ p # o /\ dir[o] # None /\ (dir[p] = Folder) # (dir[o] = Folder)
                /\ Answer(r, 500) /\ UNCHANGED <<dir, torn, blurred>>
             \/ /\ dir[p] # None /\ p # o /\ (dir[o] # None => (dir[p] = Folder) = (dir[o] = Folder))
                /\ Answer(r, 205)
                /\ dir' = [dir EXCEPT ![o] = dir[p], ![p] = None]
                /\ torn' = torn \cup Tear(r, {p, o}, {})
                /\ blurred' = blurred \cup {p, o}
  /\ UNCHANGED <<data, mtime, now, asked, copy, changed>>

Tick ==
  /\ now < MaxTime
  /\ now' = now + 1
  /\ UNCHANGED <<files, asked, run, ghosts>>

----------------------------------------------------------------------------

\* A thread goes on with its request.
Step(r) ==
  \/ Pass(r) \/ Skip(r) \/ Locate(r) \/ TryPage(r) \/ Auth(r)
  \/ Gone(r) \/ Examine(r) \/ ExamineGz(r) \/ OpenFile(r) \/ SendPlain(r) \/ SendGzip(r)
  \/ Options(r) \/ Other(r) \/ PropFind(r) \/ (\E p \in Name : PropEntry(r, p)) \/ PropSend(r) \/ PropPatch(r) \/ Touch(r)
  \/ MkCol(r) \/ PutOpen(r) \/ PutWrite(r) \/ Delete(r) \/ Move(r)
  \/ Reply(r)

Next ==
  \/ Tick
  \/ \E r \in Slot : (\E q \in Requests : Begin(r, q)) \/ Step(r)

Spec == Init /\ [][Next]_vars

----------------------------------------------------------------------------
(* Properties *)

\* Every variable has its type, an open file is read or written by a request at hand, and a body is
\* written to a file that has not been given to another name meanwhile.
TypeOK ==
  /\ dir \in [Path -> {None, Folder} \cup Inode] /\ data \in [Inode -> Seq((Path \cup Nat) \X Nat)]
  /\ mtime \in [Inode -> 0..MaxTime] /\ now \in 0..MaxTime /\ asked \in 0..MaxRequests
  /\ \A p, o \in Path : dir[p] = dir[o] /\ dir[p] \in Inode => p = o
  /\ \A r \in Slot :
       /\ run[r].pc \in {"idle", "locate", "pages", "auth", "call", "open", "send", "gzip", "list", "touch", "write", "done"}
       /\ run[r].fd # None <=> run[r].pc \in {"send", "gzip", "write"}
       /\ run[r].real \in Name /\ run[r].at \in Nat /\ run[r].left \in Int /\ run[r].pos \in Int
       /\ run[r].pc \in {"touch", "write"} => run[r].real \in Path
  /\ torn \subseteq Slot /\ blurred \subseteq Path /\ changed \in [Path -> 0..MaxTime]

\* An entry a-b or a- of a Range field that names bytes of the file.
Ordinary(e, size) == Len(e) = 2 /\ e[1] # None /\ e[1] < size /\ (e[2] = None \/ e[1] <= e[2])

\* What is sent is what was asked of one state of the file, that of the stat before: all of it, or the
\* bytes of one of the ranges, and as many as Content-Length and Content-Range say.  A compressed
\* answer is finished, unless the file is a multiple of the block.  All this as long as the file was
\* not changed while it was sent; and even then a body is not longer than announced, so that what it
\* has too much is not taken for the next answer.
Delivered ==
  \A r \in Slot : LET a == run[r].ans  b == run[r].st.bytes  range == run[r].q.range IN
    run[r].pc = "done" /\ a.code \in {200, 206} /\ a.coding # "none" =>
      /\ a.coding = "plain" => Len(a.sent) <= Max({0, a.length})
      /\ r \notin torn /\ a.code = 200 => a.sent = b /\ a.length \in {-1, Len(b)}
      /\ r \notin torn /\ a.coding = "gzip" => (a.ended <=> Len(b) % Block # 0)
      /\ r \notin torn /\ a.code = 206 /\ (\A i \in DOMAIN range : Ordinary(range[i], Len(b))) =>
           /\ \E i \in DOMAIN range :
                a.sent = SubSeq(b, range[i][1] + 1, IF range[i][2] = None THEN Len(b) ELSE Min({range[i][2] + 1, Len(b)}))
           /\ a.length = Len(a.sent) /\ a.sent = SubSeq(b, a.first + 1, a.last + 1)

\* Whoever is told that his copy is current (304, 206 to an If-Range, or the tag that PROPFIND lists)
\* has what the file held at the stat; a copy that was torn is never taken for current.  Not so when the
\* copy is of another default page, and for a name in blurred: it was moved, PROPPATCH has set its
\* time, or it was written twice in one second, and two files of one length then have one tag.
Revalidated ==
  \A r \in Slot : LET a == run[r].ans  h == run[r].held
                      Same(f) == f.name = h.name /\ f.name \notin blurred => f.bytes = h.bytes IN
    run[r].pc = "done" /\ h.tag # None =>
      /\ a.code = 304 \/ (a.code = 206 /\ run[r].q.cond = "If-Range") => Same(run[r].st)
      /\ \A f \in a.list : f.tag = h.tag => Same(f)

\* A PUT that is answered 201 has left its body in the file that has its name, and nothing behind it
\* but what its client had pipelined; unless write was short, which is not looked at, or another
\* request changed the file between open and write.
Stored ==
  [][\A r \in Slot : LET q == run[r].q  file == data'[run[r].fd] IN
       run[r].pc = "write" /\ run'[r].pc = "done" /\ run'[r].left = 0 /\ r \notin torn =>
         /\ SubSeq(file, 1, q.size) = [n \in 1..q.size |-> <<run[r].no, n>>] /\ Len(file) = q.size + q.over
         /\ dir'[run[r].real] = run[r].fd]_vars
=============================================================================
