----------------------------- MODULE SessionMgr -----------------------------
(***************************************************************************)
(* The HTTP session manager "default" (src/sessionmgr.cpp): session        *)
(* objects on the heap, the map from identifiers to them, the counted      *)
(* pointers (httpsessionptr) through which request handlers and HttpSession *)
(* script objects hold them, and the thread that reaps expired sessions.   *)
(*                                                                         *)
(* A step is what happens between two points where another thread can      *)
(* intervene.  The reader/writer lock of the manager excludes writers from *)
(* the reaper's scan, the only critical section that spans several steps:  *)
(* reaper = "scan" is the reader's hold.  The other sections (find, insert *)
(* and the test-and-delete of one session) are one step each.              *)
(***************************************************************************)
EXTENDS Naturals, FiniteSets

CONSTANTS
  Ptr,        \* the httpsessionptr variables of the program
  Addr,       \* heap addresses at which a session object may lie
  Null,       \* the null pointer
  Sid,        \* session identifiers (md5 digests in hexadecimal)
  NoSid,      \* the empty identifier
  Hash,       \* Hash[a][n]: the digest of address a rehashed n times
  MaxRehash,  \* bound: the most often an address is rehashed
  Key, Val,   \* names and values of session attributes
  Nil,        \* lyramilk::data::var::nil, an attribute that is not there
  Absent,     \* the content of a session that does not exist (SessionStore)
  TimeAlive,  \* time_alive_seconds
  MaxTime     \* bound: the clock stops here

ASSUME SessionAssumption ==
  /\ IsFiniteSet(Ptr)
  /\ Null \notin Addr
  /\ NoSid \notin Sid
  /\ Nil \notin Val
  /\ Absent \notin [Key -> Val \cup {Nil}]
  /\ MaxRehash \in Nat
  /\ Hash \in [Addr -> [0..MaxRehash -> Sid]]
  /\ TimeAlive \in Nat
  /\ MaxTime \in Nat

VARIABLES
  now,        \* time(nullptr)
  allocated,  \* addresses of live session objects
  sid,        \* httpsession_default::sid
  tm_life,    \* httpsession_default::tm_life
  smap,       \* httpsession_default::smap
  refs,       \* httpsession::_l
  mgr,        \* the manager's map; Null where there is no entry
  ptr,        \* httpsessionptr::p
  pc,         \* where the thread that fills or uses a pointer stands
  arg,        \* the sessionid of get_session
  due,        \* the local tm_life of get_session
  ins,        \* the local ins of get_session: an object not yet in the map
  rehashed,   \* how often get_session has rehashed the address of ins
  readkey,    \* the attribute a getAttribute in progress refers to
  dangling,   \* pointers whose reference to an attribute is no longer valid
  active,     \* init() has started the reaper thread
  reaper,     \* where the reaper thread stands
  tm_now,     \* the reaper's local tm_now
  unseen,     \* identifiers the reaper's scan has yet to visit
  sids,       \* the reaper's local list of expired identifiers
  renewed     \* history: those of sids that a request has renewed since the scan collected them

clockVars == <<now>>
objVars == <<allocated, sid, tm_life, smap, refs>>
callVars == <<ptr, pc, arg, due, ins, rehashed>>
readVars == <<readkey, dangling>>
scanVars == <<active, reaper, tm_now, unseen, sids>>
reapVars == <<scanVars, renewed>>
vars == <<clockVars, objVars, mgr, callVars, readVars, reapVars>>

NoContent == [k \in Key |-> Nil]
HasPtr == {p \in Ptr : ptr[p] # Null}
Expiry == now + TimeAlive

Init ==
  /\ now = 0
  /\ allocated = {}
  /\ sid = [a \in Addr |-> NoSid]
  /\ tm_life = [a \in Addr |-> 0]
  /\ smap = [a \in Addr |-> NoContent]
  /\ refs = [a \in Addr |-> 0]
  /\ mgr = [s \in Sid |-> Null]
  /\ ptr = [p \in Ptr |-> Null]
  /\ pc = [p \in Ptr |-> "null"]
  /\ arg = [p \in Ptr |-> NoSid]
  /\ due = [p \in Ptr |-> 0]
  /\ ins = [p \in Ptr |-> Null]
  /\ rehashed = [p \in Ptr |-> 0]
  /\ readkey = [p \in Ptr |-> Nil]
  /\ dangling = {}
  /\ active \in BOOLEAN   \* set_session_manager calls init, httpserver() does not
  /\ reaper = "sleep"
  /\ tm_now = 0
  /\ unseen = {}
  /\ sids = {}
  /\ renewed = {}

Tick ==
  /\ now < MaxTime
  /\ now' = now + 1
  /\ UNCHANGED <<objVars, mgr, callVars, readVars, reapVars>>

-----------------------------------------------------------------------------
(* httpadapter::get_session and httpsession_manager_default::get_session.  *)

\* The request carries no TeapoyId cookie.
GetWithoutCookie(p) ==
  /\ pc[p] = "null"
  /\ pc' = [pc EXCEPT ![p] = "create"]
  /\ UNCHANGED <<clockVars, objVars, mgr, ptr, arg, due, ins, rehashed, readVars, reapVars>>

\* The request carries the cookie s; the clock is read before the lock is taken.
GetWithCookie(p, s) ==
  /\ pc[p] = "null"
  /\ pc' = [pc EXCEPT ![p] = "find"]
  /\ arg' = [arg EXCEPT ![p] = s]
  /\ due' = [due EXCEPT ![p] = Expiry]
  /\ UNCHANGED <<clockVars, objVars, mgr, ptr, ins, rehashed, readVars, reapVars>>

\* History: the session s is renewed, and a verdict of the reaper's scan on it is out of date.
Renew(s) == renewed' = IF s \in sids THEN renewed \cup {s} ELSE renewed

\* Fault: the session is handed out as a bare pointer that counts nothing.
FindHitUncounted(p) ==
  LET a == mgr[arg[p]] IN
  /\ pc[p] = "find"
  /\ a # Null
  /\ tm_life' = [tm_life EXCEPT ![a] = due[p]]
  /\ ptr' = [ptr EXCEPT ![p] = a]
  /\ pc' = [pc EXCEPT ![p] = "held"]
  /\ arg' = [arg EXCEPT ![p] = NoSid]
  /\ due' = [due EXCEPT ![p] = 0]
  /\ Renew(arg[p])
  /\ UNCHANGED <<clockVars, allocated, sid, smap, refs, mgr, ins, rehashed, readVars, scanVars>>

\* Under the reader lock: renew the session and count the pointer that returns it.
FindHit(p) ==
  LET a == mgr[arg[p]] IN
  /\ pc[p] = "find"
  /\ a # Null
  /\ tm_life' = [tm_life EXCEPT ![a] = due[p]]
  /\ refs' = [refs EXCEPT ![a] = @ + 1]
  /\ ptr' = [ptr EXCEPT ![p] = a]
  /\ pc' = [pc EXCEPT ![p] = "held"]
  /\ arg' = [arg EXCEPT ![p] = NoSid]
  /\ due' = [due EXCEPT ![p] = 0]
  /\ Renew(arg[p])
  /\ UNCHANGED <<clockVars, allocated, sid, smap, mgr, ins, rehashed, readVars, scanVars>>

FindMiss(p) ==
  /\ pc[p] = "find"
  /\ mgr[arg[p]] = Null
  /\ pc' = [pc EXCEPT ![p] = "create"]
  /\ arg' = [arg EXCEPT ![p] = NoSid]
  /\ due' = [due EXCEPT ![p] = 0]
  /\ UNCHANGED <<clockVars, objVars, mgr, ptr, ins, rehashed, readVars, reapVars>>

\* new httpsession_default, named after its address, before the lock is taken.
Allocate(p, a) ==
  /\ pc[p] = "create"
  /\ a \notin allocated
  /\ allocated' = allocated \cup {a}
  /\ sid' = [sid EXCEPT ![a] = Hash[a][0]]
  /\ tm_life' = [tm_life EXCEPT ![a] = Expiry]
  /\ ins' = [ins EXCEPT ![p] = a]
  /\ pc' = [pc EXCEPT ![p] = "insert"]
  /\ UNCHANGED <<clockVars, smap, refs, mgr, ptr, arg, due, rehashed, readVars, reapVars>>

\* The heap is exhausted: new throws, and get_session with it.
AllocateThrows(p) ==
  /\ pc[p] = "create"
  /\ allocated = Addr
  /\ pc' = [pc EXCEPT ![p] = "null"]
  /\ UNCHANGED <<clockVars, objVars, mgr, ptr, arg, due, ins, rehashed, readVars, reapVars>>

\* Under the writer lock, the object enters the map and is returned as a counted pointer.
Publish(p) ==
  LET a == ins[p] IN
  /\ pc[p] = "insert"
  /\ reaper # "scan"
  /\ mgr' = [mgr EXCEPT ![sid[a]] = a]
  /\ refs' = [refs EXCEPT ![a] = @ + 1]
  /\ ptr' = [ptr EXCEPT ![p] = a]
  /\ ins' = [ins EXCEPT ![p] = Null]
  /\ rehashed' = [rehashed EXCEPT ![p] = 0]
  /\ pc' = [pc EXCEPT ![p] = "held"]
  /\ UNCHANGED <<clockVars, allocated, sid, tm_life, smap, arg, due, readVars, reapVars>>

\* Fault: the result of map::insert is not looked at, the entry is overwritten.
InsertOverwriting(p) == Publish(p)

InsertNew(p) == pc[p] = "insert" /\ mgr[sid[ins[p]]] = Null /\ Publish(p)

\* Under the writer lock the identifier is taken: rehash, and try once more.
InsertTaken(p) ==
  LET a == ins[p] IN
  /\ pc[p] = "insert"
  /\ reaper # "scan"
  /\ mgr[sid[a]] # Null
  /\ rehashed[p] < MaxRehash
  /\ rehashed' = [rehashed EXCEPT ![p] = @ + 1]
  /\ sid' = [sid EXCEPT ![a] = Hash[a][rehashed[p] + 1]]
  /\ tm_life' = [tm_life EXCEPT ![a] = Expiry]
  /\ UNCHANGED <<clockVars, allocated, smap, refs, mgr, ptr, pc, arg, due, ins, readVars, reapVars>>

-----------------------------------------------------------------------------
(* httpsessionptr and the attributes of a session.                         *)

\* Copying a pointer into a fresh one, as every hand-over of a session does.
CopyPtr(p, q) ==
  /\ ptr[p] # Null
  /\ pc[q] = "null"
  /\ ptr' = [ptr EXCEPT ![q] = ptr[p]]
  /\ pc' = [pc EXCEPT ![q] = "held"]
  /\ refs' = [refs EXCEPT ![ptr[p]] = @ + 1]
  /\ UNCHANGED <<clockVars, allocated, sid, tm_life, smap, mgr, arg, due, ins, rehashed,
                 readVars, reapVars>>

\* Fault: the destructor does not release.
DropPtrLeaking(p) ==
  /\ pc[p] = "held"
  /\ ptr' = [ptr EXCEPT ![p] = Null]
  /\ pc' = [pc EXCEPT ![p] = "null"]
  /\ UNCHANGED <<clockVars, objVars, mgr, arg, due, ins, rehashed, readVars, reapVars>>

\* ~httpsessionptr: no lock is taken.
DropPtr(p) ==
  /\ pc[p] = "held"
  /\ ptr' = [ptr EXCEPT ![p] = Null]
  /\ pc' = [pc EXCEPT ![p] = "null"]
  /\ refs' = [refs EXCEPT ![ptr[p]] = @ - 1]
  /\ UNCHANGED <<clockVars, allocated, sid, tm_life, smap, mgr, arg, due, ins, rehashed,
                 readVars, reapVars>>

\* Readers that hold a reference to attribute k of the session at a.
ReadersOf(a, k) == {r \in Ptr : pc[r] = "reading" /\ ptr[r] = a /\ readkey[r] = k}

\* httpsession_default::set, under the session's own lock; v = Nil erases.
SetAttribute(p, k, v) ==
  LET a == ptr[p] IN
  /\ pc[p] = "held"
  /\ tm_life' = [tm_life EXCEPT ![a] = Expiry]
  /\ smap' = [smap EXCEPT ![a] = [@ EXCEPT ![k] = v]]
  /\ dangling' = dangling \cup ReadersOf(a, k)
  /\ Renew(sid[a])
  /\ UNCHANGED <<clockVars, allocated, sid, refs, mgr, callVars, readkey, scanVars>>

\* httpsession_default::get returns a reference into smap and unlocks ...
GetReference(p, k) ==
  /\ pc[p] = "held"
  /\ smap[ptr[p]][k] # Nil
  /\ readkey' = [readkey EXCEPT ![p] = k]
  /\ pc' = [pc EXCEPT ![p] = "reading"]
  /\ UNCHANGED <<clockVars, objVars, mgr, ptr, arg, due, ins, rehashed, dangling, reapVars>>

\* ... and getAttribute copies what the reference refers to by then.
CopyAttribute(p) ==
  /\ pc[p] = "reading"
  /\ readkey' = [readkey EXCEPT ![p] = Nil]
  /\ dangling' = dangling \ {p}
  /\ pc' = [pc EXCEPT ![p] = "held"]
  /\ UNCHANGED <<clockVars, objVars, mgr, ptr, arg, due, ins, rehashed, reapVars>>

-----------------------------------------------------------------------------
(* httpsession_manager_default::svc, the reaper thread.                    *)

Wake ==
  /\ active
  /\ reaper = "sleep"
  /\ reaper' = "awake"
  /\ tm_now' = now
  /\ UNCHANGED <<clockVars, objVars, mgr, callVars, readVars, active, unseen, sids, renewed>>

\* Takes the reader lock: no session enters or leaves the map until ScanEnd.
ScanBegin ==
  /\ reaper = "awake"
  /\ reaper' = "scan"
  /\ unseen' = {s \in Sid : mgr[s] # Null}
  /\ UNCHANGED <<clockVars, objVars, mgr, callVars, readVars, active, tm_now, sids, renewed>>

\* Fault: the lifetime is added once more.
ScanOneLate(s) ==
  /\ reaper = "scan"
  /\ s \in unseen
  /\ unseen' = unseen \ {s}
  /\ sids' = IF tm_life[mgr[s]] + TimeAlive < tm_now THEN sids \cup {s} ELSE sids
  /\ UNCHANGED <<clockVars, objVars, mgr, callVars, readVars, active, reaper, tm_now, renewed>>

\* Fault: a session is collected in the last second of its life.
ScanOneEarly(s) ==
  /\ reaper = "scan"
  /\ s \in unseen
  /\ unseen' = unseen \ {s}
  /\ sids' = IF tm_life[mgr[s]] <= tm_now THEN sids \cup {s} ELSE sids
  /\ UNCHANGED <<clockVars, objVars, mgr, callVars, readVars, active, reaper, tm_now, renewed>>

ScanOne(s) ==
  /\ reaper = "scan"
  /\ s \in unseen
  /\ unseen' = unseen \ {s}
  /\ sids' = IF tm_life[mgr[s]] < tm_now THEN sids \cup {s} ELSE sids
  /\ UNCHANGED <<clockVars, objVars, mgr, callVars, readVars, active, reaper, tm_now, renewed>>

ScanEnd ==
  /\ reaper = "scan"
  /\ unseen = {}
  /\ reaper' = "reap"
  /\ UNCHANGED <<clockVars, objVars, mgr, callVars, readVars, active, tm_now, unseen, sids, renewed>>

\* Under the writer lock, for one collected identifier: in_using() keeps the session.
ReapUsed(s) ==
  /\ reaper = "reap"
  /\ s \in sids
  /\ mgr[s] # Null => refs[mgr[s]] > 0
  /\ sids' = sids \ {s} /\ renewed' = renewed \ {s}
  /\ UNCHANGED <<clockVars, objVars, mgr, callVars, readVars, active, reaper, tm_now, unseen>>

\* Otherwise it is erased and deleted, whatever tm_life has become since the scan.
EraseAndDelete(s) ==
  LET a == mgr[s] IN
  /\ reaper = "reap"
  /\ s \in sids
  /\ mgr' = [mgr EXCEPT ![s] = Null]
  /\ allocated' = allocated \ {a}
  /\ sid' = [sid EXCEPT ![a] = NoSid]
  /\ tm_life' = [tm_life EXCEPT ![a] = 0]
  /\ smap' = [smap EXCEPT ![a] = NoContent]
  /\ dangling' = dangling \cup {r \in Ptr : pc[r] = "reading" /\ ptr[r] = a}
  /\ sids' = sids \ {s} /\ renewed' = renewed \ {s}
  /\ UNCHANGED <<clockVars, refs, callVars, readkey, active, reaper, tm_now, unseen>>

\* Fault: the session is deleted although it is in use.
ReapUnchecked(s) == mgr[s] # Null /\ EraseAndDelete(s)

\* Fault: in_using() answers _l > 1.
ReapLastUse(s) == mgr[s] # Null /\ refs[mgr[s]] <= 1 /\ EraseAndDelete(s)

ReapUnused(s) == mgr[s] # Null /\ refs[mgr[s]] = 0 /\ EraseAndDelete(s)

ReapEnd ==
  /\ reaper = "reap"
  /\ sids = {}
  /\ reaper' = "sleep"
  /\ tm_now' = 0
  /\ UNCHANGED <<clockVars, objVars, mgr, callVars, readVars, active, unseen, sids, renewed>>

Reaper ==
  \/ Wake \/ ScanBegin \/ ScanEnd \/ ReapEnd
  \/ \E s \in Sid : ScanOne(s) \/ ReapUsed(s) \/ ReapUnused(s)

Handlers ==
  \/ \E p \in Ptr : \/ GetWithoutCookie(p) \/ FindHit(p) \/ FindMiss(p)
                    \/ AllocateThrows(p) \/ InsertNew(p) \/ InsertTaken(p)
                    \/ DropPtr(p) \/ CopyAttribute(p)
  \/ \E p \in Ptr, s \in Sid : GetWithCookie(p, s)
  \/ \E p \in Ptr, a \in Addr : Allocate(p, a)
  \/ \E p, q \in Ptr : CopyPtr(p, q)
  \/ \E p \in Ptr, k \in Key : GetReference(p, k)
  \/ \E p \in Ptr, k \in Key, v \in Val \cup {Nil} : SetAttribute(p, k, v)

Next == Tick \/ Handlers \/ Reaper

\* svc() is a loop of its own thread that blocks on nothing a handler keeps for long.
Spec == Init /\ [][Next]_vars /\ WF_vars(Reaper)

-----------------------------------------------------------------------------
(* Properties.                                                             *)

\* Every variable keeps its type; in particular a reference count is never negative.
TypeOK ==
  /\ now \in Nat /\ tm_now \in Nat /\ active \in BOOLEAN
  /\ allocated \subseteq Addr
  /\ sid \in [Addr -> Sid \cup {NoSid}]
  /\ tm_life \in [Addr -> Nat]
  /\ smap \in [Addr -> [Key -> Val \cup {Nil}]]
  /\ refs \in [Addr -> Nat]
  /\ mgr \in [Sid -> Addr \cup {Null}]
  /\ ptr \in [Ptr -> Addr \cup {Null}]
  /\ pc \in [Ptr -> {"null", "find", "create", "insert", "held", "reading"}]
  /\ arg \in [Ptr -> Sid \cup {NoSid}]
  /\ due \in [Ptr -> Nat]
  /\ ins \in [Ptr -> Addr \cup {Null}]
  /\ rehashed \in [Ptr -> 0..MaxRehash]
  /\ readkey \in [Ptr -> Key \cup {Nil}]
  /\ dangling \subseteq Ptr
  /\ reaper \in {"sleep", "awake", "scan", "reap"}
  /\ unseen \subseteq Sid /\ sids \subseteq Sid /\ renewed \subseteq Sid

\* A session some pointer holds is a live object and is the one the map has under its
\* identifier: the reaper never deletes a session between the lookup that returned it
\* and the last pointer's destructor, and a second get_session finds the same object.
HeldAlive ==
  \A p \in HasPtr : ptr[p] \in allocated /\ mgr[sid[ptr[p]]] = ptr[p]

\* The map and the heap agree: an entry is a live object that carries its key, and a
\* live object is either in the map or still in the hands of the one call that made it
\* (no object is lost, none is entered twice, whatever identifiers collide).
MapMatchesHeap ==
  /\ \A s \in Sid : mgr[s] # Null => mgr[s] \in allocated /\ sid[mgr[s]] = s
  /\ \A a \in allocated : mgr[sid[a]] = a \/ \E p \in Ptr : ins[p] = a
  /\ \A p \in Ptr : ins[p] # Null => ins[p] \in allocated /\ \A s \in Sid : mgr[s] # ins[p]
  /\ \A p, q \in Ptr : ins[p] # Null /\ ins[p] = ins[q] => p = q

\* The counter in_using() reads is exactly the number of pointers to the session, so
\* that an unused session can always be reaped and a used one never.
RefsCountPointers ==
  \A a \in Addr : refs[a] = Cardinality({p \in Ptr : ptr[p] = a})

\* getAttribute copies through a reference it got before the lock was released; only
\* another pointer to the same session can pull the value away, never the reaper.
DanglingOnlyByPeer ==
  [][\A p \in Ptr : p \in dangling' \ dangling =>
        \E q \in Ptr \ {p} : ptr[q] = ptr[p] /\ pc[q] = "held"]_vars

\* svc deletes a session only when its time is over, or when a request renewed it after the
\* scan had collected it and let go of it before the reaper came to it: svc does not look at
\* tm_life again, and that stale verdict is the one way a session goes before its time.
ReapedExpired ==
  [][\A s \in Sid : mgr[s] # Null /\ mgr'[s] = Null => tm_life[mgr[s]] < now \/ s \in renewed]_vars

\* The manager is the session store its callers see, with attributes and all.
Store == INSTANCE SessionStore WITH
  store <- [s \in Sid |-> IF mgr[s] = Null THEN Absent ELSE smap[mgr[s]]],
  using <- [p \in Ptr |-> IF ptr[p] = Null THEN NoSid ELSE sid[ptr[p]]]
ImplementsStore == Store!StoreSpec

\* With its thread running, an expired session nobody holds goes away, unless a request
\* opens it again first.
Expired(s) == mgr[s] # Null /\ refs[mgr[s]] = 0 /\ tm_life[mgr[s]] < now
ExpiredReaped == \A s \in Sid : active /\ Expired(s) ~> ~Expired(s)
=============================================================================
