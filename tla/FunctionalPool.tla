---------------------------- MODULE FunctionalPool ----------------------------
(***************************************************************************)
(* The pools of non-reentrant instances: redis, mysql and crontab          *)
(* (src/functional_impl_redis.cpp; the other two have the same             *)
(* get_instance and underflow) over functional_nonreentrant                *)
(* (src/functional_master.cpp), used by the script objects of              *)
(* src/sni/invoker.cpp and src/sni/mysql.cpp.                              *)
(*                                                                         *)
(* get_instance walks the list es without any lock and takes the first     *)
(* instance whose try_lock succeeds.  If there is none it makes a new one, *)
(* appends it under the mutex l, and only then locks it: since the         *)
(* instance is already in the list, another client may be faster, and the  *)
(* creator spins with l held until that client gives the instance back.    *)
(*                                                                         *)
(* The list is read while it is appended to (a data race); a reader        *)
(* follows only the forward links, of which push_back writes the last one  *)
(* when the node is complete, so that it sees the list before or after.    *)
(***************************************************************************)
EXTENDS Naturals, Sequences, FiniteSets

CONSTANTS
  Client,     \* threads that run scripts
  Instance,   \* addresses at which an instance may lie
  None,       \* no client, no instance
  MaxHeld,    \* how many instances a script holds at the same time
  MaxGets     \* bound: how often one client calls get_instance

ASSUME PoolAssumption ==
  /\ None \notin Client
  /\ None \notin Instance
  /\ MaxHeld \in Nat
  /\ MaxGets \in Nat

VARIABLES
  es,         \* functional_impl_redis::es
  created,    \* instances that exist; they are never deleted
  locked,     \* functional_nonreentrant::l
  payload,    \* the reference count of lyramilk::obj
  mutex,      \* the owner of functional_impl_redis::l
  pc,         \* where a client stands
  pos,        \* the position of its iterator in es
  cur,        \* tmp/pe in get_instance, or the instance whose try_del it calls
  ptrs,       \* ptrs[c][i]: how many functional::ptr client c has to i
  gets        \* how often it has called get_instance

poolVars == <<es, created, mutex>>
instVars == <<locked, payload, ptrs>>
vars == <<poolVars, instVars, pc, pos, cur, gets>>

Held(c) == {i \in Instance : ptrs[c][i] > 0}
Users(i) == {c \in Client : ptrs[c][i] > 0}

Init ==
  /\ es = <<>>
  /\ created = {}
  /\ locked = [i \in Instance |-> FALSE]
  /\ payload = [i \in Instance |-> 0]
  /\ mutex = None
  /\ pc = [c \in Client |-> "idle"]
  /\ pos = [c \in Client |-> 0]
  /\ cur = [c \in Client |-> None]
  /\ ptrs = [c \in Client |-> [i \in Instance |-> 0]]
  /\ gets = [c \in Client |-> 0]

-----------------------------------------------------------------------------
(* get_instance.                                                           *)

GetBegin(c) ==
  /\ pc[c] = "idle"
  /\ gets[c] < MaxGets
  /\ Cardinality(Held(c)) < MaxHeld
  /\ gets' = [gets EXCEPT ![c] = @ + 1]
  /\ pc' = [pc EXCEPT ![c] = "scan"]
  /\ pos' = [pos EXCEPT ![c] = 1]
  /\ UNCHANGED <<poolVars, instVars, cur>>

\* Client c has locked i: the functional::ptr that get_instance returns counts itself.
Obtain(c, i) ==
  /\ locked' = [locked EXCEPT ![i] = TRUE]
  /\ payload' = [payload EXCEPT ![i] = @ + 1]
  /\ ptrs' = [ptrs EXCEPT ![c][i] = @ + 1]
  /\ pc' = [pc EXCEPT ![c] = "got"]
  /\ cur' = [cur EXCEPT ![c] = i]
  /\ pos' = [pos EXCEPT ![c] = 0]

\* Fault: try_lock answers true whatever the flag was.
TryLockBlind(c) ==
  /\ pc[c] = "scan"
  /\ pos[c] \in DOMAIN es
  /\ Obtain(c, es[pos[c]])
  /\ UNCHANGED <<poolVars, gets>>

\* try_lock is a compare-and-swap.
TryLock(c) ==
  /\ pc[c] = "scan"
  /\ pos[c] \in DOMAIN es
  /\ ~locked[es[pos[c]]]
  /\ Obtain(c, es[pos[c]])
  /\ UNCHANGED <<poolVars, gets>>

TryLockBusy(c) ==
  /\ pc[c] = "scan"
  /\ pos[c] \in DOMAIN es
  /\ locked[es[pos[c]]]
  /\ pos' = [pos EXCEPT ![c] = @ + 1]
  /\ UNCHANGED <<poolVars, instVars, pc, cur, gets>>

\* The iterator has reached es.end(): underflow makes an instance and ignores what
\* init returns.
Underflow(c, i) ==
  /\ pc[c] = "scan"
  /\ pos[c] \notin DOMAIN es
  /\ i \notin created
  /\ created' = created \cup {i}
  /\ cur' = [cur EXCEPT ![c] = i]
  /\ pc' = [pc EXCEPT ![c] = "append"]
  /\ pos' = [pos EXCEPT ![c] = 0]
  /\ UNCHANGED <<es, mutex, instVars, gets>>

\* new or init throws: the exception leaves get_instance.
UnderflowThrows(c) ==
  /\ pc[c] = "scan"
  /\ pos[c] \notin DOMAIN es
  /\ pc' = [pc EXCEPT ![c] = "idle"]
  /\ pos' = [pos EXCEPT ![c] = 0]
  /\ UNCHANGED <<poolVars, instVars, cur, gets>>

\* Fault: the mutex is not taken, and of two concurrent appends one is lost.
PushBackUnlocked(c) ==
  /\ pc[c] = "append"
  /\ es' \in {Append(es, cur[c]), IF es = <<>> THEN <<cur[c]>>
                                  ELSE [es EXCEPT ![Len(es)] = cur[c]]}
  /\ mutex' = c
  /\ pc' = [pc EXCEPT ![c] = "spin"]
  /\ UNCHANGED <<created, instVars, pos, cur, gets>>

\* mutex_sync _(l), then es.push_back(tmp).
PushBack(c) ==
  /\ pc[c] = "append"
  /\ mutex = None
  /\ mutex' = c
  /\ es' = Append(es, cur[c])
  /\ pc' = [pc EXCEPT ![c] = "spin"]
  /\ UNCHANGED <<created, instVars, pos, cur, gets>>

\* pe->lock() succeeds; the end of the block gives the mutex back.
SpinLock(c) ==
  /\ pc[c] = "spin"
  /\ ~locked[cur[c]]
  /\ Obtain(c, cur[c])
  /\ mutex' = None
  /\ UNCHANGED <<es, created, gets>>

-----------------------------------------------------------------------------
(* The script object that keeps the instance, and functional::ptr.         *)

\* ins->p = p in the constructor of the script object.
Store(c) ==
  /\ pc[c] = "got"
  /\ payload' = [payload EXCEPT ![cur[c]] = @ + 1]
  /\ ptrs' = [ptrs EXCEPT ![c][cur[c]] = @ + 1]
  /\ pc' = [pc EXCEPT ![c] = "stored"]
  /\ UNCHANGED <<poolVars, locked, pos, cur, gets>>

\* A pointer to i dies: it counts itself out, and try_del follows.
Uncount(c, i) ==
  /\ payload' = [payload EXCEPT ![i] = @ - 1]
  /\ ptrs' = [ptrs EXCEPT ![c][i] = @ - 1]
  /\ cur' = [cur EXCEPT ![c] = i]
  /\ pc' = [pc EXCEPT ![c] = "trydel"]
  /\ UNCHANGED <<poolVars, locked, pos, gets>>

\* The constructor's own pointer dies, also when new of the script object throws.
DropLocal(c) == pc[c] \in {"got", "stored"} /\ Uncount(c, cur[c])

\* The script object dies (garbage collection, or the end of the script).
DropMember(c, i) == pc[c] = "idle" /\ i \in Held(c) /\ Uncount(c, i)

TryDelUsed(c) ==
  /\ pc[c] = "trydel"
  /\ payload[cur[c]] > 0
  /\ pc' = [pc EXCEPT ![c] = "idle"]
  /\ cur' = [cur EXCEPT ![c] = None]
  /\ UNCHANGED <<poolVars, instVars, pos, gets>>

Unlock(c) ==
  /\ locked' = [locked EXCEPT ![cur[c]] = FALSE]
  /\ pc' = [pc EXCEPT ![c] = "idle"]
  /\ cur' = [cur EXCEPT ![c] = None]
  /\ UNCHANGED <<poolVars, payload, ptrs, pos, gets>>

\* Fault: try_del does not look at the payload.
TryDelAlways(c) == pc[c] = "trydel" /\ Unlock(c)

\* Fault: try_del unlocks only an instance that is counted below zero.
TryDelNever(c) ==
  /\ pc[c] = "trydel"
  /\ payload[cur[c]] = 0
  /\ pc' = [pc EXCEPT ![c] = "idle"]
  /\ cur' = [cur EXCEPT ![c] = None]
  /\ UNCHANGED <<poolVars, instVars, pos, gets>>

\* functional_nonreentrant::try_del unlocks, and deletes nothing.
TryDelLast(c) == pc[c] = "trydel" /\ payload[cur[c]] = 0 /\ Unlock(c)

\* The steps a client takes of its own once it is in a call.
Step(c) ==
  \/ TryLock(c) \/ TryLockBusy(c) \/ UnderflowThrows(c)
  \/ \E i \in Instance : Underflow(c, i)
  \/ PushBack(c) \/ SpinLock(c)
  \/ Store(c) \/ DropLocal(c) \/ TryDelUsed(c) \/ TryDelLast(c)

Collect(c) == \E i \in Instance : DropMember(c, i)

Next == \E c \in Client : GetBegin(c) \/ Step(c) \/ Collect(c)

\* A thread goes on, and a script ends or its garbage is collected at some time.
Spec ==
  /\ Init /\ [][Next]_vars
  /\ \A c \in Client : WF_vars(Step(c)) /\ WF_vars(Collect(c))

-----------------------------------------------------------------------------
(* Properties.                                                             *)

\* Every variable keeps its type; in particular a payload never becomes negative.
TypeOK ==
  /\ es \in Seq(Instance)
  /\ created \subseteq Instance
  /\ locked \in [Instance -> BOOLEAN]
  /\ payload \in [Instance -> Nat]
  /\ mutex \in Client \cup {None}
  /\ pc \in [Client -> {"idle", "scan", "append", "spin", "got", "stored", "trydel"}]
  /\ pos \in [Client -> Nat]
  /\ cur \in [Client -> Instance \cup {None}]
  /\ ptrs \in [Client -> [Instance -> Nat]]
  /\ gets \in [Client -> 0..MaxGets]

\* An instance is used by one client at a time, although the creator of an instance
\* locks it only after everybody can see it: the pool hands out thread-safe access to
\* actions that are not thread-safe.
Exclusive == \A i \in Instance : \A c, d \in Users(i) : c = d

\* No instance is lost to the pool: a locked one is used by somebody, or by a client on
\* its way into try_del that will unlock it; what a client uses is locked.
LockedWhileUsed ==
  \A i \in Instance :
    locked[i] <=> \E c \in Client : i \in Held(c) \/ (pc[c] = "trydel" /\ cur[c] = i)

\* Every instance that exists is in the list exactly once, except the one its creator
\* has yet to append.
PooledOnce ==
  /\ \A m, n \in DOMAIN es : es[m] = es[n] => m = n
  /\ \A i \in created : \/ \E n \in DOMAIN es : es[n] = i
                        \/ \E c \in Client : pc[c] = "append" /\ cur[c] = i

\* The pool is an allocator of instances: every step of the code gives a free instance
\* to one client, copies or drops a pointer of its user, or changes nobody's pointers.
Allocator == INSTANCE InstanceAllocator
ImplementsAllocator == Allocator!AllocSpec

\* Every get_instance returns or throws, although the creator spins with the mutex held
\* and although scans are overtaken.
GetReturns == \A c \in Client : pc[c] \in {"scan", "append", "spin"} ~> pc[c] \in {"got", "idle"}

=============================================================================
