---------------------------- MODULE SessionStore ----------------------------
(***************************************************************************)
(* What the session manager of teapoy promises to the scripts of the web   *)
(* applications: a store of sessions named by an identifier.  A session    *)
(* that some handle uses stays in the store with the attributes the        *)
(* handles gave it; only an unused one may disappear; an identifier names  *)
(* at most one session; a created session starts empty.  Memory, locks,    *)
(* reference counts and time belong to SessionMgr, which implements this.  *)
(***************************************************************************)
CONSTANTS
  Ptr,      \* the handles through which scripts use sessions
  Sid,      \* session identifiers
  NoSid,    \* the identifier of no session
  Key,      \* attribute names
  Val,      \* attribute values
  Nil,      \* the value of an attribute that is not there
  Absent    \* the content of a session that does not exist

VARIABLES
  store,    \* store[s] is the content of session s, or Absent
  using     \* using[p] is the session handle p uses, or NoSid

svars == <<store, using>>

Content == [Key -> Val \cup {Nil}]
Empty == [k \in Key |-> Nil]

InitStore ==
  /\ store = [s \in Sid |-> Absent]
  /\ using = [p \in Ptr |-> NoSid]

Create(p, s) ==
  /\ using[p] = NoSid
  /\ store[s] = Absent
  /\ store' = [store EXCEPT ![s] = Empty]
  /\ using' = [using EXCEPT ![p] = s]

Open(p, s) ==
  /\ using[p] = NoSid
  /\ store[s] # Absent
  /\ using' = [using EXCEPT ![p] = s]
  /\ UNCHANGED store

Share(p, q) ==
  /\ using[p] # NoSid
  /\ using[q] = NoSid
  /\ using' = [using EXCEPT ![q] = using[p]]
  /\ UNCHANGED store

Put(p, k, v) ==
  /\ using[p] # NoSid
  /\ store' = [store EXCEPT ![using[p]] = [@ EXCEPT ![k] = v]]
  /\ UNCHANGED using

Close(p) ==
  /\ using[p] # NoSid
  /\ using' = [using EXCEPT ![p] = NoSid]
  /\ UNCHANGED store

Expire(s) ==
  /\ store[s] # Absent
  /\ \A p \in Ptr : using[p] # s
  /\ store' = [store EXCEPT ![s] = Absent]
  /\ UNCHANGED using

NextStore ==
  \/ \E p \in Ptr, s \in Sid : Create(p, s) \/ Open(p, s)
  \/ \E p, q \in Ptr : Share(p, q)
  \/ \E p \in Ptr, k \in Key, v \in Val \cup {Nil} : Put(p, k, v)
  \/ \E p \in Ptr : Close(p)
  \/ \E s \in Sid : Expire(s)

StoreSpec == InitStore /\ [][NextStore]_svars
=============================================================================
