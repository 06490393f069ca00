-------------------------- MODULE SessionMgrProofs --------------------------
(***************************************************************************)
(* Theorems about SessionMgr, for any set of pointers, addresses and       *)
(* identifiers and any digest function.                                    *)
(***************************************************************************)
EXTENDS SessionMgr, FiniteSetTheorems, TLAPS

PtrsTo(a) == {p \in Ptr : ptr[p] = a}

\* What the phase of a pointer says of the locals of the call that fills it.
Phases ==
  \A p \in Ptr :
    /\ pc[p] \in {"held", "reading"} <=> ptr[p] # Null
    /\ pc[p] = "insert" <=> ins[p] # Null
    /\ pc[p] = "find" => arg[p] \in Sid

\* An object has an identifier while it lives, and no content before it is in the map.
FreshObjects ==
  /\ \A a \in allocated : sid[a] \in Sid
  /\ \A a \in Addr \ allocated : smap[a] = NoContent
  /\ \A p \in Ptr : ins[p] # Null => smap[ins[p]] = NoContent

IInv == TypeOK /\ Phases /\ FreshObjects /\ HeldAlive /\ MapMatchesHeap /\ RefsCountPointers

-----------------------------------------------------------------------------
(* Counting pointers.                                                      *)

\* The counts stay exact when a null pointer is made to point to b and b is counted once more.
LEMMA CountUp ==
  ASSUME RefsCountPointers, NEW q \in Ptr, NEW b \in Addr,
         ptr \in [Ptr -> Addr \cup {Null}], refs \in [Addr -> Nat],
         ptr[q] = Null,
         ptr' = [ptr EXCEPT ![q] = b], refs' = [refs EXCEPT ![b] = @ + 1]
  PROVE  RefsCountPointers' /\ refs' \in [Addr -> Nat]
<1> SUFFICES ASSUME NEW a \in Addr
             PROVE  refs'[a] = Cardinality({p \in Ptr : ptr'[p] = a})
  BY DEF RefsCountPointers
<1>1. refs[a] = Cardinality(PtrsTo(a)) /\ q \notin PtrsTo(a)
  BY SessionAssumption DEF RefsCountPointers, PtrsTo
<1>2. IsFiniteSet(PtrsTo(a))
  BY FS_Subset, SessionAssumption DEF PtrsTo
<1>3. CASE a = b
  <2>1. {p \in Ptr : ptr'[p] = a} = PtrsTo(a) \cup {q}
    BY <1>3 DEF PtrsTo
  <2>2. Cardinality(PtrsTo(a) \cup {q}) = Cardinality(PtrsTo(a)) + 1
    BY <1>1, <1>2, FS_AddElement
  <2> QED BY <1>1, <1>3, <2>1, <2>2
<1>4. CASE a # b
  <2>1. {p \in Ptr : ptr'[p] = a} = PtrsTo(a)
    BY <1>1, <1>4, SessionAssumption DEF PtrsTo
  <2> QED BY <1>1, <1>4, <2>1
<1> QED BY <1>3, <1>4

\* The counts stay exact, and none is negative, when a pointer to b becomes null and b is
\* counted once less.
LEMMA CountDown ==
  ASSUME RefsCountPointers, NEW q \in Ptr, NEW b \in Addr,
         ptr \in [Ptr -> Addr \cup {Null}], refs \in [Addr -> Nat],
         ptr[q] = b,
         ptr' = [ptr EXCEPT ![q] = Null], refs' = [refs EXCEPT ![b] = @ - 1]
  PROVE  RefsCountPointers' /\ refs' \in [Addr -> Nat]
<1>1. \A a \in Addr : refs[a] = Cardinality(PtrsTo(a)) /\ IsFiniteSet(PtrsTo(a))
  BY FS_Subset, SessionAssumption DEF RefsCountPointers, PtrsTo
<1>2. \A a \in Addr : a # b => {p \in Ptr : ptr'[p] = a} = PtrsTo(a)
  BY SessionAssumption DEF PtrsTo
<1>3. {p \in Ptr : ptr'[p] = b} = PtrsTo(b) \ {q} /\ q \in PtrsTo(b)
  BY SessionAssumption DEF PtrsTo
<1>4. Cardinality(PtrsTo(b) \ {q}) = Cardinality(PtrsTo(b)) - 1
  BY <1>1, <1>3, FS_RemoveElement
<1>5. Cardinality(PtrsTo(b) \ {q}) \in Nat
  BY <1>1, FS_RemoveElement, FS_CardinalityType
<1>6. refs'[b] = Cardinality(PtrsTo(b) \ {q})
  BY <1>1, <1>4
<1>7. \A a \in Addr : refs'[a] = Cardinality({p \in Ptr : ptr'[p] = a})
  BY <1>1, <1>2, <1>3, <1>6
<1>8. refs' \in [Addr -> Nat]
  BY <1>5, <1>6
<1> QED BY <1>7, <1>8 DEF RefsCountPointers

\* An object whose count is zero has no pointer to it.
LEMMA UnusedHasNoPointer ==
  ASSUME RefsCountPointers, NEW b \in Addr, refs[b] = 0
  PROVE  \A p \in Ptr : ptr[p] # b
<1>1. IsFiniteSet(PtrsTo(b)) /\ Cardinality(PtrsTo(b)) = 0
  BY FS_Subset, SessionAssumption DEF RefsCountPointers, PtrsTo
<1>2. PtrsTo(b) = {}
  BY <1>1, FS_EmptySet
<1> QED BY <1>2 DEF PtrsTo

-----------------------------------------------------------------------------
(* The invariant is inductive.                                             *)

LEMMA InitInvariant == Init => IInv
<1> SUFFICES ASSUME Init PROVE IInv
  OBVIOUS
<1>1. TypeOK /\ Phases /\ FreshObjects /\ HeldAlive /\ MapMatchesHeap
  BY SessionAssumption
  DEF Init, NoContent, HasPtr, TypeOK, Phases, FreshObjects, HeldAlive, MapMatchesHeap
<1>2. RefsCountPointers
  <2>1. \A a \in Addr : {p \in Ptr : ptr[p] = a} = {}
    BY SessionAssumption DEF Init
  <2> QED BY <2>1, FS_EmptySet DEF Init, RefsCountPointers
<1> QED BY <1>1, <1>2 DEF IInv

LEMMA StutterInvariant == IInv /\ UNCHANGED vars => IInv'
<1> SUFFICES ASSUME IInv, UNCHANGED vars PROVE IInv'
  OBVIOUS
<1> USE DEF vars, clockVars, objVars, callVars, readVars, reapVars, scanVars
<1>1. (TypeOK /\ Phases /\ FreshObjects /\ HeldAlive)'
  BY DEF IInv, NoContent, HasPtr, TypeOK, Phases, FreshObjects, HeldAlive
<1>2. (MapMatchesHeap /\ RefsCountPointers)'
  BY DEF IInv, MapMatchesHeap, RefsCountPointers
<1> QED BY <1>1, <1>2 DEF IInv

\* Steps that touch neither objects nor the map nor the pointers preserve all but the types.
LEMMA FrameInvariant ==
  ASSUME IInv, TypeOK', Phases', UNCHANGED <<objVars, mgr, ptr, ins>>
  PROVE  IInv'
<1> USE DEF objVars
<1>1. (FreshObjects /\ HeldAlive)'
  BY DEF IInv, NoContent, HasPtr, FreshObjects, HeldAlive
<1>2. (MapMatchesHeap /\ RefsCountPointers)'
  BY DEF IInv, MapMatchesHeap, RefsCountPointers
<1> QED BY <1>1, <1>2 DEF IInv

LEMMA TickInvariant == IInv /\ Tick => IInv'
<1> SUFFICES ASSUME IInv, Tick PROVE IInv'
  OBVIOUS
<1> USE DEF clockVars, objVars, callVars, readVars, reapVars, scanVars
<1>1. TypeOK' /\ Phases'
  BY SessionAssumption DEF IInv, Tick, TypeOK, Phases
<1> QED BY <1>1, FrameInvariant DEF Tick

LEMMA ReaperInvariant == IInv /\ Reaper => IInv'
<1> SUFFICES ASSUME IInv, Reaper PROVE IInv'
  OBVIOUS
<1> USE DEF clockVars, objVars, callVars, readVars, reapVars, scanVars
<1>1. CASE Wake
  <2>1. TypeOK' /\ Phases'
    BY <1>1 DEF IInv, Wake, TypeOK, Phases
  <2> QED BY <1>1, <2>1, FrameInvariant DEF Wake
<1>2. CASE ScanBegin
  <2>1. TypeOK' /\ Phases'
    BY <1>2 DEF IInv, ScanBegin, TypeOK, Phases
  <2> QED BY <1>2, <2>1, FrameInvariant DEF ScanBegin
<1>3. CASE ScanEnd
  <2>1. TypeOK' /\ Phases'
    BY <1>3 DEF IInv, ScanEnd, TypeOK, Phases
  <2> QED BY <1>3, <2>1, FrameInvariant DEF ScanEnd
<1>4. CASE ReapEnd
  <2>1. TypeOK' /\ Phases'
    BY <1>4 DEF IInv, ReapEnd, TypeOK, Phases
  <2> QED BY <1>4, <2>1, FrameInvariant DEF ReapEnd
<1>5. ASSUME NEW s \in Sid, ScanOne(s) PROVE IInv'
  <2>1. TypeOK' /\ Phases'
    BY <1>5 DEF IInv, ScanOne, TypeOK, Phases
  <2> QED BY <1>5, <2>1, FrameInvariant DEF ScanOne
<1>6. ASSUME NEW s \in Sid, ReapUsed(s) PROVE IInv'
  <2>1. TypeOK' /\ Phases'
    BY <1>6 DEF IInv, ReapUsed, TypeOK, Phases
  <2> QED BY <1>6, <2>1, FrameInvariant DEF ReapUsed
<1>7. ASSUME NEW s \in Sid, ReapUnused(s) PROVE IInv'
  <2> USE DEF ReapUnused, EraseAndDelete
  <2>1. mgr[s] \in Addr /\ mgr[s] \in allocated /\ sid[mgr[s]] = s
    BY <1>7 DEF IInv, TypeOK, MapMatchesHeap
  <2>2. \A p \in Ptr : ptr[p] # mgr[s]
    BY <1>7, <2>1, UnusedHasNoPointer DEF IInv
  <2>3. \A p \in Ptr : ins[p] # mgr[s]
    BY <1>7 DEF IInv, MapMatchesHeap
  <2>4. NoContent \in [Key -> Val \cup {Nil}]
    BY DEF NoContent
  <2>5. TypeOK' /\ Phases'
    BY <1>7, <2>1, <2>4 DEF IInv, TypeOK, Phases
  <2>6. FreshObjects'
    BY <1>7, <2>1, <2>3 DEF IInv, TypeOK, FreshObjects, NoContent
  <2>7. HeldAlive'
    <3> SUFFICES ASSUME NEW p \in Ptr, ptr[p] # Null
                 PROVE  ptr[p] \in allocated' /\ mgr'[sid'[ptr[p]]] = ptr[p]
      BY <1>7 DEF HeldAlive, HasPtr
    <3>1. ptr[p] \in allocated /\ ptr[p] \in Addr /\ mgr[sid[ptr[p]]] = ptr[p]
      BY DEF IInv, HeldAlive, HasPtr, TypeOK
    <3>2. sid[ptr[p]] \in Sid /\ sid[ptr[p]] # s
      BY <2>2, <3>1 DEF IInv, FreshObjects
    <3> QED BY <1>7, <2>2, <3>1, <3>2 DEF IInv, TypeOK
  <2>8. MapMatchesHeap'
    <3> USE DEF IInv, TypeOK
    <3>1. \A r \in Sid : r # s => mgr'[r] = mgr[r] /\ mgr[r] # mgr[s]
      BY <1>7, <2>1 DEF MapMatchesHeap
    <3>2. mgr'[s] = Null
      BY <1>7
    <3>3. \A a \in allocated' : a \in allocated /\ a # mgr[s] /\ sid'[a] = sid[a]
                                 /\ sid[a] \in Sid
      BY <1>7 DEF FreshObjects
    <3>4. \A r \in Sid : mgr'[r] # Null => mgr'[r] \in allocated' /\ sid'[mgr'[r]] = r
      BY <1>7, <3>1, <3>2 DEF MapMatchesHeap
    <3>5. \A a \in allocated' : mgr'[sid'[a]] = a \/ \E p \in Ptr : ins'[p] = a
      BY <1>7, <2>1, <3>1, <3>3, SMTT(30) DEF MapMatchesHeap
    <3>6. \A p \in Ptr : ins'[p] # Null => ins'[p] \in allocated' /\ \A r \in Sid : mgr'[r] # ins'[p]
      BY <1>7, <2>3, <3>1, <3>2 DEF MapMatchesHeap
    <3>7. \A p, q \in Ptr : ins'[p] # Null /\ ins'[p] = ins'[q] => p = q
      BY <1>7 DEF MapMatchesHeap
    <3> QED BY <3>4, <3>5, <3>6, <3>7 DEF MapMatchesHeap
  <2>9. RefsCountPointers'
    BY <1>7 DEF IInv, RefsCountPointers
  <2> QED BY <2>5, <2>6, <2>7, <2>8, <2>9 DEF IInv
<1> QED BY <1>1, <1>2, <1>3, <1>4, <1>5, <1>6, <1>7 DEF Reaper

\* A call of get_session: the steps before the session is in the pointer.
LEMMA GetInvariant ==
  ASSUME IInv, NEW p \in Ptr,
         \/ GetWithoutCookie(p) \/ FindMiss(p) \/ AllocateThrows(p)
         \/ \E s \in Sid : GetWithCookie(p, s)
  PROVE  IInv'
<1> USE DEF clockVars, objVars, readVars, reapVars, scanVars
<1>1. CASE GetWithoutCookie(p)
  <2>1. TypeOK' /\ Phases'
    BY <1>1 DEF IInv, GetWithoutCookie, TypeOK, Phases
  <2> QED BY <1>1, <2>1, FrameInvariant DEF GetWithoutCookie
<1>2. CASE FindMiss(p)
  <2>1. TypeOK' /\ Phases'
    BY <1>2 DEF IInv, FindMiss, TypeOK, Phases
  <2> QED BY <1>2, <2>1, FrameInvariant DEF FindMiss
<1>3. CASE AllocateThrows(p)
  <2>1. TypeOK' /\ Phases'
    BY <1>3 DEF IInv, AllocateThrows, TypeOK, Phases
  <2> QED BY <1>3, <2>1, FrameInvariant DEF AllocateThrows
<1>4. ASSUME NEW s \in Sid, GetWithCookie(p, s) PROVE IInv'
  <2>1. Expiry \in Nat
    BY SessionAssumption DEF IInv, TypeOK, Expiry
  <2>2. TypeOK' /\ Phases'
    BY <1>4, <2>1 DEF IInv, GetWithCookie, TypeOK, Phases
  <2> QED BY <1>4, <2>2, FrameInvariant DEF GetWithCookie
<1> QED BY <1>1, <1>2, <1>3, <1>4

LEMMA FindHitInvariant ==
  ASSUME IInv, NEW p \in Ptr, FindHit(p)
  PROVE  IInv'
<1> DEFINE a == mgr[arg[p]]
<1> USE DEF clockVars, objVars, readVars, reapVars, scanVars, Renew, FindHit
<1>1. a \in Addr /\ a \in allocated /\ mgr[sid[a]] = a /\ ptr[p] = Null /\ a # Null
  BY DEF IInv, TypeOK, Phases, MapMatchesHeap
<1>2. RefsCountPointers' /\ refs' \in [Addr -> Nat]
  BY <1>1, CountUp DEF IInv, TypeOK
<1>3. TypeOK'
  BY <1>1, <1>2 DEF IInv, TypeOK
<1>4. Phases'
  BY <1>1 DEF IInv, TypeOK, Phases
<1>5. FreshObjects'
  BY DEF IInv, FreshObjects, NoContent
<1>6. HeldAlive'
  BY <1>1 DEF IInv, TypeOK, HeldAlive, HasPtr
<1>7. MapMatchesHeap'
  BY DEF IInv, MapMatchesHeap
<1> QED BY <1>2, <1>3, <1>4, <1>5, <1>6, <1>7 DEF IInv

LEMMA AllocateInvariant ==
  ASSUME IInv, NEW p \in Ptr, NEW a \in Addr, Allocate(p, a)
  PROVE  IInv'
<1> USE DEF clockVars, objVars, readVars, reapVars, scanVars, Allocate
<1>1. Hash[a][0] \in Sid /\ Expiry \in Nat /\ a # Null
  <2>1. 0 \in 0..MaxRehash /\ Hash[a] \in [0..MaxRehash -> Sid] /\ a # Null
    BY SessionAssumption
  <2>2. Expiry \in Nat
    BY SessionAssumption DEF IInv, TypeOK, Expiry
  <2> QED BY <2>1, <2>2
<1>2. \A s \in Sid : mgr[s] # a
  BY <1>1 DEF IInv, MapMatchesHeap
<1>3. ins[p] = Null /\ \A q \in Ptr : ins[q] # a /\ ptr[q] # a
  BY <1>1 DEF IInv, Phases, MapMatchesHeap, HeldAlive, HasPtr
<1>4. TypeOK'
  BY <1>1 DEF IInv, TypeOK
<1>5. Phases'
  BY <1>1 DEF IInv, TypeOK, Phases
<1>6. FreshObjects'
  BY <1>1, <1>3 DEF IInv, TypeOK, FreshObjects, NoContent
<1>7. HeldAlive'
  BY <1>3 DEF IInv, TypeOK, HeldAlive, HasPtr
<1>8. MapMatchesHeap'
  <2> USE DEF IInv, TypeOK
  <2>1. \A s \in Sid : mgr'[s] # Null => mgr'[s] \in allocated' /\ sid'[mgr'[s]] = s
    BY <1>2 DEF MapMatchesHeap
  <2>2. \A b \in allocated' : mgr'[sid'[b]] = b \/ \E q \in Ptr : ins'[q] = b
    <3> SUFFICES ASSUME NEW b \in allocated' PROVE mgr'[sid'[b]] = b \/ \E q \in Ptr : ins'[q] = b
      OBVIOUS
    <3>1. CASE b = a
      <4>1. ins'[p] = a
        OBVIOUS
      <4> QED BY <3>1, <4>1
    <3>2. CASE b # a
      <4>1. b \in allocated /\ b # Null /\ mgr' = mgr /\ sid'[b] = sid[b]
        BY <3>2, SessionAssumption
      <4>2. CASE mgr[sid[b]] = b
        BY <4>1, <4>2
      <4>3. ASSUME NEW q \in Ptr, ins[q] = b PROVE ins'[q] = b
        BY <1>3, <4>1, <4>3
      <4> QED BY <4>1, <4>2, <4>3 DEF MapMatchesHeap
    <3> QED BY <3>1, <3>2
  <2>3. \A q \in Ptr : ins'[q] # Null => ins'[q] \in allocated' /\ \A s \in Sid : mgr'[s] # ins'[q]
    BY <1>2 DEF MapMatchesHeap
  <2>4. \A q, r \in Ptr : ins'[q] # Null /\ ins'[q] = ins'[r] => q = r
    BY <1>3 DEF MapMatchesHeap
  <2> QED BY <2>1, <2>2, <2>3, <2>4 DEF MapMatchesHeap
<1>9. RefsCountPointers'
  BY DEF IInv, RefsCountPointers
<1> QED BY <1>4, <1>5, <1>6, <1>7, <1>8, <1>9 DEF IInv

LEMMA InsertNewInvariant ==
  ASSUME IInv, NEW p \in Ptr, InsertNew(p)
  PROVE  IInv'
<1> DEFINE a == ins[p]
<1> USE DEF clockVars, objVars, readVars, reapVars, scanVars, InsertNew, Publish
<1>1. a \in Addr /\ a # Null /\ a \in allocated /\ sid[a] \in Sid /\ mgr[sid[a]] = Null
  BY DEF IInv, TypeOK, Phases, MapMatchesHeap, FreshObjects
<1>2. ptr[p] = Null /\ \A q \in Ptr : ptr[q] # a
  <2>1. ptr[p] = Null
    BY DEF IInv, TypeOK, Phases
  <2>2. \A q \in Ptr : ptr[q] # a
    BY <1>1 DEF IInv, TypeOK, HeldAlive, HasPtr, MapMatchesHeap
  <2> QED BY <2>1, <2>2
<1>3. RefsCountPointers' /\ refs' \in [Addr -> Nat]
  BY <1>1, <1>2, CountUp DEF IInv, TypeOK
<1>4. TypeOK'
  BY <1>1, <1>3, SessionAssumption DEF IInv, TypeOK
<1>5. Phases'
  BY <1>1, <1>2 DEF IInv, TypeOK, Phases
<1>6. FreshObjects'
  BY DEF IInv, TypeOK, FreshObjects, NoContent
<1>7. HeldAlive'
  <2> SUFFICES ASSUME NEW q \in Ptr, ptr'[q] # Null
               PROVE  ptr'[q] \in allocated' /\ mgr'[sid'[ptr'[q]]] = ptr'[q]
    BY DEF HeldAlive, HasPtr
  <2>1. CASE q = p
    BY <1>1, <2>1 DEF IInv, TypeOK
  <2>2. CASE q # p
    <3>1. ptr[q] \in allocated /\ mgr[sid[ptr[q]]] = ptr[q] /\ sid[ptr[q]] \in Sid /\ ptr[q] # Null
      BY <2>2 DEF IInv, TypeOK, HeldAlive, HasPtr, FreshObjects
    <3> QED BY <1>1, <2>2, <3>1 DEF IInv, TypeOK
  <2> QED BY <2>1, <2>2
<1>8. MapMatchesHeap'
  <2> USE DEF IInv, TypeOK
  <2>1. \A s \in Sid : mgr'[s] # Null => mgr'[s] \in allocated' /\ sid'[mgr'[s]] = s
    BY <1>1 DEF MapMatchesHeap
  <2>2. \A b \in allocated' : mgr'[sid'[b]] = b \/ \E q \in Ptr : ins'[q] = b
    <3> SUFFICES ASSUME NEW b \in allocated PROVE mgr'[sid[b]] = b \/ \E q \in Ptr : ins'[q] = b
      OBVIOUS
    <3>1. CASE b = a
      BY <1>1, <3>1
    <3>2. CASE mgr[sid[b]] = b
      BY <1>1, <3>2 DEF FreshObjects
    <3>3. CASE b # a /\ mgr[sid[b]] # b
      <4>1. PICK q \in Ptr : ins[q] = b
        BY <3>3 DEF MapMatchesHeap
      <4> QED BY <3>3, <4>1
    <3> QED BY <3>1, <3>2, <3>3
  <2>3. \A q \in Ptr : ins'[q] # Null => ins'[q] \in allocated' /\ \A s \in Sid : mgr'[s] # ins'[q]
    BY <1>1 DEF MapMatchesHeap
  <2>4. \A q, r \in Ptr : ins'[q] # Null /\ ins'[q] = ins'[r] => q = r
    BY DEF MapMatchesHeap
  <2> QED BY <2>1, <2>2, <2>3, <2>4 DEF MapMatchesHeap
<1> QED BY <1>3, <1>4, <1>5, <1>6, <1>7, <1>8 DEF IInv

LEMMA InsertTakenInvariant ==
  ASSUME IInv, NEW p \in Ptr, InsertTaken(p)
  PROVE  IInv'
<1> DEFINE a == ins[p]
           s == Hash[a][rehashed[p] + 1]
<1> USE DEF clockVars, objVars, readVars, reapVars, scanVars, InsertTaken
<1>1. a \in Addr /\ a # Null /\ a \in allocated /\ sid[a] \in Sid
  BY DEF IInv, TypeOK, Phases, MapMatchesHeap, FreshObjects
<1>2. rehashed[p] + 1 \in 0..MaxRehash /\ s \in Sid /\ Expiry \in Nat
  <2>1. rehashed[p] + 1 \in 0..MaxRehash
    BY SessionAssumption DEF IInv, TypeOK
  <2>2. Hash[a] \in [0..MaxRehash -> Sid]
    BY <1>1, SessionAssumption
  <2>3. Expiry \in Nat
    BY SessionAssumption DEF IInv, TypeOK, Expiry
  <2> QED BY <2>1, <2>2, <2>3
<1>3. \A q \in Ptr : ptr[q] # a
  BY <1>1 DEF IInv, TypeOK, HeldAlive, HasPtr, MapMatchesHeap
<1>4. TypeOK'
  BY <1>1, <1>2 DEF IInv, TypeOK
<1>5. Phases'
  BY DEF IInv, Phases
<1>6. FreshObjects'
  BY <1>1, <1>2 DEF IInv, TypeOK, FreshObjects, NoContent
<1>7. HeldAlive'
  BY <1>3 DEF IInv, TypeOK, HeldAlive, HasPtr
<1>8. MapMatchesHeap'
  <2> USE DEF IInv, TypeOK
  <2>1. \A r \in Sid : mgr'[r] # Null => mgr'[r] \in allocated' /\ sid'[mgr'[r]] = r
    BY <1>1 DEF MapMatchesHeap
  <2>2. \A b \in allocated' : mgr'[sid'[b]] = b \/ \E q \in Ptr : ins'[q] = b
    BY DEF MapMatchesHeap
  <2>3. \A q \in Ptr : ins'[q] # Null => ins'[q] \in allocated' /\ \A r \in Sid : mgr'[r] # ins'[q]
    BY DEF MapMatchesHeap
  <2>4. \A q, r \in Ptr : ins'[q] # Null /\ ins'[q] = ins'[r] => q = r
    BY DEF MapMatchesHeap
  <2> QED BY <2>1, <2>2, <2>3, <2>4 DEF MapMatchesHeap
<1>9. RefsCountPointers'
  BY DEF IInv, RefsCountPointers
<1> QED BY <1>4, <1>5, <1>6, <1>7, <1>8, <1>9 DEF IInv

LEMMA CopyPtrInvariant ==
  ASSUME IInv, NEW p \in Ptr, NEW q \in Ptr, CopyPtr(p, q)
  PROVE  IInv'
<1> USE DEF clockVars, objVars, readVars, reapVars, scanVars, CopyPtr
<1>1. ptr[p] \in Addr /\ ptr[p] # Null /\ ptr[q] = Null
  BY DEF IInv, TypeOK, Phases
<1>2. RefsCountPointers' /\ refs' \in [Addr -> Nat]
  BY <1>1, CountUp DEF IInv, TypeOK
<1>3. TypeOK'
  BY <1>1, <1>2 DEF IInv, TypeOK
<1>4. Phases'
  BY <1>1 DEF IInv, TypeOK, Phases
<1>5. FreshObjects'
  BY DEF IInv, FreshObjects, NoContent
<1>6. HeldAlive'
  BY <1>1 DEF IInv, TypeOK, HeldAlive, HasPtr
<1>7. MapMatchesHeap'
  BY DEF IInv, MapMatchesHeap
<1> QED BY <1>2, <1>3, <1>4, <1>5, <1>6, <1>7 DEF IInv

LEMMA DropPtrInvariant ==
  ASSUME IInv, NEW p \in Ptr, DropPtr(p)
  PROVE  IInv'
<1> USE DEF clockVars, objVars, readVars, reapVars, scanVars, DropPtr
<1>1. ptr[p] \in Addr /\ ptr[p] # Null
  BY DEF IInv, TypeOK, Phases
<1>2. RefsCountPointers' /\ refs' \in [Addr -> Nat]
  BY <1>1, CountDown DEF IInv, TypeOK
<1>3. TypeOK'
  BY <1>1, <1>2 DEF IInv, TypeOK
<1>4. Phases'
  BY <1>1 DEF IInv, TypeOK, Phases
<1>5. FreshObjects'
  BY DEF IInv, FreshObjects, NoContent
<1>6. HeldAlive'
  BY <1>1 DEF IInv, TypeOK, HeldAlive, HasPtr
<1>7. MapMatchesHeap'
  BY DEF IInv, MapMatchesHeap
<1> QED BY <1>2, <1>3, <1>4, <1>5, <1>6, <1>7 DEF IInv

LEMMA SetAttributeInvariant ==
  ASSUME IInv, NEW p \in Ptr, NEW k \in Key, NEW v \in Val \cup {Nil}, SetAttribute(p, k, v)
  PROVE  IInv'
<1> USE DEF clockVars, objVars, callVars, reapVars, scanVars, Renew, SetAttribute
<1>1. ptr[p] \in allocated /\ ptr[p] \in Addr /\ mgr[sid[ptr[p]]] = ptr[p] /\ sid[ptr[p]] \in Sid
  BY DEF IInv, TypeOK, Phases, HeldAlive, HasPtr, FreshObjects
<1>2. [smap[ptr[p]] EXCEPT ![k] = v] \in [Key -> Val \cup {Nil}] /\ Expiry \in Nat
  BY <1>1, SessionAssumption DEF IInv, TypeOK, Expiry
<1>3. TypeOK'
  BY <1>1, <1>2 DEF IInv, TypeOK, ReadersOf
<1>4. Phases'
  BY DEF IInv, Phases
<1>5. FreshObjects'
  BY <1>1 DEF IInv, TypeOK, FreshObjects, NoContent, MapMatchesHeap
<1>6. HeldAlive'
  BY DEF IInv, HeldAlive, HasPtr
<1>7. MapMatchesHeap' /\ RefsCountPointers'
  BY DEF IInv, MapMatchesHeap, RefsCountPointers
<1> QED BY <1>3, <1>4, <1>5, <1>6, <1>7 DEF IInv

LEMMA GetAttributeInvariant ==
  ASSUME IInv, NEW p \in Ptr, CopyAttribute(p) \/ \E k \in Key : GetReference(p, k)
  PROVE  IInv'
<1> USE DEF clockVars, objVars, callVars, reapVars, scanVars
<1>1. CASE CopyAttribute(p)
  <2>1. TypeOK' /\ Phases'
    BY <1>1 DEF IInv, CopyAttribute, TypeOK, Phases
  <2> QED BY <1>1, <2>1, FrameInvariant DEF CopyAttribute
<1>2. ASSUME NEW k \in Key, GetReference(p, k) PROVE IInv'
  <2>1. TypeOK' /\ Phases'
    BY <1>2 DEF IInv, GetReference, TypeOK, Phases
  <2> QED BY <1>2, <2>1, FrameInvariant DEF GetReference
<1> QED BY <1>1, <1>2

LEMMA NextInvariant == IInv /\ [Next]_vars => IInv'
<1> SUFFICES ASSUME IInv, [Next]_vars PROVE IInv'
  OBVIOUS
<1>1. CASE Handlers
  BY <1>1, GetInvariant, FindHitInvariant, AllocateInvariant, InsertNewInvariant,
     InsertTakenInvariant, CopyPtrInvariant, DropPtrInvariant, SetAttributeInvariant,
     GetAttributeInvariant DEF Handlers
<1> QED BY <1>1, TickInvariant, ReaperInvariant, StutterInvariant DEF Next

-----------------------------------------------------------------------------
(* The theorems.                                                           *)

\* The inductive invariant holds in every state the manager can be in.
THEOREM InvariantHolds == Spec => []IInv
BY InitInvariant, NextInvariant, PTL DEF Spec

\* Every variable keeps its type; no reference count becomes negative.
THEOREM TypeCorrect == Spec => []TypeOK
<1>1. IInv => TypeOK
  BY DEF IInv
<1> QED BY <1>1, InvariantHolds, PTL

\* No session is deleted, or lost from the map, while a counted pointer refers to it.
THEOREM HeldSessionsAlive == Spec => []HeldAlive
<1>1. IInv => HeldAlive
  BY DEF IInv
<1> QED BY <1>1, InvariantHolds, PTL

\* The map and the heap agree, whichever digests collide.
THEOREM NoSessionLost == Spec => []MapMatchesHeap
<1>1. IInv => MapMatchesHeap
  BY DEF IInv
<1> QED BY <1>1, InvariantHolds, PTL

\* The counter the reaper looks at is the number of pointers.
THEOREM CountersExact == Spec => []RefsCountPointers
<1>1. IInv => RefsCountPointers
  BY DEF IInv
<1> QED BY <1>1, InvariantHolds, PTL

\* A reference getAttribute holds is invalidated only by another pointer to the session.
THEOREM ReadersDisturbedOnlyByPeers == Spec => DanglingOnlyByPeer
<1> DEFINE Peer(p) == \E q \in Ptr \ {p} : ptr[q] = ptr[p] /\ pc[q] = "held"
           Step == \A p \in Ptr : p \in dangling' \ dangling => Peer(p)
<1>1. IInv /\ [Next]_vars => [Step]_vars
  <2> SUFFICES ASSUME IInv, Next, NEW p \in Ptr, p \in dangling', p \notin dangling
               PROVE  Peer(p)
    BY DEF vars
  <2> USE DEF readVars
  <2>1. CASE Tick
    BY <2>1 DEF Tick
  <2>2. CASE Reaper
    <3>1. PICK s \in Sid : ReapUnused(s)
      BY <2>2 DEF Reaper, Wake, ScanBegin, ScanEnd, ReapEnd, ScanOne, ReapUsed
    <3>2. ptr[p] = mgr[s] /\ mgr[s] \in Addr /\ refs[mgr[s]] = 0
      BY <3>1 DEF IInv, TypeOK, ReapUnused, EraseAndDelete
    <3> QED BY <3>2, UnusedHasNoPointer DEF IInv
  <2>3. CASE Handlers
    <3>1. PICK q \in Ptr, k \in Key, v \in Val \cup {Nil} : SetAttribute(q, k, v)
      BY <2>3 DEF Handlers, GetWithoutCookie, FindHit, FindMiss, AllocateThrows, InsertNew,
         InsertTaken, Publish, DropPtr, CopyAttribute, GetWithCookie, Allocate, CopyPtr, GetReference
    <3> QED BY <3>1 DEF SetAttribute, ReadersOf
  <2> QED BY <2>1, <2>2, <2>3 DEF Next
<1>2. Spec => [][Step]_vars
  BY <1>1, InvariantHolds, PTL DEF Spec
<1> QED BY <1>2 DEF DanglingOnlyByPeer

-----------------------------------------------------------------------------
(* The verdicts of the reaper's scan.                                      *)

\* What the scan has found stays true until the reaper acts on it: an entry it has yet to
\* visit or has collected is still in the map, and a collected one was over at the time the
\* reaper woke up, unless a request has renewed it since.
Collected(s) == mgr[s] # Null /\ (tm_life[mgr[s]] < tm_now \/ s \in renewed)
Verdicts ==
  /\ tm_now <= now
  /\ reaper \in {"sleep", "awake"} => sids = {}
  /\ \A s \in unseen : reaper = "scan" /\ mgr[s] # Null
  /\ \A s \in sids : Collected(s)

\* The verdicts survive a step that keeps the entries of the map and changes the lifetime of
\* a collected session only by renewing it.
LEMMA VerdictsKept ==
  ASSUME IInv, Verdicts, UNCHANGED scanVars, now' = now,
         \A s \in Sid : mgr[s] # Null => mgr'[s] = mgr[s],
         \A s \in sids : tm_life'[mgr[s]] # tm_life[mgr[s]] => s \in renewed',
         renewed \subseteq renewed'
  PROVE  Verdicts'
<1>1. unseen \subseteq Sid /\ sids \subseteq Sid
  BY DEF IInv, TypeOK
<1>2. \A s \in sids : Collected(s)'
  BY <1>1 DEF Verdicts, Collected, scanVars
<1> QED BY <1>1, <1>2 DEF Verdicts, scanVars

LEMMA VerdictsTick == IInv /\ Verdicts /\ Tick => Verdicts'
<1> SUFFICES ASSUME IInv, Verdicts, Tick PROVE Verdicts'
  OBVIOUS
<1> USE DEF objVars, reapVars, scanVars
<1>1. tm_now' <= now'
  BY DEF IInv, TypeOK, Tick, Verdicts
<1>2. \A s \in sids : Collected(s)'
  BY DEF Verdicts, Collected, Tick
<1> QED BY <1>1, <1>2 DEF Verdicts, Tick

LEMMA VerdictsReaper == IInv /\ Verdicts /\ Reaper => Verdicts'
<1> SUFFICES ASSUME IInv, Verdicts, Reaper PROVE Verdicts'
  OBVIOUS
<1> USE DEF clockVars, objVars
<1>1. CASE Wake
  <2>1. sids' = {} /\ unseen' = {}
    BY <1>1 DEF Wake, Verdicts
  <2>2. tm_now' <= now'
    BY <1>1 DEF Wake, IInv, TypeOK
  <2> QED BY <2>1, <2>2 DEF Verdicts
<1>2. CASE ScanBegin
  <2>1. sids' = {}
    BY <1>2 DEF ScanBegin, Verdicts
  <2> QED BY <1>2, <2>1 DEF ScanBegin, Verdicts
<1>3. CASE ScanEnd
  <2>1. \A s \in sids : Collected(s)'
    BY <1>3 DEF ScanEnd, Verdicts, Collected
  <2> QED BY <1>3, <2>1 DEF ScanEnd, Verdicts
<1>4. CASE ReapEnd
  <2>1. sids' = {} /\ unseen' = {}
    BY <1>4 DEF ReapEnd, Verdicts
  <2>2. tm_now' <= now'
    BY <1>4 DEF ReapEnd, IInv, TypeOK
  <2> QED BY <2>1, <2>2 DEF Verdicts
<1>5. ASSUME NEW s \in Sid, ScanOne(s) PROVE Verdicts'
  <2>1. mgr[s] # Null
    BY <1>5 DEF ScanOne, Verdicts
  <2>2. \A r \in sids' : Collected(r)'
    BY <1>5, <2>1 DEF ScanOne, Verdicts, Collected
  <2> QED BY <1>5, <2>2 DEF ScanOne, Verdicts
<1>6. ASSUME NEW s \in Sid, ReapUsed(s) PROVE Verdicts'
  <2>1. \A r \in sids' : Collected(r)'
    BY <1>6 DEF ReapUsed, Verdicts, Collected
  <2> QED BY <1>6, <2>1 DEF ReapUsed, Verdicts
<1>7. ASSUME NEW s \in Sid, ReapUnused(s) PROVE Verdicts'
  <2> USE <1>7 DEF ReapUnused, EraseAndDelete
  <2>1. unseen' = {} /\ sids' = sids \ {s} /\ sids \subseteq Sid
    BY DEF IInv, TypeOK, Verdicts
  <2>2. ASSUME NEW r \in sids' PROVE Collected(r)'
    <3>1. r \in Sid /\ r # s /\ Collected(r)
      BY <2>1 DEF Verdicts
    <3>2. mgr[r] \in Addr /\ mgr[s] \in Addr /\ mgr[r] # mgr[s]
      BY <3>1 DEF IInv, TypeOK, MapMatchesHeap, Collected
    <3>3. mgr'[r] = mgr[r] /\ tm_life'[mgr[r]] = tm_life[mgr[r]]
      BY <3>1, <3>2 DEF IInv, TypeOK
    <3>4. tm_now' = tm_now /\ (r \in renewed => r \in renewed')
      BY <3>1
    <3> QED BY <3>1, <3>3, <3>4 DEF Collected
  <2>3. tm_now' = tm_now /\ now' = now /\ reaper' = "reap"
    OBVIOUS
  <2> QED BY <2>1, <2>2, <2>3 DEF Verdicts
<1> QED BY <1>1, <1>2, <1>3, <1>4, <1>5, <1>6, <1>7 DEF Reaper

LEMMA VerdictsHandlers == IInv /\ Verdicts /\ Handlers => Verdicts'
<1> SUFFICES ASSUME IInv, Verdicts, Handlers PROVE Verdicts'
  OBVIOUS
<1> USE DEF clockVars, objVars, callVars, reapVars
<1>1. ASSUME UNCHANGED <<now, mgr, tm_life, scanVars, renewed>> PROVE Verdicts'
  BY <1>1, VerdictsKept
<1>2. ASSUME NEW p \in Ptr, FindHit(p) PROVE Verdicts'
  <2>1. arg[p] \in Sid /\ mgr[arg[p]] \in Addr
    BY <1>2 DEF FindHit, IInv, TypeOK, Phases
  <2>2. \A s \in sids : s # arg[p] => mgr[s] # mgr[arg[p]]
    BY <1>2, <2>1 DEF FindHit, IInv, TypeOK, MapMatchesHeap
  <2>3. \A s \in sids : s # arg[p] => tm_life'[mgr[s]] = tm_life[mgr[s]]
    BY <1>2, <2>1, <2>2 DEF FindHit, IInv, TypeOK
  <2>4. renewed \subseteq renewed' /\ (arg[p] \in sids => arg[p] \in renewed')
    BY <1>2 DEF FindHit, Renew
  <2>5. UNCHANGED <<now, mgr, scanVars>>
    BY <1>2 DEF FindHit
  <2> QED BY <2>3, <2>4, <2>5, VerdictsKept
<1>3. ASSUME NEW p \in Ptr, NEW k \in Key, NEW v \in Val \cup {Nil}, SetAttribute(p, k, v)
      PROVE  Verdicts'
  <2>1. ptr[p] # Null
    BY <1>3 DEF SetAttribute, IInv, Phases
  <2>2. \A s \in sids : s # sid[ptr[p]] => mgr[s] # ptr[p]
    BY <2>1 DEF IInv, TypeOK, MapMatchesHeap
  <2>3. \A s \in sids : s # sid[ptr[p]] => tm_life'[mgr[s]] = tm_life[mgr[s]]
    BY <1>3, <2>2 DEF SetAttribute, IInv, TypeOK
  <2>4. renewed \subseteq renewed' /\ (sid[ptr[p]] \in sids => sid[ptr[p]] \in renewed')
    BY <1>3 DEF SetAttribute, Renew
  <2>5. UNCHANGED <<now, mgr, scanVars>>
    BY <1>3 DEF SetAttribute
  <2> QED BY <2>3, <2>4, <2>5, VerdictsKept
<1>4. ASSUME NEW p \in Ptr, NEW a \in Addr, Allocate(p, a) PROVE Verdicts'
  <2>1. \A s \in sids : mgr[s] \in Addr /\ mgr[s] # a
    BY <1>4 DEF Allocate, Verdicts, Collected, IInv, TypeOK, MapMatchesHeap
  <2>2. \A s \in sids : tm_life'[mgr[s]] = tm_life[mgr[s]]
    BY <1>4, <2>1 DEF Allocate, IInv, TypeOK
  <2>3. UNCHANGED <<now, mgr, scanVars, renewed>>
    BY <1>4 DEF Allocate
  <2> QED BY <2>2, <2>3, VerdictsKept
<1>5. ASSUME NEW p \in Ptr, InsertTaken(p) PROVE Verdicts'
  <2>1. \A s \in sids : mgr[s] \in Addr /\ mgr[s] # ins[p]
    BY <1>5 DEF InsertTaken, Verdicts, Collected, IInv, TypeOK, Phases, MapMatchesHeap
  <2>2. \A s \in sids : tm_life'[mgr[s]] = tm_life[mgr[s]]
    BY <1>5, <2>1 DEF InsertTaken, IInv, TypeOK
  <2>3. UNCHANGED <<now, mgr, scanVars, renewed>>
    BY <1>5 DEF InsertTaken
  <2> QED BY <2>2, <2>3, VerdictsKept
<1>6. ASSUME NEW p \in Ptr, InsertNew(p) PROVE Verdicts'
  <2>1. \A s \in Sid : mgr[s] # Null => mgr'[s] = mgr[s]
    BY <1>6 DEF InsertNew, Publish, IInv, TypeOK
  <2>2. UNCHANGED <<now, tm_life, scanVars, renewed>>
    BY <1>6 DEF InsertNew, Publish
  <2> QED BY <2>1, <2>2, VerdictsKept
<1> QED BY <1>1, <1>2, <1>3, <1>4, <1>5, <1>6 DEF Handlers, GetWithoutCookie, FindMiss,
       AllocateThrows, DropPtr, CopyAttribute, GetWithCookie, CopyPtr, GetReference

LEMMA VerdictsStep == IInv /\ Verdicts /\ [Next]_vars => Verdicts'
<1> SUFFICES ASSUME IInv, Verdicts, UNCHANGED vars PROVE Verdicts'
  BY VerdictsTick, VerdictsReaper, VerdictsHandlers DEF Next
<1> QED BY VerdictsKept DEF vars, clockVars, objVars, reapVars

\* The verdicts of the scan stay true until the reaper acts on them.
THEOREM VerdictsHold == Spec => []Verdicts
<1>1. Init => Verdicts
  BY DEF Init, Verdicts
<1> QED BY <1>1, VerdictsStep, InvariantHolds, PTL DEF Spec

\* The reaper deletes no session that is neither over nor renewed behind the scan's back.
THEOREM ReapedOnlyExpired == Spec => ReapedExpired
<1> DEFINE Step == \A s \in Sid : mgr[s] # Null /\ mgr'[s] = Null
                                    => tm_life[mgr[s]] < now \/ s \in renewed
<1>1. IInv /\ Verdicts /\ [Next]_vars => [Step]_vars
  <2> SUFFICES ASSUME IInv, Verdicts, Next, NEW s \in Sid, mgr[s] # Null, mgr'[s] = Null
               PROVE  tm_life[mgr[s]] < now \/ s \in renewed
    OBVIOUS
  <2>1. CASE Tick
    BY <2>1 DEF Tick
  <2>2. CASE Handlers
    <3>1. PICK p \in Ptr : InsertNew(p)
      BY <2>2 DEF Handlers, GetWithoutCookie, FindHit, FindMiss, AllocateThrows, InsertTaken,
         DropPtr, CopyAttribute, GetWithCookie, Allocate, CopyPtr, GetReference, SetAttribute
    <3> QED BY <3>1 DEF InsertNew, Publish, IInv, TypeOK, Phases
  <2>3. CASE Reaper
    <3>1. PICK r \in Sid : ReapUnused(r)
      BY <2>3 DEF Reaper, Wake, ScanBegin, ScanEnd, ReapEnd, ScanOne, ReapUsed
    <3>2. r = s /\ s \in sids
      BY <3>1 DEF ReapUnused, EraseAndDelete, IInv, TypeOK
    <3>3. tm_life[mgr[s]] \in Nat /\ tm_now \in Nat /\ now \in Nat /\ tm_now <= now
      BY DEF IInv, TypeOK, Verdicts
    <3>4. tm_life[mgr[s]] < tm_now \/ s \in renewed
      BY <3>2 DEF Verdicts, Collected
    <3> QED BY <3>3, <3>4
  <2> QED BY <2>1, <2>2, <2>3 DEF Next
<1>2. Spec => [][Step]_vars
  BY <1>1, InvariantHolds, VerdictsHold, PTL DEF Spec
<1> QED BY <1>2 DEF ReapedExpired

-----------------------------------------------------------------------------
(* The manager implements the session store.                               *)

StoreView == [s \in Sid |-> IF mgr[s] = Null THEN Absent ELSE smap[mgr[s]]]
UsingView == [p \in Ptr |-> IF ptr[p] = Null THEN NoSid ELSE sid[ptr[p]]]

\* A step that leaves the map, the pointers, identifiers and contents alone shows nothing.
LEMMA StoreStutter ==
  ASSUME UNCHANGED <<mgr, ptr, sid, smap>>
  PROVE  UNCHANGED <<StoreView, UsingView>>
BY DEF StoreView, UsingView

LEMMA StoreInit == Init => Store!InitStore
BY DEF Init, Store!InitStore

LEMMA StoreOpen ==
  ASSUME IInv, NEW p \in Ptr, FindHit(p)
  PROVE  Store!Open(p, arg[p])
<1> USE DEF IInv, TypeOK, FindHit
<1>1. ptr[p] = Null /\ arg[p] \in Sid /\ mgr[arg[p]] \in Addr
  BY DEF Phases
<1>2. sid[mgr[arg[p]]] = arg[p] /\ mgr[arg[p]] # Null
  BY <1>1 DEF MapMatchesHeap
<1>3. StoreView' = StoreView /\ StoreView[arg[p]] # Absent
  BY <1>1, <1>2, SessionAssumption DEF StoreView
<1>4. UsingView[p] = NoSid /\ UsingView' = [UsingView EXCEPT ![p] = arg[p]]
  BY <1>1, <1>2 DEF UsingView
<1> QED BY <1>3, <1>4 DEF Store!Open, StoreView, UsingView

LEMMA StoreCreate ==
  ASSUME IInv, NEW p \in Ptr, InsertNew(p)
  PROVE  Store!Create(p, sid[ins[p]])
<1> DEFINE a == ins[p]
<1> USE DEF IInv, TypeOK, InsertNew, Publish
<1>1. ptr[p] = Null /\ a \in Addr /\ a # Null /\ sid[a] \in Sid /\ smap[a] = NoContent
  BY DEF Phases, MapMatchesHeap, FreshObjects
<1>2. StoreView[sid[a]] = Absent
  BY <1>1 DEF StoreView
<1>3. StoreView' = [StoreView EXCEPT ![sid[a]] = Store!Empty]
  BY <1>1 DEF StoreView, NoContent, Store!Empty
<1>4. UsingView[p] = NoSid /\ UsingView' = [UsingView EXCEPT ![p] = sid[a]]
  BY <1>1 DEF UsingView
<1> QED BY <1>2, <1>3, <1>4 DEF Store!Create, StoreView, UsingView

LEMMA StoreShare ==
  ASSUME IInv, NEW p \in Ptr, NEW q \in Ptr, CopyPtr(p, q)
  PROVE  Store!Share(p, q)
<1> USE DEF IInv, TypeOK, CopyPtr
<1>1. ptr[q] = Null /\ ptr[p] # Null /\ sid[ptr[p]] \in Sid
  BY DEF Phases, HeldAlive, HasPtr, FreshObjects
<1>2. StoreView' = StoreView
  BY DEF StoreView
<1>3. UsingView[p] # NoSid /\ UsingView[q] = NoSid
  BY <1>1, SessionAssumption DEF UsingView
<1>4. UsingView' = [UsingView EXCEPT ![q] = UsingView[p]]
  BY <1>1 DEF UsingView
<1> QED BY <1>2, <1>3, <1>4 DEF Store!Share, StoreView, UsingView

LEMMA StoreClose ==
  ASSUME IInv, NEW p \in Ptr, DropPtr(p)
  PROVE  Store!Close(p)
<1> USE DEF IInv, TypeOK, DropPtr
<1>1. ptr[p] # Null /\ sid[ptr[p]] \in Sid
  BY DEF Phases, HeldAlive, HasPtr, FreshObjects
<1>2. StoreView' = StoreView
  BY DEF StoreView
<1>3. UsingView[p] # NoSid /\ UsingView' = [UsingView EXCEPT ![p] = NoSid]
  BY <1>1, SessionAssumption DEF UsingView
<1> QED BY <1>2, <1>3 DEF Store!Close, StoreView, UsingView

LEMMA StorePut ==
  ASSUME IInv, NEW p \in Ptr, NEW k \in Key, NEW v \in Val \cup {Nil}, SetAttribute(p, k, v)
  PROVE  Store!Put(p, k, v)
<1> DEFINE a == ptr[p]
           s == sid[a]
<1> USE DEF IInv, TypeOK, SetAttribute, callVars
<1>1. a # Null /\ a \in Addr /\ s \in Sid /\ mgr[s] = a
  BY DEF Phases, HeldAlive, HasPtr, FreshObjects
<1>2. \A r \in Sid : r # s => mgr[r] # a
  BY <1>1 DEF MapMatchesHeap
<1>3. StoreView[s] = smap[a] /\ UsingView[p] = s /\ s # NoSid
  BY <1>1, SessionAssumption DEF StoreView, UsingView
<1>4. StoreView' = [StoreView EXCEPT ![s] = [smap[a] EXCEPT ![k] = v]]
  BY <1>1, <1>2 DEF StoreView
<1>5. UsingView' = UsingView
  BY DEF UsingView
<1> QED BY <1>3, <1>4, <1>5 DEF Store!Put, StoreView, UsingView

LEMMA StoreExpire ==
  ASSUME IInv, NEW s \in Sid, ReapUnused(s)
  PROVE  Store!Expire(s)
<1> DEFINE a == mgr[s]
<1> USE DEF IInv, TypeOK, ReapUnused, EraseAndDelete, callVars
<1>1. a \in Addr /\ a # Null /\ sid[a] = s
  BY DEF MapMatchesHeap
<1>2. \A p \in Ptr : ptr[p] # a
  BY <1>1, UnusedHasNoPointer
<1>3. \A r \in Sid : r # s => mgr[r] # a
  BY <1>1 DEF MapMatchesHeap
<1>4. StoreView[s] # Absent
  BY <1>1, SessionAssumption DEF StoreView
<1>5. \A p \in Ptr : UsingView[p] # s
  <2> SUFFICES ASSUME NEW p \in Ptr, ptr[p] # Null PROVE sid[ptr[p]] # s
    BY SessionAssumption DEF UsingView
  <2> QED BY <1>2 DEF HeldAlive, HasPtr
<1>6. StoreView' = [StoreView EXCEPT ![s] = Absent]
  BY <1>1, <1>3 DEF StoreView
<1>7. UsingView' = UsingView
  BY <1>2 DEF UsingView
<1> QED BY <1>4, <1>5, <1>6, <1>7 DEF Store!Expire, StoreView, UsingView

LEMMA StoreStep == IInv /\ [Next]_vars => [Store!NextStore]_(Store!svars)
<1> SUFFICES ASSUME IInv, [Next]_vars
             PROVE  Store!NextStore \/ UNCHANGED <<StoreView, UsingView>>
  BY DEF Store!svars, StoreView, UsingView
<1> USE DEF objVars, callVars
<1>1. CASE UNCHANGED vars
  BY <1>1, StoreStutter DEF vars
<1>2. CASE Tick
  BY <1>2, StoreStutter DEF Tick
<1>3. CASE Reaper
  <2>1. CASE \E s \in Sid : ReapUnused(s)
    BY <2>1, StoreExpire DEF Store!NextStore
  <2>2. CASE ~ \E s \in Sid : ReapUnused(s)
    BY <1>3, <2>2, StoreStutter DEF Reaper, Wake, ScanBegin, ScanEnd, ReapEnd, ScanOne, ReapUsed
  <2> QED BY <2>1, <2>2
<1>4. CASE Handlers
  <2>1. ASSUME NEW p \in Ptr, FindHit(p) PROVE Store!NextStore
    <3>1. arg[p] \in Sid
      BY <2>1 DEF FindHit, IInv, Phases
    <3>2. Store!Open(p, arg[p])
      BY <2>1, StoreOpen
    <3>3. \E s \in Sid : Store!Open(p, s)
      BY <3>1, <3>2 DEF Store!Open
    <3> QED BY <3>3, Zenon DEF Store!NextStore
  <2>2. ASSUME NEW p \in Ptr, InsertNew(p) PROVE Store!NextStore
    <3>1. sid[ins[p]] \in Sid
      BY <2>2 DEF InsertNew, IInv, Phases, MapMatchesHeap, FreshObjects
    <3>2. Store!Create(p, sid[ins[p]])
      BY <2>2, StoreCreate
    <3>3. \E s \in Sid : Store!Create(p, s)
      BY <3>1, <3>2 DEF Store!Create
    <3> QED BY <3>3, Zenon DEF Store!NextStore
  <2>3. ASSUME NEW p \in Ptr, NEW q \in Ptr, CopyPtr(p, q) PROVE Store!NextStore
    BY <2>3, StoreShare DEF Store!NextStore
  <2>4. ASSUME NEW p \in Ptr, DropPtr(p) PROVE Store!NextStore
    BY <2>4, StoreClose DEF Store!NextStore
  <2>5. ASSUME NEW p \in Ptr, NEW k \in Key, NEW v \in Val \cup {Nil}, SetAttribute(p, k, v)
        PROVE  Store!NextStore
    BY <2>5, StorePut DEF Store!NextStore
  <2>6. ASSUME NEW p \in Ptr,
               \/ GetWithoutCookie(p) \/ FindMiss(p) \/ AllocateThrows(p) \/ CopyAttribute(p)
               \/ \E s \in Sid : GetWithCookie(p, s)
               \/ \E k \in Key : GetReference(p, k)
        PROVE  UNCHANGED <<StoreView, UsingView>>
    BY <2>6, StoreStutter DEF GetWithoutCookie, FindMiss, AllocateThrows, CopyAttribute,
       GetWithCookie, GetReference
  <2>7. ASSUME NEW p \in Ptr, InsertTaken(p) \/ \E a \in Addr : Allocate(p, a)
        PROVE  UNCHANGED <<StoreView, UsingView>>
    <3>1. \A q \in Ptr : ptr[q] # Null => ptr[q] \in Addr /\ sid'[ptr[q]] = sid[ptr[q]]
      <4>1. CASE InsertTaken(p)
        <5>1. ins[p] # Null /\ \A s \in Sid : mgr[s] # ins[p]
          BY <4>1 DEF InsertTaken, IInv, Phases, MapMatchesHeap
        <5>2. \A q \in Ptr : ptr[q] # Null => ptr[q] # ins[p] /\ ptr[q] \in Addr
          BY <5>1 DEF IInv, TypeOK, HeldAlive, HasPtr, FreshObjects
        <5> QED BY <4>1, <5>2 DEF InsertTaken, IInv, TypeOK
      <4>2. ASSUME NEW a \in Addr, Allocate(p, a)
            PROVE  \A q \in Ptr : ptr[q] # Null => ptr[q] \in Addr /\ sid'[ptr[q]] = sid[ptr[q]]
        BY <4>2 DEF Allocate, IInv, TypeOK, HeldAlive, HasPtr
      <4> QED BY <2>7, <4>1, <4>2
    <3>2. UNCHANGED <<mgr, ptr, smap>>
      BY <2>7 DEF InsertTaken, Allocate
    <3> QED BY <3>1, <3>2 DEF StoreView, UsingView
  <2> QED BY <1>4, <2>1, <2>2, <2>3, <2>4, <2>5, <2>6, <2>7 DEF Handlers
<1> QED BY <1>1, <1>2, <1>3, <1>4 DEF Next

\* The manager, with its locks, counts and addresses, is a session store to its callers.
THEOREM ManagerIsStore == Spec => ImplementsStore
BY StoreInit, StoreStep, InvariantHolds, PTL DEF Spec, ImplementsStore, Store!StoreSpec
=============================================================================
