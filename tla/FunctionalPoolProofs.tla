------------------------ MODULE FunctionalPoolProofs ------------------------
(***************************************************************************)
(* Theorems about FunctionalPool, for any set of clients and instances,    *)
(* and for scripts that hold any number of instances at a time.            *)
(***************************************************************************)
EXTENDS FunctionalPool, SequenceTheorems, TLAPS

\* Client c uses i, or is about to call the try_del that unlocks it.
Claims(c, i) == i \in Held(c) \/ (pc[c] = "trydel" /\ cur[c] = i)

\* What the phase of a client says of its locals and of the mutex.
Phases ==
  /\ \A c \in Client :
       /\ pc[c] \in {"append", "spin", "got", "stored", "trydel"} => cur[c] \in created
       /\ pc[c] \in {"got", "stored"} => cur[c] \in Held(c)
       /\ pc[c] = "spin" <=> mutex = c
  /\ \A c \in Client : Held(c) \subseteq created

\* An instance has at most one claimant, whose pointers are the ones it counts; it is
\* locked exactly while it has one.
Counted ==
  \A i \in Instance :
    /\ \A c, d \in Client : Claims(c, i) /\ Claims(d, i) => c = d
    /\ \A c \in Client : Claims(c, i) => locked[i] /\ payload[i] = ptrs[c][i]
    /\ (\A c \in Client : ~Claims(c, i)) => ~locked[i] /\ payload[i] = 0

\* An instance that is yet to be appended has one appender and is not in the list.
Fresh ==
  /\ \A n \in DOMAIN es : es[n] \in created
  /\ \A c \in Client : pc[c] = "append" => \A n \in DOMAIN es : es[n] # cur[c]
  /\ \A c, d \in Client : pc[c] = "append" /\ pc[d] = "append" /\ cur[c] = cur[d] => c = d

IInv == TypeOK /\ Phases /\ Counted /\ Fresh /\ PooledOnce

-----------------------------------------------------------------------------
(* The invariant is inductive.                                             *)

LEMMA InitInvariant == Init => IInv
BY PoolAssumption
DEF Init, IInv, TypeOK, Phases, Counted, Claims, Held, Fresh, PooledOnce

LEMMA StutterInvariant == IInv /\ UNCHANGED vars => IInv'
BY DEF vars, poolVars, instVars, IInv, TypeOK, Phases, Counted, Claims, Held, Fresh, PooledOnce

\* Steps that leave the list alone and make no new appender keep it as it is.
LEMMA ListUnchanged ==
  ASSUME Fresh, PooledOnce, UNCHANGED <<es, created>>,
         \A c \in Client : (pc[c] = "append" <=> pc'[c] = "append")
         /\ (pc[c] = "append" => cur'[c] = cur[c])
  PROVE  Fresh' /\ PooledOnce'
BY DEF Fresh, PooledOnce

\* Steps that touch neither pointers nor locks, and neither enter nor leave try_del.
LEMMA CountsUnchanged ==
  ASSUME Counted, UNCHANGED instVars,
         \A c \in Client : (pc[c] = "trydel" <=> pc'[c] = "trydel")
                           /\ (pc[c] = "trydel" => cur'[c] = cur[c])
  PROVE  Counted'
BY DEF Counted, Claims, Held, instVars

\* Setting one count leaves the others as they are.
LEMMA OneCount ==
  ASSUME ptrs \in [Client -> [Instance -> Nat]],
         NEW c \in Client, NEW i \in Instance, NEW n \in Nat,
         ptrs' = [ptrs EXCEPT ![c][i] = n]
  PROVE  /\ ptrs' \in [Client -> [Instance -> Nat]]
         /\ ptrs'[c][i] = n
         /\ \A d \in Client, j \in Instance : d # c \/ j # i => ptrs'[d][j] = ptrs[d][j]
OBVIOUS

\* A client that finds an instance unlocked becomes its only claimant.
LEMMA ObtainCounts ==
  ASSUME TypeOK, Counted, NEW c \in Client, NEW i \in Instance,
         pc[c] \in {"scan", "spin"}, ~locked[i], Obtain(c, i)
  PROVE  /\ Counted' /\ i \in Held(c)'
         /\ ptrs' \in [Client -> [Instance -> Nat]] /\ payload' \in [Instance -> Nat]
         /\ locked' \in [Instance -> BOOLEAN]
         /\ \A d \in Client : d # c => Held(d)' = Held(d)
         /\ Held(c)' = Held(c) \cup {i}
<1>1. \A d \in Client : ~Claims(d, i)
  BY DEF Counted
<1>2. payload[i] = 0 /\ \A d \in Client : ptrs[d][i] = 0
  BY <1>1 DEF Counted, Claims, Held, TypeOK
<1>3. ptrs' = [ptrs EXCEPT ![c][i] = 1]
  <2>1. ptrs' = [ptrs EXCEPT ![c][i] = ptrs[c][i] + 1]
    BY DEF Obtain
  <2>2. ptrs[c][i] + 1 = 1
    BY <1>2
  <2> QED BY <2>1, <2>2
<1>4. /\ ptrs' \in [Client -> [Instance -> Nat]]
      /\ ptrs'[c][i] = 1
      /\ \A d \in Client, j \in Instance : d # c \/ j # i => ptrs'[d][j] = ptrs[d][j]
  BY <1>3, OneCount DEF TypeOK
<1>5. /\ pc'[c] = "got" /\ pc[c] # "trydel"
      /\ \A d \in Client : d # c => pc'[d] = pc[d] /\ cur'[d] = cur[d]
  BY DEF Obtain, TypeOK
<1>6. \A d \in Client, j \in Instance : d # c \/ j # i => (Claims(d, j)' <=> Claims(d, j))
  BY <1>4, <1>5 DEF Claims, Held
<1>7. Claims(c, i)' /\ i \in Held(c)'
  BY <1>4 DEF Claims, Held
<1>8. /\ locked'[i] /\ payload'[i] = 1
      /\ \A j \in Instance : j # i => locked'[j] = locked[j] /\ payload'[j] = payload[j]
  BY <1>2 DEF Obtain, TypeOK
<1>9. ASSUME NEW j \in Instance, j # i
      PROVE  /\ \A d, e \in Client : Claims(d, j)' /\ Claims(e, j)' => d = e
             /\ \A d \in Client : Claims(d, j)' => locked'[j] /\ payload'[j] = ptrs'[d][j]
             /\ (\A d \in Client : ~Claims(d, j)') => ~locked'[j] /\ payload'[j] = 0
  BY <1>4, <1>6, <1>8, <1>9 DEF Counted
<1>10. Counted'
  BY <1>1, <1>4, <1>6, <1>7, <1>8, <1>9 DEF Counted
<1>11. Held(c)' = Held(c) \cup {i} /\ \A d \in Client : d # c => Held(d)' = Held(d)
  BY <1>4 DEF Held
<1>12. payload' \in [Instance -> Nat] /\ locked' \in [Instance -> BOOLEAN]
  BY DEF Obtain, TypeOK
<1> QED BY <1>4, <1>7, <1>10, <1>11, <1>12

\* A pointer that dies leaves its client the claimant, until its try_del.
LEMMA UncountCounts ==
  ASSUME TypeOK, Counted, NEW c \in Client, NEW i \in Instance,
         pc[c] # "trydel", i \in Held(c), Uncount(c, i)
  PROVE  Counted' /\ payload' \in [Instance -> Nat] /\ ptrs' \in [Client -> [Instance -> Nat]]
<1>1. Claims(c, i) /\ payload[i] = ptrs[c][i] /\ ptrs[c][i] \in Nat \ {0} /\ locked[i]
  BY DEF Counted, Claims, Held, TypeOK
<1>2. ptrs[c][i] - 1 \in Nat /\ ptrs' = [ptrs EXCEPT ![c][i] = ptrs[c][i] - 1]
  <2>1. ptrs[c][i] - 1 \in Nat
    BY <1>1
  <2>2. ptrs' = [ptrs EXCEPT ![c][i] = ptrs[c][i] - 1]
    BY DEF Uncount
  <2> QED BY <2>1, <2>2
<1>3. /\ ptrs' \in [Client -> [Instance -> Nat]]
      /\ ptrs'[c][i] = ptrs[c][i] - 1
      /\ \A d \in Client, j \in Instance : d # c \/ j # i => ptrs'[d][j] = ptrs[d][j]
  BY <1>2, OneCount DEF TypeOK
<1>4. /\ pc'[c] = "trydel" /\ cur'[c] = i
      /\ \A d \in Client : d # c => pc'[d] = pc[d] /\ cur'[d] = cur[d]
  BY DEF Uncount, TypeOK
<1>5. Claims(c, i)' /\ \A d \in Client, j \in Instance :
                        d # c \/ j # i => (Claims(d, j)' <=> Claims(d, j))
  BY <1>3, <1>4 DEF Claims, Held
<1>6. /\ locked' = locked /\ payload' \in [Instance -> Nat]
      /\ payload'[i] = payload[i] - 1
      /\ \A j \in Instance : j # i => payload'[j] = payload[j]
  BY <1>1 DEF Uncount, TypeOK
<1>7. ASSUME NEW j \in Instance, j # i
      PROVE  /\ \A d, e \in Client : Claims(d, j)' /\ Claims(e, j)' => d = e
             /\ \A d \in Client : Claims(d, j)' => locked'[j] /\ payload'[j] = ptrs'[d][j]
             /\ (\A d \in Client : ~Claims(d, j)') => ~locked'[j] /\ payload'[j] = 0
  BY <1>3, <1>5, <1>6, <1>7 DEF Counted
<1>8. \A d \in Client : d # c => ~Claims(d, i)'
  BY <1>1, <1>5 DEF Counted
<1>9. Counted'
  BY <1>1, <1>3, <1>5, <1>6, <1>7, <1>8 DEF Counted
<1> QED BY <1>3, <1>6, <1>9

LEMMA StepInvariant ==
  ASSUME IInv, NEW c \in Client, GetBegin(c) \/ Step(c) \/ Collect(c)
  PROVE  IInv'
<1> USE DEF IInv
<1>1. CASE GetBegin(c)
  <2>1. TypeOK' /\ Phases'
    BY <1>1, PoolAssumption DEF GetBegin, poolVars, instVars, TypeOK, Phases, Held
  <2>2. Counted'
    BY <1>1, CountsUnchanged DEF GetBegin, TypeOK
  <2>3. Fresh' /\ PooledOnce'
    BY <1>1, ListUnchanged DEF GetBegin, poolVars, TypeOK
  <2> QED BY <2>1, <2>2, <2>3
<1>2. CASE TryLock(c)
  <2>1. es[pos[c]] \in Instance /\ es[pos[c]] \in created
    BY <1>2 DEF TryLock, TypeOK, Fresh
  <2>2. Counted' /\ es[pos[c]] \in Held(c)'
    BY <1>2, <2>1, ObtainCounts DEF TryLock
  <2> DEFINE i == es[pos[c]]
  <2>a. /\ ptrs' \in [Client -> [Instance -> Nat]] /\ payload' \in [Instance -> Nat]
        /\ locked' \in [Instance -> BOOLEAN]
        /\ \A d \in Client : d # c => Held(d)' = Held(d)
        /\ Held(c)' = Held(c) \cup {i}
    BY <1>2, <2>1, ObtainCounts DEF TryLock
  <2>b. TypeOK'
    BY <1>2, <2>1, <2>a DEF TryLock, Obtain, poolVars, TypeOK
  <2>c. Phases'
    <3>1. /\ pc[c] = "scan" /\ pc'[c] = "got" /\ cur'[c] = i
          /\ \A d \in Client : d # c => pc'[d] = pc[d] /\ cur'[d] = cur[d]
          /\ mutex' = mutex /\ created' = created
      BY <1>2 DEF TryLock, Obtain, poolVars, TypeOK
    <3> QED BY <2>1, <2>a, <3>1 DEF Phases
  <2>3. TypeOK' /\ Phases'
    BY <2>b, <2>c
  <2>4. Fresh' /\ PooledOnce'
    BY <1>2, ListUnchanged DEF TryLock, Obtain, poolVars, TypeOK
  <2> QED BY <2>2, <2>3, <2>4
<1>3. CASE TryLockBusy(c)
  <2>1. TypeOK' /\ Phases'
    <3>1. TypeOK'
      <4>1. pos' \in [Client -> Nat]
        BY <1>3 DEF TryLockBusy, TypeOK
      <4> QED BY <1>3, <4>1 DEF TryLockBusy, poolVars, instVars, TypeOK
    <3>2. Phases'
      BY <1>3 DEF TryLockBusy, poolVars, instVars, Phases, Held
    <3> QED BY <3>1, <3>2
  <2>2. Counted'
    BY <1>3, CountsUnchanged DEF TryLockBusy
  <2>3. Fresh' /\ PooledOnce'
    BY <1>3, ListUnchanged DEF TryLockBusy, poolVars
  <2> QED BY <2>1, <2>2, <2>3
<1>4. CASE UnderflowThrows(c)
  <2>1. TypeOK' /\ Phases'
    BY <1>4 DEF UnderflowThrows, poolVars, instVars, TypeOK, Phases, Held
  <2>2. Counted'
    BY <1>4, CountsUnchanged DEF UnderflowThrows, TypeOK
  <2>3. Fresh' /\ PooledOnce'
    BY <1>4, ListUnchanged DEF UnderflowThrows, poolVars, TypeOK
  <2> QED BY <2>1, <2>2, <2>3
<1>5. ASSUME NEW i \in Instance, Underflow(c, i) PROVE IInv'
  <2>1. TypeOK' /\ Phases'
    BY <1>5 DEF Underflow, instVars, TypeOK, Phases, Held
  <2>2. Counted'
    BY <1>5, CountsUnchanged DEF Underflow, TypeOK
  <2>3. \A d \in Client : d # c => pc'[d] = pc[d] /\ cur'[d] = cur[d]
    BY <1>5 DEF Underflow, TypeOK
  <2>4. pc'[c] = "append" /\ cur'[c] = i /\ i \notin created /\ es' = es
        /\ created' = created \cup {i} /\ pc[c] = "scan"
    BY <1>5 DEF Underflow, TypeOK
  <2>5. Fresh'
    BY <2>3, <2>4 DEF Fresh, Phases
  <2>6. PooledOnce'
    BY <2>3, <2>4 DEF PooledOnce
  <2> QED BY <2>1, <2>2, <2>5, <2>6
<1>6. CASE PushBack(c)
  <2>1. cur[c] \in Instance
    BY <1>6 DEF PushBack, Phases, TypeOK
  <2>2. /\ es' \in Seq(Instance)
        /\ DOMAIN es' = 1..(Len(es) + 1) /\ DOMAIN es = 1..Len(es) /\ Len(es) \in Nat
        /\ \A n \in DOMAIN es : es'[n] = es[n]
        /\ es'[Len(es) + 1] = cur[c]
    BY <1>6, <2>1, SMTT(30) DEF PushBack, TypeOK
  <2>3. TypeOK' /\ Phases'
    BY <1>6, <2>2, PoolAssumption, SMTT(30) DEF PushBack, instVars, TypeOK, Phases, Held
  <2>4. Counted'
    BY <1>6, CountsUnchanged DEF PushBack, TypeOK
  <2>5. /\ pc'[c] = "spin" /\ pc[c] = "append" /\ cur' = cur /\ created' = created
        /\ \A d \in Client : d # c => pc'[d] = pc[d]
    BY <1>6 DEF PushBack, TypeOK
  <2>6. \A n \in DOMAIN es' : n \in DOMAIN es \/ n = Len(es) + 1
    BY <2>2
  <2>7. Fresh'
    BY <2>2, <2>5, <2>6 DEF Fresh, Phases
  <2>8. PooledOnce'
    BY <2>2, <2>5, <2>6 DEF Fresh, PooledOnce
  <2> QED BY <2>3, <2>4, <2>7, <2>8
<1>7. CASE SpinLock(c)
  <2>1. cur[c] \in Instance /\ cur[c] \in created
    BY <1>7 DEF SpinLock, TypeOK, Phases
  <2>2. Counted' /\ cur[c] \in Held(c)'
    BY <1>7, <2>1, ObtainCounts DEF SpinLock
  <2>a. /\ ptrs' \in [Client -> [Instance -> Nat]] /\ payload' \in [Instance -> Nat]
        /\ locked' \in [Instance -> BOOLEAN]
        /\ \A d \in Client : d # c => Held(d)' = Held(d)
        /\ Held(c)' = Held(c) \cup {cur[c]}
    BY <1>7, <2>1, ObtainCounts DEF SpinLock
  <2>b. TypeOK'
    BY <1>7, <2>1, <2>a DEF SpinLock, Obtain, TypeOK
  <2>c. Phases'
    <3>1. /\ pc[c] = "spin" /\ pc'[c] = "got" /\ cur'[c] = cur[c]
          /\ \A d \in Client : d # c => pc'[d] = pc[d] /\ cur'[d] = cur[d]
          /\ mutex' = None /\ created' = created
      BY <1>7 DEF SpinLock, Obtain, TypeOK
    <3>2. \A d \in Client : d # None
      BY PoolAssumption
    <3> QED BY <2>1, <2>a, <3>1, <3>2 DEF Phases
  <2>3. TypeOK' /\ Phases'
    BY <2>b, <2>c
  <2>4. Fresh' /\ PooledOnce'
    BY <1>7, ListUnchanged DEF SpinLock, Obtain, TypeOK
  <2> QED BY <2>2, <2>3, <2>4
<1>8. CASE Store(c)
  <2>1. cur[c] \in Instance /\ cur[c] \in Held(c)
    <3>1. pc[c] = "got"
      BY <1>8 DEF Store
    <3> QED BY <3>1 DEF TypeOK, Phases
  <2>2. ptrs' = [ptrs EXCEPT ![c][cur[c]] = ptrs[c][cur[c]] + 1]
    BY <1>8 DEF Store
  <2>3. /\ ptrs' \in [Client -> [Instance -> Nat]]
        /\ ptrs'[c][cur[c]] = ptrs[c][cur[c]] + 1
        /\ \A d \in Client, j \in Instance : d # c \/ j # cur[c] => ptrs'[d][j] = ptrs[d][j]
    BY <2>1, <2>2, OneCount DEF TypeOK
  <2>4. /\ cur' = cur /\ mutex' = mutex /\ created' = created /\ locked' = locked
        /\ pc[c] = "got" /\ pc'[c] = "stored" /\ \A d \in Client : d # c => pc'[d] = pc[d]
    BY <1>8 DEF Store, poolVars, TypeOK
  <2>5. \A d \in Client : Held(d)' = Held(d)
    <3>1. ptrs[c][cur[c]] \in Nat /\ ptrs[c][cur[c]] > 0 /\ ptrs'[c][cur[c]] > 0
      BY <2>1, <2>3 DEF Held, TypeOK
    <3>2. \A d \in Client, j \in Instance : ptrs'[d][j] > 0 <=> ptrs[d][j] > 0
      BY <2>3, <3>1
    <3> QED BY <3>2 DEF Held
  <2>6. TypeOK' /\ Phases'
    <3>1. TypeOK'
      BY <1>8, <2>1, <2>3, SMTT(30) DEF Store, poolVars, TypeOK
    <3>2. Phases'
      BY <2>1, <2>4, <2>5 DEF Phases
    <3> QED BY <3>1, <3>2
  <2>7. Counted'
    <3>1. \A d \in Client, j \in Instance : Claims(d, j)' <=> Claims(d, j)
      BY <2>4, <2>5 DEF Claims
    <3>2. Claims(c, cur[c])
      BY <2>1 DEF Claims
    <3>3. /\ payload'[cur[c]] = payload[cur[c]] + 1
          /\ \A j \in Instance : j # cur[c] => payload'[j] = payload[j]
      BY <1>8, <2>1 DEF Store, TypeOK
    <3>4. ASSUME NEW j \in Instance
          PROVE  /\ \A d, e \in Client : Claims(d, j)' /\ Claims(e, j)' => d = e
                 /\ \A d \in Client : Claims(d, j)' => locked'[j] /\ payload'[j] = ptrs'[d][j]
                 /\ (\A d \in Client : ~Claims(d, j)') => ~locked'[j] /\ payload'[j] = 0
      <4>1. CASE j = cur[c]
        BY <2>3, <2>4, <3>1, <3>2, <3>3, <4>1 DEF Counted
      <4>2. CASE j # cur[c]
        BY <2>3, <2>4, <3>1, <3>3, <4>2 DEF Counted
      <4> QED BY <4>1, <4>2
    <3> QED BY <3>4 DEF Counted
  <2>8. Fresh' /\ PooledOnce'
    BY <1>8, ListUnchanged DEF Store, poolVars, TypeOK
  <2> QED BY <2>6, <2>7, <2>8
<1>9. ASSUME NEW i \in Instance, (DropLocal(c) /\ i = cur[c]) \/ DropMember(c, i)
      PROVE  IInv'
  <2>1. pc[c] \in {"got", "stored", "idle"} /\ i \in Held(c) /\ Uncount(c, i)
    BY <1>9 DEF DropLocal, DropMember, Phases
  <2>2. Counted' /\ payload' \in [Instance -> Nat] /\ ptrs' \in [Client -> [Instance -> Nat]]
    BY <2>1, UncountCounts
  <2>3. TypeOK'
    BY <2>1, <2>2 DEF Uncount, poolVars, TypeOK
  <2>4. \A d \in Client : Held(d)' \subseteq Held(d) /\ (d # c => Held(d)' = Held(d))
    BY <2>1 DEF Uncount, TypeOK, Held
  <2>5. Phases'
    BY <2>1, <2>4 DEF Uncount, poolVars, TypeOK, Phases
  <2>6. Fresh' /\ PooledOnce'
    BY <2>1, ListUnchanged DEF Uncount, poolVars, TypeOK
  <2> QED BY <2>2, <2>3, <2>5, <2>6
<1>10. CASE TryDelUsed(c)
  <2>1. cur[c] \in Instance /\ Claims(c, cur[c])
    BY <1>10 DEF TryDelUsed, TypeOK, Phases, Claims
  <2>2. cur[c] \in Held(c)
    BY <1>10, <2>1 DEF TryDelUsed, Counted, Held
  <2>3. TypeOK' /\ Phases'
    BY <1>10 DEF TryDelUsed, poolVars, instVars, TypeOK, Phases, Held
  <2>4. \A d \in Client, i \in Instance : Claims(d, i)' <=> Claims(d, i)
    BY <1>10, <2>2 DEF TryDelUsed, instVars, TypeOK, Claims, Held
  <2>5. Counted'
    BY <1>10, <2>4 DEF TryDelUsed, instVars, Counted
  <2>6. Fresh' /\ PooledOnce'
    BY <1>10, ListUnchanged DEF TryDelUsed, poolVars, TypeOK
  <2> QED BY <2>3, <2>5, <2>6
<1>11. CASE TryDelLast(c)
  <2>a. cur[c] \in Instance
    BY <1>11 DEF TryDelLast, TypeOK, Phases
  <2>b. PICK i \in Instance : i = cur[c]
    BY <2>a
  <2>1. i = cur[c] /\ Claims(c, i) /\ payload[i] = 0
    BY <1>11, <2>b DEF TryDelLast, Claims
  <2>2. ptrs[c][i] = 0 /\ \A d \in Client : d # c => ~Claims(d, i)
    BY <2>1 DEF Counted
  <2>3. TypeOK' /\ Phases'
    BY <1>11, <2>1 DEF TryDelLast, Unlock, poolVars, TypeOK, Phases, Held
  <2>4. /\ ptrs' = ptrs /\ payload' = payload /\ pc'[c] = "idle"
        /\ \A d \in Client : d # c => pc'[d] = pc[d] /\ cur'[d] = cur[d]
        /\ ~locked'[i] /\ \A j \in Instance : j # i => locked'[j] = locked[j]
    BY <1>11, <2>1 DEF TryDelLast, Unlock, TypeOK
  <2>5. \A d \in Client : ~Claims(d, i)'
    BY <2>2, <2>4 DEF Claims, Held
  <2>6. \A d \in Client, j \in Instance : j # i => (Claims(d, j)' <=> Claims(d, j))
    BY <2>b, <2>4 DEF Claims, Held
  <2>7. Counted'
    <3> SUFFICES ASSUME NEW j \in Instance
                 PROVE  /\ \A d, e \in Client : Claims(d, j)' /\ Claims(e, j)' => d = e
                        /\ \A d \in Client :
                             Claims(d, j)' => locked'[j] /\ payload'[j] = ptrs'[d][j]
                        /\ (\A d \in Client : ~Claims(d, j)') => ~locked'[j] /\ payload'[j] = 0
      BY DEF Counted
    <3>1. CASE j = i
      BY <2>1, <2>4, <2>5, <3>1
    <3>2. CASE j # i
      BY <2>4, <2>6, <3>2 DEF Counted
    <3> QED BY <3>1, <3>2
  <2>8. Fresh' /\ PooledOnce'
    BY <1>11, ListUnchanged DEF TryDelLast, Unlock, poolVars, TypeOK
  <2> QED BY <2>3, <2>7, <2>8
<1>12. DropLocal(c) => cur[c] \in Instance
  BY DEF DropLocal, Phases, TypeOK
<1> QED BY <1>1, <1>2, <1>3, <1>4, <1>5, <1>6, <1>7, <1>8, <1>9, <1>10, <1>11, <1>12
        DEF Step, Collect

\* The invariant holds in every reachable state.
THEOREM InvariantHolds == Spec => []IInv
<1>1. IInv /\ [Next]_vars => IInv'
  BY StepInvariant, StutterInvariant DEF Next
<1> QED BY <1>1, InitInvariant, PTL DEF Spec

-----------------------------------------------------------------------------
(* What the runs check on a small instance.                                *)

\* Variables keep their types: no payload is ever counted below zero.
THEOREM TypeCorrect == Spec => []TypeOK
<1>1. IInv => TypeOK
  BY DEF IInv
<1> QED BY <1>1, InvariantHolds, PTL

\* No two clients ever use one instance.
THEOREM MutualExclusion == Spec => []Exclusive
<1>1. IInv => Exclusive
  BY DEF IInv, Counted, Claims, Exclusive, Held, Users
<1> QED BY <1>1, InvariantHolds, PTL

\* An instance is locked exactly while it is used, or about to be unlocked.
THEOREM NoInstanceLost == Spec => []LockedWhileUsed
<1>1. IInv => LockedWhileUsed
  <2> SUFFICES ASSUME IInv, NEW i \in Instance
               PROVE  locked[i] <=> \E c \in Client : Claims(c, i)
    BY DEF LockedWhileUsed, Claims
  <2> QED BY DEF IInv, Counted
<1> QED BY <1>1, InvariantHolds, PTL

\* Every instance is in the pool's list once.
THEOREM ListComplete == Spec => []PooledOnce
<1>1. IInv => PooledOnce
  BY DEF IInv
<1> QED BY <1>1, InvariantHolds, PTL

-----------------------------------------------------------------------------
(* Refinement.                                                             *)

LEMMA AllocatorStep == IInv /\ [Next]_vars => [Allocator!AllocNext]_ptrs
<1> SUFFICES ASSUME IInv, [Next]_vars, ptrs' # ptrs PROVE Allocator!AllocNext
  OBVIOUS
<1>1. PICK c \in Client : GetBegin(c) \/ Step(c) \/ Collect(c)
  BY DEF Next, vars, instVars
<1>2. ASSUME NEW i \in Instance, ~locked[i], Obtain(c, i) PROVE Allocator!AllocNext
  <2>1. \A d \in Client : ptrs[d][i] = 0
    BY <1>2 DEF IInv, Counted, Claims, Held, TypeOK
  <2>2. Allocator!Take(c, i)
    <3>1. ptrs' = [ptrs EXCEPT ![c][i] = ptrs[c][i] + 1]
      BY <1>2 DEF Obtain
    <3>2. ptrs[c][i] + 1 = 1
      BY <2>1
    <3>3. Allocator!Users(i) = {}
      BY <2>1 DEF Allocator!Users
    <3> QED BY <3>1, <3>2, <3>3 DEF Allocator!Take
  <2> QED BY <2>2 DEF Allocator!AllocNext
<1>3. CASE TryLock(c)
  <2>1. es[pos[c]] \in Instance
    BY <1>3 DEF TryLock, IInv, TypeOK
  <2> QED BY <1>2, <1>3, <2>1 DEF TryLock
<1>4. CASE SpinLock(c)
  <2>1. cur[c] \in Instance
    BY <1>4 DEF SpinLock, IInv, Phases, TypeOK
  <2> QED BY <1>2, <1>4, <2>1 DEF SpinLock
<1>5. CASE Store(c)
  <2>1. cur[c] \in Instance /\ cur[c] \in Held(c)
    BY <1>5 DEF Store, IInv, Phases, TypeOK
  <2>2. Allocator!Copy(c, cur[c])
    BY <1>5, <2>1 DEF Store, Held, Allocator!Copy, Allocator!Users
  <2> QED BY <2>1, <2>2 DEF Allocator!AllocNext
<1>6. ASSUME NEW i \in Held(c), Uncount(c, i) PROVE Allocator!AllocNext
  <2>1. Allocator!Drop(c, i) /\ i \in Instance
    BY <1>6 DEF Uncount, Held, Allocator!Drop, Allocator!Users
  <2> QED BY <2>1 DEF Allocator!AllocNext
<1>7. CASE DropLocal(c)
  BY <1>6, <1>7 DEF DropLocal, IInv, Phases
<1>8. CASE Collect(c)
  BY <1>6, <1>8 DEF Collect, DropMember
<1> QED BY <1>1, <1>3, <1>4, <1>5, <1>7, <1>8
        DEF GetBegin, Step, TryLockBusy, UnderflowThrows, Underflow, PushBack, TryDelUsed,
            TryDelLast, Unlock, instVars

\* The pool implements the allocator of instances.
THEOREM PoolIsAllocator == Spec => ImplementsAllocator
<1>1. Init => Allocator!AllocInit
  BY DEF Init, Allocator!AllocInit
<1> QED BY <1>1, AllocatorStep, InvariantHolds, PTL
        DEF Spec, ImplementsAllocator, Allocator!AllocSpec
=============================================================================
