--------------------------- MODULE FileSelectorsProofs ---------------------------
(***************************************************************************)
(* What FileSelectors promises of the files that are sent, kept and        *)
(* written, proved for every number of threads, every host and every       *)
(* request, and for every bound.                                           *)
(***************************************************************************)
EXTENDS FileSelectors, SequenceTheorems, WellFoundedInduction, TLAPS

----------------------------------------------------------------------------
(* Least and greatest elements *)

LEMMA MinPair ==
  ASSUME NEW a \in Int, NEW b \in Int
  PROVE  Min({a, b}) = IF a <= b THEN a ELSE b
<1> DEFINE m == IF a <= b THEN a ELSE b
<1>1. m \in {a, b} /\ \A y \in {a, b} : m <= y
  OBVIOUS
<1>2. \A x \in {a, b} : (\A y \in {a, b} : x <= y) => x = m
  OBVIOUS
<1> QED BY <1>1, <1>2 DEF Min

LEMMA MaxZero ==
  ASSUME NEW a \in Int
  PROVE  Max({0, a}) = IF a <= 0 THEN 0 ELSE a
<1> DEFINE m == IF a <= 0 THEN 0 ELSE a
<1>1. m \in {0, a} /\ \A y \in {0, a} : m >= y
  OBVIOUS
<1>2. \A x \in {0, a} : (\A y \in {0, a} : x >= y) => x = m
  OBVIOUS
<1> QED BY <1>1, <1>2 DEF Max

\* A set of naturals that is not empty has a least element.
LEMMA LeastNat ==
  ASSUME NEW T \in SUBSET Nat, T # {}
  PROVE  \E x \in T : \A y \in T : x <= y
<1>1. PICK x \in T : \A y \in T : ~(<<y, x>> \in OpToRel(<, Nat))
  BY NatLessThanWellFounded, WFMin
<1>2. \A y \in T : ~(y < x)
  BY <1>1 DEF OpToRel
<1> QED BY <1>2

\* The first and the last of the least numbers of a list.
LEMMA FirstLeast ==
  ASSUME NEW n \in Nat \ {0}, NEW f \in [1..n -> Int]
  PROVE  \E j \in 1..n : \A i \in 1..n : f[j] <= f[i]
<1> DEFINE B(m) == \E j \in 1..m : \A i \in 1..m : f[j] <= f[i]
           C == {m \in 1..n : ~B(m)}
<1>0. n \in 1..n /\ \A m \in 1..n : m \notin C => B(m)
  OBVIOUS
<1>1. CASE C = {}
  <2>1. B(n)
    BY <1>0, <1>1
  <2> QED BY <2>1
<1>2. CASE C # {}
  <2>1. PICK c \in C : \A m \in C : c <= m
    <3>1. C \in SUBSET Nat
      OBVIOUS
    <3> QED BY <3>1, <1>2, LeastNat
  <2>2. c \in 1..n /\ ~B(c)
    BY <2>1
  <2>3. c # 1
    <3>1. B(1)
      <4>1. 1 \in 1..1 /\ f[1] \in Int /\ \A i \in 1..1 : i = 1
        BY <2>2
      <4> QED BY <4>1
    <3> QED BY <3>1, <2>2
  <2>4. PICK j \in 1..(c - 1) : \A i \in 1..(c - 1) : f[j] <= f[i]
    <3> HIDE DEF C
    <3>1. c - 1 \in 1..n /\ c - 1 \notin C
      BY <2>1, <2>2, <2>3
    <3> QED BY <3>1, <1>0
  <2> HIDE DEF C
  <2>5. CASE f[j] <= f[c]
    <3>1. j \in 1..c /\ \A i \in 1..c : f[j] <= f[i]
      BY <2>2, <2>4, <2>5
    <3> QED BY <3>1, <2>2
  <2>6. CASE ~(f[j] <= f[c])
    <3>1. c \in 1..c /\ \A i \in 1..c : f[c] <= f[i]
      BY <2>2, <2>4, <2>6
    <3> QED BY <3>1, <2>2
  <2> QED BY <2>5, <2>6
<1> QED BY <1>1, <1>2

\* So Min finds it, ...
LEMMA MinOfList ==
  ASSUME NEW n \in Nat \ {0}, NEW f \in [1..n -> Int]
  PROVE  /\ Min({f[i] : i \in 1..n}) \in {f[i] : i \in 1..n}
         /\ \A i \in 1..n : Min({f[j] : j \in 1..n}) <= f[i]
<1> DEFINE S == {f[i] : i \in 1..n}
<1>1. PICK j \in 1..n : \A i \in 1..n : f[j] <= f[i]
  BY FirstLeast
<1>2. f[j] \in S /\ \A y \in S : f[j] <= y
  BY <1>1
<1>3. Min(S) = CHOOSE x \in S : \A y \in S : x <= y
  BY DEF Min
<1>4. Min(S) \in S /\ \A y \in S : Min(S) <= y
  BY <1>2, <1>3
<1> QED BY <1>4

\* ... and Max the greatest of a set of indices.
LEMMA MaxIndex ==
  ASSUME NEW n \in Nat, NEW T \in SUBSET (1..n), T # {}
  PROVE  Max(T) \in T
<1> DEFINE D == {n - i : i \in T}
<1>1. D \in SUBSET Nat /\ D # {}
  <2>1. \A i \in T : n - i \in Nat
    OBVIOUS
  <2> QED BY <2>1
<1>2. PICK d \in D : \A y \in D : d <= y
  <2> HIDE DEF D
  <2> QED BY <1>1, LeastNat
<1>3. PICK x \in T : d = n - x
  BY <1>2
<1>4. \A y \in T : x >= y
  <2> TAKE y \in T
  <2>1. n - x <= n - y /\ x \in 1..n /\ y \in 1..n
    BY <1>2, <1>3
  <2> QED BY <2>1
<1> QED BY <1>4 DEF Max

----------------------------------------------------------------------------
(* TypeOK *)

Byte == (Path \cup Nat) \X Nat
Stat == [name : Name \cup {None}, tag : {None, Folder} \cup (Nat \X Nat), bytes : Seq(Byte)]
Answers == [code : Nat, coding : {"none", "plain", "gzip"}, length : Int, first : Int, last : Int,
            sent : Seq(Byte), ended : BOOLEAN, list : SUBSET Stat]
PCs == {"idle", "locate", "pages", "auth", "call", "open", "send", "gzip", "list", "touch", "write", "done"}
Locals == [pc : PCs, q : {Rest.q} \cup Requests, no : Nat, at : Nat \ {0}, page : Nat \ {0}, real : Name, st : Stat,
           fd : {None, Folder} \cup Inode, pos : Int, left : Int, todo : SUBSET Name, held : Stat, ans : Answers]

\* What the locals of a thread say of its request, and of the selector that is tried.
Placed(r) ==
  /\ run[r].pc # "idle" => run[r].q \in Requests
  /\ run[r].pc \in {"pages", "auth", "call"} => run[r].at <= Len(SelectorsOf(run[r].q))
  /\ run[r].pc \in {"auth", "call"} /\ run[r].q.method \in Changing => run[r].real \in Path
  /\ run[r].pc \in {"open", "send", "gzip", "touch", "write"} => run[r].real \in Path
  /\ run[r].pc = "write" => run[r].fd \in Inode
  /\ run[r].fd # None <=> run[r].pc \in {"send", "gzip", "write"}

Files ==
  /\ dir \in [Path -> {None, Folder} \cup Inode] /\ data \in [Inode -> Seq(Byte)]
  /\ mtime \in [Inode -> 0..MaxTime] /\ now \in 0..MaxTime /\ asked \in 0..MaxRequests
  /\ \A p, o \in Path : dir[p] = dir[o] /\ dir[p] \in Inode => p = o
  /\ torn \subseteq Slot /\ blurred \subseteq Path /\ changed \in [Path -> 0..MaxTime]

Typed ==
  /\ Files
  /\ run \in [Slot -> Locals] /\ copy \in [Urls -> Stat]
  /\ \A r \in Slot : Placed(r)

LEMMA TypedTypeOK == Typed => TypeOK
BY DEF Typed, Files, TypeOK, Placed, Locals, Byte, PCs

LEMMA RestType == Rest \in Locals /\ NoFile \in Stat /\ NoAnswer \in Answers
<1>1. NoFile \in Stat
  BY DEF NoFile, Stat
<1>2. NoAnswer \in Answers
  BY DEF NoAnswer, Answers
<1>3. Rest.q \in {Rest.q} \cup Requests
  OBVIOUS
<1> QED BY <1>1, <1>2, <1>3 DEF Rest, Locals, PCs, Name

LEMMA Constants ==
  /\ MaxTime \in Nat /\ MaxRequests \in Nat /\ Threshold \in Nat /\ Size \in Nat
  /\ Buf \in Nat \ {0} /\ Block \in Nat \ {0}
  /\ None \notin Inode /\ None \notin Name /\ Folder \notin Inode /\ None # Folder /\ Root \notin Path
  /\ Path \subseteq Name /\ Root \in Name /\ Folder \notin Nat \X Nat
BY FilesAssumption DEF Name

LEMMA InitTyped == Init => Typed
<1> SUFFICES ASSUME Init PROVE Typed
  OBVIOUS
<1> USE Constants
<1>1. dir \in [Path -> {None, Folder} \cup Inode] /\ (\A p, o \in Path : dir[p] = dir[o] /\ dir[p] \in Inode => p = o)
  <2>1. \A p \in Path : dir[p] \in Inode => p \in Present
    BY DEF Init
  <2> QED BY <2>1, FilesAssumption DEF Init
<1>2. data \in [Inode -> Seq(Byte)]
  <2> SUFFICES ASSUME NEW i \in Inode PROVE data[i] \in Seq(Byte)
    BY DEF Init
  <2>1. CASE \E p \in Path : dir[p] = i
    <3> DEFINE c == CHOOSE p \in Path : dir[p] = i
    <3>1. c \in Path
      BY <2>1
    <3>2. data[i] = [n \in 1..Size |-> <<c, n>>]
      BY <2>1 DEF Init
    <3>3. Size \in Nat /\ \A n \in 1..Size : <<c, n>> \in Byte
      <4>1. \A n \in 1..Size : n \in Nat /\ c \in Path \cup Nat
        BY <3>1
      <4> HIDE DEF c
      <4> QED BY <4>1 DEF Byte
    <3> QED BY <3>2, <3>3
  <2>2. CASE ~ \E p \in Path : dir[p] = i
    BY <2>2 DEF Init
  <2> QED BY <2>1, <2>2
<1>3. run \in [Slot -> Locals] /\ copy \in [Urls -> Stat]
  BY RestType DEF Init
<1>4. \A r \in Slot : Placed(r)
  BY DEF Init, Placed, Rest
<1>5. 0 \in 0..MaxTime /\ 0 \in 0..MaxRequests
  OBVIOUS
<1>6. Files
  BY <1>1, <1>2, <1>5 DEF Init, Files
<1> QED BY <1>3, <1>4, <1>6 DEF Typed

\* What a step of a thread does to its locals, and leaves as it is of the others'.
Moves(r) == run' \in [Slot -> Locals] /\ Placed(r)' /\ \A o \in Slot \ {r} : run'[o] = run[o]

LEMMA Moved ==
  ASSUME Typed, NEW r \in Slot, Moves(r), Files', copy' \in [Urls -> Stat]
  PROVE  Typed'
BY DEF Typed, Moves, Placed

LEMMA FilesKept ==
  ASSUME Typed, UNCHANGED <<files, now, asked, torn, changed, blurred>>
  PROVE  Files'
BY DEF Typed, Files, files

LEMMA SelectorType ==
  ASSUME Typed, NEW r \in Slot, run[r].q \in Requests, run[r].at <= Len(SelectorsOf(run[r].q))
  PROVE  LET s == Selector(r) q == run[r].q IN
           /\ s.kind \in {"static", "gzstatic", "webdav"} /\ s.auth \in BOOLEAN
           /\ \A u \in DOMAIN s.real : s.real[u] \in Name
           /\ q.method \in Changing => \A u \in {q.url, q.dest} \cap DOMAIN s.real : s.real[u] \in Path
<1> DEFINE q == run[r].q
           h == IF q.host \in DOMAIN Hosts THEN q.host ELSE "*"
           k == run[r].at
<1>1. h \in DOMAIN Hosts /\ SelectorsOf(q) = Hosts[h] /\ Selector(r) = Hosts[h][k]
  BY FilesAssumption DEF SelectorsOf, Selector
<1>2. Hosts[h] \in Seq({Hosts[h][i] : i \in DOMAIN Hosts[h]})
  BY <1>1, FilesAssumption
<1>3. k \in Nat \ {0} /\ k <= Len(Hosts[h])
  BY <1>1 DEF Typed, Locals
<1>4. k \in DOMAIN Hosts[h]
  <2> HIDE DEF h, k
  <2>1. Len(Hosts[h]) \in Nat /\ DOMAIN Hosts[h] = 1..Len(Hosts[h])
    BY <1>2
  <2> QED BY <2>1, <1>3
<1> HIDE DEF h, k
<1> QED BY <1>1, <1>4, FilesAssumption

LEMMA AnswerMoves ==
  ASSUME Typed, NEW r \in Slot, NEW code \in Nat, Answer(r, code), run[r].fd = None, run[r].pc # "idle"
  PROVE  Moves(r)
<1>1. run[r] \in Locals /\ run[r].ans \in Answers
  BY DEF Typed, Locals
<1>2. [run[r].ans EXCEPT !.code = code] \in Answers
  BY <1>1 DEF Answers
<1>3. [run[r] EXCEPT !.pc = "done", !.ans.code = code] \in Locals
  BY <1>1, <1>2 DEF Locals, PCs
<1>4. /\ run' = [run EXCEPT ![r] = [run[r] EXCEPT !.pc = "done", !.ans.code = code]]
      /\ run'[r].pc = "done" /\ run'[r].q = run[r].q /\ run'[r].fd = None
  BY <1>1 DEF Answer, Typed, Locals
<1> QED BY <1>1, <1>3, <1>4 DEF Moves, Typed, Placed

LEMMA NextSelectorMoves ==
  ASSUME Typed, NEW r \in Slot, NextSelector(r), run[r].fd = None, run[r].pc # "idle"
  PROVE  Moves(r)
<1>1. run[r] \in Locals
  BY DEF Typed
<1>2. [run[r] EXCEPT !.pc = "locate", !.at = @ + 1] \in Locals
  <2>1. run[r].at + 1 \in Nat \ {0}
    BY <1>1 DEF Locals
  <2> QED BY <1>1, <2>1 DEF Locals, PCs
<1>3. /\ run' = [run EXCEPT ![r] = [run[r] EXCEPT !.pc = "locate", !.at = @ + 1]]
      /\ run'[r].pc = "locate" /\ run'[r].q = run[r].q /\ run'[r].fd = None
  BY <1>1 DEF NextSelector, Typed, Locals
<1> QED BY <1>1, <1>2, <1>3 DEF Moves, Typed, Placed

LEMMA CallMoves ==
  ASSUME Typed, NEW r \in Slot, NEW p \in Name, Call(r, p), run[r].fd = None, run[r].pc # "idle",
         run[r].at <= Len(SelectorsOf(run[r].q)), run[r].q.method \in Changing => p \in Path
  PROVE  Moves(r)
<1> DEFINE c == IF Selector(r).auth THEN "auth" ELSE "call"
<1>1. run[r] \in Locals /\ c \in {"auth", "call"}
  BY DEF Typed
<1>2. [run[r] EXCEPT !.pc = c, !.real = p] \in Locals
  <2> HIDE DEF c
  <2> QED BY <1>1 DEF Locals, PCs
<1>3. /\ run' = [run EXCEPT ![r] = [run[r] EXCEPT !.pc = c, !.real = p]]
      /\ run'[r].pc = c /\ run'[r].q = run[r].q /\ run'[r].fd = None /\ run'[r].real = p /\ run'[r].at = run[r].at
  BY <1>1 DEF Call, Typed, Locals
<1> HIDE DEF c
<1> QED BY <1>1, <1>2, <1>3 DEF Moves, Typed, Placed

\* The steps of a thread that leave the files alone and end no request.
Quiet(r) ==
  \/ Pass(r) \/ Skip(r) \/ Locate(r) \/ TryPage(r) \/ Auth(r)
  \/ Gone(r) \/ Examine(r) \/ ExamineGz(r) \/ OpenFile(r) \/ SendPlain(r) \/ SendGzip(r)
  \/ Options(r) \/ Other(r) \/ PropFind(r) \/ (\E p \in Name : PropEntry(r, p)) \/ PropSend(r) \/ PropPatch(r)

\* The dispatcher's ...
LEMMA DispatchMoves ==
  ASSUME Typed, NEW r \in Slot, Pass(r) \/ Skip(r) \/ Locate(r) \/ TryPage(r) \/ Auth(r)
  PROVE  Moves(r)
<1>1. run[r] \in Locals /\ run[r].pc # "idle" /\ run[r].fd = None /\ run[r].q \in Requests /\ Placed(r)
  BY DEF Typed, Placed, Pass, Skip, Locate, TryPage, Auth
<1>2. CASE Pass(r)
  BY <1>1, <1>2, AnswerMoves DEF Pass
<1>3. CASE Skip(r)
  BY <1>1, <1>3, NextSelectorMoves DEF Skip
<1>4. CASE Locate(r)
  <2> DEFINE s == Selector(r)
             u == run[r].q.url
  <2>1. run[r].pc = "locate" /\ run[r].at <= Len(SelectorsOf(run[r].q)) /\ u \in DOMAIN s.real
    BY <1>4 DEF Locate, Matches
  <2>2. s.real[u] \in Name /\ (run[r].q.method \in Changing => s.real[u] \in Path)
    BY <1>1, <2>1, SelectorType
  <2>3. CASE Call(r, s.real[u])
    BY <1>1, <2>1, <2>2, <2>3, CallMoves
  <2>4. CASE run' = [run EXCEPT ![r].pc = "pages", ![r].page = 1]
    <3>1. [run[r] EXCEPT !.pc = "pages", !.page = 1] \in Locals
      <4>1. 1 \in Nat \ {0}
        OBVIOUS
      <4> QED BY <1>1, <4>1 DEF Locals, PCs
    <3>2. /\ run' = [run EXCEPT ![r] = [run[r] EXCEPT !.pc = "pages", !.page = 1]]
          /\ run'[r].pc = "pages" /\ run'[r].q = run[r].q /\ run'[r].fd = None /\ run'[r].at = run[r].at
      BY <1>1, <2>4 DEF Typed, Locals
    <3> QED BY <1>1, <2>1, <3>1, <3>2 DEF Moves, Typed, Placed
  <2> QED BY <1>4, <2>3, <2>4 DEF Locate
<1>5. CASE TryPage(r)
  <2> DEFINE k == run[r].page
  <2>1. run[r].pc = "pages" /\ run[r].at <= Len(SelectorsOf(run[r].q)) /\ k \in Nat \ {0}
    BY <1>1, <1>5 DEF TryPage, Placed, Locals
  <2>2. CASE NextSelector(r)
    BY <1>1, <2>2, NextSelectorMoves
  <2>3. CASE k <= Len(Index) /\ Call(r, Index[k])
    <3>1. Index[k] \in Path /\ Index[k] \in Name
      BY <2>1, <2>3, FilesAssumption DEF Name
    <3> QED BY <1>1, <2>1, <2>3, <3>1, CallMoves
  <2>4. CASE run' = [run EXCEPT ![r].page = k + 1]
    <3>1. k + 1 \in Nat \ {0}
      BY <2>1
    <3>2. [run[r] EXCEPT !.page = k + 1] \in Locals
      BY <1>1, <3>1 DEF Locals
    <3>3. /\ run' = [run EXCEPT ![r] = [run[r] EXCEPT !.page = k + 1]]
          /\ run'[r].pc = "pages" /\ run'[r].q = run[r].q /\ run'[r].fd = None /\ run'[r].at = run[r].at
      BY <1>1, <2>1, <2>4 DEF Typed, Locals
    <3> QED BY <1>1, <2>1, <3>2, <3>3 DEF Moves, Typed, Placed
  <2> QED BY <1>5, <2>2, <2>3, <2>4 DEF TryPage
<1>6. CASE Auth(r)
  <2>1. CASE Answer(r, 401) \/ Answer(r, 500)
    BY <1>1, <2>1, AnswerMoves
  <2>2. CASE run' = [run EXCEPT ![r].pc = "call"]
    <3>1. [run[r] EXCEPT !.pc = "call"] \in Locals
      BY <1>1 DEF Locals, PCs
    <3>2. /\ run' = [run EXCEPT ![r] = [run[r] EXCEPT !.pc = "call"]]
          /\ run'[r].pc = "call" /\ run'[r].q = run[r].q /\ run'[r].fd = None /\ run'[r].at = run[r].at
          /\ run'[r].real = run[r].real /\ run[r].pc = "auth"
      BY <1>1, <1>6, <2>2 DEF Typed, Locals, Auth
    <3> QED BY <1>1, <3>1, <3>2 DEF Moves, Typed, Placed
  <2> QED BY <1>6, <2>1, <2>2 DEF Auth
<1> QED BY <1>2, <1>3, <1>4, <1>5, <1>6

\* The ends of an entry are numbers, ...
LEMMA RangeType ==
  ASSUME NEW q \in Requests, NEW i \in DOMAIN q.range, NEW size \in Nat
  PROVE  RangeOf(q.range[i], size)[1] \in Int /\ RangeOf(q.range[i], size)[2] \in Int
<1> DEFINE e == q.range[i]
<1>1. \/ Len(e) = 1 /\ e[1] \in Nat
      \/ Len(e) = 2 /\ e[1] \in Nat \cup {None} /\ e[2] \in Nat \cup {None} /\ (e[1] = None => e[2] # None)
  <2>1. \/ Len(e) = 1 /\ e[1] \in Nat
        \/ Len(e) = 2 /\ {e[1], e[2]} \subseteq Nat \cup {None} /\ {e[1], e[2]} # {None}
    BY FilesAssumption
  <2> HIDE DEF e
  <2>2. ~({e[1], e[2]} # {None} /\ e[1] = None /\ e[2] = None)
    OBVIOUS
  <2> QED BY <2>1, <2>2
<1> HIDE DEF e
<1>2. CASE Len(e) = 1
  <2>1. e[1] \in Int /\ RangeOf(e, size) = <<e[1], e[1]>>
    BY <1>1, <1>2 DEF RangeOf
  <2> QED BY <2>1 DEF e
<1>3. CASE Len(e) = 2 /\ e[1] = None
  <2>1. size - e[2] \in Int /\ RangeOf(e, size) = <<size - e[2], size - e[2]>>
    BY <1>1, <1>3 DEF RangeOf
  <2> QED BY <2>1 DEF e
<1>4. CASE Len(e) = 2 /\ e[1] # None
  <2>1. e[1] \in Int /\ (IF e[2] = None THEN size - 1 ELSE e[2]) \in Int
    BY <1>1, <1>4
  <2>2. RangeOf(e, size) = <<e[1], IF e[2] = None THEN size - 1 ELSE e[2]>>
    BY <1>4 DEF RangeOf
  <2> QED BY <2>1, <2>2 DEF e
<1> QED BY <1>1, <1>2, <1>3, <1>4

\* ... and what is sent is one of the entries.
LEMMA FirstRangeOne ==
  ASSUME NEW q \in Requests, q.range # <<>>, NEW size \in Nat
  PROVE  \E i \in DOMAIN q.range : FirstRange(q.range, size) = <<RangeOf(q.range[i], size)[1], RangeOf(q.range[i], size)[2]>>
<1> DEFINE n == Len(q.range)
           rs == [i \in DOMAIN q.range |-> RangeOf(q.range[i], size)]
           f == [i \in 1..n |-> rs[i][1]]
           s == Min({rs[i][1] : i \in DOMAIN rs})
           T == {i \in DOMAIN rs : rs[i][1] = s}
<1>1. n \in Nat \ {0} /\ DOMAIN q.range = 1..n /\ DOMAIN rs = 1..n
  <2>1. q.range \in Seq({q.range[i] : i \in DOMAIN q.range})
    BY FilesAssumption
  <2> QED BY <2>1
<1>2. f \in [1..n -> Int] /\ \A i \in 1..n : f[i] = rs[i][1]
  BY <1>1, RangeType
<1>3. {rs[i][1] : i \in DOMAIN rs} = {f[i] : i \in 1..n}
  BY <1>1, <1>2
<1>4. s \in {f[i] : i \in 1..n}
  <2> HIDE DEF f, n, rs
  <2> QED BY <1>1, <1>2, <1>3, MinOfList
<1>5. T \in SUBSET (1..n) /\ T # {}
  BY <1>1, <1>2, <1>4
<1>6. Max(T) \in T
  <2> HIDE DEF T, n
  <2> QED BY <1>1, <1>5, MaxIndex
<1>7. FirstRange(q.range, size) = <<s, rs[Max(T)][2]>>
  BY DEF FirstRange
<1>8. Max(T) \in DOMAIN q.range /\ s = rs[Max(T)][1] /\ rs[Max(T)] = RangeOf(q.range[Max(T)], size)
  BY <1>1, <1>6
<1> QED BY <1>7, <1>8

\* A thread has made the header of its answer.
Begun(r, st, coding, code, first, last, count) ==
  LET a == run'[r].ans IN
    /\ run'[r].pc = "open" /\ run'[r].st = st /\ run'[r].left = count /\ run'[r].pos = first
    /\ a.code = code /\ a.coding = coding /\ a.first = first /\ a.last = last
    /\ a.length = (IF coding = "gzip" THEN -1 ELSE count) /\ a.sent = <<>> /\ a.ended = FALSE /\ a.list = {}
    /\ run'[r].q = run[r].q /\ run'[r].held = run[r].held /\ run'[r].real = run[r].real

LEMMA HeaderMoves ==
  ASSUME Typed, NEW r \in Slot, NEW st \in Stat, NEW coding \in {"plain", "gzip"}, NEW code \in Nat,
         NEW first \in Int, NEW last \in Int, NEW count \in Int,
         Header(r, st, coding, code, <<first, last>>, count),
         run[r].fd = None, run[r].q \in Requests, run[r].real \in Path
  PROVE  Moves(r) /\ Begun(r, st, coding, code, first, last, count)
<1> DEFINE len == IF coding = "gzip" THEN -1 ELSE count
           ans == [NoAnswer EXCEPT !.code = code, !.coding = coding, !.length = len,
                                   !.first = first, !.last = last]
           l == [run[r] EXCEPT !.pc = "open", !.st = st, !.left = count, !.pos = first, !.ans = ans]
<1>1. run[r] \in Locals
  BY DEF Typed
<1>2. len \in Int
  OBVIOUS
<1>3. ans \in Answers
  BY <1>2, RestType DEF Answers
<1>4. l \in Locals
  BY <1>1, <1>3 DEF Locals, PCs
<1>5. run' = [run EXCEPT ![r] = l]
  BY DEF Header
<1>6. /\ run'[r] = l /\ l.pc = "open" /\ l.st = st /\ l.left = count /\ l.pos = first /\ l.ans = ans
      /\ l.q = run[r].q /\ l.held = run[r].held /\ l.real = run[r].real /\ l.fd = None
  BY <1>1, <1>5 DEF Typed, Locals
<1>7. /\ ans.code = code /\ ans.coding = coding /\ ans.first = first /\ ans.last = last
      /\ ans.length = len /\ ans.sent = <<>> /\ ans.ended = FALSE /\ ans.list = {}
  BY DEF NoAnswer
<1> HIDE DEF l, ans, len
<1>8. Moves(r)
  BY <1>4, <1>5, <1>6 DEF Moves, Typed, Placed
<1>9. len = (IF coding = "gzip" THEN -1 ELSE count)
  BY DEF len
<1> QED BY <1>6, <1>7, <1>8, <1>9 DEF Begun

LEMMA NotModifiedMoves ==
  ASSUME Typed, NEW r \in Slot, NEW st \in Stat, NotModified(r, st), run[r].fd = None, run[r].q \in Requests
  PROVE  /\ Moves(r)
         /\ run'[r].pc = "done" /\ run'[r].st = st /\ run'[r].ans.code = 304
         /\ run'[r].q = run[r].q /\ run'[r].held = run[r].held /\ run'[r].ans.list = run[r].ans.list
         /\ run'[r].ans.coding = run[r].ans.coding
<1> DEFINE l == [run[r] EXCEPT !.pc = "done", !.st = st, !.ans.code = 304]
<1>1. run[r] \in Locals /\ run[r].ans \in Answers
  BY DEF Typed, Locals
<1> DEFINE a == [run[r].ans EXCEPT !.code = 304]
<1>2. a \in Answers
  BY <1>1, SMTT(30) DEF Answers
<1>3. l \in Locals
  <2>1. l = [run[r] EXCEPT !.pc = "done", !.st = st, !.ans = a]
    BY <1>1 DEF Locals
  <2> HIDE DEF a, l
  <2> QED BY <1>1, <1>2, <2>1 DEF Locals, PCs
<1> HIDE DEF a
<1>4. run' = [run EXCEPT ![r] = l]
  BY ZenonT(30) DEF NotModified
<1>5. /\ run'[r] = l /\ l.pc = "done" /\ l.st = st /\ l.ans.code = 304 /\ l.fd = None
      /\ l.q = run[r].q /\ l.held = run[r].held /\ l.ans.list = run[r].ans.list /\ l.ans.coding = run[r].ans.coding
  BY <1>1, <1>4 DEF Typed, Locals, Answers
<1> HIDE DEF l
<1>6. Moves(r)
  BY <1>3, <1>4, <1>5 DEF Moves, Typed, Placed
<1> QED BY <1>5, <1>6

\* What the stat of a request found.
Found(r, st) ==
  /\ run[r].real \in Path /\ dir[run[r].real] \in Inode
  /\ st.name = run[r].real /\ st.bytes = data[dir[run[r].real]] /\ st.tag \in {None, Tag(dir[run[r].real])}

\* All of a file is sent, or what one entry of the Range field says.
HeaderWhole(r, st) ==
  \E coding \in {"plain", "gzip"} :
    /\ Header(r, st, coding, 200, <<0, Len(st.bytes) - 1>>, Len(st.bytes))
    /\ coding = "gzip" => Len(st.bytes) > 0
HeaderPart(r, st) ==
  \E i \in DOMAIN run[r].q.range :
    LET size == Len(st.bytes)  e == RangeOf(run[r].q.range[i], size) IN
      Header(r, st, "plain", 206, <<e[1], Min({e[2], size - 1})>>, Min({e[2] + 1, size}) - e[1])

LEMMA StatType ==
  ASSUME Typed, NEW i \in Inode, NEW p \in Name
  PROVE  /\ Tag(i) \in Nat \X Nat
         /\ [name |-> p, tag |-> Tag(i), bytes |-> data[i]] \in Stat
         /\ [name |-> p, tag |-> None, bytes |-> data[i]] \in Stat
         /\ Len(data[i]) \in Nat
<1>1. data[i] \in Seq(Byte) /\ mtime[i] \in Nat
  BY Constants DEF Typed, Files
<1>2. Len(data[i]) \in Nat
  BY <1>1
<1>3. Tag(i) \in Nat \X Nat
  BY <1>1, <1>2 DEF Tag
<1> QED BY <1>1, <1>2, <1>3 DEF Stat

LEMMA ExamineCases ==
  ASSUME Typed, NEW r \in Slot, Examine(r) \/ ExamineGz(r)
  PROVE  \E st \in Stat :
           /\ Found(r, st)
           /\ \/ Matched(r, st.tag) /\ NotModified(r, st)
              \/ HeaderWhole(r, st)
              \/ RangeValid(r, st.tag) /\ HeaderPart(r, st)
<1> DEFINE p == run[r].real
           i == dir[p]
           q == run[r].q
           size == Len(data[i])
<1>1. p \in Path /\ i \in Inode /\ p \in Name /\ q \in Requests
  BY Constants DEF Examine, ExamineGz, Typed, Placed
<1>2. size \in Nat
  BY <1>1, StatType
<1>3. CASE ExamineGz(r)
  <2> DEFINE st == [name |-> p, tag |-> Tag(i), bytes |-> data[i]]
  <2>1. st \in Stat /\ Found(r, st) /\ st.bytes = data[i]
    BY <1>1, StatType DEF Found
  <2>2. CASE Matched(r, st.tag) /\ NotModified(r, st)
    BY <2>1, <2>2
  <2>3. CASE Header(r, st, "plain", 200, <<0, size - 1>>, size)
    BY <2>1, <2>3 DEF HeaderWhole
  <2> QED BY <1>3, <2>2, <2>3 DEF ExamineGz
<1>4. CASE Examine(r)
  <2> DEFINE st     == [name |-> run[r].real, tag |-> IF size >= Threshold THEN Tag(i) ELSE None, bytes |-> data[i]]
             gzip   == q.gzip /\ Threshold > 0 /\ size > Threshold
             ranged == ~gzip /\ q.range # <<>> /\ RangeValid(r, st.tag)
             range  == IF ranged THEN FirstRange(q.range, size) ELSE <<0, size - 1>>
  <2>1. st \in Stat /\ Found(r, st) /\ st.bytes = data[i]
    BY <1>1, StatType DEF Found
  <2>2. IF Matched(r, st.tag) THEN NotModified(r, st)
        ELSE Header(r, st, IF gzip THEN "gzip" ELSE "plain", IF ranged THEN 206 ELSE 200,
                    <<range[1], Min({range[2], size - 1})>>, Min({range[2] + 1, size}) - range[1])
    BY <1>4 DEF Examine
  <2>3. gzip => size > 0
    BY <1>2, Constants
  <2> HIDE DEF gzip
  <2>4. CASE Matched(r, st.tag)
    BY <2>1, <2>2, <2>4
  <2>5. CASE ~Matched(r, st.tag) /\ ~ranged
    <3>1. Min({size - 1, size - 1}) = size - 1 /\ Min({size, size}) = size
      BY <1>2, MinPair
    <3>2. range[1] = 0 /\ range[2] = size - 1 /\ range[2] + 1 = size /\ size - 0 = size
      BY <1>2, <2>5
    <3>3. Header(r, st, IF gzip THEN "gzip" ELSE "plain", 200, <<0, size - 1>>, size)
      <4> HIDE DEF range, st, size, ranged
      <4> QED BY <2>2, <2>5, <3>1, <3>2
    <3>4. HeaderWhole(r, st)
      <4> HIDE DEF st, range, ranged
      <4> QED BY <2>1, <2>3, <3>3 DEF HeaderWhole
    <3> QED BY <2>1, <3>4
  <2>6. CASE ~Matched(r, st.tag) /\ ranged
    <3>1. PICK k \in DOMAIN q.range :
            FirstRange(q.range, size) = <<RangeOf(q.range[k], size)[1], RangeOf(q.range[k], size)[2]>>
      BY <1>1, <1>2, <2>6, FirstRangeOne
    <3> DEFINE e == RangeOf(q.range[k], size)
    <3>2. range[1] = e[1] /\ range[2] = e[2] /\ ~gzip
      <4> HIDE DEF st, size
      <4> QED BY <2>6, <3>1
    <3>3. Header(r, st, "plain", 206, <<e[1], Min({e[2], size - 1})>>, Min({e[2] + 1, size}) - e[1])
      <4> HIDE DEF range, st, size, e, ranged
      <4> QED BY <2>2, <2>6, <3>2
    <3>4. HeaderPart(r, st)
      <4> HIDE DEF st, range, ranged
      <4> QED BY <2>1, <3>3 DEF HeaderPart
    <3> QED BY <2>1, <2>6, <3>4
  <2> QED BY <2>4, <2>5, <2>6
<1> QED BY <1>3, <1>4

LEMMA ExamineMoves ==
  ASSUME Typed, NEW r \in Slot, Examine(r) \/ ExamineGz(r)
  PROVE  Moves(r)
<1>1. /\ run[r].fd = None /\ run[r].q \in Requests
  BY DEF Examine, ExamineGz, Typed, Placed
<1>2. PICK st \in Stat :
        /\ Found(r, st)
        /\ \/ Matched(r, st.tag) /\ NotModified(r, st)
           \/ HeaderWhole(r, st)
           \/ RangeValid(r, st.tag) /\ HeaderPart(r, st)
  BY ExamineCases
<1>3. CASE NotModified(r, st)
  BY <1>1, <1>3, NotModifiedMoves
<1> DEFINE size == Len(st.bytes)
<1>4. size \in Nat /\ run[r].real \in Path
  BY <1>2 DEF Stat, Found
<1>5. CASE HeaderWhole(r, st)
  <2>1. PICK coding \in {"plain", "gzip"} : Header(r, st, coding, 200, <<0, size - 1>>, size)
    BY <1>5 DEF HeaderWhole
  <2>2. 0 \in Int /\ size - 1 \in Int /\ size \in Int /\ 200 \in Nat
    BY <1>4
  <2> HIDE DEF size
  <2>3. CASE coding = "plain"
    BY <1>1, <1>4, <2>1, <2>2, <2>3, HeaderMoves
  <2>4. CASE coding = "gzip"
    BY <1>1, <1>4, <2>1, <2>2, <2>4, HeaderMoves
  <2> QED BY <2>3, <2>4
<1>6. CASE HeaderPart(r, st)
  <2>1. PICK i \in DOMAIN run[r].q.range :
          LET e == RangeOf(run[r].q.range[i], size) IN
            Header(r, st, "plain", 206, <<e[1], Min({e[2], size - 1})>>, Min({e[2] + 1, size}) - e[1])
    BY <1>6 DEF HeaderPart
  <2> DEFINE e == RangeOf(run[r].q.range[i], size)
  <2>2. e[1] \in Int /\ e[2] \in Int
    BY <1>1, <1>4, RangeType
  <2> HIDE DEF size, e
  <2>3. Min({e[2], size - 1}) \in Int /\ Min({e[2] + 1, size}) - e[1] \in Int
    <3>1. size - 1 \in Int /\ e[2] + 1 \in Int /\ size \in Int
      BY <1>4, <2>2
    <3>2. Min({e[2], size - 1}) \in Int /\ Min({e[2] + 1, size}) \in Int
      BY <2>2, <3>1, MinPair
    <3> QED BY <2>2, <3>2
  <2>4. Header(r, st, "plain", 206, <<e[1], Min({e[2], size - 1})>>, Min({e[2] + 1, size}) - e[1])
    BY <2>1 DEF e
  <2> DEFINE first == e[1]
             last == Min({e[2], size - 1})
             count == Min({e[2] + 1, size}) - e[1]
  <2>5. first \in Int /\ last \in Int /\ count \in Int /\ Header(r, st, "plain", 206, <<first, last>>, count)
    BY <2>2, <2>3, <2>4
  <2> HIDE DEF first, last, count
  <2> QED BY <1>1, <1>4, <2>5, HeaderMoves
<1> QED BY <1>2, <1>3, <1>5, <1>6

\* What read gets is a part of the file.
LEMMA GotPart ==
  ASSUME Typed, NEW r \in Slot, run[r].pc \in {"send", "gzip"}, NEW n \in Nat
  PROVE  /\ Got(r, n) \in Seq(Byte) /\ Len(Got(r, n)) \in 0..n
         /\ run[r].fd \in Inode /\ run[r].pos \in 0..Len(data[run[r].fd]) =>
              LET b == data[run[r].fd]  m == Min({run[r].pos + n, Len(b)}) IN
                /\ m \in run[r].pos..Len(b) /\ m = (IF run[r].pos + n <= Len(b) THEN run[r].pos + n ELSE Len(b))
                /\ Got(r, n) = SubSeq(b, run[r].pos + 1, m) /\ Len(Got(r, n)) = m - run[r].pos
<1> DEFINE fd == run[r].fd
           pos == run[r].pos
           b == data[fd]
           m == Min({pos + n, Len(b)})
<1>1. fd \in Inode \cup {Folder} /\ pos \in Int
  BY DEF Typed, Placed, Locals
<1>2. CASE fd = Folder \/ pos < 0
  <2>1. Got(r, n) = <<>> /\ Folder \notin Inode
    BY <1>2, Constants DEF Got
  <2> QED BY <1>1, <1>2, <2>1
<1>3. CASE ~(fd = Folder \/ pos < 0)
  <2>1. b \in Seq(Byte) /\ Len(b) \in Nat /\ pos \in Nat /\ fd \in Inode
    BY <1>1, <1>3 DEF Typed, Files
  <2>2. Got(r, n) = SubSeq(b, pos + 1, m)
    BY <1>3 DEF Got
  <2> HIDE DEF b
  <2>3. m = (IF pos + n <= Len(b) THEN pos + n ELSE Len(b))
    <3>1. pos + n \in Int /\ Len(b) \in Int
      BY <2>1
    <3> QED BY <3>1, MinPair
  <2> HIDE DEF m
  <2>4. CASE pos <= Len(b)
    <3>1. pos + 1 \in 1..(Len(b) + 1) /\ m \in ((pos + 1) - 1)..Len(b) /\ m \in pos..Len(b)
      BY <2>1, <2>3, <2>4
    <3>2. SubSeq(b, pos + 1, m) \in Seq(Byte) /\ Len(SubSeq(b, pos + 1, m)) = m - (pos + 1) + 1
      <4> DEFINE low == pos + 1
      <4>1. b \in Seq(Byte) /\ low \in 1..(Len(b) + 1) /\ m \in (low - 1)..Len(b)
        BY <2>1, <3>1
      <4> HIDE DEF low
      <4>2. SubSeq(b, low, m) \in Seq(Byte) /\ Len(SubSeq(b, low, m)) = m - low + 1
        BY <4>1, SubSeqProperties
      <4> QED BY <4>2 DEF low
    <3>3. m - (pos + 1) + 1 = m - pos /\ m - pos \in 0..n
      <4>1. m \in Int /\ pos \in Int /\ pos <= m /\ m <= pos + n
        BY <2>1, <2>3, <3>1
      <4> HIDE DEF pos
      <4> QED BY <4>1
    <3> QED BY <2>2, <2>3, <3>1, <3>2, <3>3 DEF b, m
  <2>5. CASE ~(pos <= Len(b))
    <3>1. m < pos + 1 /\ m \in Int /\ ~(pos \in 0..Len(b))
      BY <2>1, <2>3, <2>5
    <3>2. SubSeq(b, pos + 1, m) = <<>>
      BY <2>1, <3>1, SubSeqEmpty
    <3>3. Got(r, n) = <<>>
      BY <2>2, <3>2
    <3>4. ~(run[r].pos \in 0..Len(data[run[r].fd]))
      BY <3>1 DEF b
    <3> QED BY <3>3, <3>4
  <2> QED BY <2>1, <2>4, <2>5
<1> QED BY <1>2, <1>3

LEMMA GotSeq ==
  ASSUME Typed, NEW r \in Slot, run[r].pc \in {"send", "gzip"}, NEW n \in Nat
  PROVE  Got(r, n) \in Seq(Byte) /\ Len(Got(r, n)) \in 0..n
BY GotPart

LEMMA OpenMoves ==
  ASSUME Typed, NEW r \in Slot, OpenFile(r)
  PROVE  Moves(r)
<1>1. run[r] \in Locals /\ run[r].fd = None /\ run[r].q \in Requests /\ run[r].pc = "open" /\ run[r].real \in Path
  BY DEF OpenFile, Typed, Placed
<1> DEFINE i == dir[run[r].real]
           c == IF run[r].ans.coding = "gzip" THEN "gzip" ELSE "send"
           l == [run[r] EXCEPT !.fd = i, !.pc = c]
<1>2. CASE Answer(r, IF run[r].ans.coding = "gzip" THEN 500 ELSE 403)
  <2>1. (IF run[r].ans.coding = "gzip" THEN 500 ELSE 403) \in Nat
    OBVIOUS
  <2> QED BY <1>1, <1>2, <2>1, AnswerMoves
<1>3. CASE i # None /\ run' = [run EXCEPT ![r].fd = i, ![r].pc = c]
  <2>1. i \in {Folder} \cup Inode /\ c \in {"gzip", "send"}
    BY <1>1, <1>3 DEF Typed, Files
  <2>2. l \in Locals
    <3> HIDE DEF i, c
    <3> QED BY <1>1, <2>1 DEF Locals, PCs
  <2>3. run' = [run EXCEPT ![r] = l]
    BY <1>3
  <2>4. run'[r] = l /\ l.pc = c /\ l.fd = i /\ l.q = run[r].q /\ l.real = run[r].real
    BY <1>1, <2>3 DEF Typed, Locals
  <2> HIDE DEF l, c, i
  <2> QED BY <1>1, <1>3, <2>1, <2>2, <2>3, <2>4 DEF Moves, Typed, Placed
<1> QED BY <1>2, <1>3 DEF OpenFile

\* A turn of one of the loops, which has got something and goes on in c or is done.
Turn(r, got, stop, ended) ==
  run' = [run EXCEPT ![r] =
            [run[r] EXCEPT !.pc = IF stop THEN "done" ELSE run[r].pc, !.fd = IF stop THEN None ELSE run[r].fd,
                           !.left = run[r].left - Len(got), !.pos = run[r].pos + Len(got),
                           !.ans = [run[r].ans EXCEPT !.sent = run[r].ans.sent \o got, !.ended = ended]]]

LEMMA TurnMoves ==
  ASSUME Typed, NEW r \in Slot, NEW got \in Seq(Byte), NEW stop \in BOOLEAN, NEW ended \in BOOLEAN,
         Turn(r, got, stop, ended), run[r].pc \in {"send", "gzip"}
  PROVE  /\ Moves(r)
         /\ run'[r].pc = (IF stop THEN "done" ELSE run[r].pc) /\ run'[r].fd = (IF stop THEN None ELSE run[r].fd)
         /\ run'[r].left = run[r].left - Len(got) /\ run'[r].pos = run[r].pos + Len(got)
         /\ run'[r].ans.sent = run[r].ans.sent \o got /\ run'[r].ans.ended = ended
         /\ \A f \in {"q", "real", "st", "held"} : run'[r][f] = run[r][f]
         /\ \A f \in {"code", "coding", "length", "first", "last", "list"} : run'[r].ans[f] = run[r].ans[f]
<1> DEFINE c == IF stop THEN "done" ELSE run[r].pc
           fd == IF stop THEN None ELSE run[r].fd
           ans == [run[r].ans EXCEPT !.sent = run[r].ans.sent \o got, !.ended = ended]
           l == [run[r] EXCEPT !.pc = c, !.fd = fd, !.left = run[r].left - Len(got), !.pos = run[r].pos + Len(got),
                               !.ans = ans]
<1>1. run[r] \in Locals /\ run[r].ans \in Answers /\ run[r].q \in Requests /\ run[r].real \in Path /\ Len(got) \in Nat
  BY DEF Typed, Locals, Placed
<1>2. ans \in Answers
  <2>1. run[r].ans.sent \o got \in Seq(Byte)
    BY <1>1, ConcatProperties DEF Answers
  <2> QED BY <1>1, <2>1 DEF Answers
<1>3. run[r].left - Len(got) \in Int /\ run[r].pos + Len(got) \in Int
  BY <1>1 DEF Locals
<1>4. c \in {"done", "send", "gzip"} /\ fd \in {None, Folder} \cup Inode
  BY <1>1 DEF Locals
<1>5. l \in Locals
  <2> HIDE DEF ans, c, fd
  <2> QED BY <1>1, <1>2, <1>3, <1>4 DEF Locals, PCs
<1>6. run' = [run EXCEPT ![r] = l]
  BY DEF Turn
<1>7. /\ run'[r] = l /\ l.pc = c /\ l.fd = fd /\ l.left = run[r].left - Len(got) /\ l.pos = run[r].pos + Len(got)
      /\ l.ans = ans /\ l.q = run[r].q /\ l.real = run[r].real /\ l.st = run[r].st /\ l.held = run[r].held
  BY <1>1, <1>6 DEF Typed, Locals
<1>8. /\ ans.sent = run[r].ans.sent \o got /\ ans.ended = ended
      /\ \A f \in {"code", "coding", "length", "first", "last", "list"} : ans[f] = run[r].ans[f]
  BY <1>1 DEF Answers
<1>9. Moves(r)
  <2>1. fd # None <=> c \in {"send", "gzip", "write"}
    BY DEF Typed, Placed
  <2> HIDE DEF l, ans, c, fd
  <2> QED BY <1>1, <1>4, <1>5, <1>6, <1>7, <2>1 DEF Moves, Typed, Placed
<1> HIDE DEF l, ans
<1> QED BY <1>7, <1>8, <1>9

\* What one turn of the loop of static and gzstatic gets.
PlainGot(r) == LET want == Min({Buf, run[r].left}) IN IF want > 0 THEN Got(r, want) ELSE <<>>
PlainStop(r) == Len(PlainGot(r)) < Min({Buf, run[r].left}) \/ run[r].left - Len(PlainGot(r)) <= 0

LEMMA PlainTurn ==
  ASSUME Typed, NEW r \in Slot, SendPlain(r)
  PROVE  /\ run[r].pc = "send" /\ PlainGot(r) \in Seq(Byte) /\ PlainStop(r) \in BOOLEAN
         /\ run[r].ans.ended \in BOOLEAN /\ Turn(r, PlainGot(r), PlainStop(r), run[r].ans.ended)
<1>1. run[r].pc = "send" /\ run[r] \in Locals /\ run[r].ans \in Answers /\ run[r].left \in Int
  BY DEF SendPlain, Typed, Locals
<1>2. Min({Buf, run[r].left}) \in Int
  BY <1>1, Constants, MinPair
<1>3. PlainGot(r) \in Seq(Byte)
  <2>1. Min({Buf, run[r].left}) > 0 => Min({Buf, run[r].left}) \in Nat
    BY <1>2
  <2> QED BY <1>1, <2>1, GotSeq DEF PlainGot
<1> DEFINE l == [run[r] EXCEPT
                   !.pc = IF PlainStop(r) THEN "done" ELSE "send", !.fd = Fd(r, PlainStop(r)),
                   !.left = run[r].left - Len(PlainGot(r)), !.pos = @ + Len(PlainGot(r)), !.ans.sent = @ \o PlainGot(r)]
<1>4. run' = [run EXCEPT ![r] = l]
  BY DEF SendPlain, PlainGot, PlainStop
<1>5. [run[r].ans EXCEPT !.sent = @ \o PlainGot(r)] =
      [run[r].ans EXCEPT !.sent = run[r].ans.sent \o PlainGot(r), !.ended = run[r].ans.ended]
  BY <1>1 DEF Answers
<1>6. l = [run[r] EXCEPT !.pc = IF PlainStop(r) THEN "done" ELSE run[r].pc,
             !.fd = IF PlainStop(r) THEN None ELSE run[r].fd,
             !.left = run[r].left - Len(PlainGot(r)), !.pos = run[r].pos + Len(PlainGot(r)),
             !.ans = [run[r].ans EXCEPT !.sent = run[r].ans.sent \o PlainGot(r), !.ended = run[r].ans.ended]]
  BY <1>1, <1>5 DEF Fd, Locals
<1>7. Turn(r, PlainGot(r), PlainStop(r), run[r].ans.ended)
  BY <1>4, <1>6 DEF Turn
<1> QED BY <1>1, <1>3, <1>7 DEF PlainStop, Answers

\* And that of http_chunked_gzip.
GzipGot(r) == IF run[r].left > 0 THEN Got(r, Block) ELSE <<>>
GzipStop(r) == Len(GzipGot(r)) < Block \/ run[r].left - Len(GzipGot(r)) <= 0
GzipEnded(r) == run[r].left > 0 /\ Len(GzipGot(r)) < Block

LEMMA GzipTurn ==
  ASSUME Typed, NEW r \in Slot, SendGzip(r)
  PROVE  /\ run[r].pc = "gzip" /\ GzipGot(r) \in Seq(Byte) /\ GzipStop(r) \in BOOLEAN
         /\ GzipEnded(r) \in BOOLEAN /\ Turn(r, GzipGot(r), GzipStop(r), GzipEnded(r))
<1>1. run[r].pc = "gzip" /\ run[r] \in Locals /\ run[r].ans \in Answers
  BY DEF SendGzip, Typed, Locals
<1>2. GzipGot(r) \in Seq(Byte)
  BY <1>1, GotSeq, Constants DEF GzipGot
<1> DEFINE l == [run[r] EXCEPT
                   !.pc = IF GzipStop(r) THEN "done" ELSE "gzip", !.fd = Fd(r, GzipStop(r)),
                   !.left = run[r].left - Len(GzipGot(r)), !.pos = @ + Len(GzipGot(r)), !.ans.sent = @ \o GzipGot(r),
                   !.ans.ended = GzipEnded(r)]
<1>3. run' = [run EXCEPT ![r] = l]
  BY DEF SendGzip, GzipGot, GzipStop, GzipEnded
<1>4. l = [run[r] EXCEPT !.pc = IF GzipStop(r) THEN "done" ELSE run[r].pc,
             !.fd = IF GzipStop(r) THEN None ELSE run[r].fd,
             !.left = run[r].left - Len(GzipGot(r)), !.pos = run[r].pos + Len(GzipGot(r)),
             !.ans = [run[r].ans EXCEPT !.sent = run[r].ans.sent \o GzipGot(r), !.ended = GzipEnded(r)]]
  BY <1>1 DEF Fd, Locals
<1>5. Turn(r, GzipGot(r), GzipStop(r), GzipEnded(r))
  BY <1>3, <1>4 DEF Turn
<1> QED BY <1>1, <1>2, <1>5 DEF GzipStop, GzipEnded

LEMMA FileEmulatorType ==
  ASSUME Typed, NEW p \in Name
  PROVE  FileEmulator(p) \in Stat
<1>1. CASE p \in Path /\ dir[p] \in Inode
  BY <1>1, StatType DEF FileEmulator
<1>2. CASE ~(p \in Path /\ dir[p] \in Inode)
  <2> DEFINE t == IF p \in Path THEN dir[p] ELSE Folder
  <2>1. t \in {None, Folder} \cup Inode /\ (t \in Inode => FALSE)
    BY <1>2, Constants DEF Typed, Files
  <2>2. FileEmulator(p) = [name |-> p, tag |-> t, bytes |-> <<>>]
    BY <1>2 DEF FileEmulator
  <2> HIDE DEF t
  <2> QED BY <2>1, <2>2 DEF Stat
<1> QED BY <1>1, <1>2

\* What PROPFIND does with the list.
Lists(r, c, todo, list) ==
  run' = [run EXCEPT ![r] = [run[r] EXCEPT !.pc = c, !.todo = todo, !.ans = [run[r].ans EXCEPT !.list = list]]]

LEMMA ListMoves ==
  ASSUME Typed, NEW r \in Slot, run[r].pc = "list", NEW c \in {"list", "done"}, NEW todo \in SUBSET Name,
         NEW list \in SUBSET Stat, Lists(r, c, todo, list)
  PROVE  /\ Moves(r)
         /\ run'[r].pc = c /\ run'[r].ans.list = list /\ run'[r].ans.code = run[r].ans.code
         /\ run'[r].ans.coding = run[r].ans.coding
         /\ run'[r].q = run[r].q /\ run'[r].held = run[r].held /\ run'[r].st = run[r].st
<1> DEFINE ans == [run[r].ans EXCEPT !.list = list]
           l == [run[r] EXCEPT !.pc = c, !.todo = todo, !.ans = ans]
<1>1. run[r] \in Locals /\ run[r].ans \in Answers /\ run[r].q \in Requests /\ run[r].fd = None
  BY DEF Typed, Locals, Placed
<1>2. ans \in Answers /\ ans.list = list /\ ans.code = run[r].ans.code /\ ans.coding = run[r].ans.coding
  BY <1>1 DEF Answers
<1>3. l \in Locals
  <2> HIDE DEF ans
  <2> QED BY <1>1, <1>2 DEF Locals, PCs
<1>4. run' = [run EXCEPT ![r] = l]
  BY DEF Lists
<1>5. /\ run'[r] = l /\ l.pc = c /\ l.fd = None /\ l.ans = ans /\ l.q = run[r].q /\ l.held = run[r].held
      /\ l.st = run[r].st
  BY <1>1, <1>4 DEF Typed, Locals
<1> HIDE DEF l, ans
<1>6. Moves(r)
  BY <1>1, <1>3, <1>4, <1>5 DEF Moves, Typed, Placed
<1> QED BY <1>2, <1>5, <1>6

LEMMA PropEntryLists ==
  ASSUME Typed, NEW r \in Slot, NEW p \in Name, PropEntry(r, p)
  PROVE  /\ run[r].pc = "list" /\ run[r].todo \ {p} \in SUBSET Name
         /\ run[r].ans.list \cup {FileEmulator(p)} \in SUBSET Stat
         /\ Lists(r, "list", run[r].todo \ {p}, run[r].ans.list \cup {FileEmulator(p)})
<1>1. /\ run[r].pc = "list" /\ run[r] \in Locals /\ run[r].ans \in Answers
  BY DEF PropEntry, Typed, Locals
<1>2. run[r].todo \ {p} \in SUBSET Name /\ run[r].ans.list \cup {FileEmulator(p)} \in SUBSET Stat
  BY <1>1, FileEmulatorType DEF Locals, Answers
<1>3. run' = [run EXCEPT ![r].todo = @ \ {p}, ![r].ans.list = @ \cup {FileEmulator(p)}]
  BY DEF PropEntry
<1> DEFINE todo == run[r].todo \ {p}
           ans == [run[r].ans EXCEPT !.list = run[r].ans.list \cup {FileEmulator(p)}]
<1>4. run' = [run EXCEPT ![r] = [run[r] EXCEPT !.todo = todo, !.ans = ans]]
  BY <1>1, <1>3 DEF Typed, Locals, Answers
<1>5. Lists(r, "list", run[r].todo \ {p}, run[r].ans.list \cup {FileEmulator(p)})
  <2> HIDE DEF todo, ans
  <2>1. [run[r] EXCEPT !.todo = todo, !.ans = ans] = [run[r] EXCEPT !.pc = "list", !.todo = todo, !.ans = ans]
    BY <1>1 DEF Locals
  <2> QED BY <1>4, <2>1 DEF Lists, todo, ans
<1> QED BY <1>1, <1>2, <1>5

LEMMA PropSendLists ==
  ASSUME Typed, NEW r \in Slot, PropSend(r)
  PROVE  /\ run[r].pc = "list" /\ {} \in SUBSET Name /\ {ToXml(f) : f \in run[r].ans.list} \in SUBSET Stat
         /\ Lists(r, "done", {}, {ToXml(f) : f \in run[r].ans.list})
<1>1. /\ run[r].pc = "list" /\ run[r] \in Locals /\ run[r].ans \in Answers /\ run[r].todo = {}
  BY DEF PropSend, Typed, Locals
<1>2. {ToXml(f) : f \in run[r].ans.list} \in SUBSET Stat
  <2>1. \A f \in Stat : ToXml(f) \in Stat
    BY DEF ToXml, Stat
  <2> QED BY <1>1, <2>1 DEF Answers
<1>3. run' = [run EXCEPT ![r].pc = "done", ![r].ans.list = {ToXml(f) : f \in run[r].ans.list}]
  BY DEF PropSend
<1> DEFINE list == {ToXml(f) : f \in run[r].ans.list}
           ans == [run[r].ans EXCEPT !.list = list]
<1>4. Lists(r, "done", {}, list)
  <2>1. run' = [run EXCEPT ![r] = [run[r] EXCEPT !.pc = "done", !.ans = ans]]
    <3> HIDE DEF list
    <3>1. run' = [run EXCEPT ![r].pc = "done", ![r].ans.list = list]
      BY <1>3 DEF list
    <3> QED BY <1>1, <3>1 DEF Typed, Locals, Answers
  <2> HIDE DEF ans
  <2>2. [run[r] EXCEPT !.pc = "done", !.ans = ans] = [run[r] EXCEPT !.pc = "done", !.todo = {}, !.ans = ans]
    BY <1>1 DEF Locals
  <2> QED BY <2>1, <2>2 DEF Lists, ans
<1> QED BY <1>1, <1>2, <1>4

LEMMA WebdavMoves ==
  ASSUME Typed, NEW r \in Slot, Gone(r) \/ Options(r) \/ Other(r) \/ PropFind(r) \/ PropPatch(r)
  PROVE  Moves(r)
<1>1. /\ run[r] \in Locals /\ run[r].ans \in Answers /\ run[r].pc = "call" /\ run[r].fd = None
      /\ run[r].q \in Requests /\ Placed(r)
  BY DEF Typed, Placed, Locals, Gone, Options, Other, PropFind, PropPatch, Webdav
<1>2. CASE Gone(r) \/ Options(r)
  BY <1>1, <1>2, AnswerMoves DEF Gone, Options
<1>3. CASE Other(r)
  BY <1>1, <1>3, NextSelectorMoves DEF Other
<1>4. CASE PropFind(r)
  <2> DEFINE p == run[r].real
             todo == {p} \cup IF p = Root THEN {o \in Path : dir[o] # None} ELSE {}
             ans == [run[r].ans EXCEPT !.code = 207]
             l == [run[r] EXCEPT !.pc = "list", !.ans = ans, !.todo = todo]
  <2>1. CASE Answer(r, 404)
    BY <1>1, <2>1, AnswerMoves
  <2>2. CASE run' = [run EXCEPT ![r] = [run[r] EXCEPT !.pc = "list", !.ans.code = 207, !.todo = todo]]
    <3>1. todo \in SUBSET Name
      BY <1>1 DEF Locals, Name
    <3>2. ans \in Answers
      BY <1>1 DEF Answers
    <3>3. run' = [run EXCEPT ![r] = l]
      <4> HIDE DEF todo
      <4>1. [run[r] EXCEPT !.pc = "list", !.ans.code = 207, !.todo = todo] = l
        BY <1>1 DEF Locals
      <4> QED BY <2>2, <4>1
    <3> HIDE DEF todo, ans
    <3>4. l \in Locals
      BY <1>1, <3>1, <3>2 DEF Locals, PCs
    <3>5. l.pc = "list" /\ l.fd = None /\ l.q = run[r].q
      BY <1>1 DEF Locals
    <3> HIDE DEF l
    <3> QED BY <1>1, <3>3, <3>4, <3>5 DEF Moves, Typed, Placed
  <2> QED BY <1>4, <2>1, <2>2 DEF PropFind
<1>5. CASE PropPatch(r)
  <2>1. CASE Answer(r, 404)
    BY <1>1, <2>1, AnswerMoves
  <2>2. CASE run' = [run EXCEPT ![r].pc = "touch"]
    <3>1. [run[r] EXCEPT !.pc = "touch"] \in Locals
      BY <1>1 DEF Locals, PCs
    <3>2. run[r].real \in Path
      BY <1>1, <1>5 DEF Placed, PropPatch, Webdav, Changing
    <3>3. /\ run' = [run EXCEPT ![r] = [run[r] EXCEPT !.pc = "touch"]]
          /\ run'[r].pc = "touch" /\ run'[r].fd = None /\ run'[r].q = run[r].q /\ run'[r].real = run[r].real
      BY <1>1, <2>2 DEF Typed, Locals
    <3> QED BY <1>1, <3>1, <3>2, <3>3 DEF Moves, Typed, Placed
  <2> QED BY <1>5, <2>1, <2>2 DEF PropPatch
<1> QED BY <1>2, <1>3, <1>4, <1>5

\* Whatever a quiet step is, ...
LEMMA QuietMoves ==
  ASSUME Typed, NEW r \in Slot, Quiet(r)
  PROVE  Moves(r)
<1>1. CASE Pass(r) \/ Skip(r) \/ Locate(r) \/ TryPage(r) \/ Auth(r)
  BY <1>1, DispatchMoves
<1>2. CASE Examine(r) \/ ExamineGz(r)
  BY <1>2, ExamineMoves
<1>3. CASE OpenFile(r)
  BY <1>3, OpenMoves
<1>4. CASE SendPlain(r)
  <2>1. run[r].pc \in {"send", "gzip"}
    BY <1>4, PlainTurn
  <2> QED BY <1>4, <2>1, PlainTurn, TurnMoves
<1>5. CASE SendGzip(r)
  <2>1. run[r].pc \in {"send", "gzip"}
    BY <1>5, GzipTurn
  <2> QED BY <1>5, <2>1, GzipTurn, TurnMoves
<1>6. CASE \E p \in Name : PropEntry(r, p)
  <2>1. PICK p \in Name : PropEntry(r, p)
    BY <1>6
  <2> QED BY <2>1, PropEntryLists, ListMoves
<1>7. CASE PropSend(r)
  BY <1>7, PropSendLists, ListMoves
<1>8. CASE Gone(r) \/ Options(r) \/ Other(r) \/ PropFind(r) \/ PropPatch(r)
  BY <1>8, WebdavMoves
<1> QED BY <1>1, <1>2, <1>3, <1>4, <1>5, <1>6, <1>7, <1>8 DEF Quiet

\* ... the files stay as they are.
LEMMA QuietFiles ==
  ASSUME NEW r \in Slot, Quiet(r)
  PROVE  UNCHANGED <<dir, data, mtime, now, asked, copy, torn, changed, blurred>>
BY DEF Quiet, Pass, Skip, Locate, TryPage, Auth, Gone, Examine, ExamineGz, OpenFile, SendPlain, SendGzip,
       Options, Other, PropFind, PropEntry, PropSend, PropPatch, files, ghosts

LEMMA QuietTyped ==
  ASSUME Typed, NEW r \in Slot, Quiet(r)
  PROVE  Typed'
<1>1. Moves(r) /\ UNCHANGED <<dir, data, mtime, now, asked, copy, torn, changed, blurred>>
  BY QuietMoves, QuietFiles
<1>2. Files' /\ copy' \in [Urls -> Stat]
  BY <1>1, FilesKept DEF files, Typed
<1> QED BY <1>1, <1>2, Moved

----------------------------------------------------------------------------
(* The steps that change files *)

LEMMA WebdavPlace ==
  ASSUME Typed, NEW r \in Slot, NEW m \in Changing, Webdav(r, m)
  PROVE  /\ run[r] \in Locals /\ run[r].pc = "call" /\ run[r].fd = None /\ run[r].q \in Requests
         /\ run[r].real \in Path /\ dir[run[r].real] \in {None, Folder} \cup Inode
         /\ \A u \in {run[r].q.url, run[r].q.dest} \cap DOMAIN Selector(r).real : Selector(r).real[u] \in Path
<1>1. /\ run[r] \in Locals /\ run[r].pc = "call" /\ run[r].fd = None /\ run[r].q \in Requests /\ run[r].q.method \in Changing
      /\ run[r].at <= Len(SelectorsOf(run[r].q)) /\ run[r].real \in Path
  BY DEF Webdav, Typed, Placed
<1>2. \A u \in {run[r].q.url, run[r].q.dest} \cap DOMAIN Selector(r).real : Selector(r).real[u] \in Path
  BY <1>1, SelectorType
<1> QED BY <1>1, <1>2 DEF Typed, Files

LEMMA TearSlots ==
  ASSUME NEW r, NEW ps, NEW is
  PROVE  Tear(r, ps, is) \in SUBSET Slot
BY DEF Tear

LEMMA TouchTyped ==
  ASSUME Typed, NEW r \in Slot, Touch(r)
  PROVE  Typed' /\ Moves(r)
<1>1. /\ run[r] \in Locals /\ run[r].pc = "touch" /\ run[r].fd = None /\ run[r].real \in Path /\ run[r].q \in Requests
  BY DEF Touch, Typed, Placed
<1>2. Moves(r)
  <2>1. Answer(r, IF dir[run[r].real] = None THEN 404 ELSE 200)
    BY DEF Touch
  <2>2. (IF dir[run[r].real] = None THEN 404 ELSE 200) \in Nat
    OBVIOUS
  <2> QED BY <1>1, <2>1, <2>2, AnswerMoves
<1>3. mtime' \in [Inode -> 0..MaxTime]
  BY <1>1, FilesAssumption DEF Touch, Typed, Files
<1>4. Files'
  BY <1>1, <1>3 DEF Touch, Typed, Files
<1>5. copy' \in [Urls -> Stat]
  BY DEF Touch, Typed
<1> QED BY <1>2, <1>4, <1>5, Moved

LEMMA MkColTyped ==
  ASSUME Typed, NEW r \in Slot, MkCol(r)
  PROVE  Typed' /\ Moves(r)
<1>1. /\ run[r] \in Locals /\ run[r].pc = "call" /\ run[r].fd = None /\ run[r].real \in Path /\ run[r].q \in Requests
  BY WebdavPlace DEF MkCol, Changing
<1>2. Moves(r)
  <2>1. Answer(r, IF dir[run[r].real] = None THEN 201 ELSE 500)
    BY DEF MkCol
  <2>2. (IF dir[run[r].real] = None THEN 201 ELSE 500) \in Nat
    OBVIOUS
  <2> QED BY <1>1, <2>1, <2>2, AnswerMoves
<1>3. Files'
  BY <1>1, Constants DEF MkCol, Typed, Files, ghosts
<1>4. copy' \in [Urls -> Stat]
  BY DEF MkCol, Typed, ghosts
<1> QED BY <1>2, <1>3, <1>4, Moved

LEMMA DeleteTyped ==
  ASSUME Typed, NEW r \in Slot, Delete(r)
  PROVE  Typed' /\ Moves(r)
<1>1. /\ run[r] \in Locals /\ run[r].pc = "call" /\ run[r].fd = None /\ run[r].real \in Path /\ run[r].q \in Requests
  BY WebdavPlace DEF Delete, Changing
<1>2. Moves(r)
  <2>1. Answer(r, IF dir[run[r].real] = None THEN 403 ELSE 205)
    BY DEF Delete
  <2>2. (IF dir[run[r].real] = None THEN 403 ELSE 205) \in Nat
    OBVIOUS
  <2> QED BY <1>1, <2>1, <2>2, AnswerMoves
<1>3. Files'
  BY <1>1, Constants, TearSlots DEF Delete, Typed, Files
<1>4. copy' \in [Urls -> Stat]
  BY DEF Delete, Typed
<1> QED BY <1>2, <1>3, <1>4, Moved

\* The name moves to another, ...
Renamed(r, p, o) ==
  /\ p \in Path /\ o \in Path /\ p # o /\ dir[p] # None
  /\ dir' = [dir EXCEPT ![o] = dir[p], ![p] = None]
  /\ torn' = torn \cup Tear(r, {p, o}, {})
  /\ blurred' = blurred \cup {p, o}

\* ... or it does not.
LEMMA MoveCases ==
  ASSUME Typed, NEW r \in Slot, Move(r)
  PROVE  /\ UNCHANGED <<data, mtime, now, asked, copy, changed>>
         /\ \E code \in {403, 404, 205, 500} : Answer(r, code)
         /\ \/ UNCHANGED <<dir, torn, blurred>>
            \/ \E o \in Path : Renamed(r, run[r].real, o)
<1> DEFINE p == run[r].real
           u == run[r].q.dest
           o == Selector(r).real[u]
<1>1. p \in Path /\ (Matches(Selector(r), u) => o \in Path)
  BY WebdavPlace DEF Move, Changing, Matches
<1>2. UNCHANGED <<data, mtime, now, asked, copy, changed>>
  BY DEF Move
<1>3. CASE UNCHANGED <<dir, torn, blurred>>
  <2>1. Answer(r, 403) \/ Answer(r, 404) \/ Answer(r, 205) \/ Answer(r, 500)
    BY Zenon DEF Move
  <2> QED BY <1>2, <1>3, <2>1
<1>4. CASE ~ UNCHANGED <<dir, torn, blurred>>
  <2>1. /\ Matches(Selector(r), u) /\ dir[p] # None /\ p # o /\ Answer(r, 205)
        /\ dir' = [dir EXCEPT ![o] = dir[p], ![p] = None]
        /\ torn' = torn \cup Tear(r, {p, o}, {})
        /\ blurred' = blurred \cup {p, o}
    BY <1>4 DEF Move
  <2>2. o \in Path /\ dir[p] # None
    BY <1>1, <1>4, <2>1 DEF Move
  <2>3. Renamed(r, p, o)
    <3> HIDE DEF p, o
    <3> QED BY <1>1, <2>1, <2>2 DEF Renamed
  <2> HIDE DEF o
  <2> QED BY <1>2, <2>1, <2>2, <2>3
<1> QED BY <1>3, <1>4

LEMMA MoveTyped ==
  ASSUME Typed, NEW r \in Slot, Move(r)
  PROVE  Typed' /\ Moves(r)
<1>1. /\ run[r] \in Locals /\ run[r].pc = "call" /\ run[r].fd = None /\ run[r].real \in Path /\ run[r].q \in Requests
  BY WebdavPlace DEF Move, Changing
<1>2. UNCHANGED <<data, mtime, now, asked, copy, changed>>
  BY MoveCases
<1>3. Moves(r)
  <2>1. PICK code \in {403, 404, 205, 500} : Answer(r, code)
    BY MoveCases
  <2>2. code \in Nat
    OBVIOUS
  <2> QED BY <1>1, <2>1, <2>2, AnswerMoves
<1>4. Files'
  <2>1. CASE UNCHANGED <<dir, torn, blurred>>
    BY <1>2, <2>1, FilesKept DEF files
  <2>2. ASSUME NEW o \in Path, Renamed(r, run[r].real, o) PROVE Files'
    <3>1. /\ dir' \in [Path -> {None, Folder} \cup Inode]
          /\ \A a, b \in Path : dir'[a] = dir'[b] /\ dir'[a] \in Inode => a = b
      BY <2>2, Constants DEF Renamed, Typed, Files
    <3>2. torn' \subseteq Slot /\ blurred' \subseteq Path
      BY <2>2, TearSlots DEF Renamed, Typed, Files
    <3> QED BY <1>2, <3>1, <3>2 DEF Typed, Files
  <2> QED BY <2>1, <2>2, MoveCases
<1> QED BY <1>2, <1>3, <1>4, Moved DEF Typed

\* PUT has a file to write to, made or emptied.
Opened(r, i) ==
  LET p == run[r].real IN
    /\ p \in Path /\ dir[p] # Folder
    /\ (dir[p] = None /\ Unused(i)) \/ i = dir[p]
    /\ dir' = [dir EXCEPT ![p] = i]
    /\ data' = [data EXCEPT ![i] = <<>>]
    /\ mtime' = [mtime EXCEPT ![i] = now]
    /\ torn' = torn \cup Tear(r, {p}, {i})
    /\ changed' = [changed EXCEPT ![p] = now]
    /\ blurred' = IF changed[p] = now THEN blurred \cup {p} ELSE blurred
    /\ run[r].pc = "call" /\ run'[r] = [run[r] EXCEPT !.pc = "write", !.fd = i]
    /\ run'[r].pc = "write" /\ run'[r].fd = i /\ run'[r].real = p /\ run'[r].st = run[r].st

LEMMA PutOpenCases ==
  ASSUME Typed, NEW r \in Slot, PutOpen(r)
  PROVE  /\ UNCHANGED <<now, asked, copy>>
         /\ Moves(r)
         /\ \/ Answer(r, 500) /\ UNCHANGED <<dir, data, mtime, torn, changed, blurred>>
            \/ \E i \in Inode : Opened(r, i)
<1> DEFINE p == run[r].real
<1>1. /\ run[r] \in Locals /\ run[r].pc = "call" /\ run[r].fd = None /\ p \in Path /\ run[r].q \in Requests
      /\ dir[p] \in {None, Folder} \cup Inode
  BY WebdavPlace DEF PutOpen, Changing
<1>2. UNCHANGED <<now, asked, copy>>
  BY DEF PutOpen
<1>3. CASE dir[p] = Folder /\ Answer(r, 500) /\ UNCHANGED <<files, torn, changed, blurred>>
  <2>1. 500 \in Nat
    OBVIOUS
  <2> QED BY <1>1, <1>2, <1>3, <2>1, AnswerMoves DEF files
<1>4. ASSUME NEW i \in Inode,
             IF dir[p] = None THEN Unused(i) ELSE i = dir[p],
             dir' = [dir EXCEPT ![p] = i],
             data' = Truncated(i),
             mtime' = [mtime EXCEPT ![i] = now],
             run' = [run EXCEPT ![r].pc = "write", ![r].fd = i],
             torn' = torn \cup Tear(r, {p}, {i}),
             changed' = [changed EXCEPT ![p] = now],
             blurred' = IF changed[p] = now THEN blurred \cup {p} ELSE blurred
      PROVE  Moves(r) /\ Opened(r, i)
  <2> DEFINE l == [run[r] EXCEPT !.pc = "write", !.fd = i]
  <2>1. l \in Locals
    BY <1>1 DEF Locals, PCs
  <2>2. run' = [run EXCEPT ![r] = l]
    BY <1>1, <1>4 DEF Typed, Locals
  <2>3. /\ run'[r] = l /\ l.pc = "write" /\ l.fd = i /\ l.q = run[r].q /\ l.real = p /\ l.st = run[r].st
        /\ i # None /\ dir[p] # Folder
    BY <1>1, <1>4, <2>2, Constants DEF Typed, Locals
  <2>4. Moves(r)
    <3> HIDE DEF l
    <3> QED BY <1>1, <2>1, <2>2, <2>3 DEF Moves, Typed, Placed
  <2>5. Opened(r, i)
    BY <1>1, <1>4, <2>3 DEF Opened, Truncated
  <2> QED BY <2>4, <2>5
<1> QED BY <1>2, <1>3, <1>4 DEF PutOpen

LEMMA PutOpenTyped ==
  ASSUME Typed, NEW r \in Slot, PutOpen(r)
  PROVE  Typed' /\ Moves(r)
<1>1. UNCHANGED <<now, asked, copy>> /\ Moves(r)
  BY PutOpenCases
<1>2. CASE UNCHANGED <<dir, data, mtime, torn, changed, blurred>>
  BY <1>1, <1>2, FilesKept, Moved DEF files, Typed
<1>3. ASSUME NEW i \in Inode, Opened(r, i) PROVE Typed'
  <2> DEFINE p == run[r].real
  <2>1. /\ dir' \in [Path -> {None, Folder} \cup Inode]
        /\ \A a, b \in Path : dir'[a] = dir'[b] /\ dir'[a] \in Inode => a = b
    BY <1>3 DEF Opened, Unused, Typed, Files
  <2>2. data' \in [Inode -> Seq(Byte)]
    BY <1>3 DEF Opened, Typed, Files
  <2>3. mtime' \in [Inode -> 0..MaxTime] /\ changed' \in [Path -> 0..MaxTime]
    BY <1>3 DEF Opened, Typed, Files
  <2>4. torn' \subseteq Slot /\ blurred' \subseteq Path
    BY <1>3, TearSlots DEF Opened, Typed, Files
  <2>5. Files'
    BY <1>1, <2>1, <2>2, <2>3, <2>4 DEF Typed, Files
  <2> QED BY <1>1, <2>5, Moved DEF Typed
<1> QED BY <1>1, <1>2, <1>3, PutOpenCases

LEMMA RequestType == \A q \in Requests : q.size \in Nat /\ q.over \in Nat /\ q.mtime \in 0..MaxTime
BY FilesAssumption

LEMMA BodySizeType ==
  ASSUME NEW r \in Slot, run[r].q \in Requests
  PROVE  BodySize(r) \in Nat /\ run[r].q.size \in 0..BodySize(r)
<1>1. run[r].q.size \in Nat /\ run[r].q.over \in Nat
  BY RequestType
<1> QED BY <1>1 DEF BodySize

\* What is in a file after a write of n bytes to its beginning.
Written(r, n) == LET b == data[run[r].fd] IN SubSeq(Body(r), 1, n) \o SubSeq(b, n + 1, Len(b))

LEMMA WrittenType ==
  ASSUME Typed, NEW r \in Slot, run[r].pc = "write", NEW n \in 0..BodySize(r)
  PROVE  /\ run[r].fd \in Inode /\ BodySize(r) \in Nat
         /\ Body(r) \in Seq(Byte) /\ Len(Body(r)) = BodySize(r)
         /\ SubSeq(Body(r), 1, n) \in Seq(Byte) /\ Len(SubSeq(Body(r), 1, n)) = n
         /\ Written(r, n) \in Seq(Byte)
         /\ data[run[r].fd] = <<>> => Written(r, n) = SubSeq(Body(r), 1, n)
         /\ n = 0 => Written(r, n) = data[run[r].fd]
<1> DEFINE size == BodySize(r)
           b == data[run[r].fd]
           front == SubSeq(Body(r), 1, n)
           back == SubSeq(b, n + 1, Len(b))
<1>1. /\ run[r].fd \in Inode /\ size \in Nat /\ run[r].no \in Nat /\ b \in Seq(Byte) /\ Len(b) \in Nat /\ n \in Nat /\ n <= size
  <2>1. run[r] \in Locals /\ Placed(r) /\ run[r].q \in Requests
    BY DEF Typed, Placed
  <2>2. size \in Nat
    BY <2>1, BodySizeType
  <2>3. run[r].fd \in Inode /\ run[r].no \in Nat
    BY <2>1 DEF Placed, Locals
  <2>4. b \in Seq(Byte) /\ Len(b) \in Nat
    BY <2>3 DEF Typed, Files
  <2>5. n \in 0..size
    OBVIOUS
  <2> HIDE DEF size
  <2> QED BY <2>2, <2>3, <2>4, <2>5
<1>2. Body(r) \in Seq(Byte) /\ Len(Body(r)) = size
  <2>1. \A m \in 1..size : <<run[r].no, m>> \in Byte
    BY <1>1 DEF Byte
  <2>2. Body(r) = [m \in 1..size |-> <<run[r].no, m>>]
    BY DEF Body
  <2> HIDE DEF size
  <2> QED BY <1>1, <2>1, <2>2
<1>3. front \in Seq(Byte) /\ Len(front) = n
  <2> HIDE DEF size
  <2>1. \A i \in 1..n : Body(r)[i] \in Byte
    BY <1>1, <1>2, ElementOfSeq
  <2>2. Len(front) = IF 1 <= n THEN n - 1 + 1 ELSE 0
    BY <1>1, <2>1, SubSeqProperties
  <2>3. front \in Seq(Byte)
    BY <1>1, <2>1, SubSeqProperties
  <2> QED BY <1>1, <2>2, <2>3
<1>4. back \in Seq(Byte)
  <2> HIDE DEF b
  <2>1. \A i \in (n + 1)..Len(b) : b[i] \in Byte
    BY <1>1, ElementOfSeq
  <2> QED BY <1>1, <2>1, SubSeqProperties
<1>5. Written(r, n) = front \o back
  BY DEF Written
<1>6. Written(r, n) \in Seq(Byte)
  <2> HIDE DEF front, back
  <2> QED BY <1>3, <1>4, <1>5, ConcatProperties
<1>7. b = <<>> => Written(r, n) = front
  <2> SUFFICES ASSUME b = <<>> PROVE Written(r, n) = front
    OBVIOUS
  <2>1. back = <<>>
    <3>1. n + 1 \in Int /\ Len(b) = 0 /\ 0 < n + 1
      BY <1>1
    <3> HIDE DEF b
    <3> QED BY <3>1, SubSeqEmpty
  <2> HIDE DEF front, back
  <2> QED BY <1>3, <1>5, <2>1, ConcatEmptySeq
<1>8. n = 0 => Written(r, n) = b
  <2> SUFFICES ASSUME n = 0 PROVE Written(r, n) = b
    OBVIOUS
  <2>1. front = <<>>
    BY SubSeqEmpty
  <2>2. back = b
    <3> HIDE DEF b
    <3> QED BY <1>1, SubSeqFull
  <2> HIDE DEF front, back, b
  <2> QED BY <1>1, <1>5, <2>1, <2>2, ConcatEmptySeq
<1> QED BY <1>1, <1>2, <1>3, <1>6, <1>7, <1>8

\* A prefix is known by its elements.
LEMMA PrefixIs ==
  ASSUME NEW S, NEW b \in Seq(S), NEW k \in 0..Len(b), NEW t \in Seq(S), Len(t) = k, \A m \in 1..k : t[m] = b[m]
  PROVE  SubSeq(b, 1, k) = t
<1>1. SubSeq(b, 1, k) \in Seq(S) /\ Len(SubSeq(b, 1, k)) = k /\ \A m \in 1..k : SubSeq(b, 1, k)[m] = b[m]
  OBVIOUS
<1>2. Len(SubSeq(b, 1, k)) = Len(t) /\ \A m \in 1..Len(SubSeq(b, 1, k)) : SubSeq(b, 1, k)[m] = t[m]
  BY <1>1
<1> QED BY <1>1, <1>2, SeqEqual

\* PUT has written n bytes.
Wrote(r, n) ==
  LET p == run[r].real  i == run[r].fd IN
    /\ run[r].pc = "write" /\ p \in Path /\ i \in Inode
    /\ data' = [data EXCEPT ![i] = Written(r, n)]
    /\ mtime' = IF n > 0 THEN [mtime EXCEPT ![i] = now] ELSE mtime
    /\ torn' = IF n > 0 THEN torn \cup Tear(r, {p}, {i}) ELSE torn
    /\ changed' = [changed EXCEPT ![p] = now]
    /\ blurred' = IF r \in torn THEN blurred \cup {p} ELSE blurred
    /\ run'[r].pc = "done" /\ run'[r].left = BodySize(r) - n /\ run'[r].ans = [run[r].ans EXCEPT !.code = 201]
    /\ run'[r].ans.code = 201 /\ run'[r].ans.coding = run[r].ans.coding
    /\ run'[r].st = run[r].st /\ run'[r].held = run[r].held /\ run'[r].q = run[r].q

LEMMA PutWriteCases ==
  ASSUME Typed, NEW r \in Slot, PutWrite(r)
  PROVE  /\ UNCHANGED <<dir, now, asked, copy>>
         /\ Moves(r)
         /\ \E n \in 0..BodySize(r) : Wrote(r, n)
<1>1. /\ run[r] \in Locals /\ run[r].ans \in Answers /\ run[r].pc = "write" /\ run[r].fd \in Inode /\ run[r].real \in Path
      /\ run[r].q \in Requests
  BY DEF PutWrite, Typed, Placed, Locals
<1>2. UNCHANGED <<dir, now, asked, copy>>
  BY DEF PutWrite
<1>3. PICK n \in 0..BodySize(r) :
        /\ data' = [data EXCEPT ![run[r].fd] = SubSeq(Body(r), 1, n) \o SubSeq(@, n + 1, Len(@))]
        /\ mtime' = IF n > 0 THEN [mtime EXCEPT ![run[r].fd] = now] ELSE mtime
        /\ run' = [run EXCEPT ![r] = [run[r] EXCEPT !.pc = "done", !.fd = None, !.left = BodySize(r) - n,
                                                    !.ans.code = 201]]
        /\ torn' = IF n > 0 THEN torn \cup Tear(r, {run[r].real}, {run[r].fd}) ELSE torn
        /\ changed' = [changed EXCEPT ![run[r].real] = now]
        /\ blurred' = IF r \in torn THEN blurred \cup {run[r].real} ELSE blurred
  BY DEF PutWrite
<1> DEFINE ans == [run[r].ans EXCEPT !.code = 201]
           left == BodySize(r) - n
           l == [run[r] EXCEPT !.pc = "done", !.fd = None, !.left = left, !.ans = ans]
<1>4. left \in Int
  <2>1. BodySize(r) \in Nat
    BY <1>1, BodySizeType
  <2> QED BY <2>1
<1>5. ans \in Answers /\ ans.code = 201 /\ ans.coding = run[r].ans.coding
  BY <1>1, SMTT(30) DEF Answers
<1>6. l \in Locals
  <2> HIDE DEF ans, left
  <2> QED BY <1>1, <1>4, <1>5 DEF Locals, PCs
<1>7. run' = [run EXCEPT ![r] = l]
  <2>1. run' = [run EXCEPT ![r] = [run[r] EXCEPT !.pc = "done", !.fd = None, !.left = left, !.ans.code = 201]]
    BY <1>3
  <2> HIDE DEF left
  <2>2. [run[r] EXCEPT !.pc = "done", !.fd = None, !.left = left, !.ans.code = 201] = l
    BY <1>1 DEF Locals
  <2> QED BY <2>1, <2>2
<1>8. /\ run'[r] = l /\ l.pc = "done" /\ l.fd = None /\ l.left = left /\ l.ans = ans /\ l.q = run[r].q
      /\ l.st = run[r].st /\ l.held = run[r].held
  BY <1>1, <1>7 DEF Typed, Locals
<1>9. Moves(r)
  <2> HIDE DEF l, ans, left
  <2> QED BY <1>1, <1>6, <1>7, <1>8 DEF Moves, Typed, Placed
<1>10. data' = [data EXCEPT ![run[r].fd] = Written(r, n)]
  BY <1>3 DEF Written
<1>11. Wrote(r, n)
  <2> HIDE DEF l
  <2> QED BY <1>1, <1>3, <1>5, <1>8, <1>10 DEF Wrote
<1> QED BY <1>2, <1>9, <1>11

LEMMA PutWriteTyped ==
  ASSUME Typed, NEW r \in Slot, PutWrite(r)
  PROVE  Typed' /\ Moves(r)
<1>1. UNCHANGED <<dir, now, asked, copy>> /\ Moves(r)
  BY PutWriteCases
<1>2. PICK n \in 0..BodySize(r) : Wrote(r, n)
  BY PutWriteCases
<1>3. data' \in [Inode -> Seq(Byte)]
  BY <1>2, WrittenType DEF Wrote, Typed, Files
<1>4. mtime' \in [Inode -> 0..MaxTime] /\ changed' \in [Path -> 0..MaxTime]
  BY <1>2 DEF Wrote, Typed, Files
<1>5. torn' \subseteq Slot /\ blurred' \subseteq Path
  BY <1>2, TearSlots DEF Wrote, Typed, Files
<1>6. Files'
  BY <1>1, <1>3, <1>4, <1>5 DEF Typed, Files
<1> QED BY <1>1, <1>6, Moved DEF Typed

\* A thread takes a request, and with it the copy that its client has, ...
LEMMA BeginMoves ==
  ASSUME Typed, NEW r \in Slot, NEW q \in Requests, Begin(r, q)
  PROVE  /\ Moves(r)
         /\ run[r].pc = "idle" /\ run'[r].pc = "locate" /\ run'[r].q = q /\ run'[r].held = copy[q.url]
         /\ run'[r].st = NoFile /\ run'[r].ans = NoAnswer /\ run'[r].fd = None
<1> DEFINE l == [Rest EXCEPT !.pc = "locate", !.q = q, !.no = asked', !.held = copy[q.url]]
<1>1. run[r].pc = "idle" /\ asked' \in Nat /\ copy[q.url] \in Stat
  BY DEF Begin, Typed, Files, Urls
<1>2. l \in Locals
  BY <1>1, RestType DEF Locals, PCs
<1>3. run' = [run EXCEPT ![r] = l]
  BY DEF Begin
<1>4. /\ run'[r] = l /\ l.pc = "locate" /\ l.q = q /\ l.held = copy[q.url] /\ l.st = NoFile /\ l.ans = NoAnswer
      /\ l.fd = None
  BY <1>3 DEF Typed, Rest
<1>5. Moves(r)
  <2> HIDE DEF l
  <2> QED BY <1>2, <1>3, <1>4 DEF Moves, Typed, Placed
<1> HIDE DEF l
<1> QED BY <1>1, <1>4, <1>5

LEMMA BeginTyped ==
  ASSUME Typed, NEW r \in Slot, NEW q \in Requests, Begin(r, q)
  PROVE  Typed'
<1>1. asked' \in 0..MaxRequests
  BY Constants DEF Begin, Typed, Files
<1>2. UNCHANGED <<dir, data, mtime, now, copy, changed, blurred>> /\ torn' \subseteq Slot
  BY DEF Begin, Typed, Files, files
<1>3. Files'
  BY <1>1, <1>2 DEF Typed, Files
<1> QED BY <1>2, <1>3, BeginMoves, Moved DEF Typed

\* ... and rests when it has answered; the client keeps the answer, if it was a whole file.
Keeps(r) == run[r].ans.code = 200 /\ run[r].ans.coding # "none"
NewCopy(r) == [run[r].st EXCEPT !.bytes = run[r].ans.sent]

LEMMA ReplyMoves ==
  ASSUME Typed, NEW r \in Slot, Reply(r)
  PROVE  /\ Moves(r)
         /\ run[r].pc = "done" /\ run'[r] = Rest
         /\ NewCopy(r) \in Stat /\ run[r].q.url \in Urls
         /\ NewCopy(r).name = run[r].st.name /\ NewCopy(r).tag = run[r].st.tag /\ NewCopy(r).bytes = run[r].ans.sent
         /\ copy' = IF Keeps(r) THEN [copy EXCEPT ![run[r].q.url] = NewCopy(r)] ELSE copy
         /\ torn' = torn \ {r}
         /\ UNCHANGED <<dir, data, mtime, now, asked, changed, blurred>>
<1>1. run[r] \in Locals /\ run[r].q \in Requests /\ run[r].pc = "done" /\ run[r].st \in Stat /\ run[r].ans.sent \in Seq(Byte)
  BY DEF Reply, Typed, Placed, Locals, Answers
<1>2. run' = [run EXCEPT ![r] = Rest] /\ run'[r] = Rest
  BY DEF Reply, Typed
<1>3. Rest.pc = "idle" /\ Rest.fd = None
  BY DEF Rest
<1>4. Moves(r)
  BY <1>2, <1>3, RestType DEF Moves, Typed, Placed
<1>5. NewCopy(r) \in Stat /\ NewCopy(r).name = run[r].st.name /\ NewCopy(r).tag = run[r].st.tag /\ NewCopy(r).bytes = run[r].ans.sent
  BY <1>1 DEF NewCopy, Stat
<1>6. run[r].q.url \in Urls
  BY <1>1 DEF Urls
<1>7. copy' = IF Keeps(r) THEN [copy EXCEPT ![run[r].q.url] = NewCopy(r)] ELSE copy
  BY DEF Reply, Keeps, NewCopy
<1> QED BY <1>1, <1>2, <1>4, <1>5, <1>6, <1>7 DEF Reply, files

LEMMA ReplyTyped ==
  ASSUME Typed, NEW r \in Slot, Reply(r)
  PROVE  Typed'
<1>1. copy' \in [Urls -> Stat]
  BY ReplyMoves DEF Typed
<1>2. Files'
  <2>1. UNCHANGED <<dir, data, mtime, now, asked, changed, blurred>> /\ torn' = torn \ {r}
    BY ReplyMoves
  <2> QED BY <2>1 DEF Typed, Files
<1> QED BY <1>1, <1>2, ReplyMoves, Moved

LEMMA StepTyped == Typed /\ [Next]_vars => Typed'
<1> SUFFICES ASSUME Typed, [Next]_vars PROVE Typed'
  OBVIOUS
<1>1. CASE Tick
  <2>1. now' \in 0..MaxTime /\ UNCHANGED <<files, asked, run, ghosts>>
    BY <1>1, Constants DEF Tick, Typed, Files
  <2> QED BY <2>1 DEF Typed, Files, Placed, files, ghosts
<1>2. ASSUME NEW r \in Slot, NEW q \in Requests, Begin(r, q) PROVE Typed'
  BY <1>2, BeginTyped
<1>3. ASSUME NEW r \in Slot, Quiet(r) PROVE Typed'
  BY <1>3, QuietTyped
<1>4. ASSUME NEW r \in Slot, Touch(r) PROVE Typed'
  BY <1>4, TouchTyped
<1>5. ASSUME NEW r \in Slot, MkCol(r) PROVE Typed'
  BY <1>5, MkColTyped
<1>6. ASSUME NEW r \in Slot, PutOpen(r) PROVE Typed'
  BY <1>6, PutOpenTyped
<1>7. ASSUME NEW r \in Slot, PutWrite(r) PROVE Typed'
  BY <1>7, PutWriteTyped
<1>8. ASSUME NEW r \in Slot, Delete(r) PROVE Typed'
  BY <1>8, DeleteTyped
<1>9. ASSUME NEW r \in Slot, Move(r) PROVE Typed'
  BY <1>9, MoveTyped
<1>10. ASSUME NEW r \in Slot, Reply(r) PROVE Typed'
  BY <1>10, ReplyTyped
<1>11. CASE UNCHANGED vars
  BY <1>11 DEF vars, files, ghosts, Typed, Files, Placed
<1> QED
  BY <1>1, <1>2, <1>3, <1>4, <1>5, <1>6, <1>7, <1>8, <1>9, <1>10, <1>11 DEF Next, Step, Quiet

\* Every variable has its type, and an open file is read or written by a request at hand.
THEOREM TypeCorrect == Spec => []TypeOK
<1>1. Spec => []Typed
  BY InitTyped, StepTyped, PTL DEF Spec
<1> QED BY <1>1, TypedTypeOK, PTL

----------------------------------------------------------------------------
(* What threads do to one another *)

Does(x) == (\E q \in Requests : Begin(x, q)) \/ Step(x)

\* The steps that write nothing.
LEMMA QuietPcs ==
  ASSUME Typed, NEW r \in Slot, Quiet(r)
  PROVE  run[r].pc \notin {"write", "idle", "done", "touch"} /\ run'[r].pc \notin {"write", "idle"}
<1>1. run[r] \in Locals
  BY DEF Typed
<1>2. run[r].pc \notin {"write", "idle", "done", "touch"}
  <2>0. CASE Pass(r) \/ Skip(r) \/ Gone(r)
    BY <2>0 DEF Pass, Skip, Gone
  <2>1. CASE Locate(r) \/ TryPage(r) \/ Auth(r)
    BY <2>1 DEF Locate, TryPage, Auth
  <2>2. CASE Examine(r) \/ ExamineGz(r) \/ OpenFile(r) \/ SendPlain(r) \/ SendGzip(r)
    BY <2>2 DEF Examine, ExamineGz, OpenFile, SendPlain, SendGzip
  <2>3. CASE Options(r) \/ Other(r) \/ PropFind(r) \/ PropPatch(r)
    BY <2>3 DEF Options, Other, PropFind, PropPatch, Webdav
  <2>4. CASE (\E p \in Name : PropEntry(r, p)) \/ PropSend(r)
    BY <2>4 DEF PropEntry, PropSend
  <2> QED BY <2>0, <2>1, <2>2, <2>3, <2>4 DEF Quiet
<1> SUFFICES run'[r].pc \notin {"write", "idle"}
  BY <1>2
<1>3. ASSUME NEW code, Answer(r, code) PROVE run'[r].pc = "done"
  BY <1>1, <1>3 DEF Answer, Typed, Locals
<1>4. ASSUME NextSelector(r) PROVE run'[r].pc = "locate"
  BY <1>1, <1>4 DEF NextSelector, Typed, Locals
<1>5. ASSUME NEW p, Call(r, p) PROVE run'[r].pc \in {"auth", "call"}
  BY <1>1, <1>5 DEF Call, Typed, Locals
<1>6. CASE Pass(r) \/ Skip(r) \/ Gone(r) \/ Options(r) \/ Other(r)
  <2>1. Answer(r, 404) \/ Answer(r, 200) \/ NextSelector(r)
    BY <1>6 DEF Pass, Skip, Gone, Options, Other
  <2> QED BY <1>3, <1>4, <2>1
<1>7. CASE Locate(r) \/ TryPage(r) \/ Auth(r)
  <2>1. \/ \E p : Call(r, p)
        \/ NextSelector(r)
        \/ Answer(r, 401) \/ Answer(r, 500)
        \/ run' = [run EXCEPT ![r].pc = "pages", ![r].page = 1]
        \/ run' = [run EXCEPT ![r].page = run[r].page + 1] /\ run[r].pc = "pages"
        \/ run' = [run EXCEPT ![r].pc = "call"]
    BY <1>7 DEF Locate, TryPage, Auth
  <2>2. ASSUME \/ run' = [run EXCEPT ![r].pc = "pages", ![r].page = 1]
               \/ run' = [run EXCEPT ![r].page = run[r].page + 1] /\ run[r].pc = "pages"
               \/ run' = [run EXCEPT ![r].pc = "call"]
        PROVE  run'[r].pc \in {"pages", "call"}
    BY <1>1, <2>2 DEF Typed, Locals
  <2> QED BY <1>3, <1>4, <1>5, <2>1, <2>2
<1>8. CASE Examine(r) \/ ExamineGz(r)
  <2>1. PICK st \in Stat : NotModified(r, st) \/ HeaderWhole(r, st) \/ HeaderPart(r, st)
    BY <1>8, ExamineCases
  <2>2. CASE NotModified(r, st)
    BY <1>1, <2>2 DEF NotModified, Typed, Locals
  <2>3. ASSUME NEW coding, NEW code, NEW range, NEW count, Header(r, st, coding, code, range, count)
        PROVE  run'[r].pc = "open"
    BY <1>1, <2>3, SMTT(30) DEF Header, Typed, Locals
  <2> QED BY <2>1, <2>2, <2>3 DEF HeaderWhole, HeaderPart
<1>9. CASE OpenFile(r)
  BY <1>1, <1>3, <1>9 DEF OpenFile, Typed, Locals
<1>10. CASE SendPlain(r)
  <2>1. run[r].pc \in {"send", "gzip"}
    BY <1>10, PlainTurn
  <2> QED BY <1>10, <2>1, PlainTurn, TurnMoves
<1>11. CASE SendGzip(r)
  <2>1. run[r].pc \in {"send", "gzip"}
    BY <1>11, GzipTurn
  <2> QED BY <1>11, <2>1, GzipTurn, TurnMoves
<1>12. CASE PropFind(r) \/ PropSend(r) \/ PropPatch(r)
  <2>1. CASE PropFind(r) \/ PropPatch(r)
    <3> DEFINE todo == {run[r].real} \cup IF run[r].real = Root THEN {o \in Path : dir[o] # None} ELSE {}
    <3>1. \/ Answer(r, 404)
          \/ run' = [run EXCEPT ![r] = [run[r] EXCEPT !.pc = "list", !.ans.code = 207, !.todo = todo]]
          \/ run' = [run EXCEPT ![r].pc = "touch"]
      BY <2>1 DEF PropFind, PropPatch
    <3> HIDE DEF todo
    <3>2. CASE run' = [run EXCEPT ![r] = [run[r] EXCEPT !.pc = "list", !.ans.code = 207, !.todo = todo]]
      <4>1. [run[r] EXCEPT !.pc = "list", !.ans.code = 207, !.todo = todo].pc = "list"
        BY <1>1 DEF Locals
      <4>2. run'[r] = [run[r] EXCEPT !.pc = "list", !.ans.code = 207, !.todo = todo]
        BY <3>2 DEF Typed
      <4> QED BY <4>1, <4>2
    <3>3. CASE run' = [run EXCEPT ![r].pc = "touch"]
      BY <1>1, <3>3 DEF Typed, Locals
    <3> QED BY <1>3, <3>1, <3>2, <3>3
  <2>2. CASE PropSend(r)
    BY <2>2, PropSendLists, ListMoves
  <2> QED BY <1>12, <2>1, <2>2
<1>13. CASE \E p \in Name : PropEntry(r, p)
  <2>1. PICK p \in Name : PropEntry(r, p)
    BY <1>13
  <2> DEFINE todo == run[r].todo \ {p}
             list == run[r].ans.list \cup {FileEmulator(p)}
  <2>2. run[r].pc = "list" /\ todo \in SUBSET Name /\ list \in SUBSET Stat /\ Lists(r, "list", todo, list)
    BY <2>1, PropEntryLists
  <2> HIDE DEF todo, list
  <2> QED BY <2>2, ListMoves
<1> QED BY <1>6, <1>7, <1>8, <1>9, <1>10, <1>11, <1>12, <1>13 DEF Quiet

LEMMA AnswerPc ==
  ASSUME Typed, NEW r \in Slot, NEW code, Answer(r, code)
  PROVE  /\ run'[r].pc = "done" /\ run'[r].ans.code = code /\ run'[r].ans.coding = run[r].ans.coding
         /\ run'[r].st = run[r].st /\ run'[r].held = run[r].held /\ run'[r].q = run[r].q
         /\ run'[r].ans.list = run[r].ans.list
<1>1. run[r] \in Locals /\ run[r].ans \in Answers
  BY DEF Typed, Locals
<1> QED BY <1>1 DEF Answer, Typed, Locals, Answers

\* A thread writes after it has opened a file to do so, and only the write ends that.
LEMMA WriterSteps ==
  ASSUME Typed, NEW x \in Slot, Does(x)
  PROVE  /\ Moves(x)
         /\ run'[x].pc = "write" => \E i \in Inode : Opened(x, i)
         /\ run[x].pc = "write" => PutWrite(x)
         /\ \A r \in Slot \ {x} : r \in torn => r \in torn'
<1>1. CASE \E q \in Requests : Begin(x, q)
  <2>1. PICK q \in Requests : Begin(x, q)
    BY <1>1
  <2> QED BY <2>1, BeginMoves DEF Begin
<1>2. CASE Quiet(x)
  BY <1>2, QuietMoves, QuietFiles, QuietPcs
<1>3. CASE Touch(x) \/ MkCol(x) \/ Delete(x)
  <2>1. run'[x].pc = "done" /\ run[x].pc # "write" /\ torn \subseteq torn'
    BY <1>3, AnswerPc DEF Touch, MkCol, Delete, Webdav, ghosts
  <2> QED BY <1>3, <2>1, TouchTyped, MkColTyped, DeleteTyped
<1>4. CASE Move(x)
  <2>1. run'[x].pc = "done"
    BY <1>4, AnswerPc, MoveCases
  <2>2. run[x].pc # "write"
    BY <1>4 DEF Move, Webdav
  <2>3. torn \subseteq torn'
    <3>1. CASE UNCHANGED torn
      BY <3>1
    <3>2. CASE \E o \in Path : Renamed(x, run[x].real, o)
      BY <3>2 DEF Renamed
    <3> QED BY <1>4, <3>1, <3>2, MoveCases
  <2> QED BY <1>4, <2>1, <2>2, <2>3, MoveTyped
<1>5. CASE PutOpen(x)
  <2>1. run[x].pc # "write"
    BY <1>5 DEF PutOpen, Webdav
  <2>2. torn \subseteq torn'
    BY <1>5, PutOpenCases DEF Opened
  <2>3. run'[x].pc = "write" => \E i \in Inode : Opened(x, i)
    <3>1. (\E i \in Inode : Opened(x, i)) \/ (\E c : Answer(x, c))
      BY <1>5, PutOpenCases
    <3> QED BY <3>1, AnswerPc
  <2> QED BY <1>5, <2>1, <2>2, <2>3, PutOpenTyped
<1>6. CASE PutWrite(x)
  <2>1. run'[x].pc = "done" /\ torn \subseteq torn'
    <3>1. PICK n \in 0..BodySize(x) : Wrote(x, n)
      BY <1>6, PutWriteCases
    <3> QED BY <3>1 DEF Wrote, Typed, Locals
  <2> QED BY <1>6, <2>1, PutWriteTyped
<1>7. CASE Reply(x)
  <2>1. Moves(x) /\ run[x].pc = "done" /\ run'[x] = Rest /\ torn' = torn \ {x}
    BY <1>7, ReplyMoves
  <2>2. Rest.pc = "idle"
    BY DEF Rest
  <2> QED BY <2>1, <2>2
<1> QED BY <1>1, <1>2, <1>3, <1>4, <1>5, <1>6, <1>7 DEF Does, Step, Quiet

\* Who is not torn by the step of another has his file, or the one that he is about to open, as it was.
Same(r) ==
  /\ run[r].pc \in {"send", "gzip", "write"} /\ run[r].fd \in Inode => data'[run[r].fd] = data[run[r].fd]
  /\ run[r].pc \in {"open", "write"} /\ dir[run[r].real] # None => dir'[run[r].real] = dir[run[r].real]
  /\ run[r].pc = "open" /\ dir[run[r].real] \in Inode => data'[dir[run[r].real]] = data[dir[run[r].real]]

LEMMA Undisturbed ==
  ASSUME Typed, NEW x \in Slot, Does(x), NEW r \in Slot \ {x}, r \notin torn'
  PROVE  r \notin torn /\ run'[r] = run[r] /\ Same(r)
<1>1. r \notin torn /\ run'[r] = run[r]
  BY WriterSteps DEF Moves
<1> SUFFICES Same(r)
  BY <1>1
<1>2. run[r].pc \in {"open", "write"} => run[r].real \in Path
  BY DEF Typed, Placed
<1>3. CASE UNCHANGED <<dir, data>>
  BY <1>1, <1>3 DEF Same
<1>4. CASE MkCol(x)
  <2>1. data' = data /\ \A p \in Path : dir[p] # None => dir'[p] = dir[p]
    BY <1>4 DEF MkCol, Typed, Files
  <2> QED BY <1>1, <1>2, <2>1 DEF Same
<1>5. ASSUME NEW i \in Inode, Opened(x, i) PROVE Same(r)
  <2>1. r \notin Tear(x, {run[x].real}, {i})
    BY <1>5 DEF Opened
  <2>2. run[r].pc \in {"open", "write"} => run[r].real # run[x].real
    BY <2>1 DEF Tear
  <2>3. run[r].pc \in {"send", "gzip", "write"} => run[r].fd # i
    BY <2>1 DEF Tear
  <2>4. run[r].pc = "open" => dir[run[r].real] # i
    BY <2>1 DEF Tear
  <2> QED BY <1>2, <1>5, <2>2, <2>3, <2>4 DEF Opened, Same, Typed, Files
<1>6. CASE PutWrite(x)
  <2>1. dir' = dir
    BY <1>6, PutWriteCases
  <2>2. PICK n \in 0..BodySize(x) : Wrote(x, n)
    BY <1>6, PutWriteCases
  <2>3. ASSUME n = 0 PROVE data' = data
    <3>1. run[x].fd \in Inode /\ data' = [data EXCEPT ![run[x].fd] = Written(x, n)]
      BY <2>2 DEF Wrote
    <3>2. Written(x, n) = data[run[x].fd]
      BY <2>2, <2>3, WrittenType DEF Wrote
    <3> QED BY <3>1, <3>2 DEF Typed, Files
  <2>4. ASSUME n # 0 PROVE r \notin Tear(x, {run[x].real}, {run[x].fd})
    <3>1. n > 0
      BY <2>4, WrittenType, <2>2 DEF Wrote
    <3> QED BY <2>2, <3>1 DEF Wrote
  <2>5. ASSUME n # 0 PROVE Same(r)
    <3>1. run[r].pc \in {"send", "gzip", "write"} => run[r].fd # run[x].fd
      BY <2>4, <2>5 DEF Tear
    <3>2. run[r].pc = "open" => dir[run[r].real] # run[x].fd
      BY <2>4, <2>5 DEF Tear
    <3> QED BY <2>1, <2>2, <3>1, <3>2 DEF Wrote, Same, Typed, Files
  <2> QED BY <2>1, <2>3, <2>5 DEF Same
<1>7. CASE Delete(x)
  <2>1. data' = data /\ r \notin Tear(x, {run[x].real}, {}) /\ dir' = [dir EXCEPT ![run[x].real] = None]
    BY <1>7 DEF Delete
  <2>2. run[r].pc \in {"open", "write"} => run[r].real # run[x].real
    BY <2>1 DEF Tear
  <2> QED BY <1>2, <2>1, <2>2 DEF Same, Typed, Files
<1>8. ASSUME NEW o \in Path, Renamed(x, run[x].real, o), data' = data PROVE Same(r)
  <2>1. run[r].pc \in {"open", "write"} => run[r].real \notin {run[x].real, o}
    BY <1>8 DEF Renamed, Tear
  <2> QED BY <1>2, <1>8, <2>1 DEF Renamed, Same, Typed, Files
<1>9. UNCHANGED <<dir, data>> \/ MkCol(x) \/ PutOpen(x) \/ PutWrite(x) \/ Delete(x) \/ Move(x)
  BY QuietFiles, ReplyMoves DEF Does, Step, Quiet, Begin, Touch, Reply, files
<1> QED BY <1>1, <1>3, <1>4, <1>5, <1>6, <1>7, <1>8, <1>9, PutOpenCases, MoveCases

----------------------------------------------------------------------------
(* Stored *)

\* A writer whom nobody has disturbed writes to the file of its name, which is empty still.
Own(r) == run[r].pc = "write" /\ r \notin torn => dir[run[r].real] = run[r].fd /\ data[run[r].fd] = <<>>
Owned == \A r \in Slot : Own(r)

LEMMA InitOwned == Init => Owned
BY DEF Init, Owned, Own, Rest

LEMMA StepOwned == Typed /\ Owned /\ [Next]_vars => Owned'
<1> SUFFICES ASSUME Typed, Owned, [Next]_vars PROVE Owned'
  OBVIOUS
<1>1. CASE Tick \/ UNCHANGED vars
  BY <1>1 DEF Tick, vars, Owned, Own, files, ghosts
<1>2. ASSUME NEW x \in Slot, Does(x) PROVE Owned'
  <2>1. ASSUME NEW r \in Slot \ {x} PROVE Own(r)'
    <3> SUFFICES ASSUME run'[r].pc = "write", r \notin torn' PROVE Own(r)'
      BY DEF Own
    <3>1. r \notin torn /\ run'[r] = run[r] /\ Same(r)
      BY <1>2, <2>1, Undisturbed
    <3>2. run[r].fd \in Inode /\ dir[run[r].real] = run[r].fd /\ data[run[r].fd] = <<>>
      BY <3>1 DEF Owned, Own, Typed, Placed
    <3> QED BY <3>1, <3>2, Constants DEF Own, Same
  <2>2. Own(x)'
    <3> SUFFICES ASSUME run'[x].pc = "write" PROVE Own(x)'
      BY DEF Own
    <3>1. PICK i \in Inode : Opened(x, i)
      BY <1>2, WriterSteps
    <3> QED BY <3>1 DEF Opened, Own, Typed, Files
  <2> QED BY <2>1, <2>2 DEF Owned
<1> QED BY <1>1, <1>2 DEF Next, Does

\* A PUT that is answered 201 and has written all that it was given has left its body in the file of its
\* name, and behind it only what its client had pipelined, unless another request changed the file between
\* its open and its write.
THEOREM BodyStored == Spec => Stored
<1> DEFINE Leaves(r) ==
      LET q == run[r].q  file == data'[run[r].fd] IN
        /\ SubSeq(file, 1, q.size) = [n \in 1..q.size |-> <<run[r].no, n>>] /\ Len(file) = q.size + q.over
        /\ dir'[run[r].real] = run[r].fd
<1>1. Typed /\ Owned /\ [Next]_vars =>
        \A r \in Slot : run[r].pc = "write" /\ run'[r].pc = "done" /\ run'[r].left = 0 /\ r \notin torn => Leaves(r)
  <2> SUFFICES ASSUME Typed, Owned, [Next]_vars, NEW r \in Slot,
                      run[r].pc = "write", run'[r].pc = "done", run'[r].left = 0, r \notin torn
               PROVE  Leaves(r)
    OBVIOUS
  <2> HIDE DEF Leaves
  <2>1. PutWrite(r)
    <3>1. run' # run
      OBVIOUS
    <3>2. PICK x \in Slot : Does(x)
      BY <3>1 DEF Next, Does, Tick, vars
    <3>3. x = r
      BY <3>2, WriterSteps DEF Moves
    <3> QED BY <3>2, <3>3, WriterSteps
  <2>2. dir' = dir
    BY <2>1 DEF PutWrite
  <2>3. PICK n \in 0..BodySize(r) : Wrote(r, n)
    BY <2>1, PutWriteCases
  <2>4. /\ run[r].fd \in Inode /\ BodySize(r) \in Nat
        /\ Body(r) \in Seq(Byte) /\ Len(Body(r)) = BodySize(r)
        /\ data[run[r].fd] = <<>> => Written(r, n) = SubSeq(Body(r), 1, n)
    BY WrittenType
  <2>5. n = BodySize(r)
    BY <2>3, <2>4 DEF Wrote
  <2>6. SubSeq(Body(r), 1, n) = Body(r)
    BY <2>4, <2>5, SubSeqFull
  <2>7. dir[run[r].real] = run[r].fd /\ data[run[r].fd] = <<>>
    BY DEF Owned, Own
  <2>8. data'[run[r].fd] = Written(r, n)
    BY <2>3, <2>4 DEF Wrote, Typed, Files
  <2>9. data'[run[r].fd] = Body(r)
    BY <2>4, <2>6, <2>7, <2>8
  <2> DEFINE size == run[r].q.size
             own == [m \in 1..size |-> <<run[r].no, m>>]
  <2>10. size \in Nat /\ size \in 0..BodySize(r) /\ run[r].no \in Nat /\ BodySize(r) = size + run[r].q.over
    <3>1. run[r] \in Locals /\ run[r].q \in Requests
      BY DEF Typed, Placed
    <3> QED BY <3>1, RequestType, BodySizeType DEF Locals, BodySize
  <2>11. SubSeq(Body(r), 1, size) = own
    <3>1. ASSUME NEW m \in 1..size PROVE own[m] = Body(r)[m] /\ m \in 1..Len(Body(r))
      <4>1. m \in 1..BodySize(r)
        BY <2>4, <2>10
      <4>2. Body(r)[m] = <<run[r].no, m>>
        BY <4>1 DEF Body
      <4>3. own[m] = <<run[r].no, m>>
        OBVIOUS
      <4> QED BY <2>4, <4>1, <4>2, <4>3
    <3>2. own \in Seq(Byte) /\ Len(own) = size
      <4>1. \A m \in 1..size : <<run[r].no, m>> \in Byte
        <5> SUFFICES ASSUME NEW m \in 1..size PROVE <<run[r].no, m>> \in Byte
          OBVIOUS
        <5>1. own[m] = <<run[r].no, m>>
          OBVIOUS
        <5> HIDE DEF own
        <5> QED BY <2>4, <3>1, <5>1, ElementOfSeq
      <4> QED BY <2>10, <4>1
    <3> HIDE DEF own, size
    <3> QED BY <2>4, <2>10, <3>1, <3>2, PrefixIs
  <2>12. Len(data'[run[r].fd]) = size + run[r].q.over
    BY <2>4, <2>9, <2>10
  <2> HIDE DEF size
  <2> QED BY <2>2, <2>7, <2>9, <2>11, <2>12 DEF Leaves, size
<1>2. Typed /\ Owned /\ [Next]_vars =>
        [\A r \in Slot : run[r].pc = "write" /\ run'[r].pc = "done" /\ run'[r].left = 0 /\ r \notin torn => Leaves(r)]_vars
  BY <1>1
<1>3. Spec => [](Typed /\ Owned)
  BY InitTyped, StepTyped, InitOwned, StepOwned, PTL DEF Spec
<1> QED BY <1>2, <1>3, PTL DEF Spec, Stored

----------------------------------------------------------------------------
(* Delivered *)

\* A file is about to be sent, is being sent, or has been.
Answering(r) ==
  \/ run[r].pc \in {"open", "send", "gzip"}
  \/ run[r].pc = "done" /\ run[r].ans.code \in {200, 206} /\ run[r].ans.coding # "none"

\* Nobody but static and gzstatic gives an answer a coding.
Coded(r) == LET pc == run[r].pc  a == run[r].ans IN
  /\ pc \notin {"open", "send", "gzip", "done"} => a.coding = "none"
  /\ pc \in {"open", "send", "gzip"} => a.code \in {200, 206} /\ a.coding \in {"plain", "gzip"}
  /\ pc = "send" => a.coding = "plain"
  /\ pc = "gzip" => a.coding = "gzip"

\* What the header says.
Header200(a, b) == a.first = 0 /\ a.last = Len(b) - 1
Header206(a, b, range) ==
  \E i \in DOMAIN range :
    LET e == RangeOf(range[i], Len(b)) IN a.first = e[1] /\ a.last = Min({e[2], Len(b) - 1})
Headers(r) == LET a == run[r].ans  b == run[r].st.bytes IN
  /\ a.coding = "plain" => a.length = a.last + 1 - a.first
  /\ a.coding = "gzip" => a.code = 200 /\ a.length = -1 /\ Len(b) > 0
  /\ a.code = 200 => Header200(a, b)
  /\ a.code = 206 => Header206(a, b, run[r].q.range)

\* How far the file has been read, whoever writes to it.
Counts(r) == LET a == run[r].ans IN
  /\ run[r].pos = a.first + Len(a.sent) /\ run[r].left = a.last + 1 - run[r].pos
  /\ a.coding = "plain" => a.sent = <<>> \/ run[r].left >= 0

\* The bytes that are announced are there.
InRange(r) == LET a == run[r].ans IN 0 <= a.first /\ a.first <= a.last + 1 /\ a.last + 1 <= Len(run[r].st.bytes)

\* Whom nobody has disturbed reads the file of his stat, ...
Reads(r) ==
  /\ run[r].pc = "open" => dir[run[r].real] \in Inode /\ data[dir[run[r].real]] = run[r].st.bytes
  /\ run[r].pc \in {"send", "gzip"} => run[r].fd \in Inode /\ data[run[r].fd] = run[r].st.bytes

\* ... from the first byte to the last, and block by block if they are compressed.
Sent(r) == LET a == run[r].ans  b == run[r].st.bytes IN
  /\ run[r].pos <= a.last + 1 /\ a.sent = SubSeq(b, a.first + 1, run[r].pos)
  /\ run[r].pc = "done" => run[r].pos = a.last + 1
  /\ a.coding = "gzip" => IF run[r].pc = "done" THEN a.ended <=> Len(b) % Block # 0
                          ELSE run[r].pos <= a.last /\ run[r].pos % Block = 0

Sends(r) ==
  /\ Coded(r)
  /\ Answering(r) => Headers(r) /\ Counts(r)
  /\ r \notin torn => Reads(r)
  /\ r \notin torn /\ Answering(r) /\ InRange(r) => Sent(r)
Sending == \A r \in Slot : Sends(r)

\* The header of an answer is about what the stat has found.
Headed(r, st) == LET a == run'[r].ans IN
  /\ run'[r].pc = "open" /\ run'[r].st = st /\ a.sent = <<>> /\ a.list = {} /\ a.coding \in {"plain", "gzip"}
  /\ run'[r].pos = a.first /\ run'[r].left = a.last + 1 - a.first
  /\ a.first \in Int /\ a.last \in Int
  /\ run'[r].q = run[r].q /\ run'[r].held = run[r].held /\ run'[r].real = run[r].real
  /\ Headers(r)'

LEMMA ExamineSteps ==
  ASSUME Typed, NEW r \in Slot, Examine(r) \/ ExamineGz(r)
  PROVE  \E st \in Stat :
           /\ Found(r, st)
           /\ \/ Matched(r, st.tag) /\ NotModified(r, st)
              \/ Headed(r, st) /\ run'[r].ans.code = 200
              \/ Headed(r, st) /\ run'[r].ans.code = 206 /\ RangeValid(r, st.tag)
<1>1. /\ run[r].fd = None /\ run[r].q \in Requests
  BY DEF Examine, ExamineGz, Typed, Placed
<1>2. PICK st \in Stat :
        /\ Found(r, st)
        /\ \/ Matched(r, st.tag) /\ NotModified(r, st)
           \/ HeaderWhole(r, st)
           \/ RangeValid(r, st.tag) /\ HeaderPart(r, st)
  BY ExamineCases
<1> DEFINE size == Len(st.bytes)
<1>3. size \in Nat /\ run[r].real \in Path
  BY <1>2 DEF Stat, Found
<1>4. ASSUME HeaderWhole(r, st) PROVE Headed(r, st) /\ run'[r].ans.code = 200
  <2>1. PICK coding \in {"plain", "gzip"} :
          Header(r, st, coding, 200, <<0, size - 1>>, size) /\ (coding = "gzip" => size > 0)
    BY <1>4 DEF HeaderWhole
  <2>2. 0 \in Int /\ size - 1 \in Int /\ size \in Int /\ 200 \in Nat /\ size = size - 1 + 1 - 0 /\ 200 # 206
    BY <1>3
  <2> HIDE DEF size
  <2>3. CASE coding = "plain"
    <3>1. Begun(r, st, coding, 200, 0, size - 1, size)
      BY <1>1, <1>3, <2>1, <2>2, <2>3, HeaderMoves
    <3> QED BY <2>2, <2>3, <3>1 DEF Begun, Headed, Headers, Header200, size
  <2>4. CASE coding = "gzip"
    <3>1. Begun(r, st, coding, 200, 0, size - 1, size)
      BY <1>1, <1>3, <2>1, <2>2, <2>4, HeaderMoves
    <3> QED BY <2>1, <2>2, <2>4, <3>1 DEF Begun, Headed, Headers, Header200, size
  <2> QED BY <2>3, <2>4
<1>5. ASSUME HeaderPart(r, st) PROVE Headed(r, st) /\ run'[r].ans.code = 206
  <2>1. PICK i \in DOMAIN run[r].q.range :
          LET e == RangeOf(run[r].q.range[i], size) IN
            Header(r, st, "plain", 206, <<e[1], Min({e[2], size - 1})>>, Min({e[2] + 1, size}) - e[1])
    BY <1>5 DEF HeaderPart
  <2> DEFINE e == RangeOf(run[r].q.range[i], size)
             last == Min({e[2], size - 1})
             count == Min({e[2] + 1, size}) - e[1]
  <2>2. e[1] \in Int /\ e[2] \in Int
    BY <1>1, <1>3, RangeType
  <2> HIDE DEF size, e
  <2>3. last \in Int /\ count \in Int /\ count = last + 1 - e[1]
    <3>1. size - 1 \in Int /\ e[2] + 1 \in Int /\ size \in Int
      BY <1>3, <2>2
    <3>2. last = (IF e[2] <= size - 1 THEN e[2] ELSE size - 1)
      BY <2>2, <3>1, MinPair
    <3>3. Min({e[2] + 1, size}) = (IF e[2] + 1 <= size THEN e[2] + 1 ELSE size)
      BY <2>2, <3>1, MinPair
    <3> QED BY <1>3, <2>2, <3>2, <3>3
  <2>4. Header(r, st, "plain", 206, <<e[1], last>>, count)
    BY <2>1 DEF e
  <2>5. last = Min({e[2], size - 1})
    OBVIOUS
  <2> HIDE DEF last, count
  <2>6. Begun(r, st, "plain", 206, e[1], last, count)
    BY <1>1, <1>3, <2>2, <2>3, <2>4, HeaderMoves
  <2>7. run'[r].ans.first = e[1] /\ run'[r].ans.last = last
    BY <2>6 DEF Begun
  <2>8. /\ e = RangeOf(run[r].q.range[i], Len(st.bytes)) /\ size = Len(st.bytes)
        /\ i \in DOMAIN run[r].q.range
    BY <2>1 DEF e, size
  <2> HIDE DEF Begun
  <2>9. Header206(run'[r].ans, st.bytes, run[r].q.range)
    BY <2>5, <2>7, <2>8 DEF Header206
  <2> QED BY <2>2, <2>3, <2>6, <2>9 DEF Begun, Headed, Headers
<1> QED BY <1>2, <1>4, <1>5

\* Every other step is no business of a file that is sent.
Serves(r) == Examine(r) \/ ExamineGz(r) \/ OpenFile(r) \/ SendPlain(r) \/ SendGzip(r)

LEMMA OtherSteps ==
  ASSUME Typed, NEW r \in Slot, Does(r), ~Serves(r)
  PROVE  /\ run[r].pc \notin {"open", "send", "gzip"} /\ run'[r].pc \notin {"open", "send", "gzip"}
         /\ \/ /\ run'[r].ans = NoAnswer /\ run'[r].st = NoFile
               /\ run'[r].held = NoFile \/ \E u \in Urls : run'[r].held = copy[u]
            \/ /\ run[r].pc \notin {"done", "idle"} /\ run'[r].ans.coding = run[r].ans.coding
               /\ run'[r].ans.code \notin {206, 304} \/ run'[r].ans.code = run[r].ans.code
               /\ run'[r].st = run[r].st /\ run'[r].held = run[r].held /\ run'[r].q = run[r].q
               /\ \/ run'[r].ans.list = run[r].ans.list
                  \/ (\E p \in Name : PropEntry(r, p)) \/ PropSend(r)
<1> DEFINE Hold == /\ run[r].pc \notin {"open", "send", "gzip"} /\ run'[r].pc \notin {"open", "send", "gzip"}
                   /\ run[r].pc \notin {"done", "idle"} /\ run'[r].ans.coding = run[r].ans.coding
                   /\ run'[r].ans.code \notin {206, 304} \/ run'[r].ans.code = run[r].ans.code
                   /\ run'[r].st = run[r].st /\ run'[r].held = run[r].held /\ run'[r].q = run[r].q
                   /\ \/ run'[r].ans.list = run[r].ans.list
                      \/ (\E p \in Name : PropEntry(r, p)) \/ PropSend(r)
<1>1. run[r] \in Locals /\ run[r].ans \in Answers
  BY DEF Typed, Locals
<1>2. CASE \E q \in Requests : Begin(r, q)
  <2>1. PICK q \in Requests : Begin(r, q)
    BY <1>2
  <2>2. q.url \in Urls
    BY DEF Urls
  <2> QED BY <2>1, <2>2, BeginMoves
<1>3. CASE Reply(r)
  <2>1. run'[r] = Rest /\ run[r].pc = "done"
    BY <1>3, ReplyMoves
  <2> QED BY <2>1 DEF Rest
<1>4. ASSUME run[r].pc \in {"locate", "pages", "auth", "call", "touch"},
             \/ \E code \in {404, 401, 500, 200, 201, 205, 403} : Answer(r, code)
             \/ NextSelector(r)
             \/ \E p : Call(r, p)
      PROVE  Hold
  <2>1. CASE \E code \in {404, 401, 500, 200, 201, 205, 403} : Answer(r, code)
    BY <1>4, <2>1, AnswerPc
  <2>2. CASE NextSelector(r)
    BY <1>1, <1>4, <2>2 DEF NextSelector, Typed, Locals
  <2>3. CASE \E p : Call(r, p)
    <3>1. PICK p : Call(r, p)
      BY <2>3
    <3> DEFINE c == IF Selector(r).auth THEN "auth" ELSE "call"
    <3>2. run' = [run EXCEPT ![r].pc = c, ![r].real = p] /\ c \notin {"open", "send", "gzip"}
      BY <3>1 DEF Call
    <3> HIDE DEF c
    <3> QED BY <1>1, <1>4, <3>2 DEF Typed, Locals
  <2> QED BY <1>4, <2>1, <2>2, <2>3
<1>5. CASE Pass(r) \/ Skip(r) \/ Gone(r) \/ Options(r) \/ Other(r)
  <2>1. run[r].pc \in {"locate", "call"} /\ (Answer(r, 404) \/ Answer(r, 200) \/ NextSelector(r))
    BY <1>5 DEF Pass, Skip, Gone, Options, Other, Webdav
  <2> QED BY <1>4, <2>1
<1>6. CASE Locate(r) \/ TryPage(r) \/ Auth(r)
  <2>1. CASE \/ Answer(r, 401) \/ Answer(r, 500)
             \/ NextSelector(r)
             \/ \E p : Call(r, p)
    <3>1. run[r].pc \in {"locate", "pages", "auth", "call", "touch"}
      BY <1>6 DEF Locate, TryPage, Auth
    <3> QED BY <1>4, <2>1, <3>1
  <2>2. CASE ~(\/ Answer(r, 401) \/ Answer(r, 500)
               \/ NextSelector(r)
               \/ \E p : Call(r, p))
    <3>1. /\ run[r].pc \in {"locate", "pages", "auth"} /\ run'[r].pc \in {"pages", "call"} /\ run'[r].ans = run[r].ans
          /\ run'[r].st = run[r].st /\ run'[r].held = run[r].held /\ run'[r].q = run[r].q
      BY <1>1, <1>6, <2>2 DEF Locate, TryPage, Auth, Typed, Locals
    <3> QED BY <3>1
  <2> QED BY <2>1, <2>2
<1>7. CASE PropFind(r) \/ PropPatch(r)
  <2>1. run[r].pc = "call"
    BY <1>7 DEF PropFind, PropPatch, Webdav
  <2>2. CASE Answer(r, 404)
    BY <1>4, <2>1, <2>2
  <2>3. CASE ~Answer(r, 404)
    <3>1. /\ run'[r].pc \in {"list", "touch"} /\ run'[r].ans.code \in {207, run[r].ans.code}
          /\ run'[r].ans.coding = run[r].ans.coding /\ run'[r].ans.list = run[r].ans.list
          /\ run'[r].st = run[r].st /\ run'[r].held = run[r].held /\ run'[r].q = run[r].q
      <4>1. CASE PropPatch(r)
        BY <1>1, <2>3, <4>1 DEF PropPatch, Typed, Locals
      <4>2. CASE PropFind(r)
        <5> DEFINE todo == {run[r].real} \cup IF run[r].real = Root THEN {o \in Path : dir[o] # None} ELSE {}
        <5>1. run' = [run EXCEPT ![r] = [run[r] EXCEPT !.pc = "list", !.ans.code = 207, !.todo = todo]]
          BY <2>3, <4>2 DEF PropFind
        <5> HIDE DEF todo
        <5> QED BY <1>1, <5>1 DEF Typed, Locals, Answers
      <4> QED BY <1>7, <4>1, <4>2
    <3> QED BY <2>1, <3>1
  <2> QED BY <2>2, <2>3
<1>8. CASE \E p \in Name : PropEntry(r, p)
  <2>1. PICK p \in Name : PropEntry(r, p)
    BY <1>8
  <2>2. /\ run[r].pc = "list" /\ run'[r].pc = "list" /\ run'[r].ans.code = run[r].ans.code
        /\ run'[r].ans.coding = run[r].ans.coding
        /\ run'[r].q = run[r].q /\ run'[r].held = run[r].held /\ run'[r].st = run[r].st
    <3>1. PICK todo \in SUBSET Name, list \in SUBSET Stat : run[r].pc = "list" /\ Lists(r, "list", todo, list)
      BY <2>1, PropEntryLists
    <3> QED BY <3>1, ListMoves
  <2> QED BY <1>8, <2>2
<1>9. CASE PropSend(r)
  <2>1. /\ run[r].pc = "list" /\ run'[r].pc = "done" /\ run'[r].ans.code = run[r].ans.code
        /\ run'[r].ans.coding = run[r].ans.coding
        /\ run'[r].q = run[r].q /\ run'[r].held = run[r].held /\ run'[r].st = run[r].st
    <3>1. PICK todo \in SUBSET Name, list \in SUBSET Stat : run[r].pc = "list" /\ Lists(r, "done", todo, list)
      BY <1>9, PropSendLists
    <3> QED BY <3>1, ListMoves
  <2> QED BY <1>9, <2>1
<1>10. CASE Touch(r) \/ MkCol(r) \/ Delete(r) \/ Move(r)
  <2>1. run[r].pc \in {"call", "touch"}
    BY <1>10 DEF Touch, MkCol, Delete, Move, Webdav
  <2>2. \E code \in {404, 200, 201, 500, 403, 205} : Answer(r, code)
    <3>1. CASE Touch(r)
      BY <3>1 DEF Touch
    <3>2. CASE MkCol(r)
      BY <3>2 DEF MkCol
    <3>3. CASE Delete(r)
      BY <3>3 DEF Delete
    <3>4. CASE Move(r)
      BY <3>4, MoveCases
    <3> QED BY <1>10, <3>1, <3>2, <3>3, <3>4
  <2> QED BY <1>4, <2>1, <2>2
<1>11. CASE PutOpen(r)
  <2>1. run[r].pc = "call"
    BY <1>11 DEF PutOpen, Webdav
  <2>2. ASSUME NEW i \in Inode, Opened(r, i) PROVE Hold
    BY <1>1, <2>1, <2>2 DEF Opened, Typed, Locals
  <2> QED BY <1>4, <1>11, <2>1, <2>2, PutOpenCases
<1>12. CASE PutWrite(r)
  <2>1. PICK n \in 0..BodySize(r) : Wrote(r, n)
    BY <1>12, PutWriteCases
  <2>2. run'[r].ans.list = run[r].ans.list
    BY <1>1, <2>1 DEF Wrote, Answers
  <2> QED BY <2>1, <2>2 DEF Wrote
<1> QED BY <1>2, <1>3, <1>5, <1>6, <1>7, <1>8, <1>9, <1>10, <1>11, <1>12 DEF Does, Step, Serves

\* A file is opened, or is gone.
LEMMA OpenSteps ==
  ASSUME Typed, NEW r \in Slot, OpenFile(r)
  PROVE  /\ run[r].pc = "open" /\ run[r].real \in Path
         /\ run'[r].st = run[r].st /\ run'[r].held = run[r].held /\ run'[r].q = run[r].q /\ run'[r].real = run[r].real
         /\ \/ /\ dir[run[r].real] = None /\ run'[r].pc = "done" /\ run'[r].ans.code \in {403, 500}
               /\ run'[r].ans.list = run[r].ans.list
            \/ /\ dir[run[r].real] # None /\ run'[r].fd = dir[run[r].real] /\ run'[r].ans = run[r].ans
               /\ run'[r].pc = (IF run[r].ans.coding = "gzip" THEN "gzip" ELSE "send")
               /\ run'[r].pos = run[r].pos /\ run'[r].left = run[r].left
<1>1. run[r] \in Locals /\ run[r].ans \in Answers /\ run[r].pc = "open" /\ run[r].real \in Path
  BY DEF OpenFile, Typed, Locals, Placed
<1> DEFINE i == dir[run[r].real]
           c == IF run[r].ans.coding = "gzip" THEN "gzip" ELSE "send"
<1>2. CASE i = None /\ (Answer(r, 500) \/ Answer(r, 403))
  <2>1. ASSUME NEW code \in {500, 403}, Answer(r, code) PROVE run'[r].real = run[r].real
    BY <1>1, <2>1 DEF Answer, Typed, Locals
  <2> QED BY <1>1, <1>2, <2>1, AnswerPc
<1>3. CASE i # None /\ run' = [run EXCEPT ![r].fd = i, ![r].pc = c]
  <2> HIDE DEF c
  <2>1. /\ run'[r].fd = i /\ run'[r].pc = c /\ run'[r].ans = run[r].ans /\ run'[r].pos = run[r].pos
        /\ run'[r].left = run[r].left /\ run'[r].st = run[r].st /\ run'[r].held = run[r].held /\ run'[r].q = run[r].q
        /\ run'[r].real = run[r].real
    BY <1>1, <1>3 DEF Typed, Locals
  <2> QED BY <1>1, <1>3, <2>1 DEF c
<1> QED BY <1>2, <1>3 DEF OpenFile

\* One block further, and a part of a block further.
LEMMA BlockEnd ==
  ASSUME NEW n \in Nat \ {0}, NEW p \in Nat, p % n = 0, NEW k \in 0..n
  PROVE  (k = n => (p + k) % n = 0) /\ (k # n => (p + k) % n = k)
<1>1. PICK m \in Nat : p = m * n
  OBVIOUS
<1>2. \A j \in Nat, i \in 0..(n - 1) : (j * n + i) % n = i
  OBVIOUS
<1>3. CASE k = n
  <2>1. p + k = (m + 1) * n + 0 /\ m + 1 \in Nat /\ 0 \in 0..(n - 1)
    BY <1>1, <1>3
  <2>2. ((m + 1) * n + 0) % n = 0
    BY <1>2, <2>1
  <2> QED BY <1>3, <2>1, <2>2
<1>4. CASE k # n
  <2>1. k \in 0..(n - 1)
    BY <1>4
  <2> QED BY <1>1, <1>2, <1>4, <2>1
<1> QED BY <1>3, <1>4

\* The types of what a thread sends.
LEMMA SendType ==
  ASSUME Typed, NEW r \in Slot
  PROVE  /\ run[r].pos \in Int /\ run[r].left \in Int /\ run[r].ans.first \in Int /\ run[r].ans.last \in Int
         /\ run[r].ans.length \in Int /\ run[r].ans.sent \in Seq(Byte) /\ Len(run[r].ans.sent) \in Nat
         /\ run[r].st.bytes \in Seq(Byte) /\ Len(run[r].st.bytes) \in Nat /\ run[r].ans.ended \in BOOLEAN
<1>1. run[r].ans.sent \in Seq(Byte) /\ run[r].st.bytes \in Seq(Byte)
  BY DEF Typed, Locals, Answers, Stat
<1>2. Len(run[r].ans.sent) \in Nat /\ Len(run[r].st.bytes) \in Nat
  BY <1>1
<1> QED BY <1>1, <1>2 DEF Typed, Locals, Answers

\* What has been sent of a file, and what is read next.
LEMMA SentMore ==
  ASSUME NEW b \in Seq(Byte), NEW first \in Nat, NEW pos \in Nat, NEW m \in Nat,
         first <= pos, pos <= m, m <= Len(b)
  PROVE  SubSeq(b, first + 1, pos) \o SubSeq(b, pos + 1, m) = SubSeq(b, first + 1, m)
<1>1. Len(b) \in Nat
  OBVIOUS
<1>2. first + 1 \in 1..(Len(b) + 1) /\ pos \in (first + 1 - 1)..Len(b) /\ m \in pos..Len(b)
  BY <1>1
<1> QED BY <1>2, ConcatAdjacentSubSeq

\* A turn sends what is announced, as far as it gets.
LEMMA PlainSends ==
  ASSUME Typed, NEW r \in Slot, Sends(r), SendPlain(r)
  PROVE  Sends(r)'
<1> DEFINE got == PlainGot(r)
           want == Min({Buf, run[r].left})
           stop == PlainStop(r)
           b == run[r].st.bytes
           a == run[r].ans
           left == run[r].left
           pos == run[r].pos
<1>1. /\ run[r].pc = "send" /\ got \in Seq(Byte) /\ stop \in BOOLEAN /\ Turn(r, got, stop, a.ended) /\ a.ended \in BOOLEAN
      /\ UNCHANGED <<dir, data, torn>>
  BY PlainTurn DEF SendPlain, files, ghosts
<1>2. /\ run'[r].pc = (IF stop THEN "done" ELSE "send") /\ run'[r].fd = (IF stop THEN None ELSE run[r].fd)
      /\ run'[r].left = left - Len(got) /\ run'[r].pos = pos + Len(got) /\ run'[r].ans.sent = a.sent \o got
      /\ run'[r].q = run[r].q /\ run'[r].st = run[r].st /\ run'[r].ans.code = a.code /\ run'[r].ans.coding = a.coding
      /\ run'[r].ans.length = a.length /\ run'[r].ans.first = a.first /\ run'[r].ans.last = a.last
  <2> HIDE DEF got, stop
  <2> QED BY <1>1, TurnMoves, SMTT(30)
<1>3. /\ Answering(r) /\ a.coding = "plain" /\ a.code \in {200, 206} /\ Headers(r) /\ Counts(r)
      /\ pos \in Int /\ left \in Int /\ a.first \in Int /\ a.last \in Int /\ a.sent \in Seq(Byte) /\ Len(a.sent) \in Nat
      /\ b \in Seq(Byte) /\ Len(b) \in Nat /\ Len(got) \in Nat /\ Buf \in Nat \ {0}
  BY <1>1, SendType, Constants DEF Sends, Answering, Coded
<1>4. want = (IF Buf <= left THEN Buf ELSE left) /\ want \in Int
  <2> HIDE DEF left
  <2>1. Buf \in Int /\ left \in Int
    BY <1>3
  <2>2. Min({Buf, left}) = IF Buf <= left THEN Buf ELSE left
    BY ONLY <2>1, MinPair
  <2>3. want = Min({Buf, left})
    BY DEF want, left
  <2> HIDE DEF want
  <2> QED BY ONLY <2>1, <2>2, <2>3
<1>5. /\ want > 0 => got = Got(r, want) /\ Len(got) <= want
      /\ ~(want > 0) => got = <<>> /\ Len(got) = 0
  <2> HIDE DEF want
  <2>1. want > 0 => want \in Nat /\ got = Got(r, want)
    BY <1>4 DEF PlainGot, want
  <2>2. want > 0 => Len(Got(r, want)) \in 0..want
    BY <1>1, <2>1, GotPart
  <2>3. ~(want > 0) => got = <<>>
    BY DEF PlainGot, want
  <2> QED BY <1>4, <2>1, <2>2, <2>3
<1>6. Coded(r)' /\ Headers(r)'
  <2>1. Coded(r)'
    BY <1>2, <1>3 DEF Coded
  <2>2. Headers(r)'
    <3>1. a.code = 200 => Header200(run'[r].ans, b)
      BY <1>2, <1>3 DEF Headers, Header200
    <3>2. ASSUME a.code = 206 PROVE Header206(run'[r].ans, b, run[r].q.range)
      <4>1. Header206(a, b, run[r].q.range)
        BY <1>3, <3>2 DEF Headers
      <4>2. run'[r].ans.first = a.first /\ run'[r].ans.last = a.last
        BY <1>2
      <4> HIDE DEF a, b
      <4> QED BY <4>1, <4>2 DEF Header206
    <3>3. a.length = a.last + 1 - a.first
      BY <1>3 DEF Headers
    <3>4. /\ run'[r].ans.coding = "plain" /\ run'[r].ans.code = a.code /\ run'[r].q = run[r].q /\ run'[r].st = run[r].st
          /\ run'[r].ans.length = a.length /\ run'[r].ans.first = a.first /\ run'[r].ans.last = a.last
      BY <1>2, <1>3
    <3> QED BY <3>1, <3>2, <3>3, <3>4 DEF Headers
  <2> QED BY <2>1, <2>2
<1> DEFINE first == a.first
           end == a.last + 1
           n == Len(a.sent)
           size == Len(b)
           k == Len(got)
<1>7. Len(a.sent \o got) = n + k /\ (a.sent \o got = <<>> <=> a.sent = <<>> /\ got = <<>>) /\ (got = <<>> => k = 0)
  BY <1>1, <1>3
<1>8. /\ first \in Int /\ end \in Int /\ n \in Nat /\ size \in Nat /\ k \in Nat /\ left \in Int /\ pos \in Int
      /\ pos = first + n /\ left = end - pos /\ want \in Int /\ want = (IF Buf <= left THEN Buf ELSE left)
      /\ (a.sent = <<>> \/ left >= 0)
  <2>1. first \in Int /\ end \in Int /\ n \in Nat /\ size \in Nat /\ k \in Nat /\ left \in Int /\ pos \in Int
    BY <1>3
  <2>2. pos = first + n /\ left = end - pos /\ (a.sent = <<>> \/ left >= 0)
    BY <1>3 DEF Counts
  <2> QED BY <1>4, <2>1, <2>2
<1>9. run'[r].left = left - k /\ run'[r].pos = pos + k /\ (want > 0 => k <= want)
  BY <1>2, <1>5
<1>10. Counts(r)'
  <2>1. pos + k = first + (n + k) /\ left - k = end - (pos + k) /\ (want > 0 => left - k >= 0)
    <3> HIDE DEF first, end, n, size, k, left, pos, want
    <3> QED BY <1>8, <1>9, Constants
  <2>2. a.sent \o got = <<>> \/ left - k >= 0
    <3>1. got = <<>> => left - k = left
      <4> HIDE DEF k, left, got
      <4> QED BY <1>7, <1>8
    <3>2. got # <<>> => want > 0
      BY <1>5
    <3> HIDE DEF got, k, left, want
    <3> QED BY <1>7, <1>8, <2>1, <3>1, <3>2
  <2>3. /\ run'[r].pos = run'[r].ans.first + Len(run'[r].ans.sent) /\ run'[r].left = run'[r].ans.last + 1 - run'[r].pos
        /\ run'[r].ans.sent = <<>> \/ run'[r].left >= 0
    <3>1. run'[r].ans.first = first /\ run'[r].ans.last + 1 = end /\ run'[r].ans.sent = a.sent \o got
      BY <1>2
    <3>2. run'[r].pos = run'[r].ans.first + Len(run'[r].ans.sent)
      BY <1>7, <1>9, <2>1, <3>1
    <3>3. run'[r].left = run'[r].ans.last + 1 - run'[r].pos
      <4>1. run'[r].left = end - run'[r].pos
        BY <1>9, <2>1
      <4>2. run'[r].ans.last = a.last
        BY <1>2
      <4>3. a.last \in Int
        BY <1>3
      <4>4. run'[r].pos \in Int
        <5> HIDE DEF k, pos
        <5> QED BY <1>8, <1>9
      <4> HIDE DEF a
      <4> QED BY <4>1, <4>2, <4>3, <4>4
    <3> QED BY <1>9, <2>2, <3>1, <3>2, <3>3
  <2> QED BY <2>3 DEF Counts
<1>11. r \notin torn => Reads(r)'
  BY <1>1, <1>2 DEF Sends, Reads
<1>12. ASSUME r \notin torn, InRange(r)' PROVE Sent(r)'
  <2>1. InRange(r) /\ Sent(r) /\ run[r].fd \in Inode /\ data[run[r].fd] = b
    BY <1>1, <1>2, <1>3, <1>12 DEF Sends, InRange, Reads
  <2>2. 0 <= first /\ end <= size /\ pos <= end /\ a.sent = SubSeq(b, first + 1, pos)
    BY <2>1 DEF InRange, Sent
  <2>3. first \in Nat /\ pos \in Nat /\ first <= pos /\ left \in Nat /\ pos \in 0..size /\ want \in Nat
    <3>1. 0 <= first /\ end <= size /\ pos <= end
      BY <2>2
    <3> HIDE DEF first, end, n, size, left, pos, want
    <3> QED BY <1>8, <3>1, Constants
  <2>4. pos + want \in Nat /\ pos <= pos + want /\ pos + want <= size /\ pos + want <= end /\ pos + want - pos = want
    <3>1. 0 <= first /\ end <= size /\ pos <= end
      BY <2>2
    <3> HIDE DEF first, end, n, size, left, pos, want
    <3> QED BY <1>8, <2>3, <3>1, Constants
  <2>5. got = SubSeq(b, pos + 1, pos + want) /\ k = want
    <3>1. CASE want > 0
      <4>1. run[r].pc \in {"send", "gzip"} /\ run[r].fd \in Inode /\ run[r].pos \in 0..Len(data[run[r].fd])
        BY <1>1, <2>1, <2>3
      <4> HIDE DEF want
      <4> DEFINE c == data[run[r].fd]
                 m == Min({pos + want, Len(c)})
      <4>2. /\ m = (IF pos + want <= Len(c) THEN pos + want ELSE Len(c))
            /\ Got(r, want) = SubSeq(c, pos + 1, m) /\ Len(Got(r, want)) = m - pos
        BY <2>3, <4>1, GotPart
      <4>3. Got(r, want) = SubSeq(b, pos + 1, pos + want) /\ Len(Got(r, want)) = pos + want - pos
        <5>1. pos + want <= Len(c) /\ c = b /\ pos \in Nat /\ want \in Nat /\ Len(c) \in Nat
          BY <1>3, <2>1, <2>3, <2>4
        <5> HIDE DEF b, c, m, pos
        <5> QED BY <4>2, <5>1
      <4> QED BY <1>5, <2>4, <3>1, <4>3
    <3>2. CASE ~(want > 0)
      <4>1. want = 0 /\ pos + 1 \in Int /\ pos + want \in Int /\ pos + want < pos + 1
        <5> HIDE DEF want, pos
        <5> QED BY <2>3, <3>2
      <4>2. SubSeq(b, pos + 1, pos + want) = <<>>
        <5> HIDE DEF pos, want, b
        <5> QED BY <4>1, SubSeqEmpty
      <4> QED BY <1>5, <3>2, <4>1, <4>2
    <3> QED BY <3>1, <3>2
  <2>6. a.sent \o got = SubSeq(b, first + 1, pos + want)
    <3>1. SubSeq(b, first + 1, pos) \o SubSeq(b, pos + 1, pos + want) = SubSeq(b, first + 1, pos + want)
      <4> HIDE DEF pos, first, b, want
      <4> QED BY <1>3, <2>3, <2>4, SentMore DEF size
    <3> QED BY <2>2, <2>5, <3>1
  <2>7. stop => pos + want = end
    <3>1. stop <=> k < want \/ left - k <= 0
      BY DEF PlainStop
    <3>2. k = want
      BY <2>5
    <3> HIDE DEF first, end, n, size, left, pos, want, k, stop
    <3> QED BY <1>8, <2>3, <2>4, <3>1, <3>2
  <2>8. /\ run'[r].pos = pos + want /\ pos + want <= run'[r].ans.last + 1
        /\ run'[r].ans.sent = SubSeq(run'[r].st.bytes, run'[r].ans.first + 1, pos + want)
        /\ stop => pos + want = run'[r].ans.last + 1
    BY <1>2, <1>9, <2>4, <2>5, <2>6, <2>7
  <2> HIDE DEF want, stop
  <2> QED BY <1>2, <1>3, <2>8 DEF Sent
<1> QED BY <1>1, <1>6, <1>10, <1>11, <1>12 DEF Sends

\* Nor does a turn of http_chunked_gzip, which ends the stream with the first block that is short.
LEMMA GzipSends ==
  ASSUME Typed, NEW r \in Slot, Sends(r), SendGzip(r)
  PROVE  Sends(r)'
<1> DEFINE got == GzipGot(r)
           stop == GzipStop(r)
           ended == GzipEnded(r)
           b == run[r].st.bytes
           a == run[r].ans
           left == run[r].left
           pos == run[r].pos
           end == a.last + 1
           size == Len(b)
           k == Len(got)
<1>1. /\ run[r].pc = "gzip" /\ got \in Seq(Byte) /\ stop \in BOOLEAN /\ ended \in BOOLEAN /\ Turn(r, got, stop, ended)
      /\ UNCHANGED <<dir, data, torn>>
  BY GzipTurn DEF SendGzip, files, ghosts
<1>2. /\ run'[r].pc = (IF stop THEN "done" ELSE "gzip") /\ run'[r].fd = (IF stop THEN None ELSE run[r].fd)
      /\ run'[r].left = left - k /\ run'[r].pos = pos + k /\ run'[r].ans.sent = a.sent \o got
      /\ run'[r].ans.ended = ended
      /\ run'[r].q = run[r].q /\ run'[r].st = run[r].st /\ run'[r].ans.code = a.code /\ run'[r].ans.coding = a.coding
      /\ run'[r].ans.length = a.length /\ run'[r].ans.first = a.first /\ run'[r].ans.last = a.last
  <2> HIDE DEF got, stop, ended
  <2> QED BY <1>1, TurnMoves, SMTT(30)
<1>3. Answering(r) /\ a.coding = "gzip" /\ a.code \in {200, 206} /\ Headers(r) /\ Counts(r)
  BY <1>1 DEF Sends, Answering, Coded
<1>4. /\ pos \in Int /\ left \in Int /\ a.first \in Int /\ a.last \in Int /\ end \in Int /\ a.sent \in Seq(Byte)
      /\ Len(a.sent) \in Nat /\ b \in Seq(Byte) /\ size \in Nat /\ k \in Nat
  BY <1>1, SendType
<1>5. /\ a.code = 200 /\ a.length = -1 /\ size > 0 /\ a.first = 0 /\ a.last = size - 1
      /\ pos = a.first + Len(a.sent) /\ left = end - pos
  <2>1. pos = a.first + Len(a.sent) /\ left = end - pos
    BY <1>3, <1>4, SMTT(30) DEF Counts
  <2>2. a.code = 200 /\ a.length = -1 /\ size > 0
    BY <1>3 DEF Headers
  <2>3. a.first = 0 /\ a.last = size - 1
    BY <1>3, <2>2 DEF Headers, Header200
  <2> QED BY <2>1, <2>2, <2>3
<1>6. Coded(r)' /\ Headers(r)'
  <2>1. Coded(r)'
    BY <1>2, <1>3 DEF Coded
  <2>2. Headers(r)'
    <3>1. /\ run'[r].ans.coding = "gzip" /\ run'[r].ans.code = 200 /\ run'[r].ans.length = -1
          /\ run'[r].ans.first = 0 /\ run'[r].ans.last = size - 1 /\ run'[r].st = run[r].st
      <4>1. a.coding = "gzip"
        BY <1>3
      <4> HIDE DEF a, size
      <4> QED BY <1>2, <1>5, <4>1
    <3> QED BY <1>5, <3>1 DEF Headers, Header200
  <2> QED BY <2>1, <2>2
<1>7. Counts(r)'
  <2>1. Len(a.sent \o got) = Len(a.sent) + k
    BY <1>1, <1>4
  <2>2. run'[r].pos = run'[r].ans.first + Len(run'[r].ans.sent)
    <3>1. run'[r].pos = pos + k /\ run'[r].ans.first = a.first /\ run'[r].ans.sent = a.sent \o got
      BY <1>2
    <3> HIDE DEF a, pos, k, got
    <3> QED BY <1>4, <1>5, <2>1, <3>1
  <2>3. run'[r].left = run'[r].ans.last + 1 - run'[r].pos
    <3>1. left - k = end - (pos + k) /\ pos + k \in Int
      <4>1. left = end - pos /\ left \in Int /\ end \in Int /\ pos \in Int /\ k \in Int
        BY <1>4, <1>5
      <4> HIDE DEF left, pos, end, k
      <4> QED BY <4>1
    <3>2. run'[r].left = a.last + 1 - run'[r].pos /\ run'[r].pos \in Int /\ run'[r].ans.last = a.last /\ a.last \in Int
      <4>1. run'[r].left = left - k /\ run'[r].pos = pos + k /\ run'[r].ans.last = a.last
        BY <1>2
      <4> HIDE DEF k, pos, left, a
      <4> QED BY <1>4, <3>1, <4>1
    <3> HIDE DEF a
    <3> QED BY <3>2
  <2> QED BY <1>2, <1>3, <2>2, <2>3 DEF Counts
<1>8. r \notin torn => Reads(r)'
  BY <1>1, <1>2 DEF Sends, Reads
<1>9. ASSUME r \notin torn, InRange(r)' PROVE Sent(r)'
  <2>1. InRange(r) /\ Sent(r) /\ run[r].fd \in Inode /\ data[run[r].fd] = b
    BY <1>1, <1>2, <1>3, <1>9 DEF Sends, InRange, Reads
  <2>2. pos <= a.last /\ pos % Block = 0 /\ a.sent = SubSeq(b, a.first + 1, pos)
    BY <1>1, <1>3, <2>1 DEF Sent
  <2>3. pos \in Nat /\ pos \in 0..size /\ left = size - pos /\ left > 0 /\ end = size /\ pos < size /\ 0 \in Nat
    <3>1. pos = a.first + Len(a.sent) /\ a.first = 0 /\ Len(a.sent) \in Nat
      BY <1>4, <1>5
    <3>2. pos \in Nat
      <4> HIDE DEF pos, a
      <4> QED BY <3>1
    <3>3. end = size
      BY <1>4, <1>5
    <3>4. pos < size
      <4>1. pos <= size - 1
        BY <1>5, <2>2
      <4> HIDE DEF pos, size
      <4> QED BY <1>4, <3>2, <4>1
    <3>5. left = end - pos /\ size \in Nat
      BY <1>4, <1>5
    <3> HIDE DEF left, pos, end, size
    <3> QED BY <3>2, <3>3, <3>4, <3>5
  <2> DEFINE m == Min({pos + Block, size})
  <2>4. /\ m = (IF pos + Block <= size THEN pos + Block ELSE size)
        /\ got = SubSeq(b, pos + 1, m) /\ k = m - pos
    <3>1. run[r].pc \in {"send", "gzip"} /\ run[r].fd \in Inode /\ run[r].pos \in 0..Len(data[run[r].fd])
      BY <1>1, <2>1, <2>3
    <3> DEFINE c == data[run[r].fd]
               l == Min({pos + Block, Len(c)})
    <3>2. /\ l = (IF pos + Block <= Len(c) THEN pos + Block ELSE Len(c))
          /\ Got(r, Block) = SubSeq(c, pos + 1, l) /\ Len(Got(r, Block)) = l - pos
      BY <3>1, GotPart, Constants
    <3>3. c = b /\ got = Got(r, Block)
      BY <2>1, <2>3 DEF GzipGot
    <3> HIDE DEF c, b, got
    <3> QED BY <3>2, <3>3
  <2> HIDE DEF m
  <2>5. m \in Nat /\ pos <= m /\ m <= size /\ pos + k = m /\ pos + k \in Nat
    <3> HIDE DEF pos, size, k
    <3> QED BY <1>4, <2>3, <2>4, Constants
  <2>6. a.sent \o got = SubSeq(b, a.first + 1, m)
    <3>1. SubSeq(b, 0 + 1, pos) \o SubSeq(b, pos + 1, m) = SubSeq(b, 0 + 1, m)
      <4> HIDE DEF pos, b
      <4> QED BY <1>4, <2>3, <2>5, SentMore DEF size
    <3> QED BY <1>5, <2>2, <2>4, <3>1
  <2>7. (stop <=> k < Block \/ left - k <= 0) /\ (ended <=> left > 0 /\ k < Block)
    BY DEF GzipStop, GzipEnded
  <2>8. CASE pos + Block <= size
    <3>1. k = Block /\ m = pos + Block /\ ended = FALSE /\ m % Block = 0
      <4>1. k = Block /\ m = pos + Block
        <5> HIDE DEF pos, size, k
        <5> QED BY <2>3, <2>4, <2>8, Constants
      <4>2. (pos + Block) % Block = 0
        <5>1. Block \in 0..Block
          BY Constants
        <5> HIDE DEF pos
        <5> QED BY <2>2, <2>3, <5>1, BlockEnd, Constants
      <4>3. ended = FALSE
        <5> HIDE DEF pos, size, k, left, ended
        <5> QED BY <1>1, <2>7, <4>1, Constants
      <4> QED BY <4>1, <4>2, <4>3
    <3>2. (stop => m = size) /\ (~stop => m < size)
      <4> HIDE DEF pos, size, k, left, stop
      <4> QED BY <1>4, <2>3, <2>5, <2>7, <3>1, Constants
    <3>3. /\ m <= end /\ (stop => m = end) /\ (stop => (ended <=> size % Block # 0))
          /\ (~stop => m <= a.last /\ m % Block = 0)
      <4>1. ~stop => m <= a.last
        <5> HIDE DEF stop, size
        <5> QED BY <1>4, <1>5, <2>5, <3>2
      <4>2. stop => (ended <=> size % Block # 0)
        <5> HIDE DEF stop, size, ended
        <5> QED BY <3>1, <3>2
      <4> HIDE DEF stop, size, ended, end
      <4> QED BY <2>3, <2>5, <3>1, <3>2, <4>1, <4>2
    <3> HIDE DEF stop, ended, got, k, end
    <3> QED BY <1>2, <1>3, <2>5, <2>6, <3>3, ZenonT(30) DEF Sent, end
  <2>9. CASE ~(pos + Block <= size)
    <3>1. m = size /\ k = size - pos /\ k < Block /\ 0 < k
      <4> HIDE DEF pos, size, k
      <4> QED BY <1>4, <2>3, <2>4, <2>9, Constants
    <3>2. size % Block = k
      <4>1. k \in 0..Block /\ k # Block
        <5> HIDE DEF pos, size, k
        <5> QED BY <1>4, <3>1, Constants
      <4>2. (pos + k) % Block = k
        <5>1. Block \in Nat \ {0} /\ pos \in Nat /\ pos % Block = 0
          BY <2>2, <2>3, Constants
        <5> HIDE DEF pos, k
        <5> QED BY <4>1, <5>1, BlockEnd, ZenonT(30)
      <4> QED BY <2>5, <3>1, <4>2
    <3>3. stop /\ ended /\ m = end /\ size % Block # 0 /\ m <= end
      <4>1. stop /\ ended
        <5> HIDE DEF stop, ended, k, left, pos, size
        <5> QED BY <2>3, <2>7, <3>1
      <4>2. size % Block # 0
        <5> HIDE DEF k, size, pos
        <5> QED BY <1>4, <3>1, <3>2
      <4> HIDE DEF stop, ended, k, end, size
      <4> QED BY <1>4, <2>3, <3>1, <4>1, <4>2
    <3>4. /\ run'[r].pc = "done" /\ run'[r].pos = m /\ run'[r].ans.sent = a.sent \o got /\ run'[r].ans.ended
          /\ run'[r].st = run[r].st /\ run'[r].ans.last + 1 = end /\ run'[r].ans.first = a.first
      BY <1>2, <2>5, <3>3
    <3> HIDE DEF stop, ended, got, k, end
    <3> QED BY <2>6, <3>3, <3>4 DEF Sent
  <2> QED BY <2>8, <2>9
<1> QED BY <1>1, <1>6, <1>7, <1>8, <1>9 DEF Sends

LEMMA ExamineSends ==
  ASSUME Typed, NEW r \in Slot, Sends(r), Examine(r) \/ ExamineGz(r)
  PROVE  Sends(r)'
<1> DEFINE a == run'[r].ans
<1>1. /\ run[r].pc = "call" /\ run[r].fd = None /\ run[r].q \in Requests /\ UNCHANGED <<dir, data, torn>>
      /\ run[r].ans.coding = "none"
  BY DEF Examine, ExamineGz, Typed, Placed, files, ghosts, Sends, Coded
<1>2. PICK st \in Stat :
        /\ Found(r, st)
        /\ \/ NotModified(r, st)
           \/ Headed(r, st) /\ a.code \in {200, 206}
  BY ExamineSteps
<1>3. CASE NotModified(r, st)
  <2>1. run'[r].pc = "done" /\ a.code = 304 /\ a.coding = "none"
    BY <1>1, <1>3, NotModifiedMoves
  <2> QED BY <2>1 DEF Sends, Coded, Answering, Reads
<1>4. CASE Headed(r, st) /\ a.code \in {200, 206}
  <2>1. /\ run'[r].pc = "open" /\ run'[r].st = st /\ a.sent = <<>> /\ a.coding \in {"plain", "gzip"}
        /\ run'[r].pos = a.first /\ run'[r].left = a.last + 1 - a.first /\ a.first \in Int /\ a.last \in Int
        /\ run'[r].real = run[r].real /\ Headers(r)'
    BY <1>4 DEF Headed
  <2>2. Coded(r)'
    BY <1>4, <2>1 DEF Coded
  <2>3. Counts(r)'
    <3>1. Len(a.sent) = 0
      BY <2>1
    <3>2. run'[r].pos = a.first + Len(a.sent) /\ run'[r].left = a.last + 1 - run'[r].pos
      <4> HIDE DEF a
      <4> QED BY <2>1, <3>1
    <3> QED BY <2>1, <3>2 DEF Counts
  <2>4. Reads(r)'
    BY <1>1, <1>2, <2>1 DEF Reads, Found
  <2>5. ASSUME InRange(r)' PROVE Sent(r)'
    <3>1. run'[r].pos = a.first /\ a.first <= a.last + 1 /\ a.first \in Int
      BY <2>1, <2>5 DEF InRange
    <3>2. SubSeq(st.bytes, a.first + 1, a.first) = <<>>
      <4> HIDE DEF a
      <4>1. a.first + 1 \in Int /\ a.first < a.first + 1
        BY <3>1
      <4> QED BY <3>1, <4>1, SubSeqEmpty
    <3>3. ASSUME a.coding = "gzip" PROVE a.first <= a.last /\ a.first % Block = 0
      <4>1. a.first = 0 /\ a.last = Len(st.bytes) - 1 /\ Len(st.bytes) > 0 /\ Len(st.bytes) \in Nat
        BY <2>1, <3>3 DEF Headers, Header200, Stat
      <4>2. 0 % Block = 0
        BY Constants
      <4> QED BY <4>1, <4>2
    <3> HIDE DEF a
    <3> QED BY <2>1, <3>1, <3>2, <3>3 DEF Sent, a
  <2> QED BY <2>1, <2>2, <2>3, <2>4, <2>5 DEF Sends
<1> QED BY <1>2, <1>3, <1>4

LEMMA OpenSends ==
  ASSUME Typed, NEW r \in Slot, Sends(r), OpenFile(r)
  PROVE  Sends(r)'
<1>1. UNCHANGED <<dir, data, torn>> /\ run[r].pc = "open" /\ run'[r].st = run[r].st /\ run'[r].q = run[r].q
  BY OpenSteps DEF OpenFile, files, ghosts
<1>2. CASE run'[r].pc = "done" /\ run'[r].ans.code \in {403, 500}
  BY <1>2 DEF Sends, Coded, Answering, Reads
<1>3. CASE /\ dir[run[r].real] # None /\ run'[r].fd = dir[run[r].real] /\ run'[r].ans = run[r].ans
           /\ run'[r].pc = (IF run[r].ans.coding = "gzip" THEN "gzip" ELSE "send")
           /\ run'[r].pos = run[r].pos /\ run'[r].left = run[r].left
  <2>1. run'[r].pc \in {"send", "gzip"} /\ Answering(r) /\ Headers(r) /\ Counts(r)
    BY <1>1, <1>3 DEF Sends, Answering
  <2>2. Coded(r)'
    BY <1>1, <1>3 DEF Sends, Coded
  <2>3. Headers(r)' /\ Counts(r)'
    BY <1>1, <1>3, <2>1 DEF Headers, Counts
  <2>4. r \notin torn => Reads(r)'
    BY <1>1, <1>3, <2>1 DEF Sends, Reads
  <2>5. r \notin torn /\ InRange(r)' => Sent(r)'
    <3> SUFFICES ASSUME r \notin torn, InRange(r)' PROVE Sent(r)'
      OBVIOUS
    <3>1. Sent(r)
      BY <1>1, <1>3, <2>1 DEF Sends, InRange
    <3> QED BY <1>1, <1>3, <2>1, <3>1 DEF Sent
  <2> QED BY <1>1, <2>1, <2>2, <2>3, <2>4, <2>5 DEF Sends
<1> QED BY <1>2, <1>3, OpenSteps

LEMMA OtherSends ==
  ASSUME Typed, NEW r \in Slot, Sends(r), Does(r), ~Serves(r)
  PROVE  Sends(r)'
<1>1. run[r].pc \notin {"open", "send", "gzip"} /\ run'[r].pc \notin {"open", "send", "gzip"} /\ run'[r].ans.coding = "none"
  <2>1. NoAnswer.coding = "none"
    BY DEF NoAnswer
  <2> QED BY <2>1, OtherSteps DEF Sends, Coded
<1> QED BY <1>1 DEF Sends, Coded, Answering, Reads

\* What the others do leaves an answer as it was, unless they tear it.
LEMMA AsideSends ==
  ASSUME Typed, NEW x \in Slot, Does(x), NEW r \in Slot \ {x}, Sends(r)
  PROVE  Sends(r)'
<1>1. run'[r] = run[r]
  BY WriterSteps DEF Moves
<1>2. Coded(r)' /\ (Answering(r)' <=> Answering(r)) /\ (InRange(r)' <=> InRange(r)) /\ (Headers(r)' <=> Headers(r))
      /\ (Counts(r)' <=> Counts(r)) /\ (Sent(r)' <=> Sent(r))
  BY <1>1 DEF Sends, Coded, Answering, InRange, Headers, Counts, Sent
<1>3. ASSUME r \notin torn' PROVE r \notin torn /\ Reads(r)'
  <2>1. r \notin torn /\ Same(r)
    BY <1>3, Undisturbed
  <2>2. Reads(r)
    BY <2>1 DEF Sends
  <2> QED BY <1>1, <2>1, <2>2, Constants DEF Same, Reads
<1> QED BY <1>2, <1>3 DEF Sends

LEMMA InitSending == Init => Sending
BY DEF Init, Sending, Sends, Coded, Answering, Reads, Rest, NoAnswer

LEMMA StepSending == Typed /\ Sending /\ [Next]_vars => Sending'
<1> SUFFICES ASSUME Typed, Sending, [Next]_vars PROVE Sending'
  OBVIOUS
<1>1. CASE Tick \/ UNCHANGED vars
  <2>1. UNCHANGED <<dir, data, torn, run>>
    BY <1>1 DEF Tick, vars, files, ghosts
  <2>2. ASSUME NEW r \in Slot PROVE Sends(r)'
    <3>1. Coded(r)' = Coded(r) /\ Answering(r)' = Answering(r) /\ Headers(r)' = Headers(r) /\ Counts(r)' = Counts(r)
      BY <2>1 DEF Coded, Answering, Headers, Counts
    <3>2. InRange(r)' = InRange(r) /\ Reads(r)' = Reads(r) /\ Sent(r)' = Sent(r)
      BY <2>1 DEF InRange, Reads, Sent
    <3>3. Sends(r)
      BY DEF Sending
    <3> QED BY <2>1, <3>1, <3>2, <3>3 DEF Sends
  <2> QED BY <2>2 DEF Sending
<1>2. ASSUME NEW x \in Slot, Does(x) PROVE Sending'
  <2>1. ASSUME NEW r \in Slot \ {x} PROVE Sends(r)'
    BY <1>2, <2>1, AsideSends DEF Sending
  <2>2. Sends(x)'
    BY <1>2, ExamineSends, OpenSends, PlainSends, GzipSends, OtherSends DEF Sending, Serves
  <2> QED BY <2>1, <2>2 DEF Sending
<1> QED BY <1>1, <1>2 DEF Next, Does

\* What is asked for by an ordinary entry is in range.
LEMMA OrdinaryRange ==
  ASSUME NEW q \in Requests, NEW i \in DOMAIN q.range, NEW size \in Nat, Ordinary(q.range[i], size)
  PROVE  LET first == RangeOf(q.range[i], size)[1]  last == Min({RangeOf(q.range[i], size)[2], size - 1}) IN
         /\ first = q.range[i][1] /\ first \in Nat /\ last \in Int /\ first <= last + 1 /\ last + 1 <= size
         /\ last + 1 = (IF q.range[i][2] = None THEN size ELSE Min({q.range[i][2] + 1, size}))
<1> DEFINE e == q.range[i]
           first == RangeOf(e, size)[1]
           last == Min({RangeOf(e, size)[2], size - 1})
<1>1. e[1] \in Nat /\ (e[2] = None \/ e[2] \in Nat) /\ Len(e) = 2 /\ e[1] # None /\ e[1] < size
      /\ (e[2] = None \/ e[1] <= e[2])
  <2>1. \/ Len(e) = 1
        \/ Len(e) = 2 /\ {e[1], e[2]} \subseteq Nat \cup {None}
    BY FilesAssumption
  <2>2. Len(e) = 2 /\ e[1] # None /\ e[1] < size /\ (e[2] = None \/ e[1] <= e[2])
    BY DEF Ordinary
  <2> HIDE DEF e
  <2> QED BY <2>1, <2>2
<1> SUFFICES /\ first = e[1] /\ first \in Nat /\ last \in Int /\ first <= last + 1 /\ last + 1 <= size
             /\ last + 1 = (IF e[2] = None THEN size ELSE Min({e[2] + 1, size}))
  OBVIOUS
<1> HIDE DEF e
<1>2. CASE e[2] = None
  <2>1. RangeOf(e, size) = <<e[1], size - 1>>
    BY <1>1, <1>2 DEF RangeOf
  <2>2. Min({size - 1, size - 1}) = size - 1
    BY MinPair
  <2>3. first = e[1] /\ last = size - 1
    BY <2>1, <2>2
  <2> HIDE DEF first, last
  <2> QED BY <1>1, <1>2, <2>3
<1>3. CASE e[2] # None
  <2>1. RangeOf(e, size) = <<e[1], e[2]>>
    BY <1>1, <1>3 DEF RangeOf
  <2>2. e[2] \in Nat /\ size - 1 \in Int /\ e[2] + 1 \in Int
    BY <1>1, <1>3
  <2>3. Min({e[2], size - 1}) = (IF e[2] <= size - 1 THEN e[2] ELSE size - 1)
    BY <2>2, MinPair
  <2>4. Min({e[2] + 1, size}) = (IF e[2] + 1 <= size THEN e[2] + 1 ELSE size)
    BY <2>2, MinPair
  <2>5. first = e[1] /\ last = Min({e[2], size - 1})
    BY <2>1
  <2> HIDE DEF first, last
  <2>6. /\ first \in Nat /\ last \in Int /\ first <= last + 1 /\ last + 1 <= size
        /\ last + 1 = Min({e[2] + 1, size})
    BY <1>1, <1>3, <2>2, <2>3, <2>4, <2>5
  <2> QED BY <1>3, <2>5, <2>6
<1> QED BY <1>2, <1>3

LEMMA SendingDelivered == Typed /\ Sending => Delivered
<1> SUFFICES ASSUME Typed, Sending, NEW r \in Slot,
                    run[r].pc = "done", run[r].ans.code \in {200, 206}, run[r].ans.coding # "none"
             PROVE  LET a == run[r].ans  b == run[r].st.bytes  range == run[r].q.range IN
                      /\ a.coding = "plain" => Len(a.sent) <= Max({0, a.length})
                      /\ r \notin torn /\ a.code = 200 => a.sent = b /\ a.length \in {-1, Len(b)}
                      /\ r \notin torn /\ a.coding = "gzip" => (a.ended <=> Len(b) % Block # 0)
                      /\ r \notin torn /\ a.code = 206 /\ (\A i \in DOMAIN range : Ordinary(range[i], Len(b))) =>
                           /\ \E i \in DOMAIN range :
                                a.sent = SubSeq(b, range[i][1] + 1,
                                           IF range[i][2] = None THEN Len(b) ELSE Min({range[i][2] + 1, Len(b)}))
                           /\ a.length = Len(a.sent) /\ a.sent = SubSeq(b, a.first + 1, a.last + 1)
  BY DEF Delivered
<1> DEFINE a == run[r].ans
           b == run[r].st.bytes
           range == run[r].q.range
           pos == run[r].pos
<1>1. Answering(r) /\ Headers(r) /\ Counts(r) /\ a.coding \in {"plain", "gzip"} /\ run[r].q \in Requests
  BY DEF Sending, Sends, Answering, Typed, Placed, Locals, Answers
<1>2. /\ pos \in Int /\ run[r].left \in Int /\ a.first \in Int /\ a.last \in Int /\ a.length \in Int /\ Len(a.sent) \in Nat
      /\ b \in Seq(Byte) /\ Len(b) \in Nat /\ a.sent \in Seq(Byte)
  BY SendType
<1>3. ASSUME a.coding = "plain" PROVE Len(a.sent) <= Max({0, a.length})
  <2>1. Max({0, a.length}) = IF a.length <= 0 THEN 0 ELSE a.length
    BY <1>2, MaxZero
  <2>2. CASE a.sent = <<>>
    <3>1. Len(a.sent) = 0
      BY <2>2
    <3> HIDE DEF a
    <3> QED BY <1>2, <2>1, <3>1
  <2>3. CASE a.sent # <<>>
    <3>1. run[r].left >= 0 /\ pos = a.first + Len(a.sent) /\ run[r].left = a.last + 1 - pos
          /\ a.length = a.last + 1 - a.first
      BY <1>1, <1>2, <1>3, <2>3 DEF Counts, Headers
    <3> DEFINE n == Len(a.sent)
               left == run[r].left
               first == a.first
               last == a.last
               length == a.length
    <3>2. /\ n \in Nat /\ left \in Int /\ left >= 0 /\ pos = first + n /\ left = last + 1 - pos
          /\ first \in Int /\ last \in Int /\ length = last + 1 - first /\ pos \in Int
      BY <1>2, <3>1
    <3>3. n <= length
      <4> HIDE DEF pos, n, left, first, last, length
      <4> QED BY <3>2
    <3>4. length \in Int /\ (Max({0, length}) = IF length <= 0 THEN 0 ELSE length)
      BY <1>2, <2>1
    <3> HIDE DEF n, length
    <3>5. n <= Max({0, length})
      BY <3>2, <3>3, <3>4
    <3> QED BY <3>5 DEF n, length
  <2> QED BY <2>2, <2>3
<1>4. ASSUME r \notin torn, InRange(r)
      PROVE  a.sent = SubSeq(b, a.first + 1, a.last + 1) /\ (a.coding = "gzip" => (a.ended <=> Len(b) % Block # 0))
  BY <1>1, <1>4 DEF Sending, Sends, Sent
<1>5. ASSUME r \notin torn, a.code = 200 PROVE a.sent = b /\ a.length \in {-1, Len(b)} /\ InRange(r)
  <2>1. a.first = 0 /\ a.last = Len(b) - 1
    BY <1>1, <1>5 DEF Headers, Header200
  <2>2. InRange(r)
    BY <1>2, <2>1 DEF InRange
  <2>3. a.first + 1 = 1 /\ a.last + 1 = Len(b)
    BY <1>2, <2>1
  <2>4. a.sent = b
    <3>1. a.sent = SubSeq(b, a.first + 1, a.last + 1)
      BY <1>4, <1>5, <2>2
    <3>2. SubSeq(b, 1, Len(b)) = b
      BY <1>2, SubSeqFull
    <3> QED BY <2>3, <3>1, <3>2
  <2>5. a.length \in {-1, Len(b)}
    <3>1. a.coding = "plain" => a.length = a.last + 1 - a.first
      BY <1>1 DEF Headers
    <3>2. a.coding = "gzip" => a.length = -1
      BY <1>1 DEF Headers
    <3>3. a.last + 1 - a.first = Len(b)
      BY <1>2, <2>1
    <3> QED BY <1>1, <3>1, <3>2, <3>3
  <2> QED BY <2>2, <2>4, <2>5
<1>6. ASSUME r \notin torn, a.coding = "gzip" PROVE a.ended <=> Len(b) % Block # 0
  <2>1. a.code = 200
    BY <1>1, <1>6 DEF Headers
  <2> QED BY <1>4, <1>5, <1>6, <2>1
<1>7. ASSUME r \notin torn, a.code = 206, \A i \in DOMAIN range : Ordinary(range[i], Len(b))
      PROVE  /\ \E i \in DOMAIN range :
                  a.sent = SubSeq(b, range[i][1] + 1, IF range[i][2] = None THEN Len(b) ELSE Min({range[i][2] + 1, Len(b)}))
             /\ a.length = Len(a.sent) /\ a.sent = SubSeq(b, a.first + 1, a.last + 1)
  <2>1. PICK i \in DOMAIN range :
          a.first = RangeOf(range[i], Len(b))[1] /\ a.last = Min({RangeOf(range[i], Len(b))[2], Len(b) - 1})
    BY <1>1, <1>7 DEF Headers, Header206
  <2> DEFINE first == a.first
             last == a.last
             size == Len(b)
  <2>2. /\ first = range[i][1] /\ first \in Nat /\ last \in Int /\ first <= last + 1 /\ last + 1 <= size
        /\ last + 1 = (IF range[i][2] = None THEN size ELSE Min({range[i][2] + 1, size}))
    <3>1. /\ size \in Nat /\ Ordinary(range[i], size) /\ run[r].q \in Requests
          /\ first = RangeOf(range[i], size)[1] /\ last = Min({RangeOf(range[i], size)[2], size - 1})
      BY <1>1, <1>2, <1>7, <2>1
    <3> DEFINE u == RangeOf(range[i], size)[1]
               v == Min({RangeOf(range[i], size)[2], size - 1})
    <3>2. /\ u = range[i][1] /\ u \in Nat /\ v \in Int /\ u <= v + 1 /\ v + 1 <= size
          /\ v + 1 = (IF range[i][2] = None THEN size ELSE Min({range[i][2] + 1, size}))
      <4> DEFINE q == run[r].q
      <4>1. q \in Requests /\ i \in DOMAIN q.range /\ size \in Nat /\ Ordinary(q.range[i], size)
        BY <3>1
      <4> HIDE DEF size, q
      <4>2. LET x == RangeOf(q.range[i], size)[1]  y == Min({RangeOf(q.range[i], size)[2], size - 1}) IN
              /\ x = q.range[i][1] /\ x \in Nat /\ y \in Int /\ x <= y + 1 /\ y + 1 <= size
              /\ y + 1 = (IF q.range[i][2] = None THEN size ELSE Min({q.range[i][2] + 1, size}))
        BY ONLY <4>1, OrdinaryRange
      <4> QED BY <4>2 DEF q
    <3>3. first = u /\ last = v
      BY <3>1
    <3> HIDE DEF first, last, size, u, v
    <3> QED BY <3>2, <3>3
  <2>3. InRange(r)
    BY <2>2 DEF InRange
  <2>4. a.sent = SubSeq(b, a.first + 1, a.last + 1)
    BY <1>4, <1>7, <2>3
  <2>5. a.length = Len(a.sent)
    <3>1. size \in Nat /\ first + 1 \in Int /\ last + 1 \in Int /\ (first + 1)..(last + 1) \subseteq 1..size
      <4>1. size \in Nat
        BY <1>2
      <4> HIDE DEF first, last, size
      <4> QED BY <2>2, <4>1
    <3>2. \A j \in (first + 1)..(last + 1) : b[j] \in Byte
      <4>1. \A j \in 1..size : b[j] \in Byte
        BY <1>2
      <4> HIDE DEF first, last, size, b
      <4> QED BY <3>1, <4>1
    <3> DEFINE m == first + 1
               n == last + 1
    <3>3. (m <= n => Len(SubSeq(b, m, n)) = n - m + 1) /\ (~(m <= n) => Len(SubSeq(b, m, n)) = 0)
      <4>1. m \in Int /\ n \in Int /\ \A j \in m..n : b[j] \in Byte
        BY <3>1, <3>2
      <4> HIDE DEF m, n, b
      <4> QED BY <4>1, SubSeqProperties
    <3>4. (m <= n => last + 1 - first = n - m + 1) /\ (~(m <= n) => last + 1 - first = 0)
      <4> HIDE DEF first, last, size
      <4> QED BY <2>2
    <3>5. a.length = last + 1 - first
      BY <1>1, <1>7 DEF Headers
    <3> QED BY <2>4, <3>3, <3>4, <3>5
  <2>6. a.sent = SubSeq(b, range[i][1] + 1, IF range[i][2] = None THEN size ELSE Min({range[i][2] + 1, size}))
    <3> HIDE DEF size
    <3> QED BY <2>2, <2>4
  <2> QED BY <2>4, <2>5, <2>6
<1> QED BY <1>3, <1>5, <1>6, <1>7

\* Whoever gets a file gets what was asked of the state of the file that the stat saw, as announced; and what
\* was torn is never longer than announced.
THEOREM SentAsAnnounced == Spec => []Delivered
<1>1. Spec => [](Typed /\ Sending)
  BY InitTyped, StepTyped, InitSending, StepSending, PTL DEF Spec
<1> QED BY <1>1, SendingDelivered, PTL

----------------------------------------------------------------------------
(* What a step does to the files *)

Touched(x) ==
  /\ run[x].real \in Path /\ UNCHANGED <<dir, data, torn, changed>>
  /\ \/ mtime' = mtime
     \/ dir[run[x].real] \in Inode /\ mtime' = [mtime EXCEPT ![dir[run[x].real]] = run[x].q.mtime]
  /\ blurred' = blurred \cup {run[x].real}
Made(x) ==
  /\ run[x].real \in Path /\ UNCHANGED <<data, mtime, torn, changed, blurred>>
  /\ dir[run[x].real] = None /\ dir' = [dir EXCEPT ![run[x].real] = Folder]
Removed(x) ==
  /\ run[x].real \in Path /\ UNCHANGED <<data, mtime, blurred>>
  /\ dir' = [dir EXCEPT ![run[x].real] = None]
  /\ torn' = torn \cup Tear(x, {run[x].real}, {})
  /\ changed' = [changed EXCEPT ![run[x].real] = now]
Untouched == UNCHANGED <<dir, data, mtime, changed, blurred>> /\ torn' \subseteq torn

LEMMA FileSteps ==
  ASSUME Typed, NEW x \in Slot, Does(x)
  PROVE  /\ now' = now
         /\ \/ Untouched
            \/ Touched(x) \/ Made(x) \/ Removed(x)
            \/ \E i \in Inode : Opened(x, i)
            \/ dir' = dir /\ \E n \in 0..BodySize(x) : Wrote(x, n)
            \/ UNCHANGED <<data, mtime, changed>> /\ \E o \in Path : Renamed(x, run[x].real, o)
<1>1. CASE \E q \in Requests : Begin(x, q)
  BY <1>1 DEF Begin, files, Untouched
<1>2. CASE Quiet(x)
  BY <1>2, QuietFiles DEF Untouched
<1>3. CASE Touch(x)
  <2>1. run[x].real \in Path
    BY <1>3 DEF Touch, Typed, Placed
  <2> QED BY <1>3, <2>1 DEF Touch, Touched
<1>4. CASE MkCol(x)
  <2>1. run[x].real \in Path
    BY <1>4, WebdavPlace DEF MkCol, Changing
  <2> QED BY <1>4, <2>1 DEF MkCol, Made, Untouched, ghosts
<1>5. CASE Delete(x)
  <2>1. run[x].real \in Path
    BY <1>5, WebdavPlace DEF Delete, Changing
  <2> QED BY <1>5, <2>1 DEF Delete, Removed
<1>6. CASE PutOpen(x)
  BY <1>6, PutOpenCases DEF Untouched
<1>7. CASE PutWrite(x)
  BY <1>7, PutWriteCases
<1>8. CASE Move(x)
  BY <1>8, MoveCases DEF Untouched
<1>9. CASE Reply(x)
  BY <1>9, ReplyMoves DEF Untouched
<1> QED BY <1>1, <1>2, <1>3, <1>4, <1>5, <1>6, <1>7, <1>8, <1>9 DEF Does, Step, Quiet

\* A thread opens a file for reading, or one for writing, or has the one it had.
Took(x) ==
  /\ run[x].pc = "open" /\ run'[x].fd = dir[run[x].real]
  /\ run'[x].real = run[x].real /\ UNCHANGED <<dir, blurred>>
Had(x) == run'[x].fd = run[x].fd /\ run'[x].real = run[x].real

LEMMA FdSteps ==
  ASSUME Typed, NEW x \in Slot, Does(x)
  PROVE  /\ \A z \in Slot \ {x} : Had(z)
         /\ run'[x].fd \in Inode => Had(x) \/ Took(x) \/ (Opened(x, run'[x].fd) /\ run'[x].real = run[x].real)
<1>1. \A z \in Slot \ {x} : Had(z)
  BY WriterSteps DEF Moves, Had
<1> SUFFICES ASSUME run'[x].fd \in Inode
             PROVE  Had(x) \/ Took(x) \/ (Opened(x, run'[x].fd) /\ run'[x].real = run[x].real)
  BY <1>1
<1>2. run'[x].pc \in {"send", "gzip", "write"} /\ run'[x].fd # None
  <2>1. Placed(x)' /\ run'[x].fd # None
    BY WriterSteps, Constants DEF Moves
  <2> QED BY <2>1 DEF Placed
<1>3. CASE Examine(x) \/ ExamineGz(x)
  <2>1. PICK st \in Stat : NotModified(x, st) \/ Headed(x, st)
    BY <1>3, ExamineSteps
  <2>2. run[x].fd = None /\ run[x].q \in Requests
    BY <1>3 DEF Examine, ExamineGz, Typed, Placed
  <2>3. run'[x].pc \in {"done", "open"}
    BY <2>1, <2>2, NotModifiedMoves DEF Headed
  <2> QED BY <1>2, <2>3
<1>4. CASE OpenFile(x)
  <2>1. UNCHANGED <<dir, blurred>>
    BY <1>4 DEF OpenFile, files, ghosts
  <2> QED BY <1>2, <1>4, <2>1, OpenSteps DEF Took
<1>5. CASE SendPlain(x)
  <2>1. run[x].pc \in {"send", "gzip"}
    BY <1>5, PlainTurn
  <2>2. run'[x].fd = (IF PlainStop(x) THEN None ELSE run[x].fd) /\ run'[x]["real"] = run[x]["real"]
    BY <1>5, <2>1, PlainTurn, TurnMoves
  <2> QED BY <1>2, <2>2 DEF Had
<1>6. CASE SendGzip(x)
  <2>1. run[x].pc \in {"send", "gzip"}
    BY <1>6, GzipTurn
  <2>2. run'[x].fd = (IF GzipStop(x) THEN None ELSE run[x].fd) /\ run'[x]["real"] = run[x]["real"]
    BY <1>6, <2>1, GzipTurn, TurnMoves
  <2> QED BY <1>2, <2>2 DEF Had
<1>7. CASE ~Serves(x)
  <2>1. run'[x].pc = "write"
    BY <1>2, <1>7, OtherSteps
  <2>2. PICK i \in Inode : Opened(x, i)
    BY <2>1, WriterSteps
  <2> QED BY <2>2 DEF Opened
<1> QED BY <1>3, <1>4, <1>5, <1>6, <1>7 DEF Serves

\* A file has the name that it had, unless it was opened to be made or was moved.
LEMMA DirSteps ==
  ASSUME Typed, NEW x \in Slot, Does(x), NEW p \in Path, dir'[p] \in Inode
  PROVE  /\ blurred \subseteq blurred'
         /\ \/ dir[p] = dir'[p]
            \/ Opened(x, dir'[p]) /\ p = run[x].real
            \/ \E o \in Path : /\ Renamed(x, o, p) /\ o = run[x].real /\ dir[o] = dir'[p]
                               /\ o \in blurred' /\ p \in blurred'
<1> DEFINE Makes == Opened(x, dir'[p]) /\ p = run[x].real
           Brings == \E o \in Path : /\ Renamed(x, o, p) /\ o = run[x].real /\ dir[o] = dir'[p]
                                     /\ o \in blurred' /\ p \in blurred'
<1> SUFFICES blurred \subseteq blurred' /\ (dir[p] = dir'[p] \/ Makes \/ Brings)
  OBVIOUS
<1>1. CASE Untouched
  BY <1>1 DEF Untouched
<1>2. CASE Touched(x) \/ Made(x) \/ Removed(x)
  BY <1>2, Constants DEF Touched, Made, Removed, Typed, Files
<1>3. ASSUME NEW i \in Inode, Opened(x, i)
      PROVE  blurred \subseteq blurred' /\ (dir[p] = dir'[p] \/ Makes)
  BY <1>3 DEF Opened, Typed, Files
<1>4. CASE dir' = dir /\ \E n \in 0..BodySize(x) : Wrote(x, n)
  BY <1>4 DEF Wrote
<1>5. ASSUME NEW o \in Path, Renamed(x, run[x].real, o)
      PROVE  /\ blurred \subseteq blurred'
             /\ dir[p] = dir'[p] \/ Brings
  <2> DEFINE s == run[x].real
  <2>1. /\ s \in Path /\ s # o /\ dir' = [dir EXCEPT ![o] = dir[s], ![s] = None] /\ blurred' = blurred \cup {s, o}
    BY <1>5 DEF Renamed
  <2>2. p # s
    BY <2>1, Constants DEF Typed, Files
  <2>3. CASE p = o
    <3>1. dir'[p] = dir[s]
      BY <2>1, <2>3 DEF Typed, Files
    <3> QED BY <1>5, <2>1, <2>3, <3>1
  <2>4. CASE p # o
    BY <2>1, <2>2, <2>4 DEF Typed, Files
  <2> QED BY <2>3, <2>4
<1> HIDE DEF Makes, Brings
<1>6. CASE \E i \in Inode : Opened(x, i)
  <2>1. PICK i \in Inode : Opened(x, i)
    BY <1>6
  <2> QED BY <1>3, <2>1
<1>7. CASE \E o \in Path : Renamed(x, run[x].real, o)
  <2>1. PICK o \in Path : Renamed(x, run[x].real, o)
    BY <1>7
  <2> QED BY <1>5, <2>1
<1> QED BY <1>1, <1>2, <1>4, <1>6, <1>7, FileSteps

\* An open file that goes by another name, or is open under another, has been moved.
Alias(x, p) ==
  run[x].fd \in Inode /\ dir[p] = run[x].fd /\ p # run[x].real => p \in blurred /\ run[x].real \in blurred
Shared(x, y) ==
  run[x].fd \in Inode /\ run[y].fd = run[x].fd /\ run[y].real # run[x].real =>
    run[x].real \in blurred /\ run[y].real \in blurred
Linked ==
  /\ \A x \in Slot, p \in Path : Alias(x, p)
  /\ \A x, y \in Slot : Shared(x, y)

LEMMA InitLinked == Init => Linked
BY Constants DEF Init, Linked, Alias, Shared, Rest

LEMMA StepLinked == Typed /\ Linked /\ [Next]_vars => Linked'
<1> SUFFICES ASSUME Typed, Linked, [Next]_vars PROVE Linked'
  OBVIOUS
<1>1. CASE Tick \/ UNCHANGED vars
  BY <1>1 DEF Tick, vars, files, ghosts, Linked, Alias, Shared
<1>2. ASSUME NEW x \in Slot, Does(x) PROVE Linked'
  <2>0. blurred \subseteq blurred'
    BY <1>2, FileSteps DEF Untouched, Touched, Made, Removed, Opened, Wrote, Renamed
  <2>1. \A z \in Slot : run'[z].fd \in Inode =>
           Had(z) \/ (z = x /\ Took(x)) \/ (z = x /\ Opened(x, run'[x].fd) /\ run'[x].real = run[x].real)
    BY <1>2, FdSteps
  <2>2. \A z \in Slot : run[z].fd # None => run[z].real \in Path
    BY DEF Typed, Placed
  <2>3. ASSUME NEW i \in Inode, Opened(x, i), NEW z \in Slot, run[z].fd = i
        PROVE  dir[run[x].real] = i /\ run[x].real \in Path
    BY <2>3 DEF Opened, Unused
  <2>4. ASSUME NEW z \in Slot, NEW p \in Path, run'[z].fd \in Inode, dir'[p] = run'[z].fd, p # run'[z].real
        PROVE  p \in blurred' /\ run'[z].real \in blurred'
    <3> DEFINE i == run'[z].fd
    <3>1. CASE dir[p] = i
      <4>1. CASE Had(z)
        BY <2>0, <2>4, <3>1, <4>1 DEF Had, Linked, Alias
      <4>2. CASE z = x /\ Took(x)
        <5>1. dir[run[x].real] = dir[p] /\ dir[p] \in Inode /\ run[x].real \in Path /\ run'[z].real = run[x].real
          BY <2>4, <3>1, <4>2 DEF Took, Typed, Placed
        <5> QED BY <2>4, <5>1 DEF Typed, Files
      <4>3. CASE z = x /\ Opened(x, i) /\ run'[x].real = run[x].real
        <5>1. dir[run[x].real] = i /\ run[x].real \in Path
          BY <3>1, <4>3 DEF Opened, Unused
        <5> QED BY <2>4, <3>1, <4>3, <5>1 DEF Typed, Files
      <4> QED BY <2>1, <2>4, <4>1, <4>2, <4>3
    <3>2. CASE Opened(x, i) /\ p = run[x].real
      <4>1. CASE Had(z)
        <5>1. run[z].fd = i /\ dir[p] = i /\ run[z].real # p
          BY <2>3, <2>4, <3>2, <4>1 DEF Had
        <5> QED BY <2>0, <2>4, <4>1, <5>1 DEF Had, Linked, Alias
      <4>2. CASE z = x /\ Took(x)
        BY <3>2, <4>2 DEF Took, Opened
      <4>3. CASE z = x /\ run'[x].real = run[x].real
        BY <2>4, <3>2, <4>3
      <4> QED BY <2>1, <2>4, <4>1, <4>2, <4>3
    <3>3. ASSUME NEW o \in Path, Renamed(x, o, p), o = run[x].real, dir[o] = i, o \in blurred', p \in blurred'
          PROVE  p \in blurred' /\ run'[z].real \in blurred'
      <4>1. CASE Had(z)
        <5>1. CASE run[z].real = o
          BY <3>3, <4>1, <5>1 DEF Had
        <5>2. CASE run[z].real # o
          BY <2>0, <2>4, <3>3, <4>1, <5>2 DEF Had, Linked, Alias
        <5> QED BY <5>1, <5>2
      <4>2. CASE z = x /\ run'[x].real = run[x].real
        BY <3>3, <4>2
      <4> QED BY <2>1, <2>4, <4>1, <4>2 DEF Took
    <3> QED BY <1>2, <2>4, <3>1, <3>2, <3>3, DirSteps
  <2>5. ASSUME NEW z \in Slot, NEW y \in Slot, run'[z].fd \in Inode, run'[y].fd = run'[z].fd, run'[y].real # run'[z].real
        PROVE  run'[z].real \in blurred' /\ run'[y].real \in blurred'
    <3>1. CASE Had(z) /\ Had(y)
      BY <2>0, <2>5, <3>1 DEF Had, Linked, Shared
    <3>2. ASSUME NEW w \in Slot, Had(w), run'[w].fd = run'[x].fd, run'[w].fd \in Inode, run'[w].real # run'[x].real,
                 Took(x) \/ (Opened(x, run'[x].fd) /\ run'[x].real = run[x].real)
          PROVE  run'[w].real \in blurred' /\ run'[x].real \in blurred'
      <4>1. dir[run[x].real] = run[w].fd /\ run[x].real \in Path /\ run'[x].real = run[x].real
        BY <2>3, <3>2 DEF Had, Took, Typed, Placed
      <4> QED BY <2>0, <3>2, <4>1 DEF Had, Linked, Alias
    <3>3. CASE z = x /\ y # x
      BY <1>2, <2>1, <2>5, <3>1, <3>2, <3>3, FdSteps
    <3>4. CASE y = x /\ z # x
      BY <1>2, <2>1, <2>5, <3>1, <3>2, <3>4, FdSteps
    <3>5. CASE z # x /\ y # x
      BY <1>2, <3>1, <3>5, FdSteps
    <3> QED BY <2>5, <3>3, <3>4, <3>5
  <2> QED BY <2>4, <2>5 DEF Linked, Alias, Shared
<1> QED BY <1>1, <1>2 DEF Next, Does

----------------------------------------------------------------------------
(* What a step does to a name *)

\* The file of a name is as it was, is emptied, is written to, or is gone.
Stays(p) ==
  /\ changed'[p] = changed[p]
  /\ dir'[p] \in Inode =>
       dir'[p] = dir[p] /\ data'[dir[p]] = data[dir[p]] /\ mtime'[dir[p]] = mtime[dir[p]]
Empties(x, p) ==
  /\ p = run[x].real /\ changed[p] # now /\ changed'[p] = now
  /\ dir'[p] \in Inode /\ mtime'[dir'[p]] = now /\ data'[dir'[p]] = <<>>
Fills(x, p) ==
  /\ p = run[x].real /\ run[x].pc = "write" /\ x \notin torn /\ changed'[p] = now
  /\ dir[p] \in Inode /\ dir'[p] = dir[p] /\ data[dir[p]] = <<>>
  /\ \/ data'[dir[p]] = <<>> /\ mtime'[dir[p]] = mtime[dir[p]]
     \/ Len(data'[dir[p]]) > 0 /\ mtime'[dir[p]] = now
Goes(p) == dir'[p] = None /\ changed'[p] = now

LEMMA FillSteps ==
  ASSUME Typed, Owned, NEW x \in Slot, NEW n \in 0..BodySize(x), dir' = dir, Wrote(x, n), x \notin torn
  PROVE  Fills(x, run[x].real)
<1> DEFINE i == run[x].fd
           p == run[x].real
<1>1. i \in Inode /\ run[x].pc = "write" /\ p \in Path /\ dir[p] = i /\ data[i] = <<>>
  BY DEF Wrote, Owned, Own
<1>2. data'[i] = Written(x, n) /\ changed'[p] = now
  BY <1>1 DEF Wrote, Typed, Files
<1>3. CASE n = 0
  <2>1. Written(x, n) = <<>>
    BY <1>1, <1>3, WrittenType
  <2>2. mtime' = mtime
    BY <1>3 DEF Wrote
  <2> QED BY <1>1, <1>2, <2>1, <2>2 DEF Fills
<1>4. CASE n # 0
  <2>1. Written(x, n) = SubSeq(Body(x), 1, n) /\ Len(SubSeq(Body(x), 1, n)) = n /\ BodySize(x) \in Nat
    BY <1>1, WrittenType
  <2>2. n > 0 /\ Len(Written(x, n)) > 0
    BY <1>4, <2>1
  <2>3. mtime'[i] = now
    BY <1>1, <2>2 DEF Wrote, Typed, Files
  <2> QED BY <1>1, <1>2, <2>2, <2>3 DEF Fills
<1> QED BY <1>3, <1>4

LEMMA NameSteps ==
  ASSUME Typed, Owned, Linked, NEW x \in Slot, Does(x), NEW p \in Path, p \notin blurred'
  PROVE  /\ p \notin blurred
         /\ Stays(p) \/ Empties(x, p) \/ Fills(x, p) \/ Goes(p)
<1> SUFFICES ASSUME ~Stays(p)
             PROVE  p \notin blurred /\ (Empties(x, p) \/ Fills(x, p) \/ Goes(p))
  BY FileSteps DEF Untouched, Touched, Made, Removed, Opened, Wrote, Renamed
<1>1. CASE Untouched
  BY <1>1 DEF Untouched, Stays
<1>2. CASE Touched(x)
  BY <1>2 DEF Touched, Stays, Typed, Files
<1>3. CASE Made(x)
  BY <1>3, Constants DEF Made, Stays, Typed, Files
<1>4. CASE Removed(x)
  <2>1. p = run[x].real
    BY <1>4, Constants DEF Removed, Stays, Typed, Files
  <2> QED BY <1>4, <2>1 DEF Removed, Goes, Typed, Files
<1>5. ASSUME NEW i \in Inode, Opened(x, i) PROVE p \notin blurred /\ Empties(x, p)
  <2>1. p = run[x].real
    <3> SUFFICES ASSUME p # run[x].real PROVE Stays(p)
      OBVIOUS
    <3>1. dir'[p] = dir[p] /\ changed'[p] = changed[p] /\ dir[p] # i
      BY <1>5 DEF Opened, Unused, Typed, Files
    <3> QED BY <1>5, <3>1 DEF Opened, Stays, Typed, Files
  <2> QED BY <1>5, <2>1 DEF Opened, Empties, Typed, Files
<1>6. ASSUME NEW n \in 0..BodySize(x), dir' = dir, Wrote(x, n) PROVE p \notin blurred /\ Fills(x, p)
  <2> DEFINE i == run[x].fd
  <2>1. i \in Inode /\ run[x].pc = "write" /\ p \notin blurred
    BY <1>6 DEF Wrote
  <2>2. p = run[x].real
    <3> SUFFICES ASSUME p # run[x].real PROVE Stays(p)
      OBVIOUS
    <3>1. dir[p] # i
      BY <2>1 DEF Linked, Alias
    <3> QED BY <1>6, <3>1 DEF Wrote, Stays, Typed, Files
  <2>3. x \notin torn
    BY <1>6, <2>2 DEF Wrote
  <2> QED BY <1>6, <2>1, <2>2, <2>3, FillSteps
<1>7. ASSUME NEW o \in Path, Renamed(x, run[x].real, o), UNCHANGED <<data, mtime, changed>> PROVE FALSE
  BY <1>7 DEF Renamed, Stays, Typed, Files
<1> QED BY <1>1, <1>2, <1>3, <1>4, <1>5, <1>6, <1>7, FileSteps

\* Who is torn by another's step has a file that has not stayed as it was.
LEMMA TearSteps ==
  ASSUME Typed, Owned, Linked, NEW x \in Slot, Does(x), NEW r \in Slot \ {x}, r \in torn', r \notin torn,
         run[r].real \in Path, run[r].real \notin blurred'
  PROVE  Empties(x, run[r].real) \/ Fills(x, run[r].real) \/ Goes(run[r].real)
<1> DEFINE p == run[r].real
<1>0. p \notin blurred /\ (Stays(p) \/ Empties(x, p) \/ Fills(x, p) \/ Goes(p))
  BY NameSteps
<1>1. CASE Untouched \/ Touched(x) \/ Made(x)
  BY <1>1 DEF Untouched, Touched, Made
<1>2. CASE Removed(x)
  <2>1. p = run[x].real
    BY <1>2 DEF Removed, Tear
  <2> QED BY <1>2, <2>1 DEF Removed, Goes, Typed, Files
<1>3. ASSUME NEW i \in Inode, Opened(x, i) PROVE Empties(x, p)
  <2>1. r \in Tear(x, {run[x].real}, {i}) /\ run[x].real \in Path
    BY <1>3 DEF Opened
  <2>2. p = run[x].real
    <3>1. CASE run[r].pc = "open" /\ dir[p] = i
      BY <1>3, <3>1 DEF Opened, Unused, Typed, Files
    <3>2. CASE run[r].fd = i
      <4>1. dir[run[x].real] = i
        BY <1>3, <3>2 DEF Opened, Unused
      <4> QED BY <1>0, <2>1, <3>2, <4>1 DEF Linked, Alias
    <3> QED BY <2>1, <3>1, <3>2 DEF Tear
  <2> QED BY <1>3, <2>2 DEF Opened, Empties, Typed, Files
<1>4. ASSUME NEW n \in 0..BodySize(x), dir' = dir, Wrote(x, n) PROVE Fills(x, p)
  <2>1. r \in Tear(x, {run[x].real}, {run[x].fd}) /\ run[x].real \in Path /\ run[x].fd \in Inode
    BY <1>4 DEF Wrote
  <2>2. p = run[x].real
    <3>1. CASE dir[p] = run[x].fd
      BY <1>0, <2>1, <3>1 DEF Linked, Alias
    <3>2. CASE run[r].fd = run[x].fd
      BY <1>0, <2>1, <3>2 DEF Linked, Shared
    <3> QED BY <2>1, <3>1, <3>2 DEF Tear
  <2>3. x \notin torn
    BY <1>0, <1>4, <2>2 DEF Wrote
  <2> QED BY <1>4, <2>2, <2>3, FillSteps
<1>5. ASSUME NEW o \in Path, Renamed(x, run[x].real, o) PROVE FALSE
  BY <1>5 DEF Renamed, Tear
<1> QED BY <1>1, <1>2, <1>3, <1>4, <1>5, FileSteps

----------------------------------------------------------------------------
(* Revalidated *)

\* What a copy, or the stat of a thread, says of the file that has its name now: one tag, one file ...
Sound(f) ==
  f.tag # None =>
    /\ f.tag \in Nat \X Nat /\ f.name \in Path
    /\ f.name \notin blurred =>
         /\ f.tag[1] <= changed[f.name]
         /\ dir[f.name] \in Inode /\ Tag(dir[f.name]) = f.tag => data[dir[f.name]] = f.bytes
\* ... and while a file that was emptied is about to be written, a tag of this second is that of the empty file.
Emptied(f, p) == f.tag # None /\ f.name = p /\ f.tag[1] = changed[p] => f.tag[2] = 0
Writes(y, p) == run[y].pc = "write" /\ y \notin torn /\ run[y].real = p
Known(f) ==
  /\ Sound(f)
  /\ \A y \in Slot, p \in Path : p \notin blurred /\ Writes(y, p) => Emptied(f, p)

\* A file has the time of the last change of its name, or is empty.
Dated(p) ==
  /\ changed[p] <= now
  /\ p \notin blurred /\ dir[p] \in Inode =>
       mtime[dir[p]] = changed[p] \/ (mtime[dir[p]] <= changed[p] /\ data[dir[p]] = <<>>)

\* All that is needed of the files.
Shelved == Typed /\ Owned /\ Linked /\ \A p \in Path : Dated(p)

LEMMA Times ==
  ASSUME Typed
  PROVE  /\ now \in Nat /\ \A p \in Path : changed[p] \in Nat
         /\ \A i \in Inode : mtime[i] \in Nat /\ Len(data[i]) \in Nat /\ data[i] \in Seq(Byte)
         /\ \A i \in Inode : Len(data[i]) = 0 => data[i] = <<>>
<1>1. \A i \in Inode : data[i] \in Seq(Byte)
  BY DEF Typed, Files
<1>2. \A i \in Inode : Len(data[i]) \in Nat
  BY <1>1
<1>3. \A i \in Inode : Len(data[i]) = 0 => data[i] = <<>>
  BY <1>1, EmptySeq
<1> QED BY <1>1, <1>2, <1>3, Constants DEF Typed, Files

LEMMA BlurredGrows ==
  ASSUME Typed, NEW x \in Slot, Does(x)
  PROVE  blurred \subseteq blurred' /\ now' = now
BY FileSteps DEF Untouched, Touched, Made, Removed, Opened, Wrote, Renamed

LEMMA StepDated ==
  ASSUME Shelved, NEW x \in Slot, Does(x), NEW p \in Path
  PROVE  Dated(p)'
<1>0. now' = now /\ blurred \subseteq blurred' /\ Dated(p) /\ Typed /\ Owned /\ Linked /\ Typed'
  BY BlurredGrows, StepTyped DEF Shelved, Next, Does
<1>1. now \in Nat /\ changed[p] \in Nat /\ \A i \in Inode : mtime[i] \in Nat
  BY <1>0, Times
<1>2. CASE p \in blurred'
  <2>1. changed'[p] \in {changed[p], now}
    <3>1. CASE Untouched \/ Touched(x) \/ Made(x) \/ Removed(x)
      BY <1>0, <3>1 DEF Untouched, Touched, Made, Removed, Typed, Files
    <3>2. CASE \E i \in Inode : Opened(x, i)
      BY <1>0, <3>2 DEF Opened, Typed, Files
    <3>3. CASE \E n \in 0..BodySize(x) : Wrote(x, n)
      BY <1>0, <3>3 DEF Wrote, Typed, Files
    <3> QED BY <1>0, <3>1, <3>2, <3>3, FileSteps
  <2> QED BY <1>0, <1>1, <1>2, <2>1 DEF Dated
<1>3. CASE p \notin blurred'
  <2>1. p \notin blurred
    BY <1>0, <1>3
  <2>2. CASE Stays(p)
    BY <1>0, <2>1, <2>2 DEF Stays, Dated
  <2>3. CASE Empties(x, p)
    BY <1>0, <1>1, <2>3 DEF Empties, Dated
  <2>4. CASE Fills(x, p)
    <3>1. mtime[dir[p]] <= now /\ dir'[p] = dir[p] /\ dir[p] \in Inode /\ changed'[p] = now
      BY <1>0, <1>1, <2>1, <2>4 DEF Fills, Dated
    <3>2. mtime'[dir[p]] = now \/ (mtime'[dir[p]] <= now /\ data'[dir[p]] = <<>>)
      BY <2>4, <3>1 DEF Fills
    <3> QED BY <1>0, <1>1, <3>1, <3>2 DEF Dated
  <2>5. CASE Goes(p)
    BY <1>0, <1>1, <2>5, Constants DEF Goes, Dated
  <2> QED BY <1>0, <1>3, <2>2, <2>3, <2>4, <2>5, NameSteps
<1> QED BY <1>2, <1>3

\* What was known of a file stays true of it.
LEMMA StepKnown ==
  ASSUME Shelved, NEW x \in Slot, Does(x), NEW f \in Stat, Known(f)
  PROVE  Known(f)'
<1>0. now' = now /\ blurred \subseteq blurred' /\ Typed /\ Owned /\ Linked /\ Sound(f)
  BY BlurredGrows DEF Shelved, Known
<1> SUFFICES ASSUME f.tag # None, f.name \notin blurred' PROVE Known(f)'
  BY <1>0 DEF Known, Sound, Emptied
<1> DEFINE p == f.name
           s == f.tag[1]
           n == f.tag[2]
<1>1. /\ p \in Path /\ p \notin blurred /\ f.tag \in Nat \X Nat /\ s \in Nat /\ n \in Nat /\ f.tag = <<s, n>>
      /\ s <= changed[p]
  BY <1>0 DEF Sound
<1>2. now \in Nat /\ changed[p] \in Nat /\ changed[p] <= now /\ \A i \in Inode : mtime[i] \in Nat /\ Len(data[i]) \in Nat
  BY <1>0, <1>1, Times DEF Shelved, Dated
<1>3. Stays(p) \/ Empties(x, p) \/ Fills(x, p) \/ Goes(p)
  BY <1>0, <1>1, NameSteps
<1>4. changed'[p] \in {changed[p], now} /\ s <= changed'[p]
  <2>1. changed'[p] \in {changed[p], now}
    BY <1>3 DEF Stays, Empties, Fills, Goes
  <2> HIDE DEF s, p
  <2> QED BY <1>1, <1>2, <2>1
<1>5. ASSUME NEW i \in Inode, dir'[p] = i, mtime'[i] = s, Len(data'[i]) = n PROVE data'[i] = f.bytes
  <2>1. mtime'[i] = s /\ Len(data'[i]) = n
    BY <1>5
  <2>2. CASE Stays(p)
    <3>1. dir[p] = i /\ data'[i] = data[i] /\ Tag(i) = f.tag
      BY <1>1, <1>5, <2>1, <2>2 DEF Stays, Tag
    <3> QED BY <1>0, <1>1, <1>5, <3>1 DEF Sound
  <2>3. CASE Empties(x, p)
    <3>1. s = now /\ changed[p] # now
      BY <1>5, <2>1, <2>3 DEF Empties
    <3> HIDE DEF s, p
    <3> QED BY <1>1, <1>2, <3>1
  <2>4. CASE Fills(x, p)
    <3>1. dir[p] = i /\ Emptied(f, p)
      BY <1>1, <1>5, <2>4 DEF Known, Fills, Writes
    <3>2. CASE Len(data'[i]) > 0 /\ mtime'[i] = now
      <4>1. s = now /\ n > 0 /\ (s = changed[p] => n = 0)
        BY <2>1, <3>1, <3>2 DEF Emptied
      <4> HIDE DEF s, p, n
      <4> QED BY <1>1, <1>2, <4>1
    <3>3. CASE data'[i] = data[i] /\ mtime'[i] = mtime[i]
      <4>1. Tag(i) = f.tag
        BY <1>1, <2>1, <3>3 DEF Tag
      <4> QED BY <1>0, <1>1, <1>5, <3>1, <3>3, <4>1 DEF Sound
    <3> QED BY <2>4, <3>1, <3>2, <3>3 DEF Fills
  <2>5. CASE Goes(p)
    BY <1>5, <2>5, Constants DEF Goes
  <2> QED BY <1>3, <2>2, <2>3, <2>4, <2>5
<1>6. ASSUME NEW y \in Slot, Writes(y, p)' PROVE s = changed'[p] => n = 0
  <2>1. CASE y = x
    <3>1. run'[x].pc = "write" /\ run'[x].real = p
      BY <1>6, <2>1 DEF Writes
    <3>2. PICK i \in Inode : Opened(x, i)
      BY <3>1, WriterSteps, <1>0
    <3>3. p = run[x].real /\ p \in Path
      BY <1>1, <3>1, <3>2 DEF Opened
    <3>4. changed[p] # now /\ changed'[p] = now
      BY <1>0, <3>2, <3>3 DEF Opened, Typed, Files
    <3> HIDE DEF s, p, n
    <3> QED BY <1>1, <1>2, <3>4
  <2>2. CASE y # x
    <3>1. Writes(y, p)
      BY <1>6, <2>2, WriterSteps, <1>0 DEF Moves, Writes
    <3>2. s = changed[p] => n = 0
      BY <1>1, <3>1 DEF Known, Emptied
    <3> HIDE DEF s, p, n
    <3> QED BY <1>1, <1>2, <1>4, <3>2
  <2> QED BY <2>1, <2>2
<1>7. Sound(f)'
  <2>1. ASSUME dir'[p] \in Inode, Tag(dir[p])' = f.tag PROVE data'[dir'[p]] = f.bytes
    <3>1. mtime'[dir'[p]] = s /\ Len(data'[dir'[p]]) = n
      BY <1>1, <2>1 DEF Tag
    <3> QED BY <1>5, <2>1, <3>1
  <2> QED BY <1>1, <1>4, <2>1 DEF Sound
<1>8. \A y \in Slot, o \in Path : Writes(y, o)' => Emptied(f, o)'
  BY <1>6 DEF Emptied
<1> QED BY <1>7, <1>8 DEF Known

\* Where the stat of a thread comes from, and the copy of its client.
Stats(x) == Examine(x) \/ ExamineGz(x)
LEMMA HeldSteps ==
  ASSUME Typed, NEW x \in Slot, Does(x)
  PROVE  /\ \/ run'[x].held = run[x].held \/ run'[x].held = NoFile
            \/ \E u \in Urls : run'[x].held = copy[u]
         /\ run'[x].st = run[x].st \/ run'[x].st = NoFile \/ (Stats(x) /\ Found(x, run'[x].st))
<1>1. CASE Stats(x)
  <2>1. PICK st \in Stat : Found(x, st) /\ (NotModified(x, st) \/ Headed(x, st))
    BY <1>1, ExamineSteps DEF Stats
  <2>2. run[x].fd = None /\ run[x].q \in Requests
    BY <1>1 DEF Stats, Examine, ExamineGz, Typed, Placed
  <2>3. run'[x].st = st /\ run'[x].held = run[x].held
    BY <2>1, <2>2, NotModifiedMoves DEF Headed
  <2> QED BY <1>1, <2>1, <2>3
<1>2. CASE OpenFile(x)
  BY <1>2, OpenSteps
<1>3. CASE SendPlain(x) \/ SendGzip(x)
  <2>1. run[x].pc \in {"send", "gzip"}
    BY <1>3, PlainTurn, GzipTurn
  <2>2. run'[x]["st"] = run[x]["st"] /\ run'[x]["held"] = run[x]["held"]
    <3>1. CASE SendPlain(x)
      BY <2>1, <3>1, PlainTurn, TurnMoves
    <3>2. CASE SendGzip(x)
      BY <2>1, <3>2, GzipTurn, TurnMoves
    <3> QED BY <1>3, <3>1, <3>2
  <2> QED BY <2>2
<1>4. CASE ~Serves(x)
  BY <1>4, OtherSteps
<1> QED BY <1>1, <1>2, <1>3, <1>4 DEF Serves, Stats

\* The stat is of the file that is sent, and the tag tells its length.
Statted(r) == LET f == run[r].st IN
  /\ Answering(r) => f.name = run[r].real
  /\ f.tag # None => f.tag[2] = Len(f.bytes)

LEMMA AnsweringSteps ==
  ASSUME Typed, Sending, NEW x \in Slot, Does(x), Answering(x)'
  PROVE  \/ Stats(x) /\ Found(x, run'[x].st) /\ run'[x].real = run[x].real
         \/ Answering(x) /\ run'[x].st = run[x].st /\ run'[x].real = run[x].real
<1>1. CASE Stats(x)
  <2>1. PICK st \in Stat : Found(x, st) /\ (NotModified(x, st) \/ Headed(x, st))
    BY <1>1, ExamineSteps DEF Stats
  <2>2. run[x].fd = None /\ run[x].q \in Requests
    BY <1>1 DEF Stats, Examine, ExamineGz, Typed, Placed
  <2>3. Headed(x, st)
    <3>1. NotModified(x, st) => run'[x].pc = "done" /\ run'[x].ans.code = 304
      BY <2>2, NotModifiedMoves
    <3>2. ~(run'[x].pc = "done" /\ run'[x].ans.code = 304)
      BY DEF Answering
    <3> QED BY <2>1, <3>1, <3>2
  <2> QED BY <1>1, <2>1, <2>3 DEF Headed
<1>2. CASE OpenFile(x)
  <2>1. run'[x].ans.code \in {403, 500} => run'[x].pc # "done"
    BY DEF Answering
  <2> QED BY <1>2, <2>1, OpenSteps DEF Answering
<1>3. CASE SendPlain(x) \/ SendGzip(x)
  <2>1. run[x].pc \in {"send", "gzip"}
    BY <1>3, PlainTurn, GzipTurn
  <2>2. run'[x]["st"] = run[x]["st"] /\ run'[x]["real"] = run[x]["real"]
    <3>1. CASE SendPlain(x)
      BY <2>1, <3>1, PlainTurn, TurnMoves
    <3>2. CASE SendGzip(x)
      BY <2>1, <3>2, GzipTurn, TurnMoves
    <3> QED BY <1>3, <3>1, <3>2
  <2> QED BY <2>1, <2>2 DEF Answering
<1>4. CASE ~Serves(x)
  <2>1. run'[x].pc \notin {"open", "send", "gzip"} /\ run'[x].ans.coding # "none"
    BY <1>4, OtherSteps DEF Answering
  <2>2. run[x].pc \notin {"open", "send", "gzip", "done", "idle"} /\ run[x].ans.coding # "none"
    BY <1>4, <2>1, OtherSteps DEF NoAnswer
  <2> QED BY <2>2 DEF Sending, Sends, Coded
<1> QED BY <1>1, <1>2, <1>3, <1>4 DEF Serves, Stats

LEMMA StepStatted ==
  ASSUME Typed, Sending, \A r \in Slot : Statted(r), NEW x \in Slot, Does(x), NEW r \in Slot
  PROVE  Statted(r)'
<1>1. CASE r # x
  <2>1. run'[r] = run[r]
    BY <1>1, WriterSteps DEF Moves
  <2> QED BY <2>1 DEF Statted, Answering
<1>2. CASE r = x
  <2> DEFINE f == run'[x].st
  <2>1. Answering(x)' => f.name = run'[x].real
    BY AnsweringSteps DEF Found, Statted
  <2>2. f.tag # None => f.tag[2] = Len(f.bytes)
    <3>1. CASE f = run[x].st
      BY <3>1 DEF Statted
    <3>2. CASE f = NoFile
      BY <3>2 DEF NoFile
    <3>3. CASE Found(x, f)
      BY <3>3, SMTT(30) DEF Found, Tag
    <3> QED BY <3>1, <3>2, <3>3, HeldSteps
  <2> QED BY <1>2, <2>1, <2>2 DEF Statted
<1> QED BY <1>1, <1>2

\* A thread is torn while it sends or writes, and until it has answered.
TornPc(r) == r \in torn => run[r].pc \in {"open", "send", "gzip", "write", "done"}
LEMMA TornSteps ==
  ASSUME Typed, NEW x \in Slot, Does(x), x \in torn'
  PROVE  x \in torn /\ run[x].pc \notin {"idle", "done"}
<1>1. CASE \E q \in Requests : Begin(x, q)
  BY <1>1 DEF Begin
<1>2. CASE Reply(x)
  BY <1>2, ReplyMoves
<1>3. CASE Quiet(x)
  BY <1>3, QuietPcs, QuietFiles
<1>4. CASE Touch(x) \/ MkCol(x) \/ Delete(x)
  BY <1>4 DEF Touch, MkCol, Delete, Webdav, Tear, ghosts
<1>5. CASE Move(x)
  <2>1. run[x].pc = "call"
    BY <1>5 DEF Move, Webdav
  <2> QED BY <1>5, <2>1, MoveCases DEF Renamed, Tear
<1>6. CASE PutOpen(x)
  <2>1. run[x].pc = "call"
    BY <1>6 DEF PutOpen, Webdav
  <2> QED BY <1>6, <2>1, PutOpenCases DEF Opened, Tear
<1>7. CASE PutWrite(x)
  <2>1. PICK n \in 0..BodySize(x) : Wrote(x, n)
    BY <1>7, PutWriteCases
  <2>2. run[x].pc = "write" /\ torn' \subseteq torn \cup Tear(x, {run[x].real}, {run[x].fd})
    BY <2>1 DEF Wrote
  <2> QED BY <2>2 DEF Tear
<1> QED BY <1>1, <1>2, <1>3, <1>4, <1>5, <1>6, <1>7 DEF Does, Step, Quiet

LEMMA StepTornPc ==
  ASSUME Typed, \A r \in Slot : TornPc(r), NEW x \in Slot, Does(x), NEW r \in Slot
  PROVE  TornPc(r)'
<1> SUFFICES ASSUME r \in torn' PROVE run'[r].pc \in {"open", "send", "gzip", "write", "done"}
  BY DEF TornPc
<1>1. CASE r # x
  <2>1. run'[r] = run[r]
    BY <1>1, WriterSteps DEF Moves
  <2>2. CASE r \in torn
    BY <2>1, <2>2 DEF TornPc
  <2>3. CASE \E ps, is : r \in Tear(x, ps, is)
    BY <2>1, <2>3 DEF Tear
  <2>4. r \in torn \/ \E ps, is : r \in Tear(x, ps, is)
    <3>1. CASE Untouched \/ Touched(x) \/ Made(x)
      BY <3>1 DEF Untouched, Touched, Made
    <3>2. CASE Removed(x)
      BY <3>2 DEF Removed
    <3>3. CASE \E i \in Inode : Opened(x, i)
      BY <3>3 DEF Opened
    <3>4. CASE \E n \in 0..BodySize(x) : Wrote(x, n)
      BY <3>4 DEF Wrote
    <3>5. CASE \E o \in Path : Renamed(x, run[x].real, o)
      BY <3>5 DEF Renamed
    <3> QED BY <3>1, <3>2, <3>3, <3>4, <3>5, FileSteps
  <2> QED BY <2>2, <2>3, <2>4
<1>2. CASE r = x
  <2>1. run[x].pc \in {"open", "send", "gzip", "write"}
    BY <1>2, TornSteps DEF TornPc
  <2>2. CASE OpenFile(x)
    BY <1>2, <2>2, OpenSteps
  <2>3. CASE SendPlain(x)
    BY <1>2, <2>3, PlainTurn, TurnMoves
  <2>4. CASE SendGzip(x)
    BY <1>2, <2>4, GzipTurn, TurnMoves
  <2>5. CASE ~Serves(x)
    <3>1. PutWrite(x)
      BY <2>1, <2>5, OtherSteps, WriterSteps
    <3> QED BY <1>2, <3>1, PutWriteCases DEF Wrote
  <2> QED BY <2>1, <2>2, <2>3, <2>4, <2>5 DEF Serves, Examine, ExamineGz
<1> QED BY <1>1, <1>2

\* What is sent of a file that was changed meanwhile has a tag that is out of date, or is of an empty file.
Overtaken(r) == LET f == run[r].st IN
  r \in torn /\ Answering(r) /\ f.tag # None /\ f.name \notin blurred =>
    f.tag[1] < changed[f.name] \/ f.tag[2] = 0 \/ dir[f.name] \notin Inode

LEMMA StepOvertaken ==
  ASSUME Shelved, Sending, \A r \in Slot : TornPc(r) /\ Statted(r) /\ Overtaken(r) /\ Known(run[r].st),
         NEW x \in Slot, Does(x), NEW r \in Slot
  PROVE  Overtaken(r)'
<1>0. Typed /\ Owned /\ Linked /\ blurred \subseteq blurred' /\ now' = now
  BY BlurredGrows DEF Shelved
<1>1. CASE r = x
  <2> SUFFICES ASSUME x \in torn', Answering(x)' PROVE Overtaken(x)'
    BY <1>1 DEF Overtaken
  <2>1. x \in torn /\ run[x].pc \in {"open", "send", "gzip", "write"}
    BY <1>0, TornSteps DEF TornPc
  <2>2. Answering(x) /\ run'[x].st = run[x].st
    BY <1>0, <2>1, AnsweringSteps DEF Stats, Examine, ExamineGz
  <2>3. Serves(x)
    BY <1>0, <2>1, <2>2, OtherSteps DEF Answering
  <2>4. UNCHANGED <<dir, changed, blurred>>
    BY <1>0, <2>3, QuietFiles DEF Serves, Quiet
  <2> QED BY <2>1, <2>2, <2>4 DEF Overtaken
<1>2. CASE r # x
  <2> DEFINE f == run[r].st
             p == f.name
             s == f.tag[1]
             n == f.tag[2]
  <2>1. run'[r] = run[r]
    BY <1>0, <1>2, WriterSteps DEF Moves
  <2> SUFFICES ASSUME r \in torn', Answering(r), f.tag # None, p \notin blurred'
               PROVE  s < changed'[p] \/ n = 0 \/ dir'[p] \notin Inode
    BY <2>1 DEF Overtaken, Answering
  <2>2. /\ p \in Path /\ p \notin blurred /\ p = run[r].real /\ s \in Nat /\ n \in Nat /\ s <= changed[p]
    BY <1>0 DEF Known, Sound, Statted
  <2>3. now \in Nat /\ changed[p] \in Nat /\ changed[p] <= now
    BY <1>0, <2>2, Times DEF Shelved, Dated
  <2>4. CASE Empties(x, p)
    <3>1. changed[p] # now /\ changed'[p] = now
      BY <2>4 DEF Empties
    <3> HIDE DEF p, s, n
    <3> QED BY <2>2, <2>3, <3>1
  <2>5. CASE Fills(x, p)
    <3>1. changed'[p] = now /\ Writes(x, p)
      BY <2>5 DEF Fills, Writes
    <3>2. s = changed[p] => n = 0
      BY <2>2, <3>1 DEF Known, Emptied
    <3> HIDE DEF p, s, n
    <3> QED BY <2>2, <2>3, <3>1, <3>2
  <2>6. CASE Goes(p)
    BY <2>6, Constants DEF Goes
  <2>7. CASE r \in torn /\ Stays(p)
    BY <2>2, <2>7 DEF Stays, Overtaken
  <2>8. r \notin torn => Empties(x, p) \/ Fills(x, p) \/ Goes(p)
    BY <1>0, <1>2, <2>2, TearSteps
  <2> QED BY <1>0, <2>2, <2>4, <2>5, <2>6, <2>7, <2>8, NameSteps
<1> QED BY <1>1, <1>2

\* Whatever a client has been sent, and whatever a thread has seen.
Seen(f) ==
  \/ \E u \in Urls : f = copy[u]
  \/ \E r \in Slot : f = run[r].held \/ f = run[r].st
Recalled == \A f \in Stat : Seen(f) => Known(f)

LEMMA KnownNone == Known(NoFile)
BY DEF Known, Sound, Emptied, NoFile

\* What stat finds is the file, and so is empty while someone is about to write it.
LEMMA KnownFound ==
  ASSUME Shelved, NEW r \in Slot, NEW st \in Stat, Found(r, st)
  PROVE  Known(st)
<1> SUFFICES ASSUME st.tag # None PROVE Known(st)
  BY DEF Known, Sound, Emptied
<1> DEFINE p == run[r].real
           i == dir[p]
<1>1. /\ p \in Path /\ i \in Inode /\ st.name = p /\ st.bytes = data[i] /\ st.tag = Tag(i) /\ Typed /\ Owned
      /\ Tag(i) \in Nat \X Nat
  <2>1. p \in Path /\ i \in Inode /\ st.name = p /\ st.bytes = data[i] /\ st.tag = Tag(i) /\ Typed /\ Owned
    BY DEF Found, Shelved
  <2>2. p \in Name
    BY <2>1, Constants
  <2> QED BY <2>1, <2>2, StatType
<1>2. p \notin blurred => st.tag[1] <= changed[p]
  <2>1. st.tag[1] = mtime[i] /\ mtime[i] \in Nat /\ changed[p] \in Nat
    BY <1>1, Times DEF Tag
  <2>2. p \notin blurred => mtime[i] = changed[p] \/ mtime[i] <= changed[p]
    BY <1>1 DEF Shelved, Dated
  <2> QED BY <2>1, <2>2
<1>3. ASSUME NEW y \in Slot, Writes(y, p) PROVE st.tag[2] = 0
  <2>1. data[i] = <<>>
    BY <1>1, <1>3 DEF Writes, Owned, Own
  <2> QED BY <1>1, <2>1 DEF Tag
<1> QED BY <1>1, <1>2, <1>3 DEF Known, Sound, Emptied

\* An answer that was torn is kept with a tag that no file of the name has, unless it is empty.
LEMMA KnownCopy ==
  ASSUME Shelved, Sending, NEW x \in Slot, Statted(x), Overtaken(x), Known(run[x].st), Reply(x), Keeps(x)
  PROVE  Known(NewCopy(x))
<1> DEFINE f == run[x].st
           c == NewCopy(x)
           i == dir[f.name]
<1>1. /\ Typed /\ c.name = f.name /\ c.tag = f.tag /\ c.bytes = run[x].ans.sent /\ run[x].pc = "done"
      /\ run[x] \in Locals
  BY ReplyMoves DEF Shelved, Typed
<1> SUFFICES ASSUME f.tag # None, f.name \notin blurred, i \in Inode, Tag(i) = f.tag
             PROVE  run[x].ans.sent = data[i]
  BY <1>1 DEF Known, Sound, Emptied
<1>2. Answering(x) /\ run[x].ans.code = 200
  BY <1>1 DEF Answering, Keeps
<1>3. f.bytes = data[i] /\ f.name \in Path
  BY DEF Known, Sound
<1>4. CASE x \notin torn
  BY <1>1, <1>2, <1>3, <1>4, SendingDelivered DEF Delivered, Keeps
<1>5. CASE x \in torn
  <2>1. Len(data[i]) = 0 /\ data[i] = <<>>
    <3>1. f.tag[1] = mtime[i] /\ f.tag[2] = Len(data[i])
      BY DEF Tag
    <3>2. f.tag[1] < changed[f.name] \/ f.tag[2] = 0
      BY <1>2, <1>5 DEF Overtaken
    <3>3. mtime[i] = changed[f.name] \/ data[i] = <<>>
      BY <1>3 DEF Shelved, Dated
    <3>4. mtime[i] \in Nat /\ changed[f.name] \in Nat /\ (Len(data[i]) = 0 => data[i] = <<>>)
      BY <1>1, <1>3, Times
    <3> HIDE DEF f, i
    <3> QED BY <3>1, <3>2, <3>3, <3>4
  <2>2. Len(f.bytes) = 0
    BY <1>3, <2>1
  <2>3. /\ Headers(x) /\ run[x].ans.coding = "plain" /\ run[x].ans.length = run[x].ans.last + 1 - run[x].ans.first
        /\ Header200(run[x].ans, f.bytes)
    <3>1. Headers(x) /\ run[x].ans.coding \in {"none", "plain", "gzip"} /\ run[x].ans.coding # "none"
      BY <1>1, <1>2 DEF Sending, Sends, Locals, Answers, Keeps
    <3> QED BY <1>2, <2>2, <3>1 DEF Headers
  <2>4. run[x].ans.length = 0
    BY <2>2, <2>3 DEF Header200
  <2>5. Len(run[x].ans.sent) <= Max({0, run[x].ans.length})
    BY <1>1, <1>2, <2>3, SendingDelivered DEF Delivered
  <2>6. Len(run[x].ans.sent) <= 0
    <3>1. Max({0, 0}) = 0
      BY MaxZero
    <3> QED BY <2>4, <2>5, <3>1
  <2>7. run[x].ans.sent \in Seq(Byte)
    BY <1>1 DEF Locals, Answers
  <2>8. run[x].ans.sent = <<>>
    <3>1. Len(run[x].ans.sent) = 0
      BY <2>6, <2>7
    <3> QED BY <2>7, <3>1, EmptySeq
  <2> QED BY <2>1, <2>8
<1> QED BY <1>4, <1>5

LEMMA SeenSteps ==
  ASSUME Typed, NEW x \in Slot, Does(x), NEW f, Seen(f)'
  PROVE  Seen(f) \/ f = NoFile \/ Found(x, f) \/ (Reply(x) /\ Keeps(x) /\ f = NewCopy(x))
<1>1. ASSUME NEW u \in Urls, f = copy'[u] PROVE f = copy[u] \/ (Reply(x) /\ Keeps(x) /\ f = NewCopy(x))
  <2>1. CASE Reply(x)
    <3>1. copy' = IF Keeps(x) THEN [copy EXCEPT ![run[x].q.url] = NewCopy(x)] ELSE copy
      BY <2>1, ReplyMoves
    <3> QED BY <1>1, <2>1, <3>1 DEF Typed
  <2>2. CASE ~Reply(x)
    <3>1. copy' = copy
      BY <2>2, QuietFiles, PutOpenCases, PutWriteCases, MoveCases
         DEF Does, Step, Quiet, Begin, Touch, MkCol, Delete, ghosts
    <3> QED BY <1>1, <3>1
  <2> QED BY <2>1, <2>2
<1>2. ASSUME NEW r \in Slot, f = run'[r].held \/ f = run'[r].st
      PROVE  Seen(f) \/ f = NoFile \/ Found(x, f)
  <2>1. CASE r # x
    <3>1. run'[r] = run[r]
      BY <2>1, WriterSteps DEF Moves
    <3> QED BY <1>2, <3>1 DEF Seen
  <2>2. CASE r = x
    BY <1>2, <2>2, HeldSteps DEF Seen
  <2> QED BY <2>1, <2>2
<1>3. CASE \E u \in Urls : f = copy'[u]
  BY <1>1, <1>3 DEF Seen
<1>4. CASE \E r \in Slot : f = run'[r].held \/ f = run'[r].st
  BY <1>2, <1>4
<1> QED BY <1>3, <1>4 DEF Seen

LEMMA StepRecalled ==
  ASSUME Shelved, Sending, Recalled, \A r \in Slot : Statted(r) /\ Overtaken(r), NEW x \in Slot, Does(x)
  PROVE  Recalled'
<1> SUFFICES ASSUME NEW f \in Stat, Seen(f)' PROVE Known(f)'
  BY DEF Recalled
<1>1. Typed /\ run[x].st \in Stat
  BY DEF Shelved, Typed, Locals
<1>2. Known(run[x].st)
  BY <1>1 DEF Recalled, Seen
<1>3. Known(f)
  BY <1>1, <1>2, SeenSteps, KnownNone, KnownFound, KnownCopy DEF Recalled
<1> QED BY <1>3, StepKnown

\* What a thread says of the copy of its client, and why it may.
SameAs(f, h) == h.tag # None /\ f.name = h.name /\ f.name \notin blurred => f.bytes = h.bytes
Current(r) ==
  run[r].ans.code = 304 \/ (run[r].ans.code = 206 /\ run[r].q.cond = "If-Range") => SameAs(run[r].st, run[r].held)
Listed(r) == \A f \in run[r].ans.list : f.tag = run[r].held.tag => SameAs(f, run[r].held)

\* A file with the tag of the copy has its bytes.
LEMMA SameTag ==
  ASSUME Typed, NEW h \in Stat, Known(h), h.tag # None, NEW f \in Stat, NEW p \in Path, dir[p] \in Inode,
         f.name = p, f.bytes = data[dir[p]], Tag(dir[p]) = h.tag
  PROVE  SameAs(f, h)
BY DEF Known, Sound, SameAs

LEMMA StepCurrent ==
  ASSUME Shelved, Recalled, NEW x \in Slot, Does(x), Current(x)
  PROVE  Current(x)'
<1>0. Typed /\ blurred \subseteq blurred' /\ run[x] \in Locals /\ run[x].held \in Stat /\ Known(run[x].held)
  BY BlurredGrows DEF Shelved, Typed, Locals, Recalled, Seen
<1>1. ASSUME /\ run'[x].st = run[x].st /\ run'[x].held = run[x].held /\ run'[x].q = run[x].q
             /\ run'[x].ans.code = run[x].ans.code \/ run'[x].ans.code \notin {206, 304}
      PROVE  Current(x)'
  BY <1>0, <1>1 DEF Current, SameAs
<1>2. CASE Stats(x)
  <2>1. PICK st \in Stat :
          /\ Found(x, st)
          /\ \/ Matched(x, st.tag) /\ NotModified(x, st)
             \/ Headed(x, st) /\ run'[x].ans.code = 200
             \/ Headed(x, st) /\ run'[x].ans.code = 206 /\ RangeValid(x, st.tag)
    BY <1>0, <1>2, ExamineSteps DEF Stats
  <2>2. run[x].fd = None /\ run[x].q \in Requests
    BY <1>0, <1>2 DEF Stats, Examine, ExamineGz, Typed, Placed
  <2>3. run'[x].st = st /\ run'[x].held = run[x].held /\ run'[x].q = run[x].q
    BY <1>0, <2>1, <2>2, NotModifiedMoves DEF Headed
  <2>4. ASSUME run[x].held.tag # None, st.tag = run[x].held.tag PROVE SameAs(st, run[x].held)
    BY <1>0, <2>1, <2>4, SameTag DEF Found
  <2>5. CASE Matched(x, st.tag)
    BY <1>0, <2>3, <2>4, <2>5 DEF Matched, Current, SameAs
  <2>6. CASE Headed(x, st) /\ run'[x].ans.code = 200
    BY <2>6 DEF Current
  <2>7. CASE RangeValid(x, st.tag) /\ run'[x].ans.code = 206
    BY <1>0, <2>3, <2>4, <2>7 DEF RangeValid, Current, SameAs
  <2> QED BY <2>1, <2>5, <2>6, <2>7
<1>3. CASE OpenFile(x)
  <2>1. /\ run'[x].st = run[x].st /\ run'[x].held = run[x].held /\ run'[x].q = run[x].q
        /\ run'[x].ans.code = run[x].ans.code \/ run'[x].ans.code \notin {206, 304}
    BY <1>0, <1>3, OpenSteps
  <2> QED BY <1>1, <2>1
<1>4. CASE SendPlain(x) \/ SendGzip(x)
  <2>1. run[x].pc \in {"send", "gzip"}
    BY <1>0, <1>4, PlainTurn, GzipTurn
  <2>2. /\ run'[x]["st"] = run[x]["st"] /\ run'[x]["held"] = run[x]["held"] /\ run'[x]["q"] = run[x]["q"]
        /\ run'[x].ans["code"] = run[x].ans["code"]
    <3>1. CASE SendPlain(x)
      BY <1>0, <2>1, <3>1, PlainTurn, TurnMoves, SMTT(30)
    <3>2. CASE SendGzip(x)
      BY <1>0, <2>1, <3>2, GzipTurn, TurnMoves
    <3> QED BY <1>4, <3>1, <3>2
  <2> QED BY <1>1, <2>2
<1>5. CASE ~Serves(x)
  <2>1. CASE run'[x].ans = NoAnswer
    BY <2>1 DEF NoAnswer, Current
  <2>2. CASE run'[x].ans # NoAnswer
    BY <1>0, <1>1, <1>5, <2>2, OtherSteps
  <2> QED BY <2>1, <2>2
<1> QED BY <1>2, <1>3, <1>4, <1>5 DEF Serves, Stats

LEMMA StepListed ==
  ASSUME Shelved, Recalled, NEW x \in Slot, Does(x), Listed(x)
  PROVE  Listed(x)'
<1> DEFINE h == run[x].held
<1>0. Typed /\ blurred \subseteq blurred' /\ run[x] \in Locals /\ h \in Stat /\ Known(h) /\ run[x].ans.list \subseteq Stat
  BY BlurredGrows DEF Shelved, Typed, Locals, Answers, Recalled, Seen
<1>1. ASSUME run'[x].held = h,
             \A f \in run'[x].ans.list : f \in run[x].ans.list \/ (f.tag = h.tag => SameAs(f, h))
      PROVE  Listed(x)'
  BY <1>0, <1>1 DEF Listed, SameAs
<1>2. CASE Stats(x)
  <2>1. PICK st \in Stat : NotModified(x, st) \/ Headed(x, st)
    BY <1>0, <1>2, ExamineSteps DEF Stats
  <2>2. run[x].fd = None /\ run[x].q \in Requests
    BY <1>0, <1>2 DEF Stats, Examine, ExamineGz, Typed, Placed
  <2>3. run'[x].held = h /\ run'[x].ans.list \subseteq run[x].ans.list
    BY <1>0, <2>1, <2>2, NotModifiedMoves DEF Headed
  <2> QED BY <1>1, <2>3
<1>3. CASE OpenFile(x)
  <2>1. run'[x].held = h /\ run'[x].ans.list = run[x].ans.list
    BY <1>0, <1>3, OpenSteps
  <2> QED BY <1>1, <2>1
<1>4. CASE SendPlain(x) \/ SendGzip(x)
  <2>1. run[x].pc \in {"send", "gzip"}
    BY <1>0, <1>4, PlainTurn, GzipTurn
  <2>2. run'[x]["held"] = run[x]["held"] /\ run'[x].ans["list"] = run[x].ans["list"]
    <3>1. CASE SendPlain(x)
      BY <1>0, <2>1, <3>1, PlainTurn, TurnMoves, SMTT(30)
    <3>2. CASE SendGzip(x)
      BY <1>0, <2>1, <3>2, GzipTurn, TurnMoves
    <3> QED BY <1>4, <3>1, <3>2
  <2> QED BY <1>1, <2>2
<1>5. ASSUME NEW p \in Name, PropEntry(x, p) PROVE Listed(x)'
  <2> DEFINE f == FileEmulator(p)
  <2>1. run'[x].held = h /\ run'[x].ans.list = run[x].ans.list \cup {f}
    <3>1. PICK todo \in SUBSET Name, list \in SUBSET Stat :
            run[x].pc = "list" /\ list = run[x].ans.list \cup {f} /\ Lists(x, "list", todo, list)
      BY <1>0, <1>5, PropEntryLists
    <3> QED BY <1>0, <3>1, ListMoves
  <2>2. ASSUME f.tag = h.tag, h.tag # None PROVE SameAs(f, h)
    <3>1. p \in Path /\ dir[p] \in Inode
      <4>1. h.tag \in Nat \X Nat
        BY <1>0, <2>2 DEF Known, Sound
      <4>2. CASE ~(p \in Path /\ dir[p] \in Inode)
        <5>1. f.tag \in {None, Folder}
          <6>1. f.tag = IF p \in Path THEN dir[p] ELSE Folder
            BY <4>2 DEF FileEmulator
          <6>2. p \in Path => dir[p] \in {None, Folder} \cup Inode
            BY <1>0 DEF Typed, Files
          <6> QED BY <4>2, <6>1, <6>2
        <5> QED BY <2>2, <4>1, <5>1, Constants
      <4> QED BY <4>2
    <3>2. f.name = p /\ f.tag = Tag(dir[p]) /\ f.bytes = data[dir[p]] /\ f \in Stat
      BY <1>0, <1>5, <3>1, FileEmulatorType DEF FileEmulator
    <3> QED BY <1>0, <2>2, <3>1, <3>2, SameTag
  <2>3. f.tag = h.tag => SameAs(f, h)
    BY <2>2 DEF SameAs
  <2> QED BY <1>1, <2>1, <2>3
<1>6. CASE PropSend(x)
  <2>1. run'[x].held = h /\ run'[x].ans.list = {ToXml(f) : f \in run[x].ans.list}
    <3>1. PICK todo \in SUBSET Name, list \in SUBSET Stat :
            run[x].pc = "list" /\ list = {ToXml(f) : f \in run[x].ans.list} /\ Lists(x, "done", todo, list)
      BY <1>0, <1>6, PropSendLists
    <3> QED BY <1>0, <3>1, ListMoves
  <2>2. ASSUME NEW f \in run[x].ans.list, ToXml(f).tag = h.tag PROVE SameAs(ToXml(f), h)
    <3>1. CASE f.tag = None
      <4>1. ToXml(f).tag = None
        BY <1>0, <3>1 DEF ToXml, Stat
      <4> QED BY <2>2, <4>1 DEF SameAs
    <3>2. CASE f.tag # None
      BY <2>2, <3>2 DEF ToXml, Listed
    <3> QED BY <3>1, <3>2
  <2> QED BY <1>1, <2>1, <2>2
<1>7. CASE ~Serves(x) /\ ~PropSend(x) /\ ~ \E p \in Name : PropEntry(x, p)
  <2>1. CASE run'[x].ans = NoAnswer
    BY <2>1 DEF NoAnswer, Listed
  <2>2. CASE run'[x].ans # NoAnswer
    <3>1. run'[x].held = h /\ run'[x].ans.list = run[x].ans.list
      BY <1>0, <1>7, <2>2, OtherSteps
    <3> QED BY <1>1, <3>1
  <2> QED BY <2>1, <2>2
<1> QED BY <1>2, <1>3, <1>4, <1>5, <1>6, <1>7 DEF Serves, Stats

\* All that the answers to those who ask with a tag rest on.
Told == \A r \in Slot : TornPc(r) /\ Statted(r) /\ Overtaken(r) /\ Current(r) /\ Listed(r)
Cached == Shelved /\ Sending /\ Recalled /\ Told

LEMMA InitCached == Init => Cached
<1> SUFFICES ASSUME Init PROVE Cached
  OBVIOUS
<1>1. Typed /\ Owned /\ Linked /\ Sending
  BY InitTyped, InitOwned, InitLinked, InitSending
<1>2. \A p \in Path : Dated(p)
  BY Constants DEF Init, Dated
<1>3. Recalled
  <2>1. ASSUME NEW f \in Stat, Seen(f) PROVE f = NoFile
    BY <2>1 DEF Init, Seen, Rest
  <2> QED BY <2>1, KnownNone DEF Recalled
<1>4. Told
  <2>1. \A r \in Slot : run[r] = Rest /\ r \notin torn
    BY DEF Init
  <2>2. Rest.pc = "idle" /\ Rest.st = NoFile /\ Rest.held = NoFile /\ Rest.ans = NoAnswer
    BY DEF Rest
  <2> QED BY <2>1, <2>2 DEF Told, TornPc, Statted, Overtaken, Current, Listed, Answering, NoAnswer, NoFile
<1> QED BY <1>1, <1>2, <1>3, <1>4 DEF Cached, Shelved

LEMMA StepCached == Cached /\ [Next]_vars => Cached'
<1> SUFFICES ASSUME Cached, [Next]_vars PROVE Cached'
  OBVIOUS
<1>1. Typed' /\ Owned' /\ Linked' /\ Sending'
  BY StepTyped, StepOwned, StepLinked, StepSending DEF Cached, Shelved
<1>2. CASE Tick \/ UNCHANGED vars
  <2>1. UNCHANGED <<files, run, ghosts>> /\ now \in Nat /\ now' \in Nat /\ now <= now'
    BY <1>2, Times DEF Cached, Shelved, Tick, vars
  <2>2. \A p \in Path : Dated(p)'
    BY <2>1, Times DEF Cached, Shelved, Dated, files, ghosts
  <2>3. Recalled'
    BY <2>1 DEF Cached, Recalled, Seen, Known, Sound, Emptied, Writes, Tag, files, ghosts
  <2>4. Told'
    BY <2>1 DEF Cached, Told, TornPc, Statted, Overtaken, Current, Listed, SameAs, Answering, files, ghosts
  <2> QED BY <1>1, <2>2, <2>3, <2>4 DEF Cached, Shelved
<1>3. ASSUME NEW x \in Slot, Does(x) PROVE Cached'
  <2>1. Shelved /\ Sending /\ Recalled /\ Typed
    BY DEF Cached, Shelved
  <2>2. \A p \in Path : Dated(p)'
    BY <1>3, <2>1, StepDated
  <2>3. Recalled'
    BY <1>3, <2>1, StepRecalled DEF Cached, Told
  <2>4. \A r \in Slot : Known(run[r].st)
    BY <2>1 DEF Typed, Locals, Recalled, Seen
  <2>5. ASSUME NEW r \in Slot PROVE TornPc(r)' /\ Statted(r)' /\ Overtaken(r)'
    BY <1>3, <2>1, <2>4, StepTornPc, StepStatted, StepOvertaken DEF Cached, Told
  <2>6. ASSUME NEW r \in Slot PROVE Current(r)' /\ Listed(r)'
    <3>1. CASE r = x
      BY <1>3, <2>1, <3>1, StepCurrent, StepListed DEF Cached, Told
    <3>2. CASE r # x
      <4>1. run'[r] = run[r] /\ blurred \subseteq blurred'
        BY <1>3, <2>1, <3>2, WriterSteps, BlurredGrows DEF Moves
      <4> QED BY <4>1 DEF Cached, Told, Current, Listed, SameAs
    <3> QED BY <3>1, <3>2
  <2> QED BY <1>1, <2>2, <2>3, <2>5, <2>6 DEF Cached, Shelved, Told
<1> QED BY <1>2, <1>3 DEF Next, Does

LEMMA CachedRevalidated == Cached => Revalidated
BY DEF Cached, Told, Current, Listed, SameAs, Revalidated

\* Whoever is told that his copy is current has what the file held at the stat, and no copy that was torn is
\* ever taken for current: for every name that is not in blurred.
THEOREM CopiesCurrent == Spec => []Revalidated
<1>1. Spec => []Cached
  BY InitCached, StepCached, PTL DEF Spec
<1> QED BY <1>1, CachedRevalidated, PTL
=============================================================================
