------------------------------- MODULE ScriptProofs -------------------------------
(***************************************************************************)
(* What JsHtml, ByteCodeCache and Tasks promise about the scripts that are *)
(* run, proved for every page, for every set of engines and of pages, of   *)
(* tasks and of scripts, and for every bound.                              *)
(***************************************************************************)
EXTENDS ByteCodeCache, Tasks, FiniteSetTheorems, SequenceTheorems, WellFoundedInduction, TLAPS

----------------------------------------------------------------------------
(* JsHtml: recursion *)

\* A set of naturals that is not empty has a least element.
LEMMA LeastNat ==
  ASSUME NEW T \in SUBSET Nat, T # {}
  PROVE  \E x \in T : \A y \in T : x <= y
<1>1. PICK x \in T : \A y \in T : ~(<<y, x>> \in OpToRel(<, Nat))
  BY NatLessThanWellFounded, WFMin
<1>2. \A y \in T : ~(y < x)
  BY <1>1 DEF OpToRel
<1> QED BY <1>2

\* What holds of 0 and is passed on holds up to n.
LEMMA Counting ==
  ASSUME NEW n \in Nat, NEW S, 0 \in S, \A m \in 0..(n - 1) : m \in S => m + 1 \in S
  PROVE  \A m \in 0..n : m \in S
<1> SUFFICES ASSUME (0..n) \ S # {} PROVE FALSE
  OBVIOUS
<1>1. PICK x \in (0..n) \ S : \A y \in (0..n) \ S : x <= y
  <2>1. (0..n) \ S \in SUBSET Nat
    OBVIOUS
  <2> QED BY <2>1, LeastNat
<1>2. x # 0 /\ x - 1 \in 0..(n - 1) /\ x - 1 \notin (0..n) \ S
  BY <1>1
<1>3. (x - 1) + 1 \in S
  BY <1>2
<1> QED BY <1>1, <1>3

\* A loop of n turns, each of which makes a member of S of another, has results.
Computes(F, b, S, n, f) == f \in [0..n -> S] /\ f[0] = b /\ \A k \in 1..n : f[k] = F[<<f[k - 1], k>>]
LEMMA Loop ==
  ASSUME NEW n \in Nat, NEW S, NEW b \in S, NEW F \in [S \X (1..n) -> S]
  PROVE  \E f : Computes(F, b, S, n, f)
<1> DEFINE Is(m, g) == g \in [0..m -> S] /\ g[0] = b /\ \A k \in 1..m : g[k] = F[<<g[k - 1], k>>]
           T == {m \in 0..n : \E g : Is(m, g)}
<1>1. 0 \in T
  <2> DEFINE g == [k \in 0..0 |-> b]
  <2>1. Is(0, g)
    OBVIOUS
  <2> HIDE DEF g, Is
  <2> QED BY <2>1
<1>2. ASSUME NEW m \in 0..(n - 1), m \in T PROVE m + 1 \in T
  <2>1. PICK g : Is(m, g)
    BY <1>2
  <2> DEFINE h == [k \in 0..(m + 1) |-> IF k = m + 1 THEN F[<<g[m], m + 1>>] ELSE g[k]]
  <2>2. g[m] \in S /\ m + 1 \in 1..n /\ \A k \in 0..m : g[k] \in S
    BY <2>1
  <2>3. F[<<g[m], m + 1>>] \in S
    BY <2>2
  <2>4. h \in [0..(m + 1) -> S] /\ h[0] = b
    BY <2>1, <2>2, <2>3
  <2>5. ASSUME NEW k \in 1..(m + 1) PROVE h[k] = F[<<h[k - 1], k>>]
    <3>1. CASE k = m + 1
      <4>1. h[k - 1] = g[m] /\ h[k] = F[<<g[m], m + 1>>]
        BY <3>1
      <4> QED BY <3>1, <4>1
    <3>2. CASE k # m + 1
      <4>1. k \in 1..m /\ k - 1 \in 0..m /\ k \in 0..(m + 1) /\ k - 1 \in 0..(m + 1) /\ k - 1 # m + 1
        BY <3>2
      <4>2. h[k] = g[k] /\ h[k - 1] = g[k - 1]
        BY <3>2, <4>1
      <4> QED BY <2>1, <4>1, <4>2
    <3> QED BY <3>1, <3>2
  <2> HIDE DEF h
  <2>6. Is(m + 1, h)
    BY <2>4, <2>5
  <2>7. m + 1 \in 0..n
    OBVIOUS
  <2> QED BY <2>6, <2>7
<1>3. n \in T
  <2> HIDE DEF T
  <2>1. \A m \in 0..n : m \in T
    BY <1>1, <1>2, Counting
  <2> QED BY <2>1
<1>4. PICK f : Is(n, f)
  BY <1>3
<1> QED BY <1>4 DEF Computes

----------------------------------------------------------------------------
(* JsHtml: the end of the code *)

Letters == Seq(Char)
Statuses == {"normal", "apos", "apos_t", "quot", "quot_t", "comment_preview", "line_comment", "block_comment",
             "block_comment_closing"}
Scans == [cs : Statuses, res : Letters, odd : BOOLEAN, at : Nat \cup {npos}]

\* What is pushed is behind what was there.
LEMMA PushOne ==
  ASSUME NEW s \in Letters, NEW c \in Char
  PROVE  /\ s \o <<c>> \in Letters /\ Len(s \o <<c>>) = Len(s) + 1
         /\ \A j \in 1..Len(s) : (s \o <<c>>)[j] = s[j]
         /\ (s \o <<c>>)[Len(s) + 1] = c
<1>1. <<c>> \in Letters /\ Len(<<c>>) = 1 /\ <<c>>[1] = c
  BY DEF Letters
<1> QED BY <1>1, ConcatProperties DEF Letters

LEMMA PushTwo ==
  ASSUME NEW s \in Letters, NEW c \in Char, NEW d \in Char
  PROVE  /\ s \o <<c, d>> \in Letters /\ Len(s \o <<c, d>>) = Len(s) + 2
         /\ \A j \in 1..Len(s) : (s \o <<c, d>>)[j] = s[j]
         /\ (s \o <<c, d>>)[Len(s) + 1] = c /\ (s \o <<c, d>>)[Len(s) + 2] = d
<1>1. <<c, d>> \in Letters /\ Len(<<c, d>>) = 2 /\ <<c, d>>[1] = c /\ <<c, d>>[2] = d
  BY DEF Letters
<1> QED BY <1>1, ConcatProperties DEF Letters

LEMMA PushNothing == ASSUME NEW s \in Letters PROVE s \o <<>> = s
BY DEF Letters

\* The types of a turn of code_find, and of all that were made: ScannedIs.
LEMMA TurnType ==
  ASSUME NEW cs \in Statuses, NEW c \in Char
  PROVE  Turn(cs, c)[1] \in Statuses /\ Turn(cs, c)[2] \in Letters
<1> DEFINE T == Statuses \X Letters
<1>1. /\ <<>> \in Letters /\ <<c>> \in Letters /\ <<".">> \in Letters /\ <<"/", c>> \in Letters
      /\ <<"*", "/">> \in Letters /\ <<".", ".">> \in Letters
  BY CharAssumption DEF Letters
<1>2. CASE cs \in {"normal", "comment_preview"}
  <2>1. Turn(cs, c) \in T
    BY <1>1, <1>2 DEF Turn, Statuses
  <2> QED BY <2>1
<1>3. CASE cs \in {"apos", "quot", "apos_t", "quot_t"}
  <2>1. Turn(cs, c) \in T
    BY <1>1, <1>3 DEF Turn, Statuses
  <2> QED BY <2>1
<1>4. CASE cs \in {"line_comment", "block_comment", "block_comment_closing"}
  <2>1. Turn(cs, c) \in T
    BY <1>1, <1>4 DEF Turn, Statuses
  <2> QED BY <2>1
<1> QED BY <1>2, <1>3, <1>4 DEF Statuses

LEMMA ScanType ==
  ASSUME NEW a \in Scans, NEW c \in Char
  PROVE  Scan(a, c) \in Scans
<1> DEFINE t == Turn(a.cs, c)
           r == a.res \o t[2]
<1>1. t[1] \in Statuses /\ t[2] \in Letters
  BY TurnType DEF Scans
<1> HIDE DEF t
<1>2. r \in Letters
  BY <1>1 DEF Scans, Letters
<1>3. Pushed(a, t, c) = Found(a, t[1], r, a.odd \/ Twice(a.cs, c))
  BY DEF Pushed
<1>4. (a.odd \/ Twice(a.cs, c)) \in BOOLEAN
  BY DEF Scans, Twice
<1> HIDE DEF r
<1>5. Len(r) > 1 => Len(r) - 2 \in Nat
  BY <1>2 DEF Letters
<1>6. Found(a, t[1], r, a.odd \/ Twice(a.cs, c)) \in Scans
  BY <1>1, <1>2, <1>4, <1>5 DEF Found, Scans
<1> QED BY <1>3, <1>6 DEF Scan, t

LEMMA ScannedIs ==
  ASSUME NEW cs \in Statuses, NEW chars \in Letters
  PROVE  LET f == Scanned(cs, chars) IN
         /\ f \in [0..Len(chars) -> Scans]
         /\ f[0] = [cs |-> cs, res |-> <<>>, odd |-> FALSE, at |-> npos]
         /\ \A k \in 1..Len(chars) : f[k] = Scan(f[k - 1], chars[k])
<1> DEFINE b == [cs |-> cs, res |-> <<>>, odd |-> FALSE, at |-> npos]
           n == Len(chars)
           F == [x \in Scans \X (1..n) |-> Scan(x[1], chars[x[2]])]
           Is(f) == f = [k \in 0..n |-> IF k = 0 THEN b ELSE Scan(f[k - 1], chars[k])]
<1>1. n \in Nat /\ \A k \in 1..n : chars[k] \in Char
  BY DEF Letters
<1>2. b \in Scans
  BY DEF Scans, Letters, npos
<1> HIDE DEF n, b
<1>3. F \in [Scans \X (1..n) -> Scans]
  BY <1>1, ScanType
<1>4. PICK f : Computes(F, b, Scans, n, f)
  <2> HIDE DEF F
  <2> QED BY <1>1, <1>2, <1>3, Loop
<1>5. ASSUME NEW k \in 0..n PROVE f[k] = IF k = 0 THEN b ELSE Scan(f[k - 1], chars[k])
  <2>1. k # 0 => k - 1 \in 0..n /\ k \in 1..n
    BY <1>1
  <2>2. k # 0 => F[<<f[k - 1], k>>] = Scan(f[k - 1], chars[k])
    BY <1>4, <2>1 DEF Computes
  <2> QED BY <1>4, <2>1, <2>2 DEF Computes
<1>6. Is(f)
  <2>1. f = [k \in 0..n |-> f[k]]
    BY <1>4 DEF Computes
  <2> QED BY <1>5, <2>1
<1>7. Scanned(cs, chars) = CHOOSE g : Is(g)
  BY DEF Scanned, b, n
<1> DEFINE g == Scanned(cs, chars)
<1>8. Is(g)
  <2> HIDE DEF Is
  <2> QED BY <1>6, <1>7
<1>9. g[0] = b /\ \A k \in 1..n : g[k] = Scan(g[k - 1], chars[k])
  <2> HIDE DEF g
  <2> QED BY <1>1, <1>8
<1>10. g \in [0..n -> Scans]
  <2> DEFINE T == {k \in 0..n : g[k] \in Scans}
  <2> HIDE DEF g
  <2>1. 0 \in T
    BY <1>1, <1>2, <1>9
  <2>2. ASSUME NEW m \in 0..(n - 1), m \in T PROVE m + 1 \in T
    <3>1. m + 1 \in 1..n /\ m + 1 - 1 = m /\ m + 1 \in 0..n
      BY <1>1
    <3>2. g[m + 1] = Scan(g[m], chars[m + 1])
      BY <1>9, <3>1
    <3> QED BY <1>1, <2>2, <3>1, <3>2, ScanType
  <2>3. \A k \in 0..n : k \in T
    <3> HIDE DEF T
    <3> QED BY <1>1, <2>1, <2>2, Counting
  <2>4. g = [k \in 0..n |-> g[k]]
    BY <1>8
  <2> QED BY <2>3, <2>4
<1> QED BY <1>9, <1>10 DEF b, n, g

\* What has been copied is what was read, one for one, except for a star that may end a comment and for the
\* rest of a line behind //; where the pattern was found it is in the code, too.
Pending(cs) == IF cs = "block_comment_closing" THEN 1 ELSE 0
Copies(a, chars, k) ==
  /\ Len(a.res) + Pending(a.cs) = k
  /\ \A j \in 1..Len(a.res) : a.res[j] \in {".", chars[j]}
  /\ a.cs = "block_comment_closing" => k > 0 /\ chars[k] = "*"
Ends(a, chars, k) == a.cs = "normal" /\ a.at + 2 <= k /\ chars[a.at + 1] = "%" /\ chars[a.at + 2] = ">"
Reads(a, chars, k) ==
  ~a.odd => IF a.at # npos THEN Ends(a, chars, k) ELSE a.cs # "line_comment" => Copies(a, chars, k)

\* A character is copied for the one that is read.
LEMMA CopyOne ==
  ASSUME NEW chars \in Letters, NEW k \in 1..Len(chars), NEW a \in Scans, Copies(a, chars, k - 1),
         NEW d \in Char, d \in {".", chars[k]}, NEW cs \in Statuses, Pending(cs) = Pending(a.cs),
         cs = "block_comment_closing" => chars[k] = "*" /\ d = "."
  PROVE  LET r == a.res \o <<d>> IN
         /\ r \in Letters /\ Len(r) + Pending(cs) = k /\ Len(r) = Len(a.res) + 1 /\ r[Len(r)] = d
         /\ \A j \in 1..Len(a.res) : r[j] = a.res[j]
         /\ \A j \in 1..Len(r) : r[j] \in {".", chars[j]}
<1> DEFINE r == a.res \o <<d>>
           n == Len(a.res)
<1>1. a.res \in Letters /\ n \in Nat
  BY DEF Scans, Letters
<1>2. r \in Letters /\ Len(r) = n + 1 /\ (\A j \in 1..n : r[j] = a.res[j]) /\ r[n + 1] = d
  BY <1>1, PushOne
<1>3. n + Pending(a.cs) = k - 1 /\ (\A j \in 1..n : a.res[j] \in {".", chars[j]})
  BY DEF Copies
<1>4. Pending(cs) \in {0, 1} /\ k \in Nat
  BY DEF Pending, Letters
<1>5. d \in {".", chars[n + 1]}
  <2>1. CASE cs = "block_comment_closing"
    BY <2>1
  <2>2. CASE cs # "block_comment_closing"
    <3>0. Pending(a.cs) = 0
      BY <2>2 DEF Pending
    <3>1. k = n + 1
      <4> HIDE DEF n
      <4> QED BY <1>1, <1>3, <1>4, <3>0
    <3> QED BY <3>1
  <2> QED BY <2>1, <2>2
<1> HIDE DEF r, n
<1>6. \A j \in 1..Len(r) : j = n + 1 \/ j \in 1..n
  BY <1>1, <1>2
<1>7. \A j \in 1..Len(r) : r[j] \in {".", chars[j]}
  BY <1>2, <1>3, <1>5, <1>6
<1>8. Len(r) + Pending(cs) = k
  BY <1>1, <1>2, <1>3, <1>4
<1> QED BY <1>2, <1>7, <1>8 DEF r, n

LEMMA ScanReads ==
  ASSUME NEW chars \in Letters, NEW k \in 1..Len(chars), NEW a \in Scans, Reads(a, chars, k - 1)
  PROVE  Reads(Scan(a, chars[k]), chars, k)
<1> DEFINE c == chars[k]
           t == Turn(a.cs, c)
           r == a.res \o t[2]
           b == Pushed(a, t, c)
<1>1. k \in Nat /\ c \in Char /\ a.res \in Letters /\ Len(a.res) \in Nat /\ a.cs \in Statuses /\ a.odd \in BOOLEAN
  BY DEF Letters, Scans
<1>2. CASE a.at # npos
  <2>1. Scan(a, c) = a
    BY <1>2 DEF Scan
  <2>2. Ends(a, chars, k - 1) => Ends(a, chars, k)
    BY <1>1, <1>2 DEF Ends, Scans, npos
  <2> QED BY <1>2, <2>1, <2>2 DEF Reads
<1>3. CASE a.at = npos
  <2>1. Scan(a, c) = b
    BY <1>3 DEF Scan
  <2>2. /\ b.cs = t[1] /\ b.res = r /\ b.odd = (a.odd \/ Twice(a.cs, c))
        /\ b.at = IF a.cs = "normal" /\ t[1] = "normal" /\ Len(r) > 1 /\ r[Len(r) - 1] = "%" /\ r[Len(r)] = ">"
                    THEN Len(r) - 2 ELSE npos
    BY DEF Pushed, Found
  <2> HIDE DEF b, r, t, c
  <2> SUFFICES ASSUME ~a.odd, ~Twice(a.cs, c) PROVE Reads(b, chars, k)
    BY <2>1, <2>2 DEF Reads, c
  <2>3. CASE a.cs = "line_comment"
    <3>1. t[1] = "line_comment"
      BY <2>3 DEF Turn, t
    <3> QED BY <2>2, <2>3, <3>1 DEF Reads
  <2>4. ASSUME NEW d \in {".", c}, NEW cs \in Statuses \ {"line_comment"}, t[1] = cs, t[2] = <<d>>, Pending(cs) = Pending(a.cs),
               cs = "block_comment_closing" => c = "*" /\ d = ".", a.cs # "line_comment"
        PROVE  Reads(b, chars, k)
    <3>1. d \in Char /\ Copies(a, chars, k - 1) /\ d \in {".", chars[k]}
      BY <1>1, <1>3, <2>4, CharAssumption DEF Reads, c
    <3>2. cs = "block_comment_closing" => chars[k] = "*" /\ d = "."
      BY <2>4 DEF c
    <3>3. /\ r \in Letters /\ Len(r) + Pending(cs) = k /\ Len(r) = Len(a.res) + 1 /\ r[Len(r)] = d
          /\ \A j \in 1..Len(r) : r[j] \in {".", chars[j]}
      BY <2>4, <3>1, <3>2, CopyOne DEF r
    <3>4. Copies(b, chars, k)
      BY <1>1, <2>2, <2>4, <3>2, <3>3 DEF Copies
    <3>5. CASE b.at = npos
      BY <3>4, <3>5 DEF Reads
    <3>6. CASE b.at # npos
      <4>1. a.cs = "normal" /\ cs = "normal" /\ Len(r) > 1 /\ r[Len(r) - 1] = "%" /\ r[Len(r)] = ">" /\ b.at = Len(r) - 2
        BY <2>2, <2>4, <3>6
      <4>2. Len(r) = k /\ Len(r) - 1 \in 1..Len(r) /\ Len(r) \in 1..Len(r)
        BY <1>1, <3>3, <4>1 DEF Pending
      <4>3. r[k - 1] \in {".", chars[k - 1]} /\ r[k] \in {".", chars[k]}
        BY <3>3, <4>2
      <4>4. chars[k - 1] = "%" /\ chars[k] = ">"
        BY <4>1, <4>2, <4>3
      <4>5. b.at + 1 = k - 1 /\ b.at + 2 = k
        BY <1>1, <4>1, <4>2
      <4>6. Ends(b, chars, k)
        BY <1>1, <2>2, <2>4, <4>1, <4>4, <4>5 DEF Ends
      <4> QED BY <3>6, <4>6 DEF Reads
    <3> QED BY <3>5, <3>6
  <2>5. CASE a.cs \in {"normal", "apos", "quot", "apos_t", "quot_t"}
    <3>1. CASE a.cs = "normal"
      <4>1. t[2] = <<c>> /\ t[1] \in {"normal", "apos", "quot", "comment_preview"}
        BY <3>1 DEF Turn, t
      <4> QED BY <2>4, <3>1, <4>1 DEF Pending, Statuses
    <3>2. CASE a.cs \in {"apos", "quot"}
      <4>1. t[2] \in {<<c>>, <<".">>} /\ t[1] \in {"apos", "quot", "apos_t", "quot_t", "normal"}
        BY <3>2 DEF Turn, t
      <4> QED BY <2>4, <3>2, <4>1 DEF Pending, Statuses
    <3>3. CASE a.cs \in {"apos_t", "quot_t"}
      <4>1. t[2] = <<".">> /\ t[1] \in {"apos", "quot"}
        BY <3>3 DEF Turn, t
      <4> QED BY <2>4, <3>3, <4>1 DEF Pending, Statuses
    <3> QED BY <2>5, <3>1, <3>2, <3>3
  <2>6. CASE a.cs = "comment_preview"
    <3>1. CASE c = "/"
      <4>1. t[1] = "line_comment"
        BY <2>6, <3>1 DEF Turn, t
      <4> QED BY <2>2, <2>6, <4>1 DEF Reads
    <3>2. CASE c = "*"
      <4>1. t[1] = "block_comment" /\ t[2] = <<c>> /\ "block_comment" \in Statuses \ {"line_comment"}
        BY <2>6, <3>2 DEF Turn, t, Statuses
      <4> QED BY <2>4, <2>6, <4>1 DEF Pending
    <3> QED BY <2>6, <3>1, <3>2 DEF Twice
  <2>7. CASE a.cs = "block_comment"
    <3>1. CASE c = "*"
      <4>1. t[1] = "block_comment_closing" /\ t[2] = <<>>
        BY <2>7, <3>1 DEF Turn, t
      <4>2. r = a.res
        BY <1>1, <4>1, PushNothing DEF r
      <4>3. Copies(a, chars, k - 1)
        BY <1>3, <2>7 DEF Reads
      <4>4. Copies(b, chars, k)
        BY <1>1, <2>2, <2>7, <3>1, <4>1, <4>2, <4>3 DEF Copies, Pending, c
      <4> QED BY <2>2, <2>7, <4>4 DEF Reads
    <3>2. CASE c # "*"
      <4>1. t[1] = "block_comment" /\ t[2] = <<".">> /\ "block_comment" \in Statuses \ {"line_comment"}
        BY <2>7, <3>2 DEF Turn, t, Statuses
      <4> QED BY <2>4, <2>7, <4>1
    <3> QED BY <3>1, <3>2
  <2>8. CASE a.cs = "block_comment_closing"
    <3>0. Copies(a, chars, k - 1)
      BY <1>3, <2>8 DEF Reads
    <3>1. CASE c = "*"
      <4>1. t[1] = "block_comment_closing" /\ t[2] = <<".">> /\ "block_comment_closing" \in Statuses \ {"line_comment"}
        BY <2>8, <3>1 DEF Turn, t, Statuses
      <4> QED BY <2>4, <2>8, <3>1, <4>1
    <3>2. CASE c # "*"
      <4>1. PICK d \in {".", "*"}, e \in {".", c}, cs \in {"normal", "block_comment"} : t[1] = cs /\ t[2] = <<d, e>>
        <5>1. CASE c = "/"
          <6>1. t[1] = "normal" /\ t[2] = <<"*", c>>
            BY <2>8, <5>1 DEF Turn, t
          <6> QED BY <6>1
        <5>2. CASE c # "/"
          <6>1. t[1] = "block_comment" /\ t[2] = <<".", ".">>
            BY <2>8, <3>2, <5>2 DEF Turn, t
          <6> QED BY <6>1
        <5> QED BY <5>1, <5>2
      <4>2. d \in Char /\ e \in Char
        BY <1>1, CharAssumption
      <4>3. /\ r \in Letters /\ Len(r) = Len(a.res) + 2
            /\ \A j \in 1..Len(a.res) : r[j] = a.res[j]
            /\ r[Len(a.res) + 1] = d /\ r[Len(a.res) + 2] = e
        BY <1>1, <4>1, <4>2, PushTwo DEF r
      <4>0. Pending(a.cs) = 1
        BY <2>8 DEF Pending
      <4>4. Len(a.res) + 2 = k /\ chars[k - 1] = "*" /\ (\A j \in 1..Len(a.res) : a.res[j] \in {".", chars[j]})
        BY <1>1, <2>8, <3>0, <4>0 DEF Copies
      <4>5. \A j \in 1..k : j \in 1..Len(a.res) \/ j = k - 1 \/ j = k
        BY <1>1, <4>4
      <4>6. Len(a.res) + 1 = k - 1
        BY <1>1, <4>4
      <4>7. \A j \in 1..k : r[j] \in {".", chars[j]}
        BY <4>1, <4>3, <4>4, <4>5, <4>6 DEF c
      <4>8. Copies(b, chars, k)
        <5>1. Len(r) = k /\ b.res = r /\ Pending(b.cs) = 0 /\ b.cs # "block_comment_closing"
          BY <1>1, <2>2, <4>1, <4>3, <4>4 DEF Pending
        <5> QED BY <1>1, <4>7, <5>1 DEF Copies
      <4> QED BY <2>2, <2>8, <4>8 DEF Reads
    <3> QED BY <3>1, <3>2
  <2> QED BY <1>1, <2>3, <2>5, <2>6, <2>7, <2>8 DEF Statuses
<1> QED BY <1>2, <1>3

\* What a search for the end of the code may begin with.
Settled == {"normal", "apos", "apos_t", "quot", "quot_t", "block_comment"}

LEMMA Rest ==
  ASSUME NEW line \in Letters, NEW skip \in 0..Len(line)
  PROVE  LET chars == SubSeq(line, skip + 1, Len(line)) IN
         chars \in Letters /\ Len(chars) = Len(line) - skip /\ \A j \in 1..Len(chars) : chars[j] = line[skip + j]
<1>1. line \in Seq(Char) /\ Len(line) \in Nat /\ skip \in Nat /\ skip + 1 \in 1..Len(line) + 1 /\ Len(line) \in skip..Len(line)
  BY DEF Letters
<1>2. SubSeq(line, skip + 1, Len(line)) \in Seq(Char)
  BY <1>1, SubSeqProperties
<1>3. Len(SubSeq(line, skip + 1, Len(line))) = Len(line) - skip
  BY <1>1, SubSeqProperties
<1>4. \A j \in 1..Len(line) - skip : SubSeq(line, skip + 1, Len(line))[j] = line[skip + j]
  BY <1>1, <1>3, SubSeqProperties
<1> QED BY <1>2, <1>3, <1>4 DEF Letters

\* The search keeps Reads true.
LEMMA ScannedReads ==
  ASSUME NEW cs \in Settled, NEW chars \in Letters
  PROVE  \A k \in 0..Len(chars) : Reads(Scanned(cs, chars)[k], chars, k)
<1> DEFINE g == Scanned(cs, chars)
           T == {k \in 0..Len(chars) : Reads(g[k], chars, k)}
<1>1. /\ g \in [0..Len(chars) -> Scans]
      /\ g[0] = [cs |-> cs, res |-> <<>>, odd |-> FALSE, at |-> npos]
      /\ \A k \in 1..Len(chars) : g[k] = Scan(g[k - 1], chars[k])
  BY ScannedIs DEF Settled, Statuses
<1>2. Len(chars) \in Nat
  BY DEF Letters
<1> HIDE DEF g
<1>3. 0 \in T
  <2>1. Copies(g[0], chars, 0)
    BY <1>1 DEF Copies, Pending, Settled
  <2>2. g[0].at = npos /\ 0 \in 0..Len(chars)
    BY <1>1, <1>2
  <2>3. Reads(g[0], chars, 0)
    BY <2>1, <2>2 DEF Reads
  <2> QED BY <2>2, <2>3
<1>4. ASSUME NEW m \in 0..(Len(chars) - 1), m \in T PROVE m + 1 \in T
  <2>1. m + 1 \in 1..Len(chars) /\ m + 1 - 1 = m /\ m + 1 \in 0..Len(chars)
    BY <1>2
  <2>2. g[m] \in Scans /\ Reads(g[m], chars, m)
    BY <1>1, <1>4
  <2>3. Reads(Scan(g[m], chars[m + 1]), chars, m + 1)
    BY <2>1, <2>2, ScanReads
  <2> QED BY <1>1, <2>1, <2>3
<1>5. \A k \in 0..Len(chars) : k \in T
  <2> HIDE DEF T
  <2> QED BY <1>2, <1>3, <1>4, Counting
<1> QED BY <1>5 DEF g

\* What is found is %>, in normal status; and the next search begins with a status that it can begin with.
LEMMA CodeFindRight ==
  ASSUME NEW line \in Letters, NEW skip \in 0..Len(line), NEW cs \in Settled
  PROVE  LET f == CodeFind(line, skip, cs) IN
         /\ f \in [at : Nat \cup {npos}, cs : Statuses, odd : BOOLEAN]
         /\ ~f.odd => f.cs \in Settled
         /\ ~f.odd /\ f.at # npos =>
              f.at \in skip..Len(line) - 2 /\ line[f.at + 1] = "%" /\ line[f.at + 2] = ">" /\ f.cs = "normal"
<1> DEFINE chars == SubSeq(line, skip + 1, Len(line))
           n == Len(chars)
           a == Scanned(cs, chars)[n]
           f == Position(a, skip)
<1>1. chars \in Letters /\ n = Len(line) - skip /\ \A j \in 1..n : chars[j] = line[skip + j]
  BY Rest
<1>2. CodeFind(line, skip, cs) = f
  BY DEF CodeFind
<1>3. n \in Nat /\ Len(line) \in Nat
  BY <1>1 DEF Letters
<1> HIDE DEF chars, n
<1>4. a \in Scans
  BY <1>1, <1>3, ScannedIs DEF Settled, Statuses, n
<1>5. Reads(a, chars, n)
  BY <1>1, <1>3, ScannedReads DEF n
<1> HIDE DEF a
<1>6. f \in [at : Nat \cup {npos}, cs : Statuses, odd : BOOLEAN]
  BY <1>4 DEF Position, Scans, Statuses, npos
<1>7. ~f.odd => f.cs \in Settled /\ ~a.odd
  BY <1>4 DEF Position, Scans, Statuses, Settled
<1>8. ASSUME ~f.odd, f.at # npos
      PROVE  f.at \in skip..Len(line) - 2 /\ line[f.at + 1] = "%" /\ line[f.at + 2] = ">" /\ f.cs = "normal"
  <2>1. a.at # npos /\ f.at = a.at + skip /\ ~a.odd
    BY <1>4, <1>7, <1>8 DEF Position, Scans, npos
  <2>2. a.at \in Nat /\ Ends(a, chars, n)
    BY <1>4, <1>5, <2>1 DEF Reads, Scans
  <2>3. a.at + 1 \in 1..n /\ a.at + 2 \in 1..n
    BY <1>3, <2>2 DEF Ends
  <2>4. line[skip + (a.at + 1)] = "%" /\ line[skip + (a.at + 2)] = ">"
    BY <1>1, <2>2, <2>3 DEF Ends
  <2>5. skip + (a.at + 1) = f.at + 1 /\ skip + (a.at + 2) = f.at + 2 /\ f.at \in skip..Len(line) - 2
    BY <1>1, <1>3, <2>1, <2>2, <2>3, SMTT(30)
  <2>6. f.cs = "normal"
    BY <2>2 DEF Position, Ends
  <2> QED BY <2>4, <2>5, <2>6
<1> HIDE DEF f
<1> QED BY <1>2, <1>6, <1>7, <1>8

----------------------------------------------------------------------------
(* JsHtml: what quotation marks hide *)

\* How many apostrophes there are before k.
LEMMA QuotesType ==
  ASSUME NEW s \in Letters, NEW k \in Nat
  PROVE  Quotes(s, k) \in Nat /\ IsFiniteSet({j \in 1..k - 1 : s[j] = "'"})
<1>1. IsFiniteSet(1..k - 1)
  BY FS_Interval
<1>2. {j \in 1..k - 1 : s[j] = "'"} \subseteq 1..k - 1
  OBVIOUS
<1>3. IsFiniteSet({j \in 1..k - 1 : s[j] = "'"})
  BY <1>1, <1>2, FS_Subset
<1> QED BY <1>3, FS_CardinalityType DEF Quotes

LEMMA QuotesOne == ASSUME NEW s PROVE Quotes(s, 1) = 0
<1>1. {j \in 1..1 - 1 : s[j] = "'"} = {}
  OBVIOUS
<1> QED BY <1>1, FS_EmptySet DEF Quotes

LEMMA QuotesNext ==
  ASSUME NEW s \in Letters, NEW k \in Nat \ {0}
  PROVE  Quotes(s, k + 1) = Quotes(s, k) + IF s[k] = "'" THEN 1 ELSE 0
<1> DEFINE S == {j \in 1..k - 1 : s[j] = "'"}
           T == {j \in 1..(k + 1) - 1 : s[j] = "'"}
<1>1. IsFiniteSet(S) /\ Quotes(s, k) = Cardinality(S) /\ Quotes(s, k + 1) = Cardinality(T) /\ Cardinality(S) \in Nat
  BY QuotesType DEF Quotes
<1>2. CASE s[k] = "'"
  <2>1. T = S \cup {k} /\ k \notin S
    BY <1>2
  <2> HIDE DEF S, T
  <2>2. Cardinality(S \cup {k}) = Cardinality(S) + 1
    BY <1>1, <2>1, FS_AddElement
  <2> QED BY <1>1, <1>2, <2>1, <2>2
<1>3. CASE s[k] # "'"
  <2>1. T = S
    BY <1>3
  <2> HIDE DEF S, T
  <2> QED BY <1>1, <1>3, <2>1
<1> QED BY <1>2, <1>3

\* They are counted the same in what is the same up to k.
LEMMA QuotesSame ==
  ASSUME NEW s, NEW t, NEW k \in Nat, \A j \in 1..k - 1 : s[j] = t[j]
  PROVE  Quotes(s, k) = Quotes(t, k)
<1>1. {j \in 1..k - 1 : s[j] = "'"} = {j \in 1..k - 1 : t[j] = "'"}
  OBVIOUS
<1> QED BY <1>1 DEF Quotes

\* Apostrophes are the only thing that hides the pattern in code that has no other.
Hides == {"\"", "\\", "/"}
Clean(chars, k) == \A j \in 1..k : chars[j] \notin Hides
Hidden(chars, k) == \A j \in 1..k - 1 : chars[j] = "%" /\ chars[j + 1] = ">" => Quotes(chars, j) % 2 = 1
Counts(a, chars, k) ==
  /\ ~a.odd /\ a.cs = (IF Quotes(chars, k + 1) % 2 = 0 THEN "normal" ELSE "apos")
  /\ Len(a.res) = k /\ (k > 0 /\ a.cs = "normal" => a.res[k] = chars[k])
  /\ Hidden(chars, k)
Quoted(a, chars, k) ==
  ~a.odd => IF a.at = npos THEN Clean(chars, k) => Counts(a, chars, k)
            ELSE Clean(chars, a.at) => Hidden(chars, a.at) /\ Quotes(chars, a.at + 1) % 2 = 0

\* One more apostrophe hides what was not hidden, and the other way round.
LEMMA Parity ==
  ASSUME NEW n \in Nat
  PROVE  n % 2 \in {0, 1} /\ (n + 1) % 2 = (IF n % 2 = 0 THEN 1 ELSE 0)
OBVIOUS

\* One character of such code.
LEMMA ScanCounts ==
  ASSUME NEW chars \in Letters, NEW k \in 1..Len(chars), NEW a \in Scans, a.at = npos, Counts(a, chars, k - 1),
         chars[k] \notin Hides
  PROVE  LET b == Scan(a, chars[k]) IN
         /\ ~b.odd /\ b.cs = (IF Quotes(chars, k + 1) % 2 = 0 THEN "normal" ELSE "apos")
         /\ Len(b.res) = k /\ (b.cs = "normal" => b.res[k] = chars[k])
         /\ \A j \in 1..k - 1 : b.res[j] = a.res[j]
         /\ b.at = IF a.cs = "normal" /\ b.cs = "normal" /\ k > 1 /\ b.res[k - 1] = "%" /\ b.res[k] = ">"
                     THEN k - 2 ELSE npos
<1> DEFINE c == chars[k]
           t == Turn(a.cs, c)
           r == a.res \o t[2]
           b == Scan(a, c)
           q == Quotes(chars, k)
<1>0. k \in Nat \ {0} /\ k > 0 /\ c \in Char /\ a.res \in Letters /\ (k - 1) + 1 = k
  <2>1. k \in Nat /\ k > 0
    BY DEF Letters
  <2>2. c \in Char /\ a.res \in Letters
    BY DEF Letters, Scans
  <2> QED BY <2>1, <2>2
<1>1. "." \in Char
  BY CharAssumption
<1>2. /\ b.cs = t[1] /\ b.res = r /\ b.odd = (a.odd \/ Twice(a.cs, c))
      /\ b.at = IF a.cs = "normal" /\ t[1] = "normal" /\ Len(r) > 1 /\ r[Len(r) - 1] = "%" /\ r[Len(r)] = ">"
                  THEN Len(r) - 2 ELSE npos
  BY DEF Scan, Pushed, Found
<1>3. /\ ~a.odd /\ a.cs = (IF q % 2 = 0 THEN "normal" ELSE "apos") /\ Len(a.res) = k - 1
  <2>1. ~a.odd /\ a.cs = (IF Quotes(chars, (k - 1) + 1) % 2 = 0 THEN "normal" ELSE "apos") /\ Len(a.res) = k - 1
    BY DEF Counts
  <2> QED BY <1>0, <2>1
<1>4. q \in Nat /\ Quotes(chars, k + 1) = q + IF c = "'" THEN 1 ELSE 0
  <2>1. q \in Nat
    BY <1>0, QuotesType
  <2>2. Quotes(chars, k + 1) = q + IF chars[k] = "'" THEN 1 ELSE 0
    BY <1>0, QuotesNext
  <2> QED BY <2>1, <2>2
<1> HIDE DEF b, q
<1>5. /\ t[1] = IF c = "'" THEN (IF a.cs = "normal" THEN "apos" ELSE "normal") ELSE a.cs
      /\ t[2] \in {<<c>>, <<".">>} /\ (t[1] = "normal" => t[2] = <<c>>)
  <2>1. CASE a.cs = "normal"
    BY <2>1 DEF Turn, Hides
  <2>2. CASE a.cs = "apos"
    BY <2>2 DEF Turn, Hides
  <2> QED BY <1>3, <2>1, <2>2
<1> HIDE DEF t, c
<1>6. t[1] = (IF Quotes(chars, k + 1) % 2 = 0 THEN "normal" ELSE "apos")
  <2>0. q \in Nat
    BY <1>4
  <2>1. q % 2 \in {0, 1} /\ (q + 1) % 2 = (IF q % 2 = 0 THEN 1 ELSE 0)
    BY <2>0, Parity
  <2>2. CASE c = "'"
    <3>1. Quotes(chars, k + 1) % 2 = (IF q % 2 = 0 THEN 1 ELSE 0)
      BY <1>4, <2>1, <2>2
    <3>2. CASE q % 2 = 0
      <4>1. t[1] = "apos"
        BY <1>3, <1>5, <2>2, <3>2
      <4>2. Quotes(chars, k + 1) % 2 = 1
        BY <3>1, <3>2
      <4> QED BY <4>1, <4>2
    <3>3. CASE q % 2 = 1
      <4>1. t[1] = "normal"
        BY <1>3, <1>5, <2>2, <3>3
      <4>2. Quotes(chars, k + 1) % 2 = 0
        BY <3>1, <3>3
      <4> QED BY <4>1, <4>2
    <3> QED BY <2>1, <3>2, <3>3
  <2>3. CASE c # "'"
    <3>1. Quotes(chars, k + 1) = q
      BY <1>4, <2>1, <2>3
    <3> QED BY <1>3, <1>5, <2>3, <3>1
  <2> QED BY <2>2, <2>3
<1>7. PICK d \in {c, "."} : t[2] = <<d>> /\ (t[1] = "normal" => d = c)
  BY <1>5
<1>8. Len(r) = k /\ (\A j \in 1..k - 1 : r[j] = a.res[j]) /\ r[k] = d
  <2>1. d \in Char /\ Len(a.res) + 1 = k
    BY <1>0, <1>1, <1>3, <1>7
  <2>2. Len(a.res \o <<d>>) = Len(a.res) + 1 /\ (\A j \in 1..Len(a.res) : (a.res \o <<d>>)[j] = a.res[j])
        /\ (a.res \o <<d>>)[Len(a.res) + 1] = d
    BY <1>0, <2>1, PushOne
  <2> QED BY <1>3, <1>7, <2>1, <2>2
<1>9. ~b.odd
  BY <1>2, <1>3 DEF Twice
<1> HIDE DEF r
<1> QED BY <1>0, <1>2, <1>6, <1>7, <1>8, <1>9 DEF b, c

LEMMA ScanQuoted ==
  ASSUME NEW chars \in Letters, NEW k \in 1..Len(chars), NEW a \in Scans, Quoted(a, chars, k - 1), Reads(a, chars, k - 1),
         Reads(Scan(a, chars[k]), chars, k)
  PROVE  Quoted(Scan(a, chars[k]), chars, k)
<1> DEFINE c == chars[k]
           b == Scan(a, c)
<1>1. k \in Nat /\ k > 0 /\ (k - 1) + 1 = k /\ c \in Char /\ a.res \in Letters
  BY DEF Letters, Scans
<1>2. CASE a.at # npos
  BY <1>2 DEF Scan, Quoted
<1>3. CASE a.at = npos
  <2> SUFFICES ASSUME ~b.odd PROVE Quoted(b, chars, k)
    BY DEF Quoted
  <2>1. ~a.odd
    BY <1>3 DEF Scan, Pushed, Found
  <2>2. b.at # npos => Ends(b, chars, k)
    BY DEF Reads
  <2>3. ASSUME Clean(chars, k - 1) PROVE Counts(a, chars, k - 1)
    BY <1>3, <2>1, <2>3 DEF Quoted
  <2>4. ASSUME Counts(a, chars, k - 1), chars[k] \notin Hides
        PROVE  /\ b.cs = (IF Quotes(chars, k + 1) % 2 = 0 THEN "normal" ELSE "apos")
               /\ Len(b.res) = k /\ (b.cs = "normal" => b.res[k] = chars[k])
               /\ \A j \in 1..k - 1 : b.res[j] = a.res[j]
               /\ b.at = IF a.cs = "normal" /\ b.cs = "normal" /\ k > 1 /\ b.res[k - 1] = "%" /\ b.res[k] = ">"
                           THEN k - 2 ELSE npos
               /\ a.cs = (IF Quotes(chars, k) % 2 = 0 THEN "normal" ELSE "apos")
               /\ k > 1 /\ a.cs = "normal" => a.res[k - 1] = chars[k - 1]
               /\ Hidden(chars, k - 1)
    <3>1. /\ a.cs = (IF Quotes(chars, (k - 1) + 1) % 2 = 0 THEN "normal" ELSE "apos")
          /\ (k - 1 > 0 /\ a.cs = "normal" => a.res[k - 1] = chars[k - 1])
          /\ Hidden(chars, k - 1)
      BY <2>4 DEF Counts
    <3>2. /\ b.cs = (IF Quotes(chars, k + 1) % 2 = 0 THEN "normal" ELSE "apos")
          /\ Len(b.res) = k /\ (b.cs = "normal" => b.res[k] = chars[k])
          /\ \A j \in 1..k - 1 : b.res[j] = a.res[j]
          /\ b.at = IF a.cs = "normal" /\ b.cs = "normal" /\ k > 1 /\ b.res[k - 1] = "%" /\ b.res[k] = ">"
                      THEN k - 2 ELSE npos
      BY <1>3, <2>4, ScanCounts
    <3>3. k > 1 => k - 1 > 0
      BY <1>1
    <3> HIDE DEF b, c
    <3> QED BY <1>1, <3>1, <3>2, <3>3
  <2>5. CASE b.at = npos
    <3> SUFFICES ASSUME Clean(chars, k) PROVE Counts(b, chars, k)
      BY <2>5 DEF Quoted
    <3>0. Counts(a, chars, k - 1) /\ chars[k] \notin Hides
      <4>1. Clean(chars, k - 1) /\ chars[k] \notin Hides
        <5>1. k \in 1..k /\ \A j \in 1..k - 1 : j \in 1..k
          BY <1>1
        <5> QED BY <5>1 DEF Clean
      <4> QED BY <2>3, <4>1
    <3>1. ASSUME NEW j \in 1..k - 1, chars[j] = "%", chars[j + 1] = ">" PROVE Quotes(chars, j) % 2 = 1
      <4>1. CASE j < k - 1
        <5>1. j \in 1..(k - 1) - 1
          BY <1>1, <4>1
        <5> QED BY <2>4, <3>0, <3>1, <5>1 DEF Hidden
      <4>2. CASE j = k - 1
        <5>1. Quotes(chars, k) = Quotes(chars, j) /\ Quotes(chars, k + 1) = Quotes(chars, k) /\ Quotes(chars, j) \in Nat
          <6>1. chars[j] # "'" /\ chars[k] # "'" /\ j + 1 = k /\ j \in Nat \ {0} /\ k \in Nat \ {0}
            BY <1>1, <3>1, <4>2
          <6>2. Quotes(chars, j + 1) = Quotes(chars, j) + 0 /\ Quotes(chars, k + 1) = Quotes(chars, k) + 0
            BY <6>1, QuotesNext
          <6>3. Quotes(chars, j) \in Nat /\ Quotes(chars, k) \in Nat
            BY <6>1, QuotesType
          <6> QED BY <6>1, <6>2, <6>3
        <5>2. ASSUME Quotes(chars, j) % 2 = 0 PROVE FALSE
          <6> HIDE DEF b
          <6>1. a.cs = "normal" /\ b.cs = "normal" /\ k > 1
            <7>1. Quotes(chars, k) % 2 = 0 /\ Quotes(chars, k + 1) % 2 = 0
              BY <5>1, <5>2
            <7>2. k > 1
              BY <1>1, <4>2
            <7>3. a.cs = (IF Quotes(chars, k) % 2 = 0 THEN "normal" ELSE "apos")
                  /\ b.cs = (IF Quotes(chars, k + 1) % 2 = 0 THEN "normal" ELSE "apos")
              BY <2>4, <3>0
            <7> QED BY <7>1, <7>2, <7>3
          <6>2. b.res[k - 1] = "%" /\ b.res[k] = ">"
            <7>1. k - 1 \in 1..k - 1 /\ chars[k - 1] = "%" /\ chars[k] = ">"
              BY <1>1, <3>1, <4>2
            <7> QED BY <2>4, <3>0, <6>1, <7>1
          <6>3. b.at = k - 2
            BY <2>4, <3>0, <6>1, <6>2
          <6> QED BY <1>1, <2>5, <6>1, <6>3 DEF npos
        <5> QED BY <5>1, <5>2, Parity
      <4> QED BY <1>1, <4>1, <4>2
    <3> HIDE DEF b, c
    <3>2. Hidden(chars, k)
      BY <3>1 DEF Hidden
    <3> QED BY <2>4, <3>0, <3>2 DEF Counts
  <2>6. CASE b.at # npos
    <3> SUFFICES ASSUME Clean(chars, b.at) PROVE Hidden(chars, b.at) /\ Quotes(chars, b.at + 1) % 2 = 0
      BY <2>6 DEF Quoted
    <3>1. a.cs = "normal" /\ b.at = Len(b.res) - 2 /\ b.res = a.res \o <<c>>
      <4> DEFINE t == Turn(a.cs, c)
      <4>1. b = Pushed(a, t, c)
        BY <1>3, <2>6 DEF Scan
      <4>2. a.cs = "normal" /\ t[1] = "normal" => t[2] = <<c>>
        BY DEF Turn
      <4> HIDE DEF b, c, t
      <4>3. b.res = a.res \o t[2]
        BY ONLY <4>1 DEF Pushed, Found
      <4>4. b.at = IF a.cs = "normal" /\ t[1] = "normal" /\ Len(b.res) > 1
                      /\ b.res[Len(b.res) - 1] = "%" /\ b.res[Len(b.res)] = ">"
                   THEN Len(b.res) - 2 ELSE npos
        BY ONLY <4>1 DEF Pushed, Found
      <4>5. a.cs = "normal" /\ t[1] = "normal" /\ b.at = Len(b.res) - 2
        BY <2>6, <4>4
      <4> QED BY <4>2, <4>3, <4>5
    <3>2. Len(a.res) = k - 1
      BY <1>3, <2>1, <3>1 DEF Reads, Copies, Pending
    <3>3. Len(b.res) = Len(a.res) + 1
      BY <1>1, <3>1, PushOne
    <3>4. b.at = k - 2
      BY <1>1, <3>1, <3>2, <3>3
    <3>5. chars[k - 1] = "%" /\ chars[k] = ">" /\ k > 1
      <4>1. chars[b.at + 1] = "%" /\ chars[b.at + 2] = ">" /\ b.at \in Nat
        BY <1>1, <2>2, <2>6, ScanType DEF Ends, Scans
      <4>2. b.at + 1 = k - 1 /\ b.at + 2 = k
        BY <1>1, <3>4
      <4> QED BY <1>1, <3>4, <4>1, <4>2
    <3> HIDE DEF b, c
    <3>6. Clean(chars, k - 1)
      <4>1. \A j \in 1..k - 1 : j \in 1..b.at \/ j = k - 1
        BY <1>1, <3>4, <3>5
      <4> QED BY <3>5, <4>1 DEF Clean, Hides
    <3>7. Counts(a, chars, k - 1) /\ chars[k] \notin Hides
      BY <2>3, <3>5, <3>6 DEF Hides
    <3>8. Hidden(chars, b.at)
      BY <1>1, <2>4, <3>4, <3>5, <3>7 DEF Hidden
    <3>9. Quotes(chars, k - 1) % 2 = 0
      <4>1. Quotes(chars, k) % 2 = 0
        BY <2>4, <3>1, <3>7
      <4>2. Quotes(chars, (k - 1) + 1) = Quotes(chars, k - 1) + 0 /\ Quotes(chars, k - 1) \in Nat
        <5>1. k - 1 \in Nat \ {0} /\ chars[k - 1] # "'"
          BY <1>1, <3>5
        <5> QED BY <5>1, QuotesNext, QuotesType
      <4> QED BY <1>1, <4>1, <4>2
    <3>10. b.at + 1 = k - 1
      BY <1>1, <3>4
    <3> QED BY <3>8, <3>9, <3>10
  <2> QED BY <2>5, <2>6
<1> QED BY <1>2, <1>3

----------------------------------------------------------------------------
(* JsHtml: where the end of the code is found *)

LEMMA ScannedQuoted ==
  ASSUME NEW chars \in Letters
  PROVE  \A k \in 0..Len(chars) : Quoted(Scanned("normal", chars)[k], chars, k)
<1> DEFINE g == Scanned("normal", chars)
           T == {k \in 0..Len(chars) : Quoted(g[k], chars, k)}
<1>1. /\ g \in [0..Len(chars) -> Scans]
      /\ g[0] = [cs |-> "normal", res |-> <<>>, odd |-> FALSE, at |-> npos]
      /\ \A k \in 1..Len(chars) : g[k] = Scan(g[k - 1], chars[k])
  BY ScannedIs DEF Statuses
<1>2. \A k \in 0..Len(chars) : Reads(g[k], chars, k)
  BY ScannedReads DEF Settled
<1>3. Len(chars) \in Nat
  BY DEF Letters
<1> HIDE DEF g
<1>4. 0 \in T
  <2>1. Quotes(chars, 0 + 1) = 0
    BY QuotesOne
  <2>2. Counts(g[0], chars, 0)
    BY <1>1, <2>1 DEF Counts, Hidden
  <2>3. g[0].at = npos /\ 0 \in 0..Len(chars)
    BY <1>1, <1>3
  <2>4. Quoted(g[0], chars, 0)
    BY <2>2, <2>3 DEF Quoted
  <2> QED BY <2>3, <2>4
<1>5. ASSUME NEW m \in 0..(Len(chars) - 1), m \in T PROVE m + 1 \in T
  <2>1. m + 1 \in 1..Len(chars) /\ m + 1 - 1 = m /\ m \in 0..Len(chars) /\ m + 1 \in 0..Len(chars)
    BY <1>3
  <2>2. g[m] \in Scans /\ Quoted(g[m], chars, m) /\ Reads(g[m], chars, m) /\ Reads(g[m + 1], chars, m + 1)
    BY <1>1, <1>2, <1>5, <2>1
  <2>3. g[m + 1] = Scan(g[m], chars[m + 1])
    BY <1>1, <2>1
  <2>4. Quoted(Scan(g[m], chars[m + 1]), chars, m + 1)
    BY <2>1, <2>2, <2>3, ScanQuoted
  <2> QED BY <2>1, <2>3, <2>4
<1>6. \A k \in 0..Len(chars) : k \in T
  <2> HIDE DEF T
  <2> QED BY <1>3, <1>4, <1>5, Counting
<1> QED BY <1>6 DEF g

\* The quotation marks of code behind its first character, which is none.
LEMMA QuotesBehind ==
  ASSUME NEW chars \in Letters, NEW s \in Letters, NEW n \in Nat, chars[1] # "'", \A j \in 1..n : s[j] = chars[j + 1]
  PROVE  \A m \in 0..n : Quotes(chars, m + 2) = Quotes(s, m + 1)
<1> DEFINE T == {m \in 0..n : Quotes(chars, m + 2) = Quotes(s, m + 1)}
<1>1. 0 \in T
  <2>1. Quotes(chars, 1 + 1) = Quotes(chars, 1) + 0
    BY QuotesNext
  <2>2. Quotes(chars, 1) = 0 /\ Quotes(s, 1) = 0
    BY QuotesOne
  <2> QED BY <2>1, <2>2
<1>2. ASSUME NEW m \in 0..(n - 1), m \in T PROVE m + 1 \in T
  <2>1. m + 1 \in 1..n /\ m + 1 \in Nat \ {0} /\ m + 2 \in Nat \ {0} /\ (m + 2) + 1 = (m + 1) + 2 /\ m + 1 \in 0..n /\ (m + 1) + 1 = m + 2
    OBVIOUS
  <2>2. Quotes(chars, (m + 2) + 1) = Quotes(chars, m + 2) + IF chars[m + 2] = "'" THEN 1 ELSE 0
    BY <2>1, QuotesNext
  <2>3. Quotes(s, (m + 1) + 1) = Quotes(s, m + 1) + IF s[m + 1] = "'" THEN 1 ELSE 0
    BY <2>1, QuotesNext
  <2>4. s[m + 1] = chars[m + 2]
    BY <2>1
  <2>5. Quotes(chars, m + 2) = Quotes(s, m + 1)
    BY <1>2
  <2>6. Quotes(chars, (m + 1) + 2) = Quotes(s, (m + 1) + 1)
    BY <2>1, <2>2, <2>3, <2>4, <2>5
  <2> QED BY <2>1, <2>6
<1> HIDE DEF T
<1>3. \A m \in 0..n : m \in T
  BY <1>1, <1>2, Counting
<1> QED BY <1>3 DEF T

LEMMA Piece ==
  ASSUME NEW line \in Letters, NEW i \in 0..Len(line), NEW j \in i..Len(line)
  PROVE  /\ SubSeq(line, i + 1, j) \in Letters /\ Len(SubSeq(line, i + 1, j)) = j - i
         /\ \A m \in 1..j - i : SubSeq(line, i + 1, j)[m] = line[i + m]
<1>1. line \in Seq(Char) /\ Len(line) \in Nat /\ i \in Nat /\ j \in Nat /\ i + 1 \in 1..Len(line) + 1 /\ j \in i..Len(line)
  BY DEF Letters
<1>2. SubSeq(line, i + 1, j) \in Seq(Char)
  BY <1>1, SubSeqProperties
<1>3. Len(SubSeq(line, i + 1, j)) = j - i
  BY <1>1, SubSeqProperties
<1>4. \A m \in 1..j - i : SubSeq(line, i + 1, j)[m] = line[i + m]
  BY <1>1, <1>3, SubSeqProperties
<1> QED BY <1>2, <1>3, <1>4 DEF Letters

\* The code that is found, and the expression, end where they should.
LEMMA CodeEnds ==
  ASSUME NEW line \in Letters, NEW skip \in 0..Len(line), NEW f, f = CodeFind(line, skip, "normal"), ~f.odd, f.at # npos
  PROVE  /\ LET s == SubSeq(line, skip + 1, f.at) IN Clean(s, Len(s)) => EndsRight(s)
         /\ skip < Len(line) /\ line[skip + 1] = "=" =>
              /\ skip + 1 <= f.at
              /\ LET s == SubSeq(line, skip + 2, f.at) IN Clean(s, Len(s)) => EndsRight(s)
<1> DEFINE chars == SubSeq(line, skip + 1, Len(line))
           n == Len(chars)
           a == Scanned("normal", chars)[n]
           found == a.at
<1>1. chars \in Letters /\ n = Len(line) - skip /\ (\A j \in 1..n : chars[j] = line[skip + j])
  BY Rest
<1>2. n \in Nat /\ Len(line) \in Nat /\ skip \in Nat
  BY <1>1 DEF Letters
<1>3. f = Position(a, skip)
  BY DEF CodeFind
<1> HIDE DEF chars, n
<1>4. a \in Scans /\ Reads(a, chars, n) /\ Quoted(a, chars, n)
  <2>1. n \in 0..Len(chars) /\ "normal" \in Settled /\ "normal" \in Statuses
    BY <1>2 DEF Settled, Statuses, n
  <2>2. Scanned("normal", chars) \in [0..Len(chars) -> Scans]
    BY <1>1, <2>1, ScannedIs
  <2>3. a \in Scans
    BY <2>1, <2>2
  <2>4. Reads(a, chars, n)
    <3>1. \A k \in 0..Len(chars) : Reads(Scanned("normal", chars)[k], chars, k)
      BY <1>1, <2>1, ScannedReads
    <3> QED BY <2>1, <3>1
  <2>5. Quoted(a, chars, n)
    <3>1. \A k \in 0..Len(chars) : Quoted(Scanned("normal", chars)[k], chars, k)
      BY <1>1, ScannedQuoted
    <3> QED BY <2>1, <3>1
  <2> QED BY <2>3, <2>4, <2>5
<1> HIDE DEF a
<1>5. found # npos /\ found \in Nat /\ f.at = found + skip /\ ~a.odd
  BY <1>3, <1>4 DEF Position, Scans, npos
<1>6. found + 2 <= n /\ chars[found + 1] = "%"
  BY <1>4, <1>5 DEF Reads, Ends
<1>7. Clean(chars, found) => Hidden(chars, found) /\ Quotes(chars, found + 1) % 2 = 0
  BY <1>4, <1>5 DEF Quoted
<1>8. f.at \in skip..Len(line)
  BY <1>1, <1>2, <1>5, <1>6, SMTT(30)
<1> HIDE DEF found
<1>9. ASSUME NEW s, s = SubSeq(line, skip + 1, f.at), Clean(s, Len(s)) PROVE EndsRight(s)
  <2>1. s \in Letters /\ Len(s) = found /\ \A m \in 1..found : s[m] = chars[m]
    <3>1. s \in Letters /\ Len(s) = f.at - skip /\ \A m \in 1..f.at - skip : s[m] = line[skip + m]
      BY <1>8, <1>9, Piece
    <3>2. f.at - skip = found /\ \A m \in 1..found : m \in 1..n
      BY <1>2, <1>5, <1>6
    <3> QED BY <1>1, <3>1, <3>2
  <2>2. Clean(chars, found)
    BY <1>9, <2>1 DEF Clean
  <2>3. \A k \in 1..found + 1 : Quotes(s, k) = Quotes(chars, k)
    <3> SUFFICES ASSUME NEW k \in 1..found + 1 PROVE Quotes(s, k) = Quotes(chars, k)
      OBVIOUS
    <3>1. k \in Nat /\ \A j \in 1..k - 1 : s[j] = chars[j]
      BY <1>5, <2>1
    <3> QED BY <3>1, QuotesSame
  <2>4. \A k \in 1..found - 1 : k \in 1..found /\ k + 1 \in 1..found /\ k \in 1..found + 1
    BY <1>5
  <2>5. found + 1 \in 1..found + 1
    BY <1>5
  <2>6. Hidden(chars, found) /\ Quotes(chars, found + 1) % 2 = 0
    BY <1>7, <2>2
  <2>7. \A k \in 1..found - 1 : s[k] = "%" /\ s[k + 1] = ">" => Quotes(s, k) % 2 = 1
    BY <2>1, <2>3, <2>4, <2>6 DEF Hidden
  <2> QED BY <2>1, <2>3, <2>5, <2>6, <2>7 DEF EndsRight
<1>10. ASSUME skip < Len(line), line[skip + 1] = "=" PROVE skip + 1 <= f.at
  <2>1. chars[1] = "="
    BY <1>1, <1>2, <1>10
  <2>2. found # 0
    BY <1>5, <1>6, <2>1
  <2> QED BY <1>2, <1>5, <2>2
<1>11. ASSUME skip < Len(line), line[skip + 1] = "=", NEW s, s = SubSeq(line, skip + 2, f.at), Clean(s, Len(s))
       PROVE  EndsRight(s)
  <2>0. found - 1 \in Nat /\ skip + 1 <= f.at
    BY <1>2, <1>5, <1>10, <1>11
  <2>1. s \in Letters /\ Len(s) = found - 1 /\ \A m \in 1..found - 1 : s[m] = chars[m + 1]
    <3>1. s \in Letters /\ Len(s) = f.at - (skip + 1) /\ \A m \in 1..f.at - (skip + 1) : s[m] = line[(skip + 1) + m]
      <4>1. skip + 1 \in 0..Len(line) /\ f.at \in skip + 1..Len(line) /\ (skip + 1) + 1 = skip + 2
        BY <1>2, <1>8, <1>11, <2>0
      <4> QED BY <1>11, <4>1, Piece
    <3>2. f.at - (skip + 1) = found - 1 /\ \A m \in 1..found - 1 : m + 1 \in 1..n /\ skip + (m + 1) = (skip + 1) + m
      BY <1>2, <1>5, <1>6
    <3> QED BY <1>1, <3>1, <3>2
  <2>2. chars[1] = "="
    BY <1>1, <1>2, <1>11
  <2>3. Clean(chars, found)
    <3> SUFFICES ASSUME NEW j \in 1..found PROVE chars[j] \notin Hides
      BY DEF Clean
    <3>1. CASE j = 1
      BY <2>2, <3>1 DEF Hides
    <3>2. CASE j # 1
      <4>1. j - 1 \in 1..found - 1 /\ (j - 1) + 1 = j
        BY <1>5, <3>2
      <4>2. s[j - 1] = chars[j]
        BY <2>1, <4>1
      <4> QED BY <1>11, <2>1, <4>1, <4>2 DEF Clean
    <3> QED BY <3>1, <3>2
  <2>4. \A m \in 0..found - 1 : Quotes(chars, m + 2) = Quotes(s, m + 1)
    BY <1>1, <2>0, <2>1, <2>2, QuotesBehind
  <2>5. Hidden(chars, found) /\ Quotes(chars, found + 1) % 2 = 0
    BY <1>7, <2>3
  <2>6. \A k \in 1..(found - 1) - 1 : s[k] = "%" /\ s[k + 1] = ">" => Quotes(s, k) % 2 = 1
    <3> SUFFICES ASSUME NEW k \in 1..(found - 1) - 1, s[k] = "%", s[k + 1] = ">" PROVE Quotes(s, k) % 2 = 1
      OBVIOUS
    <3>1. k \in 1..found - 1 /\ k + 1 \in 1..found - 1 /\ k - 1 \in 0..found - 1 /\ (k - 1) + 2 = k + 1 /\ (k - 1) + 1 = k
      BY <1>5
    <3>2. chars[k + 1] = "%" /\ chars[(k + 1) + 1] = ">"
      BY <2>1, <3>1
    <3>3. Quotes(chars, k + 1) % 2 = 1
      BY <2>5, <3>1, <3>2 DEF Hidden
    <3>4. Quotes(chars, (k - 1) + 2) = Quotes(s, (k - 1) + 1)
      BY <2>4, <3>1
    <3> QED BY <3>1, <3>3, <3>4
  <2>7. Quotes(s, (found - 1) + 1) % 2 = 0
    <3>1. found - 1 \in 0..found - 1 /\ (found - 1) + 2 = found + 1
      BY <1>5, <2>0
    <3>2. Quotes(chars, (found - 1) + 2) = Quotes(s, (found - 1) + 1)
      BY <2>4, <3>1
    <3> QED BY <2>5, <3>1, <3>2
  <2> QED BY <2>1, <2>6, <2>7 DEF EndsRight
<1> QED BY <1>9, <1>10, <1>11

----------------------------------------------------------------------------
(* JsHtml: types *)

Rows == [kind : {"init", "open", "html", "expr", "code", "newline"}, text : Letters, no : Nat, closed : BOOLEAN, nl : BOOLEAN]
States == [s : {"0", "init", "html", "code"}, cs : Statuses, skip : Nat, stop : BOOLEAN, thrown : BOOLEAN, odd : BOOLEAN,
           out : Seq(Rows)]
Finds == [at : Nat \cup {npos}, cs : Statuses, odd : BOOLEAN]

LEMMA CodeFindType ==
  ASSUME NEW line \in Letters, NEW skip \in Nat, NEW cs \in Statuses
  PROVE  CodeFind(line, skip, cs) \in Finds
<1> DEFINE chars == SubSeq(line, skip + 1, Len(line))
           a == Scanned(cs, chars)[Len(chars)]
<1>1. chars \in Letters
  <2>1. skip + 1 \in Int /\ Len(line) \in Int /\ \A i \in skip + 1..Len(line) : line[i] \in Char
    BY DEF Letters
  <2> QED BY <2>1, SubSeqProperties DEF Letters
<1>2. CodeFind(line, skip, cs) = Position(a, skip)
  BY DEF CodeFind
<1> HIDE DEF chars
<1>3. Len(chars) \in 0..Len(chars)
  BY <1>1 DEF Letters
<1>4. a \in Scans
  BY <1>1, <1>3, ScannedIs
<1> HIDE DEF a
<1>5. Position(a, skip) \in Finds
  BY <1>4 DEF Position, Scans, Statuses, npos, Finds
<1> QED BY <1>2, <1>5

LEMMA HtmlFindRight ==
  ASSUME NEW line \in Letters, NEW skip \in 0..Len(line)
  PROVE  LET found == HtmlFind(line, skip) IN
         /\ found \in skip..Len(line)
         /\ found # Len(line) => found <= Len(line) - 2 /\ line[found + 1] = "<" /\ line[found + 2] = "%"
<1> DEFINE S == {i \in skip + 1 .. Len(line) - 1 : line[i] = "<" /\ line[i + 1] = "%"}
           T == S \cup {Len(line) + 1}
           m == CHOOSE x \in T : \A y \in T : x =< y
<1>1. Len(line) \in Nat /\ skip \in Nat
  BY DEF Letters
<1>2. T \in SUBSET Nat /\ T # {} /\ \A i \in T : i \in skip + 1..Len(line) + 1
  BY <1>1
<1>3. HtmlFind(line, skip) = m - 1
  BY DEF HtmlFind, Min
<1>4. m \in T
  <2> HIDE DEF T
  <2>1. \E x \in T : \A y \in T : x =< y
    BY <1>2, LeastNat
  <2> QED BY <2>1
<1>5. m = Len(line) + 1 \/ m \in S
  BY <1>4
<1> HIDE DEF m
<1>6. m # Len(line) + 1 => m <= Len(line) - 1 /\ line[m] = "<" /\ line[m + 1] = "%"
  BY <1>1, <1>5
<1> HIDE DEF T, S
<1>7. m \in skip + 1..Len(line) + 1
  BY <1>2, <1>4
<1>8. (m - 1) + 1 = m /\ (m - 1) + 2 = m + 1
  BY <1>1, <1>7
<1> QED BY <1>1, <1>3, <1>6, <1>7, <1>8

LEMMA SubstrType ==
  ASSUME NEW line \in Letters, NEW from \in Nat, NEW to \in Nat
  PROVE  Substr(line, from, to) \in Letters
<1> DEFINE n == IF to < Len(line) THEN to ELSE Len(line)
<1>1. from + 1 \in Int /\ n \in Int /\ \A i \in from + 1..n : line[i] \in Char
  BY DEF Letters
<1> HIDE DEF n
<1>2. SubSeq(line, from + 1, n) \in Seq(Char)
  BY <1>1, SubSeqProperties
<1> QED BY <1>2 DEF Substr, Letters, n

LEMMA RowType ==
  ASSUME NEW kind \in {"init", "open", "html", "expr", "code", "newline"}, NEW t \in Letters, NEW no \in Nat,
         NEW closed \in BOOLEAN, NEW nl \in BOOLEAN
  PROVE  /\ Row(kind, t, no, closed, nl) \in Rows
         /\ Row(kind, t, no, closed, nl).kind = kind /\ Row(kind, t, no, closed, nl).text = t /\ Row(kind, t, no, closed, nl).no = no
         /\ Row(kind, t, no, closed, nl).closed = closed /\ Row(kind, t, no, closed, nl).nl = nl
BY DEF Row, Rows

LEMMA NoText == <<>> \in Letters
BY DEF Letters

LEMMA RestOfLineType ==
  ASSUME NEW a \in States, NEW line \in Letters, NEW no \in Nat, NEW kind \in {"init", "html", "code"}
  PROVE  RestOfLine(a, kind, line, no) \in States
<1>1. Len(line) \in Nat /\ a.skip \in Nat
  BY DEF Letters, States
<1>2. Row(kind, Substr(line, a.skip, Len(line)), no, FALSE, kind = "html") \in Rows
  <2> DEFINE chars == Substr(line, a.skip, Len(line))
             breaks == kind = "html"
  <2>1. chars \in Letters
    BY <1>1, SubstrType
  <2>2. breaks \in BOOLEAN
    OBVIOUS
  <2> HIDE DEF chars, breaks
  <2>3. Row(kind, chars, no, FALSE, breaks) \in Rows
    BY <2>1, <2>2 DEF Row, Rows
  <2> QED BY <2>3 DEF chars, breaks
<1>3. Append(a.out, Row(kind, Substr(line, a.skip, Len(line)), no, FALSE, kind = "html")) \in Seq(Rows)
  BY <1>2, AppendProperties DEF States
<1> QED BY <1>1, <1>3 DEF RestOfLine, States

LEMMA InitPartType ==
  ASSUME NEW a \in States, NEW line \in Letters, NEW no \in Nat
  PROVE  InitPart(a, line, no) \in States
<1> DEFINE f == CodeFind(line, a.skip, a.cs)
<1>1. f \in Finds
  BY CodeFindType DEF States
<1> HIDE DEF f
<1>2. CASE f.at = npos
  <2>1. [a EXCEPT !.cs = f.cs, !.odd = @ \/ f.odd] \in States
    BY <1>1 DEF States, Finds
  <2>2. RestOfLine([a EXCEPT !.cs = f.cs, !.odd = @ \/ f.odd], "init", line, no) \in States
    BY <2>1, RestOfLineType
  <2> QED BY <1>2, <2>2 DEF InitPart, InitFound, f
<1>3. CASE f.at # npos
  <2> DEFINE r == Row("init", Substr(line, a.skip, f.at), no, TRUE, FALSE)
             o == Row("open", <<>>, no, FALSE, FALSE)
  <2>1. f.at \in Nat /\ a.skip \in Nat
    BY <1>1, <1>3 DEF Finds, States
  <2>2. r \in Rows /\ o \in Rows
    BY <2>1, SubstrType, RowType, NoText
  <2> HIDE DEF r, o
  <2>3. <<r, o>> \in Seq(Rows)
    BY <2>2
  <2>4. a.out \o <<r, o>> \in Seq(Rows)
    BY <2>3, ConcatProperties DEF States
  <2>5. [a EXCEPT !.cs = f.cs, !.odd = @ \/ f.odd, !.s = "html", !.skip = f.at + 2, !.out = @ \o <<r, o>>] \in States
    <3>1. f.at + 2 \in Nat /\ f.cs \in Statuses /\ (a.odd \/ f.odd) \in BOOLEAN
      BY <1>1, <2>1 DEF States, Finds
    <3> QED BY <2>4, <3>1 DEF States
  <2> QED BY <1>3, <2>5 DEF InitPart, InitFound, f, r, o
<1> QED BY <1>2, <1>3

LEMMA HtmlPartType ==
  ASSUME NEW a \in States, NEW line \in Letters, NEW no \in Nat
  PROVE  HtmlPart(a, line, no) \in States
<1> DEFINE found == HtmlFind(line, a.skip)
<1>1. CASE a.s # "html" \/ a.stop
  BY <1>1 DEF HtmlPart
<1>2. CASE ~(a.s # "html" \/ a.stop) /\ a.skip > Len(line)
  BY <1>2 DEF HtmlPart, States
<1>3. CASE ~(a.s # "html" \/ a.stop) /\ ~(a.skip > Len(line))
  <2>1. a.skip \in 0..Len(line) /\ Len(line) \in Nat
    BY <1>3 DEF Letters, States
  <2>2. found \in Nat
    BY <2>1, HtmlFindRight
  <2>3. HtmlPart(a, line, no) = HtmlFound(a, line, no, found)
    BY <1>3 DEF HtmlPart
  <2> HIDE DEF found
  <2>4. RestOfLine(a, "html", line, no) \in States
    BY RestOfLineType
  <2> DEFINE r == Row("html", Substr(line, a.skip, found), no, TRUE, FALSE)
  <2>5. r \in Rows
    <3>1. Substr(line, a.skip, found) \in Letters
      BY <2>1, <2>2, SubstrType
    <3> QED BY <3>1, RowType
  <2> HIDE DEF r
  <2>6. Append(a.out, r) \in Seq(Rows)
    BY <2>5, AppendProperties DEF States
  <2>7. [a EXCEPT !.s = "code", !.skip = found + 2, !.out = Append(@, r)] \in States
    <3>1. found + 2 \in Nat
      BY <2>2
    <3> QED BY <2>6, <3>1 DEF States
  <2> QED BY <2>3, <2>4, <2>7 DEF HtmlFound, r
<1> QED BY <1>1, <1>2, <1>3

LEMMA CodeRowsType ==
  ASSUME NEW a \in States, NEW line \in Letters, NEW no \in Nat, NEW found \in Nat
  PROVE  CodeRows(a, line, no, found) \in Seq(Rows)
<1>1. a.skip \in Nat /\ a.skip + 1 \in Nat /\ Len(line) \in Nat
  BY DEF States, Letters
<1>2. /\ Row("expr", Substr(line, a.skip + 1, found), no, TRUE, Len(line) <= found + 2) \in Rows
      /\ Row("code", Substr(line, a.skip, found), no, TRUE, FALSE) \in Rows
      /\ Row("newline", <<>>, no, FALSE, TRUE) \in Rows
  <2>1. Substr(line, a.skip + 1, found) \in Letters /\ Substr(line, a.skip, found) \in Letters
    BY <1>1, SubstrType
  <2> DEFINE ends == Len(line) <= found + 2
  <2>2. ends \in BOOLEAN
    OBVIOUS
  <2> HIDE DEF ends
  <2>3. Row("expr", Substr(line, a.skip + 1, found), no, TRUE, ends) \in Rows
    BY <2>1, <2>2 DEF Row, Rows
  <2>4. Row("code", Substr(line, a.skip, found), no, TRUE, FALSE) \in Rows
    BY <2>1, RowType
  <2>5. Row("newline", <<>>, no, FALSE, TRUE) \in Rows
    BY NoText, RowType
  <2> QED BY <2>3, <2>4, <2>5 DEF ends
<1>3. ASSUME NEW r \in Rows, NEW t \in Rows PROVE <<r>> \in Seq(Rows) /\ <<r>> \o <<t>> \in Seq(Rows) /\ <<r>> \o <<>> \in Seq(Rows)
  OBVIOUS
<1> QED BY <1>2, <1>3 DEF CodeRows

LEMMA CodePartType ==
  ASSUME NEW a \in States, NEW line \in Letters, NEW no \in Nat
  PROVE  CodePart(a, line, no) \in States
<1> DEFINE f == CodeFind(line, a.skip, a.cs)
<1>0. f \in Finds
  BY CodeFindType DEF States
<1> HIDE DEF f
<1>1. CASE a.s # "code" \/ a.stop
  BY <1>1 DEF CodePart
<1>2. CASE ~(a.s # "code" \/ a.stop) /\ f.at = npos
  <2>1. [a EXCEPT !.cs = f.cs, !.odd = @ \/ f.odd] \in States
    BY <1>0 DEF States, Finds
  <2>2. RestOfLine([a EXCEPT !.cs = f.cs, !.odd = @ \/ f.odd], "code", line, no) \in States
    BY <2>1, RestOfLineType
  <2> QED BY <1>2, <2>2 DEF CodePart, CodeFound, f
<1>3. CASE ~(a.s # "code" \/ a.stop) /\ f.at # npos
  <2> DEFINE r == CodeRows(a, line, no, f.at)
  <2>1. f.at \in Nat
    BY <1>0, <1>3 DEF Finds
  <2>2. r \in Seq(Rows)
    BY <2>1, CodeRowsType
  <2> HIDE DEF r
  <2>3. a.out \o r \in Seq(Rows)
    BY <2>2, ConcatProperties DEF States
  <2>4. [a EXCEPT !.cs = f.cs, !.odd = @ \/ f.odd, !.s = "html", !.skip = f.at + 2, !.out = @ \o r] \in States
    <3>1. f.at + 2 \in Nat /\ f.cs \in Statuses /\ (a.odd \/ f.odd) \in BOOLEAN
      BY <1>0, <2>1 DEF States, Finds
    <3> QED BY <2>3, <3>1 DEF States
  <2> QED BY <1>3, <2>4 DEF CodePart, CodeFound, f, r
<1> QED BY <1>1, <1>2, <1>3

LEMMA AroundType ==
  ASSUME NEW a \in States, NEW line \in Letters, NEW no \in Nat
  PROVE  Around(a, line, no) \in States
BY InitPartType, HtmlPartType, CodePartType DEF Around

LEMMA LineBeginType ==
  ASSUME NEW a \in States, NEW line \in Letters, NEW no \in Nat
  PROVE  [LineBegin(a, line, no) EXCEPT !.stop = a.thrown] \in States
<1>1. Row("open", <<>>, no, FALSE, FALSE) \in Rows
  BY RowType, NoText
<1>2. Append(a.out, Row("open", <<>>, no, FALSE, FALSE)) \in Seq(Rows)
  BY <1>1, AppendProperties DEF States
<1>3. LineBegin(a, line, no) \in States
  BY <1>2 DEF LineBegin, States
<1> QED BY <1>3 DEF States

----------------------------------------------------------------------------
(* JsHtml: loops *)

Taken(out, no, k) == IF out[k].no = no THEN Source(out[k]) ELSE <<>>
More(s, out, no, k) == s \o Taken(out, no, k)

LEMMA SourceType ==
  ASSUME NEW row \in Rows
  PROVE  Source(row) \in Letters
<1>1. <<>> \in Letters /\ <<"<", "%">> \in Letters /\ <<"%", ">">> \in Letters /\ <<"=">> \in Letters /\ row.text \in Letters
  BY CharAssumption DEF Letters, Rows
<1>2. \A s, t \in Letters : s \o t \in Letters
  BY ConcatProperties DEF Letters
<1> QED BY <1>1, <1>2 DEF Source, Rows

LEMMA TakenType ==
  ASSUME NEW out \in Seq(Rows), NEW no \in Nat, NEW k \in 1..Len(out)
  PROVE  Taken(out, no, k) \in Letters
<1>1. out[k] \in Rows
  BY ElementOfSeq
<1> QED BY <1>1, SourceType, NoText DEF Taken

\* The text of the rows, a row at a time.
LEMMA TextUpToIs ==
  ASSUME NEW out \in Seq(Rows), NEW no \in Nat
  PROVE  LET f == TextUpTo(out, no) IN
         /\ f \in [0..Len(out) -> Letters]
         /\ f[0] = <<>>
         /\ \A k \in 1..Len(out) : f[k] = More(f[k - 1], out, no, k)
<1> DEFINE b == <<>>
           n == Len(out)
           F == [x \in Letters \X (1..n) |-> More(x[1], out, no, x[2])]
           Is(f) == f = [k \in 0..n |-> IF k = 0 THEN b ELSE More(f[k - 1], out, no, k)]
<1>1. n \in Nat
  OBVIOUS
<1>2. b \in Letters
  BY NoText
<1>3. ASSUME NEW x \in Letters, NEW k \in 1..n PROVE More(x, out, no, k) \in Letters
  <2>1. Taken(out, no, k) \in Letters
    BY TakenType
  <2> QED BY <2>1, ConcatProperties DEF Letters, More
<1> HIDE DEF n, b
<1>4. F \in [Letters \X (1..n) -> Letters]
  BY <1>3
<1>5. PICK f : Computes(F, b, Letters, n, f)
  <2> HIDE DEF F
  <2> QED BY <1>1, <1>2, <1>4, Loop
<1>6. ASSUME NEW k \in 0..n PROVE f[k] = IF k = 0 THEN b ELSE More(f[k - 1], out, no, k)
  <2>1. k # 0 => k - 1 \in 0..n /\ k \in 1..n
    BY <1>1
  <2>2. k # 0 => F[<<f[k - 1], k>>] = More(f[k - 1], out, no, k)
    BY <1>5, <2>1 DEF Computes
  <2> QED BY <1>5, <2>1, <2>2 DEF Computes
<1>7. Is(f)
  <2>1. f = [k \in 0..n |-> f[k]]
    BY <1>5 DEF Computes
  <2> QED BY <1>6, <2>1
<1> DEFINE g == TextUpTo(out, no)
<1>8. g = CHOOSE h : Is(h)
  BY DEF TextUpTo, Taken, More, b, n
<1>9. Is(g)
  <2> HIDE DEF Is, g
  <2> QED BY <1>7, <1>8
<1>10. g[0] = b /\ \A k \in 1..n : g[k] = More(g[k - 1], out, no, k)
  <2> HIDE DEF g
  <2> QED BY <1>1, <1>9
<1>11. g \in [0..n -> Letters]
  <2> DEFINE T == {k \in 0..n : g[k] \in Letters}
  <2> HIDE DEF g
  <2>1. 0 \in T
    BY <1>1, <1>2, <1>10
  <2>2. ASSUME NEW m \in 0..(n - 1), m \in T PROVE m + 1 \in T
    <3>1. m + 1 \in 1..n /\ m + 1 - 1 = m /\ m + 1 \in 0..n
      BY <1>1
    <3>2. g[m + 1] = More(g[m], out, no, m + 1)
      BY <1>10, <3>1
    <3> QED BY <1>3, <2>2, <3>1, <3>2
  <2>3. \A k \in 0..n : k \in T
    <3> HIDE DEF T
    <3> QED BY <1>1, <2>1, <2>2, Counting
  <2>4. g = [k \in 0..n |-> g[k]]
    BY <1>9
  <2> QED BY <2>3, <2>4
<1> QED BY <1>10, <1>11 DEF b, n, g

\* The inner loop.
LEMMA TurnsIs ==
  ASSUME NEW a \in States, NEW line \in Letters, NEW no \in Nat
  PROVE  LET f == Turns(a, line, no) IN
         /\ f \in [0..Len(line) -> States]
         /\ f[0] = [LineBegin(a, line, no) EXCEPT !.stop = a.thrown]
         /\ \A k \in 1..Len(line) : f[k] = Around(f[k - 1], line, no)
<1> DEFINE b == [LineBegin(a, line, no) EXCEPT !.stop = a.thrown]
           n == Len(line)
           F == [x \in States \X (1..n) |-> Around(x[1], line, no)]
           Is(f) == f = [k \in 0..n |-> IF k = 0 THEN b ELSE Around(f[k - 1], line, no)]
<1>1. n \in Nat
  BY DEF Letters
<1>2. b \in States
  BY LineBeginType
<1>3. ASSUME NEW x \in States, NEW k \in 1..n PROVE Around(x, line, no) \in States
  BY AroundType
<1> HIDE DEF n, b
<1>4. F \in [States \X (1..n) -> States]
  BY <1>3
<1>5. PICK f : Computes(F, b, States, n, f)
  <2> HIDE DEF F
  <2> QED BY <1>1, <1>2, <1>4, Loop
<1>6. ASSUME NEW k \in 0..n PROVE f[k] = IF k = 0 THEN b ELSE Around(f[k - 1], line, no)
  <2>1. k # 0 => k - 1 \in 0..n /\ k \in 1..n
    BY <1>1
  <2>2. k # 0 => F[<<f[k - 1], k>>] = Around(f[k - 1], line, no)
    BY <1>5, <2>1 DEF Computes
  <2> QED BY <1>5, <2>1, <2>2 DEF Computes
<1>7. Is(f)
  <2>1. f = [k \in 0..n |-> f[k]]
    BY <1>5 DEF Computes
  <2> QED BY <1>6, <2>1
<1> DEFINE g == Turns(a, line, no)
<1>8. g = CHOOSE h : Is(h)
  BY DEF Turns, b, n
<1>9. Is(g)
  <2> HIDE DEF Is, g
  <2> QED BY <1>7, <1>8
<1>10. g[0] = b /\ \A k \in 1..n : g[k] = Around(g[k - 1], line, no)
  <2> HIDE DEF g
  <2> QED BY <1>1, <1>9
<1>11. g \in [0..n -> States]
  <2> DEFINE T == {k \in 0..n : g[k] \in States}
  <2> HIDE DEF g
  <2>1. 0 \in T
    BY <1>1, <1>2, <1>10
  <2>2. ASSUME NEW m \in 0..(n - 1), m \in T PROVE m + 1 \in T
    <3>1. m + 1 \in 1..n /\ m + 1 - 1 = m /\ m + 1 \in 0..n
      BY <1>1
    <3>2. g[m + 1] = Around(g[m], line, no)
      BY <1>10, <3>1
    <3> QED BY <1>3, <2>2, <3>1, <3>2
  <2>3. \A k \in 0..n : k \in T
    <3> HIDE DEF T
    <3> QED BY <1>1, <2>1, <2>2, Counting
  <2>4. g = [k \in 0..n |-> g[k]]
    BY <1>9
  <2> QED BY <2>3, <2>4
<1> QED BY <1>10, <1>11 DEF b, n, g

LEMMA ConvertLineType ==
  ASSUME NEW a \in States, NEW line \in Letters, NEW no \in Nat
  PROVE  ConvertLine(a, line, no) \in States
<1>1. Len(line) \in 0..Len(line)
  BY DEF Letters
<1>2. Turns(a, line, no) \in [0..Len(line) -> States]
  BY TurnsIs
<1> QED BY <1>1, <1>2 DEF ConvertLine

\* The outer loop.
LEMMA ConvertingIs ==
  ASSUME NEW page \in Seq(Letters)
  PROVE  LET f == Converting(page) IN
         /\ f \in [0..Len(page) -> States]
         /\ f[0] = NothingYet
         /\ \A k \in 1..Len(page) : f[k] = ConvertLine(f[k - 1], page[k], k)
<1> DEFINE b == NothingYet
           n == Len(page)
           F == [x \in States \X (1..n) |-> ConvertLine(x[1], page[x[2]], x[2])]
           Is(f) == f = [k \in 0..n |-> IF k = 0 THEN b ELSE ConvertLine(f[k - 1], page[k], k)]
<1>1. n \in Nat
  OBVIOUS
<1>2. b \in States
  BY DEF NothingYet, States, Statuses
<1>3. ASSUME NEW x \in States, NEW k \in 1..n PROVE ConvertLine(x, page[k], k) \in States
  BY ConvertLineType
<1> HIDE DEF n, b
<1>4. F \in [States \X (1..n) -> States]
  BY <1>3
<1>5. PICK f : Computes(F, b, States, n, f)
  <2> HIDE DEF F
  <2> QED BY <1>1, <1>2, <1>4, Loop
<1>6. ASSUME NEW k \in 0..n PROVE f[k] = IF k = 0 THEN b ELSE ConvertLine(f[k - 1], page[k], k)
  <2>1. k # 0 => k - 1 \in 0..n /\ k \in 1..n
    BY <1>1
  <2>2. k # 0 => F[<<f[k - 1], k>>] = ConvertLine(f[k - 1], page[k], k)
    BY <1>5, <2>1 DEF Computes
  <2> QED BY <1>5, <2>1, <2>2 DEF Computes
<1>7. Is(f)
  <2>1. f = [k \in 0..n |-> f[k]]
    BY <1>5 DEF Computes
  <2> QED BY <1>6, <2>1
<1> DEFINE g == Converting(page)
<1>8. g = CHOOSE h : Is(h)
  BY DEF Converting, b, n
<1>9. Is(g)
  <2> HIDE DEF Is, g
  <2> QED BY <1>7, <1>8
<1>10. g[0] = b /\ \A k \in 1..n : g[k] = ConvertLine(g[k - 1], page[k], k)
  <2> HIDE DEF g
  <2> QED BY <1>1, <1>9
<1>11. g \in [0..n -> States]
  <2> DEFINE T == {k \in 0..n : g[k] \in States}
  <2> HIDE DEF g
  <2>1. 0 \in T
    BY <1>1, <1>2, <1>10
  <2>2. ASSUME NEW m \in 0..(n - 1), m \in T PROVE m + 1 \in T
    <3>1. m + 1 \in 1..n /\ m + 1 - 1 = m /\ m + 1 \in 0..n
      BY <1>1
    <3>2. g[m + 1] = ConvertLine(g[m], page[m + 1], m + 1)
      BY <1>10, <3>1
    <3> QED BY <1>3, <2>2, <3>1, <3>2
  <2>3. \A k \in 0..n : k \in T
    <3> HIDE DEF T
    <3> QED BY <1>1, <2>1, <2>2, Counting
  <2>4. g = [k \in 0..n |-> g[k]]
    BY <1>9
  <2> QED BY <2>3, <2>4
<1> QED BY <1>10, <1>11 DEF b, n, g

----------------------------------------------------------------------------
(* JsHtml: what the rows stand for *)

LEMMA TextType ==
  ASSUME NEW out \in Seq(Rows), NEW no \in Nat
  PROVE  Text(out, no) \in Letters
<1>1. Len(out) \in 0..Len(out)
  OBVIOUS
<1> QED BY <1>1, TextUpToIs DEF Text

LEMMA TextAppend ==
  ASSUME NEW out \in Seq(Rows), NEW row \in Rows, NEW no \in Nat
  PROVE  Text(Append(out, row), no) = Text(out, no) \o (IF row.no = no THEN Source(row) ELSE <<>>)
<1> DEFINE n == Len(out)
           t == Append(out, row)
           f == TextUpTo(out, no)
           g == TextUpTo(t, no)
           T == {k \in 0..n : g[k] = f[k]}
<1>1. n \in Nat /\ t \in Seq(Rows) /\ Len(t) = n + 1 /\ (\A k \in 1..n : t[k] = out[k]) /\ t[n + 1] = row
  BY AppendProperties
<1>2. f[0] = <<>> /\ \A k \in 1..n : f[k] = More(f[k - 1], out, no, k)
  BY TextUpToIs
<1>3. g[0] = <<>> /\ \A k \in 1..n + 1 : g[k] = More(g[k - 1], t, no, k)
  BY <1>1, TextUpToIs
<1> HIDE DEF f, g, t
<1>4. 0 \in T
  BY <1>1, <1>2, <1>3
<1>5. ASSUME NEW m \in 0..(n - 1), m \in T PROVE m + 1 \in T
  <2>1. m + 1 \in 1..n /\ m + 1 \in 1..n + 1 /\ (m + 1) - 1 = m /\ m + 1 \in 0..n
    BY <1>1
  <2>2. f[m + 1] = More(f[m], out, no, m + 1) /\ g[m + 1] = More(g[m], t, no, m + 1) /\ g[m] = f[m]
    BY <1>2, <1>3, <1>5, <2>1
  <2>3. t[m + 1] = out[m + 1]
    BY <1>1, <2>1
  <2> QED BY <2>1, <2>2, <2>3 DEF More, Taken
<1>6. g[n] = f[n]
  <2> HIDE DEF T
  <2>1. \A k \in 0..n : k \in T
    BY <1>1, <1>4, <1>5, Counting
  <2> QED BY <1>1, <2>1 DEF T
<1>7. g[n + 1] = More(g[n], t, no, n + 1)
  BY <1>1, <1>3
<1>8. Text(t, no) = g[n + 1] /\ Text(out, no) = f[n]
  BY <1>1 DEF Text, f, g
<1> HIDE DEF n
<1> QED BY <1>1, <1>6, <1>7, <1>8 DEF More, Taken, t

LEMMA TextNone ==
  ASSUME NEW out \in Seq(Rows), NEW no \in Nat, \A i \in DOMAIN out : out[i].no # no
  PROVE  Text(out, no) = <<>>
<1> DEFINE n == Len(out)
           f == TextUpTo(out, no)
           T == {k \in 0..n : f[k] = <<>>}
<1>1. n \in Nat /\ f[0] = <<>> /\ \A k \in 1..n : f[k] = More(f[k - 1], out, no, k)
  BY TextUpToIs
<1>2. \A i \in 1..n : out[i].no # no
  BY LenProperties
<1> HIDE DEF f
<1>3. 0 \in T
  BY <1>1
<1>4. ASSUME NEW m \in 0..(n - 1), m \in T PROVE m + 1 \in T
  <2>1. m + 1 \in 1..n /\ (m + 1) - 1 = m /\ m + 1 \in 0..n
    BY <1>1
  <2>2. f[m + 1] = <<>> \o Taken(out, no, m + 1)
    BY <1>1, <1>4, <2>1 DEF More
  <2>3. Taken(out, no, m + 1) = <<>>
    BY <1>2, <2>1 DEF Taken
  <2> QED BY <2>1, <2>2, <2>3
<1>5. n \in T
  <2> HIDE DEF T
  <2>1. \A k \in 0..n : k \in T
    BY <1>1, <1>3, <1>4, Counting
  <2> QED BY <1>1, <2>1
<1> QED BY <1>5 DEF Text, f

\* What has been written is right up to a line.
InOrder(out, no) ==
  /\ \A i, j \in DOMAIN out : i <= j => out[i].no <= out[j].no
  /\ \A i \in DOMAIN out : out[i].no \in 1..no
Told(page, out, m) == Dropped(page, m) \o Text(out, m) = page[m]
Broken(out, m) ==
  \A i \in DOMAIN out : out[i].no = m =>
    (out[i].nl <=> out[i].kind \notin {"init", "code"} /\ \A j \in DOMAIN out : out[j].no = m => j <= i)
Unbroken(out, m) == \A i \in DOMAIN out : out[i].no = m => ~out[i].nl
EndsAt(out, i) ==
  /\ out[i].kind \in {"code", "expr"} /\ out[i].closed /\ i > 1 /\ out[i - 1].kind = "html"
  /\ Clean(out[i].text, Len(out[i].text))
  => EndsRight(out[i].text)
Past(page, out, no) ==
  /\ InOrder(out, no)
  /\ \A m \in 1..no - 1 : Told(page, out, m) /\ (page[m] # <<>> => Broken(out, m))
  /\ \A i \in DOMAIN out : EndsAt(out, i)

\* What it is to write a row of the line.
AppendOf(page, no, out, row) ==
  /\ row.no = no /\ Past(page, out, no)
  /\ /\ row.kind \in {"code", "expr"} /\ row.closed /\ Len(out) > 0 /\ out[Len(out)].kind = "html"
     /\ Clean(row.text, Len(row.text))
     => EndsRight(row.text)
  => LET t == Append(out, row) IN
       /\ t \in Seq(Rows) /\ Len(t) = Len(out) + 1 /\ t[Len(t)] = row
       /\ Past(page, t, no)
       /\ Text(t, no) = Text(out, no) \o Source(row)
       /\ Unbroken(out, no) /\ ~row.nl => Unbroken(t, no)
       /\ Unbroken(out, no) /\ (row.nl <=> row.kind \notin {"init", "code"}) => Broken(t, no)
LEMMA AppendRow ==
  ASSUME NEW page, NEW no \in Nat \ {0}, NEW out \in Seq(Rows), NEW row \in Rows
  PROVE  AppendOf(page, no, out, row)
<1> SUFFICES ASSUME row.no = no, Past(page, out, no),
                    /\ row.kind \in {"code", "expr"} /\ row.closed /\ Len(out) > 0 /\ out[Len(out)].kind = "html"
                    /\ Clean(row.text, Len(row.text))
                    => EndsRight(row.text)
             PROVE  LET t == Append(out, row) IN
                    /\ t \in Seq(Rows) /\ Len(t) = Len(out) + 1 /\ t[Len(t)] = row
                    /\ Past(page, t, no)
                    /\ Text(t, no) = Text(out, no) \o Source(row)
                    /\ Unbroken(out, no) /\ ~row.nl => Unbroken(t, no)
                    /\ Unbroken(out, no) /\ (row.nl <=> row.kind \notin {"init", "code"}) => Broken(t, no)
  BY DEF AppendOf
<1> DEFINE n == Len(out)
           t == Append(out, row)
<1>1. n \in Nat /\ t \in Seq(Rows) /\ Len(t) = n + 1 /\ (\A k \in 1..n : t[k] = out[k]) /\ t[n + 1] = row
  BY AppendProperties
<1>2. DOMAIN out = 1..n /\ DOMAIN t = 1..n + 1
  BY <1>1, LenProperties
<1>3. (\A i \in 1..n + 1 : i \in 1..n \/ i = n + 1) /\ n + 1 \in 1..n + 1 /\ \A i \in 1..n : i \in 1..n + 1
  BY <1>1
<1>4. \A m \in Nat : Text(t, m) = Text(out, m) \o (IF no = m THEN Source(row) ELSE <<>>)
  BY TextAppend
<1> HIDE DEF t, n
<1>5. /\ \A i, j \in 1..n : i <= j => out[i].no <= out[j].no
      /\ \A i \in 1..n : out[i].no \in 1..no
      /\ \A m \in 1..no - 1 : Told(page, out, m) /\ (page[m] # <<>> => Broken(out, m))
      /\ \A i \in 1..n : EndsAt(out, i)
  BY <1>2 DEF Past, InOrder
<1>6. InOrder(t, no)
  <2>1. ASSUME NEW i \in 1..n + 1, NEW j \in 1..n + 1, i <= j PROVE t[i].no <= t[j].no
    <3>1. CASE j = n + 1
      <4>1. t[j].no = no /\ (i = n + 1 \/ i \in 1..n)
        BY <1>1, <1>3, <3>1
      <4>2. i \in 1..n => out[i].no \in 1..no /\ t[i] = out[i]
        BY <1>1, <1>5
      <4>3. CASE i \in 1..n
        BY <4>1, <4>2, <4>3
      <4>4. CASE i = n + 1
        BY <3>1, <4>1, <4>4
      <4> QED BY <4>1, <4>3, <4>4
    <3>2. CASE j # n + 1
      <4>1. i \in 1..n /\ j \in 1..n
        BY <1>1, <2>1, <3>2
      <4> QED BY <1>1, <1>5, <2>1, <4>1
    <3> QED BY <3>1, <3>2
  <2>2. ASSUME NEW i \in 1..n + 1 PROVE t[i].no \in 1..no
    <3>1. CASE i = n + 1
      BY <1>1, <3>1
    <3>2. CASE i \in 1..n
      BY <1>1, <1>5, <3>2
    <3> QED BY <1>3, <3>1, <3>2
  <2> QED BY <1>2, <2>1, <2>2 DEF InOrder
<1>7. ASSUME NEW m \in 1..no - 1 PROVE Told(page, t, m)
  <2>1. m \in Nat /\ m # no
    OBVIOUS
  <2>2. Text(t, m) = Text(out, m) \o <<>>
    BY <1>4, <2>1
  <2>3. Text(out, m) \in Letters
    BY <2>1, TextType
  <2>4. Text(t, m) = Text(out, m)
    BY <2>2, <2>3, PushNothing
  <2> QED BY <1>5, <2>4 DEF Told
<1>8. ASSUME NEW m \in 1..no - 1, page[m] # <<>> PROVE Broken(t, m)
  <2>1. m # no /\ Broken(out, m)
    BY <1>5, <1>8
  <2> SUFFICES ASSUME NEW i \in 1..n + 1, t[i].no = m
               PROVE  t[i].nl <=> t[i].kind \notin {"init", "code"} /\ \A j \in 1..n + 1 : t[j].no = m => j <= i
    BY <1>2 DEF Broken
  <2>2. i \in 1..n /\ t[i] = out[i]
    BY <1>1, <1>3, <2>1
  <2>3. (\A j \in 1..n + 1 : t[j].no = m => j <= i) <=> (\A j \in 1..n : out[j].no = m => j <= i)
    BY <1>1, <1>3, <2>1
  <2>4. out[i].nl <=> out[i].kind \notin {"init", "code"} /\ \A j \in 1..n : out[j].no = m => j <= i
    BY <1>2, <2>1, <2>2 DEF Broken
  <2> QED BY <2>2, <2>3, <2>4
<1>9. ASSUME NEW i \in 1..n + 1 PROVE EndsAt(t, i)
  <2>1. CASE i \in 1..n
    <3>1. t[i] = out[i] /\ (i > 1 => i - 1 \in 1..n /\ t[i - 1] = out[i - 1])
      BY <1>1, <2>1
    <3>2. EndsAt(out, i)
      BY <1>5, <2>1
    <3> QED BY <3>1, <3>2 DEF EndsAt
  <2>2. CASE i = n + 1
    <3>1. t[i] = row /\ (i > 1 => n > 0 /\ i - 1 = n /\ t[i - 1] = out[n])
      BY <1>1, <2>2
    <3> QED BY <3>1 DEF EndsAt, n
  <2> QED BY <1>3, <2>1, <2>2
<1>10. Past(page, t, no)
  BY <1>2, <1>6, <1>7, <1>8, <1>9 DEF Past
<1>11. Text(t, no) = Text(out, no) \o Source(row)
  BY <1>4
<1>12. ASSUME Unbroken(out, no) PROVE \A i \in 1..n : t[i].no = no => ~t[i].nl
  BY <1>1, <1>2, <1>12 DEF Unbroken
<1>13. ASSUME Unbroken(out, no), ~row.nl PROVE Unbroken(t, no)
  BY <1>1, <1>2, <1>3, <1>12, <1>13 DEF Unbroken
<1>14. ASSUME Unbroken(out, no), row.nl <=> row.kind \notin {"init", "code"} PROVE Broken(t, no)
  <2> SUFFICES ASSUME NEW i \in 1..n + 1, t[i].no = no
               PROVE  t[i].nl <=> t[i].kind \notin {"init", "code"} /\ \A j \in 1..n + 1 : t[j].no = no => j <= i
    BY <1>2 DEF Broken
  <2>1. CASE i \in 1..n
    <3>1. ~t[i].nl
      BY <1>12, <1>14, <2>1
    <3>2. t[n + 1].no = no /\ ~(n + 1 <= i)
      BY <1>1, <2>1
    <3> QED BY <1>3, <3>1, <3>2
  <2>2. CASE i = n + 1
    <3>1. t[i] = row /\ \A j \in 1..n + 1 : j <= i
      BY <1>1, <2>2
    <3> QED BY <1>14, <3>1
  <2> QED BY <1>3, <2>1, <2>2
<1>15. Len(t) = Len(out) + 1 /\ t[Len(t)] = row
  BY <1>1 DEF n
<1> QED BY <1>1, <1>10, <1>11, <1>13, <1>14, <1>15 DEF t

LEMMA DroppedType == ASSUME NEW page, NEW no PROVE Dropped(page, no) \in Letters
<1>1. <<>> \in Letters /\ <<"<", "%", "@">> \in Letters
  BY CharAssumption DEF Letters
<1> QED BY <1>1 DEF Dropped

\* The part of a line that is written.
LEMMA SubstrIs ==
  ASSUME NEW line \in Letters, NEW from \in Nat, NEW to \in 0..Len(line)
  PROVE  Substr(line, from, to) = SubSeq(line, from + 1, to)
<1>1. (IF to < Len(line) THEN to ELSE Len(line)) = to
  BY DEF Letters
<1> QED BY <1>1 DEF Substr

LEMMA SubSeqType ==
  ASSUME NEW line \in Letters, NEW i \in Nat, NEW j \in 0..Len(line)
  PROVE  SubSeq(line, i + 1, j) \in Letters
<1>1. i + 1 \in Int /\ j \in Int /\ \A m \in i + 1..j : line[m] \in Char
  BY DEF Letters
<1> QED BY <1>1, SubSeqProperties DEF Letters

\* What has been read and what is read next.
LEMMA Adjacent ==
  ASSUME NEW line \in Letters, NEW i \in 0..Len(line), NEW j \in i..Len(line), NEW k \in j..Len(line)
  PROVE  SubSeq(line, i + 1, j) \o SubSeq(line, j + 1, k) = SubSeq(line, i + 1, k)
<1>1. line \in Seq(Char) /\ i + 1 \in 1..Len(line) + 1 /\ j \in (i + 1) - 1..Len(line) /\ k \in j..Len(line)
  BY DEF Letters
<1> QED BY <1>1, ConcatAdjacentSubSeq

LEMMA Join == ASSUME NEW x \in Letters, NEW y \in Letters, NEW z \in Letters PROVE (x \o y) \o z = x \o (y \o z)
<1>1. \A s, t, u \in Seq(Char) : (s \o t) \o u = s \o (t \o u)
  BY ConcatAssociative
<1> QED BY <1>1 DEF Letters

LEMMA ReadOn ==
  ASSUME NEW line \in Letters, NEW i \in 0..Len(line), NEW j \in i..Len(line), NEW begun \in Letters, NEW so \in Letters,
         begun \o so = SubSeq(line, 1, i)
  PROVE  begun \o (so \o SubSeq(line, i + 1, j)) = SubSeq(line, 1, j)
<1> DEFINE piece == SubSeq(line, i + 1, j)
<1>1. piece \in Letters /\ i \in Nat /\ j \in 0..Len(line) /\ 0 \in 0..Len(line) /\ i \in 0..Len(line) /\ 0 + 1 = 1
  <2>1. Len(line) \in Nat
    BY DEF Letters
  <2> QED BY <2>1, SubSeqType
<1>2. SubSeq(line, 0 + 1, i) \o piece = SubSeq(line, 0 + 1, j)
  BY <1>1, Adjacent
<1> HIDE DEF piece
<1>3. begun \o (so \o piece) = (begun \o so) \o piece
  BY <1>1, Join
<1> QED BY <1>1, <1>2, <1>3 DEF piece

\* The two characters that end a part.
LEMMA Two ==
  ASSUME NEW line \in Letters, NEW i \in 0..Len(line), i + 2 <= Len(line)
  PROVE  SubSeq(line, i + 1, i + 2) = <<line[i + 1], line[i + 2]>>
<1> DEFINE s == SubSeq(line, i + 1, i + 2)
           t == <<line[i + 1], line[i + 2]>>
<1>1. i \in Nat /\ i + 2 \in i..Len(line) /\ (i + 2) - i = 2 /\ line[i + 1] \in Char /\ line[i + 2] \in Char
  <2>1. Len(line) \in Nat /\ i + 1 \in 1..Len(line) /\ i + 2 \in 1..Len(line)
    BY DEF Letters
  <2> QED BY <2>1, ElementOfSeq DEF Letters
<1>2. s \in Seq(Char) /\ Len(s) = 2 /\ s[1] = line[i + 1] /\ s[2] = line[i + 2]
  BY <1>1, Piece DEF Letters
<1>3. t \in Seq(Char) /\ Len(t) = 2 /\ t[1] = line[i + 1] /\ t[2] = line[i + 2]
  BY <1>1
<1> HIDE DEF s, t
<1>4. \A m \in 1..Len(s) : s[m] = t[m]
  <2>1. \A m \in 1..2 : m = 1 \/ m = 2
    OBVIOUS
  <2> QED BY <1>2, <1>3, <2>1
<1>5. s = t
  BY <1>2, <1>3, <1>4, SeqEqual
<1> QED BY <1>5 DEF s, t

LEMMA EndedBy ==
  ASSUME NEW line \in Letters, NEW i \in 0..Len(line), NEW j \in i..Len(line), j + 2 <= Len(line)
  PROVE  SubSeq(line, i + 1, j) \o <<line[j + 1], line[j + 2]>> = SubSeq(line, i + 1, j + 2)
<1>1. j \in 0..Len(line) /\ j + 2 \in j..Len(line)
  BY DEF Letters
<1>2. SubSeq(line, j + 1, j + 2) = <<line[j + 1], line[j + 2]>>
  BY <1>1, Two
<1>3. SubSeq(line, i + 1, j) \o SubSeq(line, j + 1, j + 2) = SubSeq(line, i + 1, j + 2)
  BY <1>1, Adjacent
<1> QED BY <1>2, <1>3

\* An expression begins with =.
LEMMA BegunBy ==
  ASSUME NEW line \in Letters, NEW i \in 0..Len(line), NEW j \in i + 1..Len(line), NEW x, line[i + 1] = x
  PROVE  <<x>> \o SubSeq(line, i + 2, j) = SubSeq(line, i + 1, j)
<1>1. line \in Seq(Char) /\ i + 1 \in 1..Len(line) /\ j \in i + 1..Len(line) /\ (i + 1) + 1 = i + 2
  BY DEF Letters
<1>2. SubSeq(line, i + 1, j) = <<line[i + 1]>> \o SubSeq(line, (i + 1) + 1, j)
  BY <1>1, SubSeqRecursiveFirst
<1> QED BY <1>1, <1>2

\* What has been written is all that has been read.
Upto(page, out, no, skip) ==
  /\ Past(page, out, no)
  /\ Dropped(page, no) \o Text(out, no) = SubSeq(page[no], 1, skip)
RowEnds(out, row) ==
  /\ row.kind \in {"code", "expr"} /\ row.closed /\ Len(out) > 0 /\ out[Len(out)].kind = "html"
  /\ Clean(row.text, Len(row.text))
  => EndsRight(row.text)
WriteOf(page, no, out, skip, row, to) ==
  LET longer == Append(out, row) IN
  /\ longer \in Seq(Rows) /\ Len(longer) > 0 /\ longer[Len(longer)] = row
  /\ Upto(page, longer, no, to)
  /\ Unbroken(out, no) /\ ~row.nl => Unbroken(longer, no)
  /\ Unbroken(out, no) /\ (row.nl <=> row.kind \notin {"init", "code"}) => Broken(longer, no)

LEMMA Write ==
  ASSUME NEW page \in Seq(Letters), NEW no \in 1..Len(page), NEW out \in Seq(Rows), NEW row \in Rows, row.no = no,
         NEW skip \in 0..Len(page[no]), NEW to \in skip..Len(page[no]), Upto(page, out, no, skip), RowEnds(out, row),
         Source(row) = SubSeq(page[no], skip + 1, to)
  PROVE  WriteOf(page, no, out, skip, row, to)
<1> DEFINE line == page[no]
           longer == Append(out, row)
<1>1. line \in Letters /\ no \in Nat \ {0}
  BY ElementOfSeq
<1>2. AppendOf(page, no, out, row)
  BY <1>1, AppendRow
<1>3. /\ longer \in Seq(Rows) /\ Len(longer) = Len(out) + 1 /\ longer[Len(longer)] = row
      /\ Past(page, longer, no)
      /\ Text(longer, no) = Text(out, no) \o Source(row)
      /\ Unbroken(out, no) /\ ~row.nl => Unbroken(longer, no)
      /\ Unbroken(out, no) /\ (row.nl <=> row.kind \notin {"init", "code"}) => Broken(longer, no)
  BY <1>2 DEF AppendOf, Upto, RowEnds
<1> HIDE DEF longer
<1>4. Dropped(page, no) \o Text(longer, no) = SubSeq(line, 1, to)
  <2>1. Dropped(page, no) \in Letters /\ Text(out, no) \in Letters
    BY <1>1, DroppedType, TextType
  <2>2. Dropped(page, no) \o Text(out, no) = SubSeq(line, 1, skip)
    BY DEF Upto
  <2>3. \A begun, so \in Letters : begun \o so = SubSeq(line, 1, skip) => begun \o (so \o SubSeq(line, skip + 1, to)) = SubSeq(line, 1, to)
    BY <1>1, ReadOn
  <2>4. Dropped(page, no) \o (Text(out, no) \o SubSeq(line, skip + 1, to)) = SubSeq(line, 1, to)
    BY <2>1, <2>2, <2>3
  <2> QED BY <1>3, <2>4
<1>5. Len(longer) > 0
  BY <1>3
<1> QED BY <1>3, <1>4, <1>5 DEF WriteOf, Upto, longer

\* What the inner loop keeps true of a line.
Core(a, page, no) ==
  /\ ~a.thrown /\ a.skip <= Len(page[no]) /\ a.s \in {"init", "html", "code"} /\ a.cs \in Settled
  /\ a.stop => a.skip = Len(page[no])
  /\ Upto(page, a.out, no, a.skip)
\* Where code can begin next the status is normal.
Plain(a) ==
  /\ a.s = "html" => a.cs = "normal"
  /\ a.s = "code" /\ Len(a.out) > 0 /\ a.out[Len(a.out)].kind = "html" => a.cs = "normal"
Partly(a, page, no) ==
  Core(a, page, no) /\ Plain(a) /\ IF a.stop THEN Broken(a.out, no) ELSE Unbroken(a.out, no)

LEMMA RestRight ==
  ASSUME NEW page \in Seq(Letters), NEW no \in 1..Len(page), NEW a \in States, Core(a, page, no), Unbroken(a.out, no),
         NEW kind \in {"init", "html", "code"}, a.s = kind, kind = "html" => a.cs = "normal"
  PROVE  LET b == RestOfLine(a, kind, page[no], no) IN Partly(b, page, no) /\ b.stop /\ b.odd = a.odd
<1> DEFINE line == page[no]
           added == Row(kind, Substr(line, a.skip, Len(line)), no, FALSE, kind = "html")
           b == RestOfLine(a, kind, line, no)
           longer == Append(a.out, added)
           piece == SubSeq(line, a.skip + 1, Len(line))
<1>1. line \in Letters /\ no \in Nat
  BY ElementOfSeq
<1>2. Len(line) \in Nat /\ a.skip \in 0..Len(line) /\ a.skip \in Nat /\ Len(line) \in 0..Len(line) /\ Len(line) \in a.skip..Len(line)
  BY <1>1 DEF Letters, States, Core
<1>3. piece \in Letters /\ Substr(line, a.skip, Len(line)) = piece
  BY <1>1, <1>2, SubstrIs, SubSeqType
<1> HIDE DEF piece
<1>4. /\ added \in Rows /\ added.kind = kind /\ added.text = piece /\ added.no = no /\ ~added.closed
      /\ (added.nl <=> added.kind \notin {"init", "code"})
  <2>1. PICK nl \in BOOLEAN : added = Row(kind, piece, no, FALSE, nl) /\ nl = (kind = "html")
    BY <1>3, Zenon
  <2> HIDE DEF added
  <2>2. LET r == Row(kind, piece, no, FALSE, nl) IN
          r.kind = kind /\ r.text = piece /\ r.no = no /\ r.closed = FALSE /\ r.nl = nl
    BY DEF Row
  <2>3. Row(kind, piece, no, FALSE, nl) \in Rows
    BY <1>1, <1>3 DEF Row, Rows
  <2>4. nl <=> kind \notin {"init", "code"}
    BY <2>1
  <2> QED BY <2>1, <2>2, <2>3, <2>4
<1> HIDE DEF added
<1>5. Source(added) = piece
  <2>1. Source(added) = piece \o <<>>
    BY <1>4 DEF Source
  <2> QED BY <1>3, <2>1, PushNothing
<1>6. WriteOf(page, no, a.out, a.skip, added, Len(line))
  <2>1. a.out \in Seq(Rows) /\ Upto(page, a.out, no, a.skip) /\ RowEnds(a.out, added)
    BY <1>4 DEF States, Core, RowEnds
  <2> QED BY <1>2, <1>4, <1>5, <2>1, Write DEF piece
<1>7. Len(longer) > 0 /\ longer[Len(longer)] = added /\ Upto(page, longer, no, Len(line)) /\ Broken(longer, no)
  BY <1>4, <1>6 DEF WriteOf
<1> HIDE DEF longer
<1>8. b = [a EXCEPT !.out = longer, !.skip = Len(line), !.stop = TRUE]
  BY DEF RestOfLine, added, longer
<1> HIDE DEF b
<1>9. /\ b.out = longer /\ b.skip = Len(line) /\ b.stop /\ b.s = kind /\ b.cs = a.cs /\ b.thrown = a.thrown /\ b.odd = a.odd
  BY <1>8 DEF States
<1>10. Core(b, page, no)
  <2>1. b.cs \in Settled /\ ~b.thrown
    BY <1>9 DEF Core
  <2>2. b.skip <= Len(line) /\ b.s \in {"init", "html", "code"}
    BY <1>2, <1>9
  <2> HIDE DEF line
  <2> QED BY <1>7, <1>9, <2>1, <2>2 DEF Core, line
<1>11. Plain(b)
  BY <1>4, <1>7, <1>9 DEF Plain
<1> QED BY <1>7, <1>9, <1>10, <1>11 DEF Partly, b

----------------------------------------------------------------------------
(* JsHtml: the parts of a page *)

LEMMA NoneRead ==
  ASSUME NEW line \in Letters, NEW i \in 0..Len(line)
  PROVE  SubSeq(line, i + 1, i) = <<>>
<1>1. i \in Int /\ i + 1 \in Int /\ i < i + 1
  BY DEF Letters
<1> QED BY <1>1, SubSeqEmpty

\* The row that stands for nothing in the page.
LEMMA WriteNothing ==
  ASSUME NEW page \in Seq(Letters), NEW no \in 1..Len(page), NEW out \in Seq(Rows), NEW skip \in 0..Len(page[no]),
         Upto(page, out, no, skip), NEW kind \in {"open", "newline"}, NEW nl \in BOOLEAN
  PROVE  WriteOf(page, no, out, skip, Row(kind, <<>>, no, FALSE, nl), skip)
         /\ Row(kind, <<>>, no, FALSE, nl).nl = nl /\ Row(kind, <<>>, no, FALSE, nl).kind = kind
<1> DEFINE added == Row(kind, <<>>, no, FALSE, nl)
<1>1. page[no] \in Letters /\ no \in Nat
  BY ElementOfSeq
<1>2. added \in Rows /\ added.kind = kind /\ added.no = no /\ added.nl = nl
  BY <1>1, NoText DEF Row, Rows
<1> HIDE DEF added
<1>3. RowEnds(out, added)
  BY <1>2 DEF RowEnds
<1>4. Source(added) = <<>>
  BY <1>2 DEF Source
<1>5. skip \in skip..Len(page[no]) /\ SubSeq(page[no], skip + 1, skip) = <<>>
  BY <1>1, NoneRead DEF Letters
<1>6. WriteOf(page, no, out, skip, added, skip)
  BY <1>2, <1>3, <1>4, <1>5, Write
<1> QED BY <1>2, <1>6 DEF added

LEMMA ThenOne ==
  ASSUME NEW out \in Seq(Rows), NEW r \in Rows
  PROVE  out \o <<r>> = Append(out, r)
BY AppendIsConcat

LEMMA ThenTwo ==
  ASSUME NEW out \in Seq(Rows), NEW r \in Rows, NEW o \in Rows
  PROVE  out \o <<r, o>> = Append(Append(out, r), o)
<1> DEFINE x == out \o <<r, o>>
           z == Append(out, r)
           y == Append(z, o)
           n == Len(out)
<1>1. <<r, o>> \in Seq(Rows) /\ Len(<<r, o>>) = 2 /\ <<r, o>>[1] = r /\ <<r, o>>[2] = o /\ n \in Nat
  OBVIOUS
<1>2. x \in Seq(Rows) /\ Len(x) = n + 2 /\ (\A i \in 1..n : x[i] = out[i]) /\ x[n + 1] = r /\ x[n + 2] = o
  BY <1>1, ConcatProperties
<1>3. z \in Seq(Rows) /\ Len(z) = n + 1 /\ (\A i \in 1..n : z[i] = out[i]) /\ z[n + 1] = r
  BY AppendProperties
<1> HIDE DEF x, z
<1>4. y \in Seq(Rows) /\ Len(y) = (n + 1) + 1 /\ (\A i \in 1..n + 1 : y[i] = z[i]) /\ y[(n + 1) + 1] = o
  BY <1>3, AppendProperties
<1> HIDE DEF y, n
<1>5. \A i \in 1..n + 2 : i \in 1..n \/ i = n + 1 \/ i = n + 2
  BY <1>1
<1>6. (n + 1) + 1 = n + 2 /\ (\A i \in 1..n : i \in 1..n + 1) /\ n + 1 \in 1..n + 1
  BY <1>1
<1>7. \A i \in 1..Len(x) : x[i] = y[i]
  BY <1>2, <1>3, <1>4, <1>5, <1>6
<1>8. x = y
  BY <1>2, <1>4, <1>6, <1>7, SeqEqual
<1> QED BY <1>8 DEF x, y, z

\* The row of the part that the page begins with.
LEMMA InitPartRight ==
  ASSUME NEW page \in Seq(Letters), NEW no \in 1..Len(page), NEW a \in States, Partly(a, page, no), ~a.stop,
         ~InitPart(a, page[no], no).odd
  PROVE  LET b == InitPart(a, page[no], no) IN
         /\ Partly(b, page, no) /\ ~a.odd /\ b.skip >= a.skip
         /\ ~b.stop => b.s \in {"html", "code"}
<1> DEFINE line == page[no]
           f == CodeFind(line, a.skip, a.cs)
           b == InitPart(a, line, no)
<1>1. line \in Letters /\ no \in Nat
  BY ElementOfSeq
<1>2. Len(line) \in Nat /\ a.skip \in 0..Len(line) /\ a.skip \in Nat /\ a.cs \in Settled
  BY <1>1 DEF Letters, States, Partly, Core
<1>3. CASE a.s # "init"
  <2>1. b = a
    BY <1>3 DEF InitPart
  <2> HIDE DEF b
  <2>2. a.s \in {"html", "code"} /\ a.skip >= a.skip
    BY <1>2, <1>3 DEF Partly, Core
  <2> QED BY <2>1, <2>2 DEF b
<1>4. CASE a.s = "init"
  <2>1. /\ f \in Finds
        /\ ~f.odd => f.cs \in Settled
        /\ ~f.odd /\ f.at # npos =>
             f.at \in a.skip..Len(line) - 2 /\ line[f.at + 1] = "%" /\ line[f.at + 2] = ">" /\ f.cs = "normal"
    BY <1>1, <1>2, CodeFindRight DEF Finds
  <2>2. b = InitFound(a, line, no, f)
    BY <1>4 DEF InitPart
  <2> HIDE DEF f, b
  <2>3. CASE f.at = npos
    <3> DEFINE c == [a EXCEPT !.cs = f.cs, !.odd = @ \/ f.odd]
    <3>1. b = RestOfLine(c, "init", line, no)
      BY <2>2, <2>3 DEF InitFound
    <3>2. c \in States /\ c.odd = (a.odd \/ f.odd) /\ c.s = "init" /\ c.cs = f.cs /\ c.skip = a.skip /\ c.out = a.out
          /\ c.stop = a.stop /\ c.thrown = a.thrown
      BY <1>4, <2>1 DEF States, Finds
    <3> HIDE DEF c
    <3>3. b.odd = c.odd
      BY <3>1 DEF RestOfLine
    <3>4. ~a.odd /\ ~f.odd
      BY <3>2, <3>3 DEF b
    <3>5. Core(c, page, no) /\ Unbroken(c.out, no)
      BY <2>1, <3>2, <3>4 DEF Partly, Core
    <3>6. Partly(b, page, no) /\ b.stop
      BY <3>1, <3>2, <3>5, RestRight
    <3>7. b.skip >= a.skip
      BY <1>2, <3>6 DEF Partly, Core
    <3> QED BY <3>4, <3>6, <3>7 DEF b
  <2>4. CASE f.at # npos
    <3> DEFINE r == Row("init", Substr(line, a.skip, f.at), no, TRUE, FALSE)
               o == Row("open", <<>>, no, FALSE, FALSE)
               to == f.at + 2
               one == Append(a.out, r)
               two == Append(one, o)
    <3>1. f.at \in Nat /\ ~f.odd /\ ~a.odd
      <4>1. b.odd = (a.odd \/ f.odd)
        BY <2>2, <2>4 DEF InitFound, States
      <4> QED BY <2>1, <2>4, <4>1 DEF Finds, b
    <3>2. /\ f.at \in a.skip..Len(line) /\ f.at \in 0..Len(line) /\ to \in a.skip..Len(line) /\ to \in 0..Len(line)
          /\ to <= Len(line) /\ line[f.at + 1] = "%" /\ line[f.at + 2] = ">" /\ f.cs = "normal"
      BY <1>2, <2>1, <2>4, <3>1
    <3>3. r \in Rows /\ r.kind = "init" /\ r.no = no /\ r.closed /\ ~r.nl /\ r.text = SubSeq(line, a.skip + 1, f.at)
      <4>1. Substr(line, a.skip, f.at) = SubSeq(line, a.skip + 1, f.at) /\ SubSeq(line, a.skip + 1, f.at) \in Letters
        BY <1>1, <1>2, <3>2, SubstrIs, SubSeqType
      <4> QED BY <1>1, <4>1 DEF Row, Rows
    <3> HIDE DEF r
    <3>4. Source(r) = SubSeq(line, a.skip + 1, to)
      <4>1. Source(r) = SubSeq(line, a.skip + 1, f.at) \o <<"%", ">">>
        BY <3>3 DEF Source
      <4>2. SubSeq(line, a.skip + 1, f.at) \o <<"%", ">">> = SubSeq(line, a.skip + 1, f.at + 2)
        BY <1>1, <1>2, <3>2, EndedBy
      <4> QED BY <4>1, <4>2
    <3>5. WriteOf(page, no, a.out, a.skip, r, to)
      <4>1. a.out \in Seq(Rows) /\ Upto(page, a.out, no, a.skip)
        BY DEF States, Partly, Core
      <4>2. RowEnds(a.out, r)
        BY <3>3 DEF RowEnds
      <4> HIDE DEF to
      <4> QED BY <1>2, <3>2, <3>3, <3>4, <4>1, <4>2, Write
    <3>6. one \in Seq(Rows) /\ Upto(page, one, no, to) /\ Unbroken(one, no)
      BY <3>3, <3>5 DEF WriteOf, Partly
    <3> HIDE DEF one
    <3>7. WriteOf(page, no, one, to, o, to) /\ ~o.nl
      BY <3>2, <3>6, WriteNothing
    <3>8. Upto(page, two, no, to) /\ Unbroken(two, no)
      BY <3>6, <3>7 DEF WriteOf
    <3>9. o \in Rows
      BY <1>1, NoText DEF Row, Rows
    <3>10. b = [a EXCEPT !.cs = f.cs, !.odd = @ \/ f.odd, !.s = "html", !.skip = to, !.out = @ \o <<r, o>>]
      BY <2>2, <2>4 DEF InitFound, r
    <3> HIDE DEF o
    <3>11. a.out \o <<r, o>> = two
      <4>1. a.out \in Seq(Rows)
        BY DEF States
      <4> QED BY <3>3, <3>9, <4>1, ThenTwo DEF one
    <3> HIDE DEF two, to
    <3>12. b.cs = "normal" /\ b.s = "html" /\ b.skip = to /\ b.out = two /\ b.stop = a.stop /\ b.thrown = a.thrown
      BY <3>2, <3>10, <3>11 DEF States
    <3>13. Core(b, page, no)
      <4>1. ~b.thrown /\ ~b.stop /\ b.cs \in Settled
        BY <3>12 DEF Partly, Core, Settled
      <4> QED BY <3>2, <3>8, <3>12, <4>1 DEF Core
    <3>14. Partly(b, page, no)
      BY <3>8, <3>12, <3>13 DEF Partly, Plain
    <3> QED BY <1>2, <3>1, <3>2, <3>12, <3>14 DEF b
  <2> QED BY <2>3, <2>4
<1> QED BY <1>3, <1>4

\* The rows of a part of HTML.
LEMMA HtmlPartRight ==
  ASSUME NEW page \in Seq(Letters), NEW no \in 1..Len(page), NEW a \in States, Partly(a, page, no), ~a.stop,
         a.s \in {"html", "code"}, ~HtmlPart(a, page[no], no).odd
  PROVE  LET b == HtmlPart(a, page[no], no) IN
         /\ Partly(b, page, no) /\ ~a.odd /\ b.skip >= a.skip
         /\ ~b.stop => b.s = "code"
<1> DEFINE line == page[no]
           found == HtmlFind(line, a.skip)
           b == HtmlPart(a, line, no)
<1>1. line \in Letters /\ no \in Nat
  BY ElementOfSeq
<1>2. Len(line) \in Nat /\ a.skip \in 0..Len(line) /\ a.skip \in Nat
  BY <1>1 DEF Letters, States, Partly, Core
<1>3. CASE a.s = "code"
  <2>1. b = a
    BY <1>3 DEF HtmlPart
  <2> HIDE DEF b
  <2> QED BY <1>2, <1>3, <2>1 DEF b
<1>4. CASE a.s = "html"
  <2>1. /\ found \in a.skip..Len(line)
        /\ found # Len(line) => found <= Len(line) - 2 /\ line[found + 1] = "<" /\ line[found + 2] = "%"
    BY <1>1, <1>2, HtmlFindRight
  <2>2. b = HtmlFound(a, line, no, found)
    BY <1>2, <1>4 DEF HtmlPart
  <2> HIDE DEF found, b
  <2>3. Core(a, page, no) /\ Unbroken(a.out, no) /\ a.cs = "normal" /\ a.out \in Seq(Rows) /\ Upto(page, a.out, no, a.skip)
    BY <1>4 DEF Partly, Core, Plain, States
  <2>4. CASE found = Len(line)
    <3>1. b = RestOfLine(a, "html", line, no)
      BY <2>2, <2>4 DEF HtmlFound
    <3>2. Partly(b, page, no) /\ b.stop /\ b.odd = a.odd
      BY <1>4, <2>3, <3>1, RestRight
    <3>3. b.skip >= a.skip
      BY <1>2, <3>2 DEF Partly, Core
    <3> QED BY <3>2, <3>3 DEF b
  <2>5. CASE found # Len(line)
    <3> DEFINE r == Row("html", Substr(line, a.skip, found), no, TRUE, FALSE)
               to == found + 2
               one == Append(a.out, r)
    <3>1. /\ found \in a.skip..Len(line) /\ found \in 0..Len(line) /\ to \in a.skip..Len(line) /\ to \in 0..Len(line)
          /\ to <= Len(line) /\ line[found + 1] = "<" /\ line[found + 2] = "%"
      BY <1>2, <2>1, <2>5
    <3>2. r \in Rows /\ r.kind = "html" /\ r.no = no /\ r.closed /\ ~r.nl /\ r.text = SubSeq(line, a.skip + 1, found)
      <4>1. Substr(line, a.skip, found) = SubSeq(line, a.skip + 1, found) /\ SubSeq(line, a.skip + 1, found) \in Letters
        BY <1>1, <1>2, <3>1, SubstrIs, SubSeqType
      <4> QED BY <1>1, <4>1 DEF Row, Rows
    <3>3. b = [a EXCEPT !.s = "code", !.skip = to, !.out = one]
      BY <2>2, <2>5 DEF HtmlFound
    <3> HIDE DEF r
    <3>4. Source(r) = SubSeq(line, a.skip + 1, to)
      <4>1. Source(r) = SubSeq(line, a.skip + 1, found) \o <<"<", "%">>
        BY <3>2 DEF Source
      <4>2. SubSeq(line, a.skip + 1, found) \o <<"<", "%">> = SubSeq(line, a.skip + 1, found + 2)
        BY <1>1, <1>2, <3>1, EndedBy
      <4> QED BY <4>1, <4>2
    <3>5. WriteOf(page, no, a.out, a.skip, r, to)
      <4>1. RowEnds(a.out, r)
        BY <3>2 DEF RowEnds
      <4> HIDE DEF to
      <4> QED BY <1>2, <2>3, <3>1, <3>2, <3>4, <4>1, Write
    <3>6. Len(one) > 0 /\ one[Len(one)] = r /\ Upto(page, one, no, to) /\ Unbroken(one, no)
      BY <2>3, <3>2, <3>5 DEF WriteOf
    <3> HIDE DEF one, to
    <3>7. b.cs = "normal" /\ b.s = "code" /\ b.skip = to /\ b.out = one /\ b.stop = a.stop /\ b.thrown = a.thrown /\ b.odd = a.odd
      BY <2>3, <3>3 DEF States
    <3>8. Core(b, page, no)
      <4>1. ~b.thrown /\ ~b.stop /\ b.cs \in Settled
        BY <3>7 DEF Partly, Core, Settled
      <4> QED BY <3>1, <3>6, <3>7, <4>1 DEF Core
    <3>9. Partly(b, page, no)
      BY <3>6, <3>7, <3>8 DEF Partly, Plain
    <3> QED BY <1>2, <3>1, <3>7, <3>9 DEF b
  <2> QED BY <2>4, <2>5
<1> QED BY <1>3, <1>4

\* When the turn is over, and with it perhaps the line.
Whole(a, page, no) ==
  /\ Core(a, page, no) /\ Plain(a)
  /\ IF a.stop \/ a.skip = Len(page[no]) THEN page[no] # <<>> => Broken(a.out, no) ELSE Unbroken(a.out, no)

LEMMA JoinRows == \A x, y, z \in Seq(Rows) : (x \o y) \o z = x \o (y \o z)
BY ConcatAssociative

----------------------------------------------------------------------------
(* JsHtml: code *)

\* The rows of code, or of an expression.
LEMMA CodeRowsRight ==
  ASSUME NEW page \in Seq(Letters), NEW no \in 1..Len(page), NEW a \in States, Partly(a, page, no), ~a.stop, a.s = "code",
         NEW f, f = CodeFind(page[no], a.skip, a.cs), ~f.odd, f.at # npos, f.at + 2 <= Len(page[no]),
         f.at \in a.skip..Len(page[no]), page[no][f.at + 1] = "%", page[no][f.at + 2] = ">"
  PROVE  LET out == a.out \o CodeRows(a, page[no], no, f.at) IN
         /\ Upto(page, out, no, f.at + 2)
         /\ IF f.at + 2 = Len(page[no]) THEN Broken(out, no) ELSE Unbroken(out, no)
<1> DEFINE line == page[no]
           found == f.at
           to == found + 2
           out == a.out \o CodeRows(a, line, no, found)
<1>1. line \in Letters /\ no \in Nat
  BY ElementOfSeq
<1>2. Len(line) \in Nat /\ a.skip \in 0..Len(line) /\ a.skip \in Nat
  BY <1>1 DEF Letters, States, Partly, Core
<1>3. Unbroken(a.out, no) /\ a.out \in Seq(Rows) /\ Upto(page, a.out, no, a.skip)
  BY DEF Partly, Core, States
<1>4. found \in 0..Len(line) /\ to \in a.skip..Len(line) /\ to \in 0..Len(line) /\ to <= Len(line) /\ found \in Nat
  BY <1>2
<1>5. Len(a.out) > 0 /\ a.out[Len(a.out)].kind = "html" => a.cs = "normal"
  BY DEF Partly, Plain
<1>6. a.cs = "normal" =>
        /\ LET s == SubSeq(line, a.skip + 1, found) IN Clean(s, Len(s)) => EndsRight(s)
        /\ a.skip < Len(line) /\ line[a.skip + 1] = "=" =>
             LET s == SubSeq(line, a.skip + 2, found) IN Clean(s, Len(s)) => EndsRight(s)
  BY <1>1, <1>2, CodeEnds
<1>9. line[found + 1] = "%" /\ line[found + 2] = ">" /\ found \in a.skip..Len(line) /\ found + 2 <= Len(line)
  OBVIOUS
<1> HIDE DEF line, found
<1>7. CASE a.skip < Len(line) /\ line[a.skip + 1] = "="
  <2> DEFINE r == Row("expr", Substr(line, a.skip + 1, found), no, TRUE, Len(line) <= to)
  <2>1. a.skip + 1 \in Nat /\ found \in a.skip + 1..Len(line) /\ (a.skip + 1) + 1 = a.skip + 2
    <3>1. found # a.skip
      BY <1>7 DEF line, found
    <3> QED BY <1>2, <1>4, <3>1 DEF line, found
  <2>2. /\ r \in Rows /\ r.kind = "expr" /\ r.no = no /\ r.closed /\ r.text = SubSeq(line, a.skip + 2, found)
        /\ (r.nl <=> to = Len(line))
    <3>1. Substr(line, a.skip + 1, found) = SubSeq(line, (a.skip + 1) + 1, found) /\ SubSeq(line, (a.skip + 1) + 1, found) \in Letters
      BY <1>1, <1>4, <2>1, SubstrIs, SubSeqType
    <3>2. PICK nl \in BOOLEAN : r = Row("expr", Substr(line, a.skip + 1, found), no, TRUE, nl) /\ nl = (Len(line) <= to)
      <4>1. (Len(line) <= to) \in BOOLEAN
        OBVIOUS
      <4> QED BY <4>1, Zenon
    <3> HIDE DEF to, r
    <3>3. nl <=> to = Len(line)
      <4>1. to \in Nat /\ Len(line) \in Nat /\ to <= Len(line)
        BY <1>2, <1>4 DEF line
      <4>2. Len(line) <= to <=> to = Len(line)
        BY <4>1
      <4> QED BY <3>2, <4>2
    <3> QED BY <1>1, <2>1, <3>1, <3>2, <3>3 DEF Row, Rows
  <2>3. CodeRows(a, line, no, found) = <<r>>
    BY <1>7 DEF CodeRows
  <2> HIDE DEF r
  <2>4. Source(r) = SubSeq(line, a.skip + 1, to)
    <3>1. Source(r) = <<"=">> \o SubSeq(line, a.skip + 2, found) \o <<"%", ">">>
      BY <2>2 DEF Source
    <3>2. <<"=">> \o SubSeq(line, a.skip + 2, found) = SubSeq(line, a.skip + 1, found)
      BY <1>1, <1>2, <1>7, <2>1, BegunBy DEF line
    <3>3. SubSeq(line, a.skip + 1, found) \o <<"%", ">">> = SubSeq(line, a.skip + 1, to)
      BY <1>1, <1>2, <1>4, <1>9, EndedBy
    <3> QED BY <3>1, <3>2, <3>3
  <2>5. RowEnds(a.out, r)
    BY <1>5, <1>6, <1>7, <2>2 DEF RowEnds
  <2> HIDE DEF to
  <2>6. WriteOf(page, no, a.out, a.skip, r, to)
    BY <1>2, <1>3, <1>4, <2>2, <2>4, <2>5, Write DEF line
  <2>7. out = Append(a.out, r)
    BY <1>3, <2>2, <2>3, ThenOne
  <2> HIDE DEF out
  <2>8. Upto(page, out, no, to) /\ IF to = Len(line) THEN Broken(out, no) ELSE Unbroken(out, no)
    BY <1>3, <2>2, <2>6, <2>7 DEF WriteOf
  <2> QED BY <2>8 DEF out, to, line, found
<1>8. CASE ~(a.skip < Len(line) /\ line[a.skip + 1] = "=")
  <2> DEFINE r == Row("code", Substr(line, a.skip, found), no, TRUE, FALSE)
             n == Row("newline", <<>>, no, FALSE, TRUE)
             one == Append(a.out, r)
             two == Append(one, n)
  <2>1. r \in Rows /\ r.kind = "code" /\ r.no = no /\ r.closed /\ ~r.nl /\ r.text = SubSeq(line, a.skip + 1, found)
    <3>1. Substr(line, a.skip, found) = SubSeq(line, a.skip + 1, found) /\ SubSeq(line, a.skip + 1, found) \in Letters
      BY <1>1, <1>2, <1>4, SubstrIs, SubSeqType
    <3> QED BY <1>1, <3>1 DEF Row, Rows
  <2>2. CodeRows(a, line, no, found) = IF to = Len(line) THEN <<r>> \o <<n>> ELSE <<r>> \o <<>>
    BY <1>8 DEF CodeRows
  <2> HIDE DEF r
  <2>3. Source(r) = SubSeq(line, a.skip + 1, to)
    <3>1. Source(r) = SubSeq(line, a.skip + 1, found) \o <<"%", ">">>
      BY <2>1 DEF Source
    <3>2. SubSeq(line, a.skip + 1, found) \o <<"%", ">">> = SubSeq(line, a.skip + 1, to)
      BY <1>1, <1>2, <1>4, <1>9, EndedBy
    <3> QED BY <3>1, <3>2
  <2>4. RowEnds(a.out, r)
    BY <1>5, <1>6, <2>1 DEF RowEnds
  <2> HIDE DEF to
  <2>5. WriteOf(page, no, a.out, a.skip, r, to)
    BY <1>2, <1>3, <1>4, <2>1, <2>3, <2>4, Write DEF line
  <2>6. one \in Seq(Rows) /\ Upto(page, one, no, to) /\ Unbroken(one, no)
    BY <1>3, <2>1, <2>5 DEF WriteOf
  <2>7. a.out \o <<r>> = one
    BY <1>3, <2>1, ThenOne
  <2> HIDE DEF one
  <2>8. CASE to = Len(line)
    <3>1. n \in Rows
      BY <1>1, NoText DEF Row, Rows
    <3>2. WriteOf(page, no, one, to, n, to) /\ n.nl /\ n.kind = "newline"
      BY <1>4, <2>6, WriteNothing DEF line
    <3> HIDE DEF n
    <3>3. Upto(page, two, no, to) /\ Broken(two, no)
      BY <2>6, <3>2 DEF WriteOf
    <3>4. out = two
      <4>1. <<r>> \in Seq(Rows) /\ <<n>> \in Seq(Rows)
        BY <2>1, <3>1
      <4>3. a.out \o (<<r>> \o <<n>>) = (a.out \o <<r>>) \o <<n>>
        BY <1>3, <4>1, JoinRows
      <4>4. one \o <<n>> = two
        BY <2>6, <3>1, ThenOne
      <4> QED BY <2>2, <2>7, <2>8, <4>3, <4>4
    <3> HIDE DEF out, two
    <3> QED BY <2>8, <3>3, <3>4 DEF out, to, line, found
  <2>9. CASE to # Len(line)
    <3>1. <<r>> \o <<>> = <<r>>
      BY <2>1
    <3>2. out = one
      BY <2>2, <2>7, <2>9, <3>1
    <3> HIDE DEF out
    <3> QED BY <2>6, <2>9, <3>2 DEF out, to, line, found
  <2> QED BY <2>8, <2>9
<1> QED BY <1>7, <1>8

\* And so the whole part of code, which ends a turn.
LEMMA CodePartRight ==
  ASSUME NEW page \in Seq(Letters), NEW no \in 1..Len(page), NEW a \in States, Partly(a, page, no), ~a.stop,
         a.s = "code", ~CodePart(a, page[no], no).odd
  PROVE  LET b == CodePart(a, page[no], no) IN Whole(b, page, no) /\ ~a.odd /\ (b.stop \/ b.skip > a.skip)
<1> DEFINE line == page[no]
           f == CodeFind(line, a.skip, a.cs)
           b == CodePart(a, line, no)
<1>1. line \in Letters /\ no \in Nat
  BY ElementOfSeq
<1>2. Len(line) \in Nat /\ a.skip \in 0..Len(line) /\ a.skip \in Nat /\ a.cs \in Settled
  BY <1>1 DEF Letters, States, Partly, Core
<1>3. /\ f \in Finds
      /\ ~f.odd => f.cs \in Settled
      /\ ~f.odd /\ f.at # npos =>
           f.at \in a.skip..Len(line) - 2 /\ line[f.at + 1] = "%" /\ line[f.at + 2] = ">" /\ f.cs = "normal"
  BY <1>1, <1>2, CodeFindRight DEF Finds
<1>4. b = CodeFound(a, line, no, f)
  BY DEF CodePart
<1>5. f = CodeFind(line, a.skip, a.cs)
  OBVIOUS
<1> HIDE DEF f, b
<1>6. CASE f.at = npos
  <2> DEFINE c == [a EXCEPT !.cs = f.cs, !.odd = @ \/ f.odd]
  <2>1. b = RestOfLine(c, "code", line, no)
    BY <1>4, <1>6 DEF CodeFound
  <2>2. c \in States /\ c.odd = (a.odd \/ f.odd) /\ c.s = "code" /\ c.cs = f.cs /\ c.skip = a.skip /\ c.out = a.out
        /\ c.stop = a.stop /\ c.thrown = a.thrown
    BY <1>3 DEF States, Finds
  <2> HIDE DEF c
  <2>3. b.odd = c.odd
    BY <2>1 DEF RestOfLine
  <2>4. ~a.odd /\ ~f.odd
    BY <2>2, <2>3 DEF b
  <2>5. Core(c, page, no) /\ Unbroken(c.out, no)
    BY <1>3, <2>2, <2>4 DEF Partly, Core
  <2>6. Partly(b, page, no) /\ b.stop
    BY <2>1, <2>2, <2>5, RestRight
  <2>7. Whole(b, page, no)
    BY <2>6 DEF Partly, Whole
  <2> QED BY <2>4, <2>6, <2>7 DEF b
<1>7. CASE f.at # npos
  <2> DEFINE to == f.at + 2
             out == a.out \o CodeRows(a, line, no, f.at)
  <2>1. f.at \in Nat /\ ~f.odd /\ ~a.odd
    <3>1. b.odd = (a.odd \/ f.odd)
      BY <1>4, <1>7 DEF CodeFound, States
    <3> QED BY <1>3, <1>7, <3>1 DEF Finds, b
  <2>2. /\ f.at \in a.skip..Len(line) /\ to <= Len(line) /\ to > a.skip /\ to \in Nat
        /\ line[f.at + 1] = "%" /\ line[f.at + 2] = ">" /\ f.cs = "normal"
    <3>1. /\ f.at \in a.skip..Len(line) - 2 /\ line[f.at + 1] = "%" /\ line[f.at + 2] = ">" /\ f.cs = "normal"
      BY <1>3, <1>7, <2>1
    <3> QED BY <1>2, <2>1, <3>1, SMTT(30)
  <2>3. Upto(page, out, no, to) /\ IF to = Len(line) THEN Broken(out, no) ELSE Unbroken(out, no)
    BY <1>5, <1>7, <2>1, <2>2, CodeRowsRight
  <2>4. b = [a EXCEPT !.cs = f.cs, !.odd = @ \/ f.odd, !.s = "html", !.skip = to, !.out = out]
    BY <1>4, <1>7 DEF CodeFound
  <2> HIDE DEF out, to
  <2>5. b.cs = "normal" /\ b.s = "html" /\ b.skip = to /\ b.out = out /\ b.stop = a.stop /\ b.thrown = a.thrown
    BY <2>2, <2>4 DEF States
  <2>6. Core(b, page, no)
    <3>1. ~b.thrown /\ ~b.stop /\ b.cs \in Settled
      BY <2>5 DEF Partly, Core, Settled
    <3> QED BY <2>2, <2>3, <2>5, <3>1 DEF Core
  <2>7. Whole(b, page, no)
    BY <2>3, <2>5, <2>6 DEF Whole, Plain
  <2> QED BY <2>1, <2>2, <2>5, <2>7 DEF b
<1> QED BY <1>6, <1>7

\* What has once gone wrong remains so.
LEMMA PartsOdd ==
  ASSUME NEW a \in States, NEW line \in Letters, NEW no \in Nat
  PROVE  /\ a.odd => InitPart(a, line, no).odd
         /\ HtmlPart(a, line, no).odd = a.odd
         /\ a.odd => CodePart(a, line, no).odd
<1> DEFINE f == CodeFind(line, a.skip, a.cs)
<1>1. f \in Finds
  BY CodeFindType DEF States
<1>2. InitPart(a, line, no) = (IF a.s # "init" THEN a ELSE InitFound(a, line, no, f))
  BY DEF InitPart
<1>3. CodePart(a, line, no) = (IF a.s # "code" \/ a.stop THEN a ELSE CodeFound(a, line, no, f))
  BY DEF CodePart
<1> HIDE DEF f
<1>4. a.odd => InitFound(a, line, no, f).odd
  BY <1>1 DEF InitFound, RestOfLine, States, Finds
<1>5. a.odd => CodeFound(a, line, no, f).odd
  BY <1>1 DEF CodeFound, RestOfLine, States, Finds
<1>6. HtmlPart(a, line, no).odd = a.odd
  BY DEF HtmlPart, HtmlFound, RestOfLine, States
<1> QED BY <1>2, <1>3, <1>4, <1>5, <1>6

LEMMA AroundOdd ==
  ASSUME NEW a \in States, NEW line \in Letters, NEW no \in Nat, a.odd
  PROVE  Around(a, line, no).odd
<1>1. InitPart(a, line, no).odd
  BY PartsOdd
<1>2. HtmlPart(InitPart(a, line, no), line, no).odd
  BY <1>1, PartsOdd, InitPartType
<1>3. CodePart(HtmlPart(InitPart(a, line, no), line, no), line, no).odd
  BY <1>2, PartsOdd, InitPartType, HtmlPartType
<1> QED BY <1>3 DEF Around

\* A turn of the inner loop.
LEMMA AroundRight ==
  ASSUME NEW page \in Seq(Letters), NEW no \in 1..Len(page), NEW a \in States, Whole(a, page, no),
         ~Around(a, page[no], no).odd
  PROVE  LET b == Around(a, page[no], no) IN
         Whole(b, page, no) /\ (b.stop \/ b.skip = Len(page[no]) \/ b.skip > a.skip)
<1> DEFINE line == page[no]
           b == InitPart(a, line, no)
           c == HtmlPart(b, line, no)
           d == CodePart(c, line, no)
<1>1. line \in Letters /\ no \in Nat
  BY ElementOfSeq
<1>2. Len(line) \in Nat /\ a.skip \in Nat /\ a.skip <= Len(line)
  BY <1>1 DEF Letters, States, Whole, Core
<1>3. CASE a.skip >= Len(line) \/ a.stop
  <2>1. Around(a, line, no) = a
    BY <1>3 DEF Around
  <2>2. a.stop \/ a.skip = Len(line)
    BY <1>2, <1>3
  <2> QED BY <2>1, <2>2
<1>4. CASE ~(a.skip >= Len(line) \/ a.stop)
  <2>1. Around(a, line, no) = d
    BY <1>4 DEF Around
  <2>2. b \in States
    BY <1>1, InitPartType
  <2>3. c \in States
    BY <1>1, <2>2, HtmlPartType
  <2>4. d \in States
    BY <1>1, <2>3, CodePartType
  <2>5. ~d.odd /\ ~c.odd /\ ~b.odd
    BY <1>1, <2>1, <2>2, <2>3, PartsOdd
  <2>6. Partly(a, page, no) /\ ~a.stop
    BY <1>2, <1>4 DEF Whole, Partly
  <2>7. Partly(b, page, no) /\ b.skip >= a.skip /\ (~b.stop => b.s \in {"html", "code"})
    BY <2>5, <2>6, InitPartRight
  <2>8. b.stop => c = b
    BY DEF HtmlPart
  <2>9. c.stop => d = c
    BY DEF CodePart
  <2> HIDE DEF b
  <2>10. Partly(c, page, no) /\ c.skip >= b.skip /\ (~c.stop => c.s = "code")
    <3>1. CASE b.stop
      BY <2>2, <2>7, <2>8, <3>1 DEF States
    <3>2. CASE ~b.stop
      BY <2>2, <2>5, <2>7, <3>2, HtmlPartRight
    <3> QED BY <3>1, <3>2
  <2> HIDE DEF c
  <2>11. Whole(d, page, no) /\ (d.stop \/ d.skip > c.skip)
    <3>1. CASE c.stop
      BY <2>9, <2>10, <3>1 DEF Partly, Whole
    <3>2. CASE ~c.stop
      BY <2>3, <2>5, <2>10, <3>2, CodePartRight
    <3> QED BY <3>1, <3>2
  <2> HIDE DEF d
  <2>12. d.skip > c.skip => d.skip > a.skip
    BY <2>2, <2>3, <2>4, <2>7, <2>10 DEF States
  <2> QED BY <2>1, <2>11, <2>12
<1> QED BY <1>3, <1>4

\* The whole line.
LEMMA TurnsRight ==
  ASSUME NEW page \in Seq(Letters), NEW no \in 1..Len(page), NEW a \in States,
         ~a.odd => Whole([LineBegin(a, page[no], no) EXCEPT !.stop = a.thrown], page, no)
  PROVE  LET b == ConvertLine(a, page[no], no) IN
         ~b.odd => Whole(b, page, no) /\ b.skip = Len(page[no]) /\ ~a.odd
<1> DEFINE line == page[no]
           n == Len(line)
           f == Turns(a, line, no)
           T == {k \in 0..n : ~f[k].odd => Whole(f[k], page, no) /\ ~a.odd /\ (f[k].stop \/ f[k].skip = n \/ f[k].skip >= k)}
<1>1. line \in Letters /\ no \in Nat /\ n \in Nat
  BY ElementOfSeq DEF Letters
<1>2. /\ f \in [0..n -> States]
      /\ f[0] = [LineBegin(a, line, no) EXCEPT !.stop = a.thrown]
      /\ \A k \in 1..n : f[k] = Around(f[k - 1], line, no)
  BY <1>1, TurnsIs
<1>3. ConvertLine(a, line, no) = f[n]
  BY DEF ConvertLine
<1> HIDE DEF f
<1>4. 0 \in T
  <2>1. f[0] \in States /\ 0 \in 0..n
    BY <1>1, <1>2
  <2>2. f[0].skip >= 0
    BY <2>1 DEF States
  <2>3. f[0].odd = a.odd
    BY <1>2 DEF LineBegin, States
  <2>4. ~f[0].odd => Whole(f[0], page, no) /\ ~a.odd
    BY <1>2, <2>3
  <2> HIDE DEF line, n
  <2> QED BY <2>1, <2>2, <2>4
<1>5. ASSUME NEW m \in 0..(n - 1), m \in T PROVE m + 1 \in T
  <2>1. m + 1 \in 1..n /\ (m + 1) - 1 = m /\ m \in 0..n /\ m + 1 \in 0..n
    BY <1>1
  <2>2. f[m] \in States /\ f[m + 1] \in States /\ f[m + 1] = Around(f[m], line, no)
    BY <1>2, <2>1
  <2> SUFFICES ASSUME ~f[m + 1].odd
               PROVE  Whole(f[m + 1], page, no) /\ ~a.odd /\ (f[m + 1].stop \/ f[m + 1].skip = n \/ f[m + 1].skip >= m + 1)
    BY <2>1
  <2>3. ~f[m].odd
    BY <1>1, <2>2, AroundOdd
  <2>4. Whole(f[m], page, no) /\ ~a.odd /\ (f[m].stop \/ f[m].skip = n \/ f[m].skip >= m)
    BY <1>5, <2>3
  <2>5. Whole(f[m + 1], page, no) /\ (f[m + 1].stop \/ f[m + 1].skip = n \/ f[m + 1].skip > f[m].skip)
    BY <2>2, <2>4, AroundRight
  <2>6. f[m + 1].skip > f[m].skip => f[m].skip # n /\ ~f[m].stop
    <3>1. f[m + 1].skip <= n /\ f[m].skip \in Nat /\ f[m + 1].skip \in Nat
      BY <2>2, <2>5 DEF Whole, Core, States
    <3>2. f[m].stop => f[m].skip = n
      BY <2>4 DEF Whole, Core
    <3> QED BY <1>1, <3>1, <3>2
  <2>7. f[m + 1].skip > f[m].skip => f[m + 1].skip >= m + 1
    <3>1. f[m].skip \in Nat /\ f[m + 1].skip \in Nat
      BY <2>2 DEF States
    <3> QED BY <2>4, <2>6, <3>1
  <2> QED BY <2>4, <2>5, <2>7
<1>6. n \in T
  <2> HIDE DEF T
  <2>1. \A m \in 0..n : m \in T
    BY <1>1, <1>4, <1>5, Counting
  <2> QED BY <1>1, <2>1
<1>7. ASSUME ~f[n].odd PROVE Whole(f[n], page, no) /\ f[n].skip = n /\ ~a.odd
  <2>1. Whole(f[n], page, no) /\ ~a.odd /\ (f[n].stop \/ f[n].skip = n \/ f[n].skip >= n)
    BY <1>6, <1>7
  <2>2. f[n].skip <= n /\ f[n].skip \in Nat /\ (f[n].stop => f[n].skip = n)
    BY <1>1, <1>2, <2>1 DEF Whole, Core, States
  <2> QED BY <1>1, <2>1, <2>2
<1> QED BY <1>3, <1>7

----------------------------------------------------------------------------
(* JsHtml: lines *)

\* What the outer loop keeps true.
Between(a, page, no) ==
  IF no = 0 THEN a = NothingYet
  ELSE ~a.odd =>
    /\ ~a.thrown /\ a.s \in {"init", "html", "code"} /\ a.cs \in Settled /\ Plain(a)
    /\ InOrder(a.out, no) /\ Past(page, a.out, no + 1)

\* The line begins with what the lines before it left.
LEMMA LineBeginRight ==
  ASSUME NEW page \in Seq(Letters), NEW no \in 1..Len(page), NEW a \in States, Between(a, page, no - 1), ~a.odd
  PROVE  Whole([LineBegin(a, page[no], no) EXCEPT !.stop = a.thrown], page, no)
<1> DEFINE line == page[no]
           b == [LineBegin(a, line, no) EXCEPT !.stop = a.thrown]
<1>1. line \in Letters /\ no \in Nat /\ no > 0 /\ Len(line) \in Nat /\ 0 \in 0..Len(line) /\ 0 + 1 = 1 /\ no - 1 \in Nat
  BY ElementOfSeq DEF Letters
<1>2. SubSeq(line, 1, 0) = <<>>
  BY <1>1, NoneRead
<1>3. CASE no # 1
  <2>1. /\ ~a.thrown /\ a.s \in {"init", "html", "code"} /\ a.cs \in Settled /\ Plain(a)
        /\ InOrder(a.out, no - 1) /\ Past(page, a.out, (no - 1) + 1)
    BY <1>1, <1>3 DEF Between
  <2>2. \A i \in DOMAIN a.out : a.out[i].no # no
    BY <1>1, <2>1 DEF InOrder
  <2>3. Text(a.out, no) = <<>>
    <3>1. a.out \in Seq(Rows)
      BY DEF States
    <3> QED BY <1>1, <2>2, <3>1, TextNone
  <2>4. Dropped(page, no) = <<>>
    BY <1>3 DEF Dropped
  <2>5. Upto(page, a.out, no, 0)
    <3>1. <<>> \o <<>> = <<>>
      BY NoText, PushNothing
    <3> QED BY <1>1, <1>2, <2>1, <2>3, <2>4, <3>1 DEF Upto
  <2>6. Broken(a.out, no) /\ Unbroken(a.out, no)
    BY <2>2 DEF Broken, Unbroken
  <2>7. b.s = a.s /\ b.cs = a.cs /\ b.skip = 0 /\ ~b.stop /\ ~b.thrown /\ b.out = a.out
    BY <2>1 DEF LineBegin, States
  <2> HIDE DEF b
  <2>8. Core(b, page, no)
    BY <1>1, <2>1, <2>5, <2>7 DEF Core
  <2> QED BY <2>1, <2>6, <2>7, <2>8 DEF Whole, Plain, b
<1>4. CASE no = 1
  <2>1. a = NothingYet
    BY <1>4 DEF Between
  <2>2. Past(page, <<>>, no) /\ Unbroken(<<>>, no) /\ Broken(<<>>, no) /\ <<>> \in Seq(Rows)
    BY <1>4 DEF Past, InOrder, Unbroken, Broken
  <2>3. Text(<<>>, no) = <<>>
    <3>1. PICK out \in Seq(Rows) : out = <<>>
      BY <2>2
    <3>2. \A i \in DOMAIN out : out[i].no # no
      BY <3>1
    <3> QED BY <1>1, <3>1, <3>2, TextNone
  <2>4. CASE IsPrefix(<<"<", "%", "@">>, line)
    <3>1. b = [a EXCEPT !.s = "init", !.skip = 3, !.stop = FALSE]
      BY <2>1, <2>4 DEF LineBegin, NothingYet
    <3> HIDE DEF b
    <3>2. b.s = "init" /\ b.cs = "normal" /\ b.skip = 3 /\ ~b.stop /\ ~b.thrown /\ b.out = <<>>
      BY <2>1, <3>1 DEF NothingYet
    <3>3. 3 <= Len(line) /\ SubSeq(line, 1, 3) = <<"<", "%", "@">>
      <4> DEFINE mark == <<"<", "%", "@">>
      <4>1. mark \in Seq(Char) /\ Len(mark) = 3
        BY CharAssumption
      <4> HIDE DEF mark
      <4>2. IsPrefix(mark, line)
        BY <2>4 DEF mark
      <4>3. Len(mark) <= Len(line) /\ SubSeq(mark, 1, Len(mark)) = SubSeq(line, 1, Len(mark))
        BY <4>2 DEF IsPrefix
      <4>4. SubSeq(mark, 1, Len(mark)) = mark
        BY <4>1, SubSeqFull
      <4> QED BY <4>1, <4>3, <4>4 DEF mark
    <3>4. Dropped(page, no) = <<"<", "%", "@">>
      BY <1>4, <2>4 DEF Dropped
    <3>5. Dropped(page, no) \o <<>> = Dropped(page, no)
      BY DroppedType, PushNothing
    <3>6. Upto(page, <<>>, no, 3)
      BY <2>2, <2>3, <3>3, <3>4, <3>5 DEF Upto
    <3>7. Core(b, page, no)
      BY <3>2, <3>3, <3>6 DEF Core, Settled
    <3> QED BY <2>2, <3>2, <3>7 DEF Whole, Plain, b
  <2>5. CASE ~IsPrefix(<<"<", "%", "@">>, line)
    <3> DEFINE o == Row("open", <<>>, no, FALSE, FALSE)
               one == Append(<<>>, o)
    <3>1. b = [a EXCEPT !.s = "html", !.skip = 0, !.stop = FALSE, !.out = one]
      BY <2>1, <2>5 DEF LineBegin, NothingYet
    <3> HIDE DEF b
    <3>2. b.s = "html" /\ b.cs = "normal" /\ b.skip = 0 /\ ~b.stop /\ ~b.thrown /\ b.out = one
      BY <2>1, <3>1 DEF NothingYet
    <3>3. Upto(page, <<>>, no, 0)
      <4>1. Dropped(page, no) = <<>> /\ <<>> \o <<>> = <<>>
        BY <1>4, <2>5, NoText, PushNothing DEF Dropped
      <4> QED BY <1>2, <2>2, <2>3, <4>1 DEF Upto
    <3>4. WriteOf(page, no, <<>>, 0, o, 0) /\ ~o.nl
      BY <1>1, <2>2, <3>3, WriteNothing
    <3>5. Upto(page, one, no, 0) /\ Unbroken(one, no)
      BY <2>2, <3>4 DEF WriteOf
    <3> HIDE DEF one
    <3>6. Core(b, page, no)
      BY <1>1, <3>2, <3>5 DEF Core, Settled
    <3>7. 0 = Len(line) => line = <<>>
      BY <1>1, EmptySeq DEF Letters
    <3> QED BY <3>2, <3>5, <3>6, <3>7 DEF Whole, Plain, b
  <2> QED BY <2>4, <2>5
<1> QED BY <1>3, <1>4

\* The inner loop passes it on from line to line.
LEMMA ConvertLineRight ==
  ASSUME NEW page \in Seq(Letters), NEW no \in 1..Len(page), NEW a \in States, Between(a, page, no - 1)
  PROVE  Between(ConvertLine(a, page[no], no), page, no)
<1> DEFINE line == page[no]
           b == ConvertLine(a, line, no)
<1>1. line \in Letters /\ no \in Nat /\ no # 0
  BY ElementOfSeq
<1>2. ~a.odd => Whole([LineBegin(a, line, no) EXCEPT !.stop = a.thrown], page, no)
  BY LineBeginRight
<1>3. ~b.odd => Whole(b, page, no) /\ b.skip = Len(line)
  BY <1>2, TurnsRight
<1> HIDE DEF b
<1> SUFFICES ASSUME ~b.odd
             PROVE  /\ ~b.thrown /\ b.s \in {"init", "html", "code"} /\ b.cs \in Settled /\ Plain(b)
                    /\ InOrder(b.out, no) /\ Past(page, b.out, no + 1)
  BY <1>1 DEF Between, b
<1>4. /\ ~b.thrown /\ b.s \in {"init", "html", "code"} /\ b.cs \in Settled /\ Plain(b)
      /\ Upto(page, b.out, no, Len(line)) /\ (line # <<>> => Broken(b.out, no))
  BY <1>3 DEF Whole, Core
<1>5. Told(page, b.out, no)
  <2>1. SubSeq(line, 1, Len(line)) = line
    BY <1>1, SubSeqFull DEF Letters
  <2> QED BY <1>4, <2>1 DEF Upto, Told
<1>6. InOrder(b.out, no) /\ InOrder(b.out, no + 1)
  BY <1>1, <1>4 DEF Upto, Past, InOrder
<1>7. Past(page, b.out, no + 1)
  <2>1. \A m \in 1..(no + 1) - 1 : m \in 1..no - 1 \/ m = no
    BY <1>1
  <2> QED BY <1>4, <1>5, <1>6, <2>1 DEF Upto, Past
<1> QED BY <1>4, <1>6, <1>7

\* code_convert translates every page faithfully, whatever its lines are and however many, unless a slash was copied
\* twice or a line ends within what begins or ends a comment: every character of the page is in the rows of its line
\* and in its order, and a line that ends outside of code ends with a line break.  Where code ends is claimed less
\* widely: that which begins behind HTML, is closed in the same line and has no double quote, backslash or slash, ends
\* at the first %> that is not in quotes.
THEOREM EveryPage ==
  ASSUME NEW page \in Seq(Letters)
  PROVE  Faithful(page, CodeConvert(page))
<1> DEFINE n == Len(page)
           f == Converting(page)
           T == {no \in 0..n : Between(f[no], page, no)}
           a == f[n]
<1>1. n \in Nat /\ f \in [0..n -> States] /\ f[0] = NothingYet /\ \A no \in 1..n : f[no] = ConvertLine(f[no - 1], page[no], no)
  BY ConvertingIs
<1>2. CodeConvert(page) = a
  BY DEF CodeConvert
<1> HIDE DEF f
<1>3. 0 \in T
  BY <1>1 DEF Between
<1>4. ASSUME NEW m \in 0..(n - 1), m \in T PROVE m + 1 \in T
  <2>1. m + 1 \in 1..n /\ (m + 1) - 1 = m /\ m \in 0..n /\ m + 1 \in 0..n
    BY <1>1
  <2>2. f[m] \in States /\ Between(f[m], page, m) /\ f[m + 1] = ConvertLine(f[m], page[m + 1], m + 1)
    BY <1>1, <1>4, <2>1
  <2>3. Between(f[m + 1], page, m + 1)
    BY <2>1, <2>2, ConvertLineRight
  <2> QED BY <2>1, <2>3
<1>5. Between(a, page, n) /\ a \in States
  <2> HIDE DEF T
  <2>1. \A m \in 0..n : m \in T
    BY <1>1, <1>3, <1>4, Counting
  <2>2. n \in T
    BY <1>1, <2>1
  <2> QED BY <1>1, <2>2 DEF T
<1> HIDE DEF a
<1> SUFFICES ASSUME ~a.odd PROVE Faithful(page, a)
  BY <1>2 DEF Faithful
<1>6. ~a.thrown /\ InOrder(a.out, n) /\ Past(page, a.out, n + 1)
  <2>1. CASE n = 0
    <3>1. a.out = <<>> /\ ~a.thrown
      BY <1>5, <2>1 DEF Between, NothingYet
    <3> QED BY <2>1, <3>1 DEF InOrder, Past
  <2>2. CASE n # 0
    BY <1>5, <2>2 DEF Between
  <2> QED BY <2>1, <2>2
<1>7. \A no \in 1..n : Told(page, a.out, no) /\ (page[no] # <<>> => Broken(a.out, no))
  <2>1. (n + 1) - 1 = n
    BY <1>1
  <2> QED BY <1>6, <2>1 DEF Past
<1>8. \A no \in DOMAIN page : Dropped(page, no) \o Text(a.out, no) = page[no]
  <2>1. DOMAIN page = 1..n
    BY LenProperties
  <2> QED BY <1>7, <2>1 DEF Told
<1>9. ASSUME NEW i \in DOMAIN a.out
      PROVE  /\ page[a.out[i].no] # <<>> =>
                  (a.out[i].nl <=> a.out[i].kind \notin {"init", "code"}
                                   /\ \A j \in DOMAIN a.out : a.out[j].no = a.out[i].no => j <= i)
             /\ /\ a.out[i].kind \in {"code", "expr"} /\ a.out[i].closed /\ i > 1 /\ a.out[i - 1].kind = "html"
                /\ \A j \in DOMAIN a.out[i].text : a.out[i].text[j] \notin {"\"", "\\", "/"}
                => EndsRight(a.out[i].text)
  <2>1. a.out[i].no \in 1..n
    BY <1>6 DEF InOrder
  <2>2. page[a.out[i].no] # <<>> => Broken(a.out, a.out[i].no)
    BY <1>7, <2>1
  <2>3. page[a.out[i].no] # <<>> =>
          (a.out[i].nl <=> a.out[i].kind \notin {"init", "code"}
                           /\ \A j \in DOMAIN a.out : a.out[j].no = a.out[i].no => j <= i)
    BY <2>2 DEF Broken
  <2>4. EndsAt(a.out, i)
    BY <1>6 DEF Past
  <2>5. DOMAIN a.out[i].text = 1..Len(a.out[i].text)
    <3>1. a.out \in Seq(Rows)
      BY <1>5 DEF States
    <3>2. a.out[i] \in Rows
      BY <3>1, ElementOfSeq, LenProperties
    <3>3. a.out[i].text \in Seq(Char)
      BY <3>2 DEF Rows, Letters
    <3> QED BY <3>3, LenProperties
  <2>6. (\A j \in DOMAIN a.out[i].text : a.out[i].text[j] \notin Hides) => Clean(a.out[i].text, Len(a.out[i].text))
    BY <2>5 DEF Clean
  <2> QED BY <2>3, <2>4, <2>6 DEF EndsAt, Hides
<1>10. \A i, j \in DOMAIN a.out : i <= j => a.out[i].no <= a.out[j].no
  BY <1>6 DEF InOrder
<1> QED BY <1>6, <1>8, <1>9, <1>10 DEF Faithful

----------------------------------------------------------------------------
(* ByteCodeCache: TypeOK *)

\* A page has a content, and so has a file that is gone.
LEMMA Contents ==
  ASSUME text \in Page \cup {None}
  PROVE  Content \in Page
BY PageAssumption DEF Content

\* A page has so many lines.
LEMMA PageLines == ASSUME NEW p \in Page PROVE Len(Html[p]) \in Nat
<1>1. Html[p] \in Seq(Seq(Char))
  BY HtmlAssumption
<1> QED BY <1>1, LenProperties

\* The loop goes on as long as the reads are not short.
LEMMA TurnOfLoop ==
  ASSUME NEW m \in Seq(Page), Full(m), NEW p \in Page
  PROVE  /\ Append(m, p) \in Seq(Page)
         /\ Len(Html[p]) <= Len(m) => Reading(Append(m, p))
         /\ ~(Len(Html[p]) <= Len(m)) => Full(Append(m, p))
<1> DEFINE n == Append(m, p)
<1>1. n \in Seq(Page) /\ Len(n) = Len(m) + 1 /\ n[Len(n)] = p /\ (\A k \in 1..Len(m) : n[k] = m[k]) /\ n # <<>>
  BY AppendProperties
<1>2. Len(m) \in Nat /\ Len(Html[p]) \in Nat
  BY LenProperties, PageLines
<1>3. \A k \in 1..Len(m) : k <= Len(Html[m[k]])
  BY DEF Full
<1> HIDE DEF n
<1>4. \A k \in 1..Len(n) - 1 : k <= Len(Html[n[k]])
  BY <1>1, <1>2, <1>3
<1>5. ASSUME Len(Html[p]) <= Len(m) PROVE Reading(n)
  BY <1>1, <1>2, <1>4, <1>5 DEF Reading
<1>6. ASSUME ~(Len(Html[p]) <= Len(m)) PROVE Full(n)
  <2>1. \A k \in 1..Len(n) : k \in 1..Len(n) - 1 \/ k = Len(n)
    BY <1>1, <1>2
  <2>2. Len(n) <= Len(Html[n[Len(n)]])
    BY <1>1, <1>2, <1>6
  <2> QED BY <1>4, <2>1, <2>2 DEF Full
<1> QED BY <1>1, <1>5, <1>6 DEF n

\* Nothing has been read yet.
LEMMA NothingRead == <<>> \in Seq(Page) /\ Full(<<>>)
BY DEF Full

\* What was read to its end is among the pages that are converted.
LEMMA ReadBlocks ==
  ASSUME NEW m \in Seq(Page), Reading(m)
  PROVE  Front(m) \in Blocks
<1> DEFINE n == Len(m) - 1
           b == Front(m)
<1>1. Len(m) \in Nat /\ m # <<>> /\ (\A k \in 1..n : k <= Len(Html[m[k]])) /\ \A k \in 1..Len(m) : m[k] \in Page
  BY LenProperties, ElementOfSeq DEF Reading
<1>2. n \in Nat /\ n + 1 = Len(m)
  BY <1>1, EmptySeq
<1>3. DOMAIN b = 1..n /\ b \in [1..n -> Page] /\ \A k \in 1..n : b[k] = m[k]
  <2>1. b = SubSeq(m, 1, n)
    BY DEF Front
  <2>2. b = [k \in 1..n |-> m[k]]
    BY <1>2, <2>1, SubSeqRestrict DEF Restrict
  <2> QED BY <1>1, <1>2, <2>2
<1>4. n \in UNION {0..Len(Html[p]) : p \in Page}
  <2>1. \E p \in Page : n \in 0..Len(Html[p])
    <3>1. CASE n = 0
      <4>1. Empty \in Page /\ Len(Html[Empty]) \in Nat
        BY PageAssumption, PageLines
      <4>2. n \in 0..Len(Html[Empty])
        <5> HIDE DEF n
        <5> QED BY <3>1, <4>1
      <4> QED BY <4>1, <4>2
    <3>2. CASE n # 0
      <4>1. n \in 1..n /\ n \in 1..Len(m)
        BY <1>2, <3>2
      <4>2. m[n] \in Page /\ n <= Len(Html[m[n]])
        BY <1>1, <4>1
      <4>3. Len(Html[m[n]]) \in Nat
        BY <4>2, PageLines
      <4> QED BY <1>2, <4>2, <4>3
    <3> QED BY <3>1, <3>2
  <2> QED BY <2>1
<1>5. \A k \in DOMAIN b : k <= Len(Html[b[k]])
  BY <1>1, <1>3
<1> HIDE DEF n, b
<1>6. b \in Blocks
  BY <1>3, <1>4, <1>5 DEF Blocks
<1> QED BY <1>6 DEF b

LEMMA InitType == Init => TypeOK
BY PageAssumption DEF Init, TypeOK, PCs, Runs

LEMMA StepType == TypeOK /\ [Next]_vars => TypeOK'
<1> SUFFICES ASSUME TypeOK, [Next]_vars PROVE TypeOK'
  OBVIOUS
<1> USE DEF TypeOK, PCs, Runs, file, engine
<1>1. CASE Edit
  <2>1. text' \in Page \cup {None}
    BY <1>1, PageAssumption DEF Edit
  <2>2. Content' \in Page
    BY <2>1, PageAssumption DEF Content
  <2> QED BY <1>1, <2>1, <2>2 DEF Edit
<1>2. CASE Tick
  BY <1>2, TimeAssumption DEF Tick
<1>3. ASSUME NEW e \in Engine, Stat(e) PROVE TypeOK'
  BY <1>3 DEF Stat
<1>4. ASSUME NEW e \in Engine, NoStat(e) PROVE TypeOK'
  BY <1>4 DEF NoStat
<1>5. ASSUME NEW e \in Engine, Hit(e) PROVE TypeOK'
  BY <1>5 DEF Hit, Valid
<1>6. ASSUME NEW e \in Engine, Miss(e) PROVE TypeOK'
  BY <1>6, NothingRead DEF Miss
<1>7. ASSUME NEW e \in Engine, Read(e) PROVE TypeOK'
  <2> DEFINE m == Append(code[e], Content)
             next == IF Len(Html[Content]) <= Len(code[e]) THEN "compile" ELSE "read"
  <2>1. code[e] \in Seq(Page) /\ Full(code[e]) /\ Content \in Page
    BY <1>7, Contents DEF Read
  <2>2. m \in Seq(Page) /\ (next = "compile" => Reading(m)) /\ (next = "read" => Full(m)) /\ next \in {"compile", "read"}
    BY <2>1, TurnOfLoop
  <2>3. /\ pc[e] = "read" /\ code' = [code EXCEPT ![e] = m] /\ pc' = [pc EXCEPT ![e] = next]
        /\ UNCHANGED <<file, bytecode, st, private, loads, held, mixed, replaced>>
    BY <1>7 DEF Read
  <2> HIDE DEF m, next
  <2> QED BY <2>2, <2>3
<1>8. ASSUME NEW e \in Engine, Compile(e) PROVE TypeOK'
  BY <1>8 DEF Compile
<1>9. ASSUME NEW e \in Engine, NoCompile(e) PROVE TypeOK'
  BY <1>9, NothingRead DEF NoCompile, Fire
<1>10. ASSUME NEW e \in Engine, Execute(e) PROVE TypeOK'
  BY <1>10 DEF Execute
<1>11. ASSUME NEW e \in Engine, NoExecute(e) PROVE TypeOK'
  BY <1>11, NothingRead DEF NoExecute, Fire
<1>12. ASSUME NEW e \in Engine, Publish(e) PROVE TypeOK'
  BY <1>12 DEF Publish, EntryOf
<1>13. ASSUME NEW e \in Engine, Bind(e) PROVE TypeOK'
  BY <1>13 DEF Bind
<1>14. ASSUME NEW e \in Engine, Call(e) PROVE TypeOK'
  BY <1>14, NothingRead DEF Call, Fire
<1>15. CASE UNCHANGED vars
  BY <1>15 DEF vars
<1> QED
  BY <1>1, <1>2, <1>3, <1>4, <1>5, <1>6, <1>7, <1>8, <1>9, <1>10, <1>11, <1>12, <1>13, <1>14, <1>15 DEF Next

\* The variables keep the values that the code gives them (load_file).
THEOREM TypeCorrect == Spec => []TypeOK
BY InitType, StepType, PTL DEF Spec

----------------------------------------------------------------------------
(* ByteCodeCache: FreshCode *)

\* While the file has a time that no two contents share, all that was read for code of that time is what the file
\* contains; and an engine that has seen a time in its stat may use any code of that time.
IsOf(m, tm) == tm = mtime /\ tm \notin mixed => \A k \in DOMAIN m : m[k] = Content
Usable(m, tm, e) == pc[e] # "idle" /\ tm = st[e] /\ tm \notin mixed => \A k \in DOMAIN m : m[k] \in held[e]

\* Times do not lie in the future, and what an engine has read or found, and the entry of the map, is
\* usable for all who load the page meanwhile.
Times == (\A e \in Engine : st[e] <= mtime) /\ (\A c \in bytecode : c.tm <= mtime)
Present == \A e \in Engine : pc[e] # "idle" => Content \in held[e]
HasCode(e) == pc[e] \in {"read", "compile", "execute", "publish", "bind", "call"}
OwnIsOf == \A e \in Engine : HasCode(e) => IsOf(code[e], st[e])
OwnUsable == \A e, o \in Engine : HasCode(e) => Usable(code[e], st[e], o)
EntryIsOf == \A c \in bytecode : IsOf(c.code, c.tm)
EntryUsable == \A c \in bytecode, o \in Engine : Usable(c.code, c.tm, o)
Fresh == Times /\ Present /\ OwnIsOf /\ OwnUsable /\ EntryIsOf /\ EntryUsable

LEMMA InitFresh == Init => Fresh
BY DEF Init, Fresh, Times, Present, OwnIsOf, OwnUsable, EntryIsOf, EntryUsable, IsOf, Usable, HasCode

\* An edit gives the file a new time, or makes the old one one that contents share.
LEMMA EditFresh == TypeOK /\ Fresh /\ Edit => Fresh'
<1> SUFFICES ASSUME TypeOK, Fresh, Edit PROVE Fresh'
  OBVIOUS
<1> USE DEF Fresh
<1>1. /\ mtime' = now /\ mtime \in Nat /\ now \in Nat /\ mtime <= now
      /\ mixed' = IF mtime = now THEN mixed \cup {now} ELSE mixed
      /\ bytecode' = bytecode /\ pc' = pc /\ st' = st /\ code' = code
      /\ held' = [e \in Engine |-> IF pc[e] = "idle" THEN held[e] ELSE held[e] \cup {Content'}]
      /\ st \in [Engine -> Nat] /\ \A c \in bytecode : c.tm \in Nat
  BY DEF Edit, engine, TypeOK
<1>2. \A tm \in Nat : tm <= mtime => tm <= mtime' /\ (tm # mtime' \/ tm \in mixed')
  BY <1>1
<1>3. \A e \in Engine : held[e] \subseteq held'[e] /\ (pc[e] # "idle" => Content' \in held'[e])
  BY <1>1
<1>4. mixed \subseteq mixed'
  BY <1>1
<1>5. Times'
  BY <1>1, <1>2 DEF Times
<1>6. Present'
  BY <1>1, <1>3 DEF Present
<1>7. OwnIsOf' /\ EntryIsOf'
  BY <1>1, <1>2, <1>5 DEF OwnIsOf, EntryIsOf, IsOf, Times
<1>8. OwnUsable' /\ EntryUsable'
  BY <1>1, <1>3, <1>4 DEF OwnUsable, EntryUsable, Usable, HasCode
<1> QED BY <1>5, <1>6, <1>7, <1>8

\* A load that begins finds the file as it is, so that any code of its time will do.
LEMMA StatFresh == ASSUME TypeOK, Fresh, NEW e \in Engine, Stat(e) PROVE Fresh'
<1> USE DEF Fresh
<1>1. /\ UNCHANGED <<text, mtime, mixed, bytecode, code>>
      /\ Content' = Content /\ Content = text
      /\ pc' = [pc EXCEPT ![e] = "lookup"] /\ st' = [st EXCEPT ![e] = mtime]
      /\ held' = [held EXCEPT ![e] = {text}]
      /\ pc \in [Engine -> PCs] /\ st \in [Engine -> Nat] /\ held \in [Engine -> SUBSET Page]
      /\ mtime \in Nat
  BY DEF Stat, file, TypeOK, Content
<1>2. \A o \in Engine : o # e => pc'[o] = pc[o] /\ st'[o] = st[o] /\ held'[o] = held[o]
  BY <1>1
<1>3. pc'[e] = "lookup" /\ st'[e] = mtime /\ held'[e] = {Content}
  BY <1>1
<1>4. Times'
  BY <1>1, <1>2, <1>3 DEF Times
<1>5. Present'
  BY <1>1, <1>2, <1>3 DEF Present
<1>6. OwnIsOf' /\ EntryIsOf'
  BY <1>1, <1>2, <1>3 DEF OwnIsOf, EntryIsOf, IsOf, HasCode
<1>7. OwnUsable'
  BY <1>1, <1>2, <1>3 DEF OwnUsable, OwnIsOf, IsOf, Usable, HasCode
<1>8. EntryUsable'
  BY <1>1, <1>2, <1>3 DEF EntryUsable, EntryIsOf, IsOf, Usable
<1> QED BY <1>4, <1>5, <1>6, <1>7, <1>8

\* A step of one engine that neither loads code nor changes the map.
Quiet(e) ==
  /\ UNCHANGED <<text, mtime, mixed, bytecode, st, held>>
  /\ \A o \in Engine : o # e => pc'[o] = pc[o] /\ code'[o] = code[o]
  /\ pc'[e] # "idle" => pc[e] # "idle"
  /\ HasCode(e)' => code'[e] = <<>> \/ (HasCode(e) /\ code'[e] = code[e])

LEMMA QuietFresh == ASSUME Fresh, NEW e \in Engine, Quiet(e) PROVE Fresh'
BY DEF Fresh, Quiet, Times, Present, OwnIsOf, OwnUsable, EntryIsOf, EntryUsable, IsOf, Usable, HasCode, Content

\* The code of the entry is as usable in the hands of the engine as it was in the map.
LEMMA HitFresh == ASSUME TypeOK, Fresh, NEW e \in Engine, Hit(e) PROVE Fresh'
<1> USE DEF Fresh
<1>1. PICK c \in bytecode : c.tm = st[e] /\ code' = [code EXCEPT ![e] = c.code]
  BY DEF Hit, Valid
<1>2. /\ UNCHANGED <<text, mtime, mixed, bytecode, st, held>> /\ Content' = Content
      /\ pc[e] = "lookup" /\ pc'[e] = "execute" /\ code'[e] = c.code
      /\ \A o \in Engine : o # e => pc'[o] = pc[o] /\ code'[o] = code[o]
  BY <1>1 DEF Hit, file, TypeOK, Content
<1>3. Times' /\ Present' /\ EntryIsOf' /\ EntryUsable'
  BY <1>2 DEF Times, Present, EntryIsOf, EntryUsable, IsOf, Usable
<1>4. OwnIsOf'
  BY <1>1, <1>2 DEF OwnIsOf, EntryIsOf, IsOf, HasCode
<1>5. OwnUsable'
  BY <1>1, <1>2 DEF OwnUsable, EntryUsable, Usable, HasCode
<1> QED BY <1>3, <1>4, <1>5

\* What is read is what the file contains, which all who load it may use, like what was read of it before.
LEMMA ReadFresh == ASSUME TypeOK, Fresh, NEW e \in Engine, Read(e) PROVE Fresh'
<1> DEFINE m == code[e]
           n == Append(m, Content)
<1> USE DEF Fresh
<1>1. /\ UNCHANGED <<text, mtime, mixed, bytecode, st, held>> /\ Content' = Content
      /\ pc[e] = "read" /\ pc'[e] # "idle" /\ code'[e] = n
      /\ \A o \in Engine : o # e => pc'[o] = pc[o] /\ code'[o] = code[o]
  BY DEF Read, file, TypeOK, Content
<1>2. \A k \in DOMAIN n : n[k] = Content \/ (k \in DOMAIN m /\ n[k] = m[k])
  <2>1. m \in Seq(Page) /\ Content \in Page
    BY Contents DEF TypeOK
  <2>2. n \in Seq(Page) /\ Len(n) = Len(m) + 1 /\ n[Len(n)] = Content /\ \A k \in 1..Len(m) : n[k] = m[k]
    BY <2>1, AppendProperties
  <2>3. DOMAIN n = 1..Len(n) /\ DOMAIN m = 1..Len(m) /\ Len(m) \in Nat
    BY <2>1, <2>2, LenProperties
  <2> HIDE DEF m, n
  <2> QED BY <2>2, <2>3
<1> HIDE DEF n
<1>3. Times' /\ Present' /\ EntryIsOf' /\ EntryUsable'
  BY <1>1 DEF Times, Present, EntryIsOf, EntryUsable, IsOf, Usable
<1>4. OwnIsOf'
  <2>1. HasCode(e) /\ IsOf(m, st[e])
    BY <1>1 DEF OwnIsOf, HasCode
  <2>2. IsOf(n, st[e])
    BY <1>2, <2>1 DEF IsOf
  <2> QED BY <1>1, <2>2 DEF OwnIsOf, IsOf, HasCode
<1>5. OwnUsable'
  <2>1. \A o \in Engine : Usable(m, st[e], o)
    BY <1>1 DEF OwnUsable, HasCode
  <2>2. \A o \in Engine : pc[o] # "idle" => Content \in held[o]
    BY DEF Present
  <2>3. \A o \in Engine : Usable(n, st[e], o)
    BY <1>2, <2>1, <2>2 DEF Usable
  <2> QED BY <1>1, <2>3 DEF OwnUsable, Usable, HasCode
<1> QED BY <1>3, <1>4, <1>5

\* The entry is given the code of the engine together with its time.
LEMMA PublishFresh == ASSUME TypeOK, Fresh, NEW e \in Engine, Publish(e) PROVE Fresh'
<1> USE DEF Fresh
<1>1. /\ UNCHANGED <<text, mtime, mixed, st, code, held>> /\ Content' = Content
      /\ pc[e] = "publish" /\ pc'[e] = "bind"
      /\ \A o \in Engine : o # e => pc'[o] = pc[o]
      /\ \A c \in bytecode' : c.tm = st[e] /\ c.code = code[e]
  BY DEF Publish, EntryOf, file, TypeOK, Content
<1>2. Times'
  BY <1>1 DEF Times
<1>3. Present' /\ OwnIsOf' /\ OwnUsable'
  BY <1>1 DEF Present, OwnIsOf, OwnUsable, IsOf, Usable, HasCode
<1>4. EntryIsOf'
  BY <1>1 DEF EntryIsOf, OwnIsOf, IsOf, HasCode
<1>5. EntryUsable'
  BY <1>1 DEF EntryUsable, OwnUsable, Usable, HasCode
<1> QED BY <1>2, <1>3, <1>4, <1>5

LEMMA StepFresh == TypeOK /\ Fresh /\ [Next]_vars => Fresh'
<1> SUFFICES ASSUME TypeOK, Fresh, [Next]_vars PROVE Fresh'
  OBVIOUS
<1>1. CASE Edit
  BY <1>1, EditFresh
<1>2. CASE Tick \/ UNCHANGED vars
  <2>1. UNCHANGED <<text, mtime, mixed, bytecode, st, code, held, pc>>
    BY <1>2 DEF Tick, vars, engine
  <2> QED BY <2>1 DEF Fresh, Times, Present, OwnIsOf, OwnUsable, EntryIsOf, EntryUsable, IsOf, Usable, HasCode, Content
<1>3. ASSUME NEW e \in Engine, Stat(e) PROVE Fresh'
  BY <1>3, StatFresh
<1>4. ASSUME NEW e \in Engine, Hit(e) PROVE Fresh'
  BY <1>4, HitFresh
<1>5. ASSUME NEW e \in Engine, Read(e) PROVE Fresh'
  BY <1>5, ReadFresh
<1>6. ASSUME NEW e \in Engine, Publish(e) PROVE Fresh'
  BY <1>6, PublishFresh
<1>7. ASSUME NEW e \in Engine,
             NoStat(e) \/ Miss(e) \/ Compile(e) \/ NoCompile(e) \/ Execute(e) \/ NoExecute(e) \/ Bind(e) \/ Call(e)
      PROVE  Fresh'
  <2>1. /\ UNCHANGED <<text, mtime, mixed, bytecode, st, held>>
        /\ \A o \in Engine : o # e => pc'[o] = pc[o] /\ code'[o] = code[o]
    BY <1>7 DEF NoStat, Miss, Compile, NoCompile, Execute, NoExecute, Bind, Call, Fire, file, engine, TypeOK
  <2>2. (pc'[e] # "idle" => pc[e] # "idle") /\ (HasCode(e)' => code'[e] = <<>> \/ (HasCode(e) /\ code'[e] = code[e]))
    BY <1>7 DEF NoStat, Miss, Compile, NoCompile, Execute, NoExecute, Bind, Call, Fire, engine, HasCode, TypeOK, PCs
  <2> QED BY <2>1, <2>2, QuietFresh DEF Quiet
<1> QED
  BY <1>1, <1>2, <1>3, <1>4, <1>5, <1>6, <1>7 DEF Next

\* A script that is run is made of what the file contained since the stat of its load, in each read of the page
\* (load_file), whoever has compiled it and in whatever order the entry was written: so it is the script of the page
\* if the file was not edited since, and at worst a mixture of contents that it had in that time.  Unless two
\* contents share the time.
THEOREM Freshness == Spec => []FreshCode
<1>1. Fresh => FreshCode
  BY DEF Fresh, FreshCode, OwnUsable, HasCode, Usable, Runs
<1> QED BY <1>1, InitType, StepType, InitFresh, StepFresh, PTL DEF Spec

----------------------------------------------------------------------------
(* ByteCodeCache: Reported *)

\* All readings of a file that nobody edits meanwhile are the same.
LEMMA OneReading ==
  ASSUME NEW m \in Seq(Page), NEW n \in Seq(Page), Reading(m), Reading(n), NEW p \in Page,
         \A k \in DOMAIN m : m[k] = p, \A k \in DOMAIN n : n[k] = p
  PROVE  m = n
<1>1. ASSUME NEW q \in Seq(Page), Reading(q), \A k \in DOMAIN q : q[k] = p
      PROVE  Len(q) = Len(Html[p]) + 1
  <2>1. /\ Len(q) \in Nat /\ DOMAIN q = 1..Len(q) /\ Len(Html[p]) \in Nat
        /\ q # <<>> /\ (\A k \in 1..Len(q) - 1 : k <= Len(Html[q[k]])) /\ Len(Html[q[Len(q)]]) < Len(q)
    BY <1>1, LenProperties, PageLines DEF Reading
  <2>2. Len(q) \in 1..Len(q)
    BY <2>1, EmptySeq
  <2>3. \A k \in 1..Len(q) : q[k] = p
    BY <1>1, <2>1
  <2>4. Len(Html[p]) < Len(q)
    BY <2>1, <2>2, <2>3
  <2>5. Len(q) - 1 <= Len(Html[p])
    <3>1. CASE Len(q) = 1
      BY <2>1, <3>1
    <3>2. CASE Len(q) # 1
      <4>1. Len(q) - 1 \in 1..Len(q) - 1 /\ Len(q) - 1 \in 1..Len(q)
        BY <2>1, <2>2, <3>2
      <4> QED BY <2>1, <2>3, <4>1
    <3> QED BY <3>1, <3>2
  <2>6. \A x, y \in Nat : y < x /\ x - 1 <= y => x = y + 1
    OBVIOUS
  <2> QED BY <2>1, <2>4, <2>5, <2>6
<1>2. Len(m) = Len(n)
  BY <1>1
<1>3. \A k \in 1..Len(m) : m[k] = n[k]
  BY <1>2, LenProperties
<1> QED BY <1>2, <1>3, SeqEqual

\* Who points at the entry, or is about to, has the code of the entry, unless it was replaced.
Pointing(e) == private[e] = "entry" \/ pc[e] = "bind"
Same == \A e \in Engine, c \in bytecode : Pointing(e) /\ e \notin replaced => c.code = code[e]

\* Another load of the same file has the same code.
LEMMA SameCode ==
  ASSUME TypeOK, Fresh, NEW e \in Engine, NEW o \in Engine, pc[e] = "publish", Pointing(o), SameFile(o, e)
  PROVE  code[o] = code[e]
<1>1. PICK p \in Page : held[o] = {p}
  BY DEF SameFile
<1>2. pc[o] \in {"execute", "publish", "bind", "call"} /\ st[o] = st[e] /\ st[e] \notin mixed
  BY DEF TypeOK, PCs, Pointing, SameFile
<1>3. HasCode(o) /\ HasCode(e) /\ pc[o] # "idle" /\ Reading(code[o]) /\ Reading(code[e])
  BY <1>2 DEF TypeOK, HasCode, Runs
<1>4. Usable(code[o], st[o], o) /\ Usable(code[e], st[e], o)
  BY <1>3 DEF Fresh, OwnUsable
<1>5. (\A k \in DOMAIN code[o] : code[o][k] = p) /\ (\A k \in DOMAIN code[e] : code[e][k] = p)
  BY <1>1, <1>2, <1>3, <1>4 DEF Usable
<1>6. code[o] \in Seq(Page) /\ code[e] \in Seq(Page)
  BY DEF TypeOK
<1> QED BY <1>3, <1>5, <1>6, OneReading

LEMMA StepSame == TypeOK /\ Fresh /\ Same /\ [Next]_vars => Same'
<1> SUFFICES ASSUME TypeOK, Fresh, Same, [Next]_vars PROVE Same'
  OBVIOUS
<1> USE DEF Same, Pointing, TypeOK, PCs, file, engine
<1>1. CASE Edit \/ Tick \/ UNCHANGED vars
  BY <1>1 DEF Edit, Tick, vars
<1>2. ASSUME NEW e \in Engine, Stat(e) \/ NoStat(e) \/ Miss(e) PROVE Same'
  BY <1>2 DEF Stat, NoStat, Miss
<1>3. ASSUME NEW e \in Engine, Hit(e) PROVE Same'
  BY <1>3 DEF Hit, Valid
<1>4. ASSUME NEW e \in Engine, Read(e) PROVE Same'
  BY <1>4 DEF Read
<1>5. ASSUME NEW e \in Engine, Compile(e) \/ Execute(e) PROVE Same'
  BY <1>5 DEF Compile, Execute
<1>6. ASSUME NEW e \in Engine, NoCompile(e) \/ NoExecute(e) \/ Call(e) PROVE Same'
  BY <1>6 DEF NoCompile, NoExecute, Call, Fire
<1>7. ASSUME NEW e \in Engine, Publish(e) PROVE Same'
  <2>1. /\ pc[e] = "publish" /\ \A c \in bytecode' : c.code = code[e]
        /\ code' = code /\ private' = private
        /\ \A o \in Engine : o # e => pc'[o] = pc[o]
        /\ replaced' = (replaced \cup {o \in Engine : Pointing(o) /\ ~SameFile(o, e)}) \ {e}
    BY <1>7 DEF Publish, EntryOf
  <2>2. \A o \in Engine : Pointing(o) /\ SameFile(o, e) => code[o] = code[e]
    BY <2>1, SameCode
  <2>3. \A o \in Engine : o # e /\ Pointing(o)' /\ o \notin replaced' => code[o] = code[e]
    BY ONLY <2>1, <2>2 DEF Pointing
  <2> QED BY ONLY <2>1, <2>3 DEF Same
<1>8. ASSUME NEW e \in Engine, Bind(e) PROVE Same'
  BY <1>8 DEF Bind
<1> QED
  BY <1>1, <1>2, <1>3, <1>4, <1>5, <1>6, <1>7, <1>8 DEF Next

\* The characters of the rows of a page are those of the page, and there are as many lines in its table as rows.
LEMMA PageOfType == ASSUME NEW b \in Blocks PROVE PageOf(b) \in Seq(Letters)
<1>1. PICK n \in UNION {0..Len(Html[p]) : p \in Page} : b \in [1..n -> Page]
  BY DEF Blocks
<1>2. n \in Nat /\ DOMAIN b = 1..n /\ \A k \in DOMAIN b : k <= Len(Html[b[k]])
  BY <1>1, PageLines DEF Blocks
<1>3. ASSUME NEW k \in 1..n PROVE Html[b[k]][k] \in Letters
  <2>1. b[k] \in Page /\ Html[b[k]] \in Seq(Seq(Char)) /\ k <= Len(Html[b[k]])
    BY <1>1, <1>2, HtmlAssumption
  <2>2. Len(Html[b[k]]) \in Nat
    BY <2>1, PageLines
  <2>3. k \in 1..Len(Html[b[k]])
    BY <1>2, <2>1, <2>2
  <2> QED BY <2>1, <2>3, ElementOfSeq DEF Letters
<1>4. PageOf(b) = [k \in 1..n |-> Html[b[k]][k]]
  BY <1>2 DEF PageOf
<1> QED BY <1>2, <1>3, <1>4, IsASeq

LEMMA TableRight ==
  ASSUME NEW b \in Blocks, NEW i \in DOMAIN Script[b].out
  PROVE  LineTold(LinesOf[b], i) = Script[b].out[i].no
<1> DEFINE out == Script[b].out
           t == LinesOf[b]
<1>1. Script[b] \in States
  <2>1. Script[b] = CodeConvert(PageOf(b)) /\ PageOf(b) \in Seq(Letters)
    BY PageOfType DEF Script
  <2>2. \A no \in 0..Len(PageOf(b)) : Converting(PageOf(b))[no] \in States
    BY <2>1, ConvertingIs
  <2> QED BY <2>1, <2>2, LenProperties DEF CodeConvert
<1>2. out \in Seq(Rows)
  BY <1>1 DEF States
<1>3. t = [k \in DOMAIN out |-> out[k].no]
  BY DEF LinesOf, rlines, Lines
<1>4. DOMAIN out = 1..Len(out) /\ Len(out) \in Nat
  BY <1>2, LenProperties
<1> HIDE DEF out, t
<1>5. Len(t) = Len(out)
  BY <1>3, <1>4
<1>6. i \in 1..Len(t) /\ t[i] = out[i].no
  BY <1>3, <1>4, <1>5 DEF out
<1> QED BY <1>6 DEF LineTold, t, out

\* While a script runs, its engine points at a table that there is, in which the error reporter finds the line of
\* each row without a carriage return above (script_js_error_report); and no other load of the same file changes
\* that, however the engines overtake each other in load_file.
THEOREM Reporting == Spec => []Reported
<1>1. Init => Same
  BY DEF Init, Same
<1>2. TypeOK /\ Same => Reported
  <2> SUFFICES ASSUME TypeOK, Same, NEW e \in Engine, Runs(e), e \notin replaced
               PROVE  \E t \in Tables(e) : \A i \in DOMAIN Script[Front(code[e])].out :
                        LineTold(t, i) = Script[Front(code[e])].out[i].no
    BY DEF Reported
  <2> DEFINE b == Front(code[e])
  <2>1. code[e] \in Seq(Page) /\ Reading(code[e])
    BY DEF TypeOK
  <2>2. b \in Blocks
    BY <2>1, ReadBlocks
  <2>3. LinesOf[b] \in Tables(e)
    <3>1. CASE private[e] = "entry"
      <4>1. PICK c \in bytecode : TRUE
        BY <3>1 DEF TypeOK
      <4>2. c.code = code[e]
        BY <3>1 DEF Same, Pointing
      <4>3. c.rlines = LinesOf[b]
        BY <4>2 DEF TypeOK
      <4> QED BY <3>1, <4>3 DEF Tables
    <3>2. CASE private[e] # "entry"
      <4>1. private[e] = "own" /\ pc[e] # "call"
        BY <3>2 DEF TypeOK, Runs
      <4> QED BY <4>1 DEF Tables
    <3> QED BY <3>1, <3>2
  <2> HIDE DEF b
  <2>4. \A i \in DOMAIN Script[b].out : LineTold(LinesOf[b], i) = Script[b].out[i].no
    BY <2>2, TableRight
  <2> QED BY <2>3, <2>4 DEF b
<1> QED BY <1>1, <1>2, InitType, StepType, InitFresh, StepFresh, StepSame, PTL DEF Spec

----------------------------------------------------------------------------
(* ByteCodeCache: Converted *)

\* Whatever page an engine runs (load_file) has been translated faithfully by code_convert, out of all pages
\* that a file can contain.
THEOREM Conversion == Spec => []Converted
<1>1. ASSUME NEW b \in Blocks PROVE Translated[b]
  <2>1. Faithful(PageOf(b), CodeConvert(PageOf(b)))
    BY PageOfType, EveryPage
  <2> QED BY <2>1 DEF Translated, Script
<1>2. TypeOK => Converted
  <2> SUFFICES ASSUME TypeOK, NEW e \in Engine, Runs(e) PROVE Translated[Front(code[e])]
    BY DEF Converted
  <2>1. code[e] \in Seq(Page) /\ Reading(code[e])
    BY DEF TypeOK
  <2> QED BY <1>1, <2>1, ReadBlocks
<1> QED BY <1>2, InitType, StepType, PTL DEF Spec

----------------------------------------------------------------------------
(* Tasks: TypeOK *)

LEMMA InitTasksType == TasksInit => TasksTypeOK
BY ScriptAssumption DEF TasksInit, TasksTypeOK

LEMMA StepTasksType == TasksTypeOK /\ [TasksNext]_taskVars => TasksTypeOK'
<1> SUFFICES ASSUME TasksTypeOK, [TasksNext]_taskVars PROVE TasksTypeOK'
  OBVIOUS
<1> USE ScriptAssumption DEF TasksTypeOK, process, scriptFile, task
<1>1. CASE Fork \/ Wait
  BY <1>1 DEF Fork, Wait
<1>2. CASE NoExit \/ Stay
  BY <1>2 DEF NoExit, Stay
<1>3. CASE Exit \/ Crash
  <2>1. /\ UNCHANGED <<parent, script, stamp, clock, twice>> /\ server' = "down"
        /\ \A t \in Task : at'[t] = "none" /\ eng'[t] = NoScript
    BY <1>3 DEF Exit, Crash, Down
  <2>2. /\ at' \in [Task -> {"none", "stat0", "load", "stat1", "reload", "call", "sleep", "end"}]
        /\ st0' \in [Task -> Nat] /\ eng' \in [Task -> Version \cup {NoScript}]
        /\ since' \in [Task -> SUBSET (Version \cup {NoScript})]
    BY <1>3 DEF Exit, Crash, Down
  <2> QED BY <2>1, <2>2
<1>4. CASE EditScript
  <2>1. script' \in Version \cup {NoScript} /\ changes' = changes + 1
    BY <1>4 DEF EditScript
  <2>2. stamp' \in Nat /\ stamp' <= clock' /\ twice' \subseteq Nat
    <3>1. CASE script' = NoScript
      BY <1>4, <3>1 DEF EditScript
    <3>2. CASE script' # NoScript
      <4>1. stamp' = clock /\ clock' = clock /\ twice' = IF stamp = clock THEN twice \cup {clock} ELSE twice
        BY <1>4, <3>2 DEF EditScript
      <4> QED BY <4>1
    <3> QED BY <3>1, <3>2
  <2>3. since' \in [Task -> SUBSET (Version \cup {NoScript})]
    BY <1>4, <2>1 DEF EditScript
  <2> QED BY <1>4, <2>1, <2>2, <2>3 DEF EditScript
<1>5. CASE TickClock
  BY <1>5, ClockAssumption DEF TickClock
<1>6. ASSUME NEW t \in Task, Start(t) PROVE TasksTypeOK'
  BY <1>6 DEF Start
<1>7. ASSUME NEW t \in Task, Stat0(t) PROVE TasksTypeOK'
  BY <1>7 DEF Stat0, Step
<1>8. ASSUME NEW t \in Task, Load(t) PROVE TasksTypeOK'
  BY <1>8 DEF Load, Step
<1>9. ASSUME NEW t \in Task, Stat1(t) PROVE TasksTypeOK'
  BY <1>9 DEF Stat1, Step
<1>10. ASSUME NEW t \in Task, Reload(t) PROVE TasksTypeOK'
  BY <1>10 DEF Reload, Step
<1>11. ASSUME NEW t \in Task, Ontimer(t) \/ Onthread(t) \/ Sleep(t) PROVE TasksTypeOK'
  BY <1>11 DEF Ontimer, Onthread, Sleep, Step
<1>12. ASSUME NEW t \in Task, End(t) PROVE TasksTypeOK'
  BY <1>12 DEF End
<1>13. CASE UNCHANGED taskVars
  BY <1>13 DEF taskVars
<1> QED
  BY <1>1, <1>2, <1>3, <1>4, <1>5, <1>6, <1>7, <1>8, <1>9, <1>10, <1>11, <1>12, <1>13 DEF TasksNext, TaskStep

\* The variables keep the values that the code gives them; nothing is left of a task when the process ends.
THEOREM TasksTypeCorrect == TasksSpec => []TasksTypeOK
BY InitTasksType, StepTasksType, PTL DEF TasksSpec

----------------------------------------------------------------------------
(* Tasks: FreshTask *)

\* What a task has loaded: the file, or nothing if the file cannot be loaded, as long as the file has the
\* time that the task has seen and no two contents share it.
Synced(t) ==
  st0[t] = stamp /\ stamp \notin twice =>
    eng[t] = script \/ script = NoScript \/ (eng[t] = NoScript /\ script \notin Good)

\* Loaded anew whenever the time has changed.
Seen(t) == at[t] \in {"load", "stat1", "reload", "call", "sleep"}
StampsPast == \A t \in Task : st0[t] <= stamp
SeenSince == \A t \in Task : Seen(t) => script \in since[t]
Sync == \A t \in Task : at[t] \in {"stat1", "call", "sleep"} => Synced(t)
TasksSynced == StampsPast /\ SeenSince /\ Sync /\ FreshTask

LEMMA InitTasks == TasksInit => TasksSynced
BY DEF TasksInit, TasksSynced, StampsPast, SeenSince, Sync, FreshTask, Seen

\* An edit gives the file a new time, or makes the old one one that contents share.
LEMMA EditTasks == TasksTypeOK /\ TasksSynced /\ EditScript => TasksSynced'
<1> SUFFICES ASSUME TasksTypeOK, TasksSynced, EditScript PROVE TasksSynced'
  OBVIOUS
<1> USE DEF TasksSynced
<1>1. /\ at' = at /\ st0' = st0 /\ eng' = eng
      /\ since' = [t \in Task |-> IF at[t] \in {"none", "stat0", "end"} THEN {} ELSE since[t] \cup {script'}]
      /\ at \in [Task -> {"none", "stat0", "load", "stat1", "reload", "call", "sleep", "end"}]
      /\ st0 \in [Task -> Nat] /\ stamp \in Nat /\ clock \in Nat /\ stamp <= clock
  BY DEF EditScript, task, TasksTypeOK
<1>2. \/ script' = NoScript /\ stamp' = stamp /\ twice' = twice
      \/ stamp' = clock /\ twice' = IF stamp = clock THEN twice \cup {clock} ELSE twice
  BY DEF EditScript
<1>3. StampsPast'
  BY <1>1, <1>2 DEF StampsPast
<1>4. SeenSince'
  BY <1>1 DEF SeenSince, Seen
<1>5. Sync'
  <2> SUFFICES ASSUME NEW t \in Task, at'[t] \in {"stat1", "call", "sleep"} PROVE Synced(t)'
    BY DEF Sync
  <2> QED BY <1>1, <1>2 DEF StampsPast, Synced
<1>6. FreshTask'
  <2>1. \A t \in Task : at[t] = "call" => since[t] \subseteq since'[t]
    BY <1>1
  <2>2. twice \subseteq twice'
    BY <1>2
  <2> QED BY <1>1, <2>1, <2>2 DEF FreshTask
<1> QED BY <1>3, <1>4, <1>5, <1>6

LEMMA StepTasks == TasksTypeOK /\ TasksSynced /\ [TasksNext]_taskVars => TasksSynced'
<1> SUFFICES ASSUME TasksTypeOK, TasksSynced, [TasksNext]_taskVars PROVE TasksSynced'
  OBVIOUS
<1> USE DEF TasksSynced, StampsPast, SeenSince, Seen, Sync, Synced, FreshTask
<1>1. CASE Fork \/ Wait \/ NoExit \/ Stay \/ TickClock \/ UNCHANGED taskVars
  <2>1. UNCHANGED <<script, stamp, twice, at, st0, eng, since>>
    BY <1>1 DEF Fork, Wait, NoExit, Stay, TickClock, taskVars, scriptFile, task
  <2> QED BY <2>1
<1>2. CASE Exit \/ Crash
  BY <1>2 DEF Exit, Crash, Down, scriptFile, TasksTypeOK
<1>3. CASE EditScript
  BY <1>3, EditTasks
<1>4. ASSUME NEW t \in Task, Start(t) PROVE TasksSynced'
  BY <1>4 DEF Start, scriptFile, TasksTypeOK
<1>5. ASSUME NEW t \in Task, Stat0(t) PROVE TasksSynced'
  BY <1>5 DEF Stat0, Step, scriptFile, TasksTypeOK
<1>6. ASSUME NEW t \in Task, Load(t) PROVE TasksSynced'
  BY <1>6 DEF Load, Step, scriptFile, TasksTypeOK
<1>7. ASSUME NEW t \in Task, Stat1(t) PROVE TasksSynced'
  <2>1. /\ UNCHANGED <<script, stamp, twice, eng>> /\ script # NoScript
        /\ at[t] = "stat1" /\ at'[t] = (IF stamp # st0[t] THEN "reload" ELSE "call")
        /\ st0'[t] = stamp /\ since'[t] = {script}
        /\ \A o \in Task : o # t => at'[o] = at[o] /\ st0'[o] = st0[o] /\ since'[o] = since[o]
    BY <1>7 DEF Stat1, Step, scriptFile, TasksTypeOK
  <2>2. StampsPast'
    BY <2>1, <1>7 DEF TasksTypeOK
  <2>3. SeenSince' /\ Sync'
    BY <2>1
  <2>4. FreshTask'
    BY <2>1
  <2> QED BY <2>2, <2>3, <2>4
<1>8. ASSUME NEW t \in Task, Reload(t) PROVE TasksSynced'
  <2>1. /\ UNCHANGED <<script, stamp, twice, st0, since>>
        /\ at[t] = "reload" /\ at'[t] = "call" /\ eng'[t] = (IF script \in Good THEN script ELSE NoScript)
        /\ \A o \in Task : o # t => at'[o] = at[o] /\ eng'[o] = eng[o]
    BY <1>8 DEF Reload, Step, scriptFile, TasksTypeOK
  <2> QED BY <2>1
<1>9. ASSUME NEW t \in Task, Ontimer(t) \/ Onthread(t) \/ Sleep(t) PROVE TasksSynced'
  BY <1>9 DEF Ontimer, Onthread, Sleep, Step, scriptFile, TasksTypeOK
<1>10. ASSUME NEW t \in Task, End(t) PROVE TasksSynced'
  BY <1>10 DEF End, scriptFile, TasksTypeOK
<1> QED
  BY <1>1, <1>2, <1>3, <1>4, <1>5, <1>6, <1>7, <1>8, <1>9, <1>10 DEF TasksNext, TaskStep

\* What a task calls is what the file contained since it looked last (thread_task), or nothing if the file
\* could not be loaded: unless two contents share the time of modification.
THEOREM TasksFresh == TasksSpec => []FreshTask
<1>1. TasksSynced => FreshTask
  BY DEF TasksSynced
<1> QED BY <1>1, InitTasksType, StepTasksType, InitTasks, StepTasks, PTL DEF TasksSpec
=============================================================================
