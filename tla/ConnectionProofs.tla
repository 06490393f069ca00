---------------------------- MODULE ConnectionProofs ----------------------------
(***************************************************************************)
(* Theorems about one HTTP/1.x connection and the cache in which it        *)
(* collects a request: first HttpConnection, for every list of requests,   *)
(* every cut of their bytes, every status and every bound; then FCache,    *)
(* for every buffer size, chunk size and set of descriptors.               *)
(***************************************************************************)
EXTENDS HttpConnection, FCache, SequenceTheorems, WellFoundedInduction, TLAPS

----------------------------------------------------------------------------
(* The bytes of the requests *)

Token == [req : Nat, part : {"line", "eol", "blank", "body"}]

\* The assumption on the constants, with the types that follow from it.
Codes == {0, 200} \cup Pages \cup Plain
Conns == {"none", "keep-alive", "close"}
LEMMA Request ==
  ASSUME NEW r \in ReqSet
  PROVE  r.head \in BOOLEAN /\ r.ok \in BOOLEAN /\ r.len \in Nat /\ r.conn \in Conns
BY HttpAssumption DEF Conns

\* A set of naturals that is not empty has a least element.
LEMMA LeastNat ==
  ASSUME NEW T \in SUBSET Nat, T # {}
  PROVE  \E x \in T : \A y \in T : x <= y
<1>1. PICK x \in T : \A y \in T : ~(<<y, x>> \in OpToRel(<, Nat))
  BY NatLessThanWellFounded, WFMin
<1>2. \A y \in T : ~(y < x)
  BY <1>1 DEF OpToRel
<1> QED BY <1>2

\* What holds of 0 and is passed on holds up to n.
LEMMA Counting ==
  ASSUME NEW n \in Nat, NEW S, 0 \in S, \A m \in 0..(n - 1) : m \in S => m + 1 \in S
  PROVE  0..n \subseteq S
<1> SUFFICES ASSUME (0..n) \ S # {} PROVE FALSE
  OBVIOUS
<1>1. PICK x \in (0..n) \ S : \A y \in (0..n) \ S : x <= y
  <2>1. (0..n) \ S \in SUBSET Nat
    OBVIOUS
  <2> QED BY <2>1, LeastNat
<1>2. x # 0 /\ x - 1 \in 0..(n - 1) /\ x - 1 \notin (0..n) \ S
  BY <1>1
<1>3. (x - 1) + 1 \in S
  BY <1>2
<1> QED BY <1>1, <1>3

\* The recursion over the requests ends.
LEMMA StreamUnfolds ==
  ASSUME reqs \in Seq(ReqSet)
  PROVE  \A k \in 1..(Len(reqs) + 1) :
           StreamFrom[k] = IF k > Len(reqs) THEN <<>> ELSE Tokens(k) \o StreamFrom[k + 1]
<1> DEFINE n == Len(reqs)
           Is(g, m) == g = [k \in (n + 1 - m)..(n + 1) |-> IF k > n THEN <<>> ELSE Tokens(k) \o g[k + 1]]
           S == {m \in 0..n : \E g : Is(g, m)}
<1>0. n \in Nat
  OBVIOUS
<1> HIDE DEF n
<1>1. 0 \in S
  <2> DEFINE g == [k \in (n + 1 - 0)..(n + 1) |-> <<>>]
  <2>1. \A k \in (n + 1 - 0)..(n + 1) : <<>> = IF k > n THEN <<>> ELSE Tokens(k) \o g[k + 1]
    BY <1>0
  <2>2. Is(g, 0)
    BY <2>1
  <2> HIDE DEF g, Is
  <2>3. 0 \in 0..n
    BY <1>0
  <2> QED BY <2>2, <2>3
<1>2. ASSUME NEW m \in 0..(n - 1), m \in S PROVE m + 1 \in S
  <2>1. PICK g : Is(g, m)
    BY <1>2
  <2> DEFINE h == [k \in (n + 1 - (m + 1))..(n + 1) |->
                     IF k = n - m THEN Tokens(k) \o g[k + 1] ELSE g[k]]
  <2>2. ASSUME NEW k \in (n + 1 - (m + 1))..(n + 1)
        PROVE  h[k] = IF k > n THEN <<>> ELSE Tokens(k) \o h[k + 1]
    <3>1. CASE k = n - m
      <4>1. k <= n /\ k + 1 \in (n + 1 - (m + 1))..(n + 1) /\ k + 1 # n - m
        BY <1>0, <3>1
      <4>2. h[k + 1] = g[k + 1] /\ h[k] = Tokens(k) \o g[k + 1]
        BY <3>1, <4>1
      <4>3. ~(k > n)
        BY <1>0, <4>1
      <4> HIDE DEF h
      <4> QED BY <4>2, <4>3
    <3>2. CASE k # n - m
      <4>1. k \in (n + 1 - m)..(n + 1)
        BY <1>0, <3>2
      <4>2. h[k] = g[k] /\ g[k] = IF k > n THEN <<>> ELSE Tokens(k) \o g[k + 1]
        BY <2>1, <3>2, <4>1
      <4>3. CASE k <= n
        <5>1. k + 1 \in (n + 1 - m)..(n + 1) /\ k + 1 # n - m /\ k + 1 \in (n + 1 - (m + 1))..(n + 1)
          BY <1>0, <4>1, <4>3
        <5>2. h[k + 1] = g[k + 1]
          BY <5>1
        <5> QED BY <1>0, <4>2, <4>3, <5>2
      <4> QED BY <1>0, <4>2, <4>3
    <3> QED BY <3>1, <3>2
  <2>3. Is(h, m + 1)
    <3> HIDE DEF h
    <3>1. h = [k \in (n + 1 - (m + 1))..(n + 1) |-> h[k]]
      BY DEF h
    <3> QED BY <2>2, <3>1
  <2>4. m + 1 \in 0..n
    BY <1>0
  <2> HIDE DEF h, Is
  <2> QED BY <2>3, <2>4
<1>3. n \in S
  <2> HIDE DEF S
  <2>1. 0..n \subseteq S
    BY <1>0, <1>1, <1>2, Counting
  <2> QED BY <1>0, <2>1
<1>4. \E g : g = [k \in 1..(n + 1) |-> IF k > n THEN <<>> ELSE Tokens(k) \o g[k + 1]]
  <2>1. n + 1 - n = 1
    BY <1>0
  <2> QED BY <1>3, <2>1
<1>5. StreamFrom = CHOOSE g : g = [k \in 1..(n + 1) |-> IF k > n THEN <<>> ELSE Tokens(k) \o g[k + 1]]
  BY DEF StreamFrom, n
<1>6. StreamFrom = [k \in 1..(n + 1) |-> IF k > n THEN <<>> ELSE Tokens(k) \o StreamFrom[k + 1]]
  BY <1>4, <1>5
<1> QED BY <1>6 DEF n

\* Tokens come in the order of their requests, which have one empty line each, and that of a request that
\* has been called is gone.
Sorted(s, c) ==
  /\ \A i \in 1..Len(s) : s[i].req \in 1..Len(reqs) /\ (s[i].part = "blank" => s[i].req > c)
  /\ \A i, j \in 1..Len(s) : i < j => /\ s[i].req <= s[j].req
                                      /\ s[i].part = "blank" /\ s[j].part = "blank" => s[i].req < s[j].req

\* The bytes of one request.
LEMMA TokensOf ==
  ASSUME reqs \in Seq(ReqSet), NEW k \in 1..Len(reqs)
  PROVE  /\ Tokens(k) \in Seq(Token) /\ Len(Tokens(k)) = 3 + reqs[k].len /\ reqs[k].len \in Nat
         /\ Tokens(k)[1] = Part(k, "line") /\ Tokens(k)[2] = Part(k, "eol") /\ Tokens(k)[3] = Part(k, "blank")
         /\ \A i \in 4..(3 + reqs[k].len) : Tokens(k)[i] = Part(k, "body")
<1> DEFINE l == reqs[k].len
           head == <<Part(k, "line"), Part(k, "eol"), Part(k, "blank")>>
           rest == [i \in 1..l |-> Part(k, "body")]
<1>1. l \in Nat
  <2>1. reqs[k] \in ReqSet
    OBVIOUS
  <2> QED BY <2>1, Request
<1>2. head \in Seq(Token) /\ Len(head) = 3 /\ head[1] = Part(k, "line") /\ head[2] = Part(k, "eol") /\ head[3] = Part(k, "blank")
  <2>1. Part(k, "line") \in Token /\ Part(k, "eol") \in Token /\ Part(k, "blank") \in Token
    BY DEF Part, Token
  <2> QED BY <2>1
<1>3. rest \in Seq(Token) /\ Len(rest) = l /\ \A i \in 1..l : rest[i] = Part(k, "body")
  <2>1. Part(k, "body") \in Token
    BY DEF Part, Token
  <2> HIDE DEF l
  <2> QED BY <1>1, <2>1
<1>4. Tokens(k) = head \o rest
  BY DEF Tokens
<1> HIDE DEF head, rest, l
<1>5. /\ Tokens(k) \in Seq(Token) /\ Len(Tokens(k)) = 3 + l
      /\ \A i \in 1..(3 + l) : Tokens(k)[i] = IF i <= 3 THEN head[i] ELSE rest[i - 3]
  <2>1. /\ head \o rest \in Seq(Token) /\ Len(head \o rest) = Len(head) + Len(rest)
        /\ \A i \in 1..(Len(head) + Len(rest)) :
             (head \o rest)[i] = IF i <= Len(head) THEN head[i] ELSE rest[i - Len(head)]
    BY <1>2, <1>3, ConcatProperties
  <2> QED BY <1>2, <1>3, <1>4, <2>1
<1>6. \A i \in 4..(3 + l) : i \in 1..(3 + l) /\ ~(i <= 3) /\ i - 3 \in 1..l
  BY <1>1
<1>7. \A i \in 4..(3 + l) : Tokens(k)[i] = Part(k, "body")
  BY <1>3, <1>5, <1>6
<1>8. 1 \in 1..(3 + l) /\ 2 \in 1..(3 + l) /\ 3 \in 1..(3 + l)
  BY <1>1
<1>9. Tokens(k)[1] = head[1] /\ Tokens(k)[2] = head[2] /\ Tokens(k)[3] = head[3]
  BY <1>5, <1>8
<1> QED BY <1>1, <1>2, <1>5, <1>7, <1>9 DEF l

\* The stream from a request on has only tokens of it and of later ones, in order.
LEMMA StreamSorted ==
  ASSUME reqs \in Seq(ReqSet)
  PROVE  \A k \in 1..(Len(reqs) + 1) : /\ StreamFrom[k] \in Seq(Token) /\ Sorted(StreamFrom[k], k - 1)
                                       /\ \A i \in 1..Len(StreamFrom[k]) : StreamFrom[k][i].req >= k
<1> DEFINE n == Len(reqs)
           Good(k) == /\ StreamFrom[k] \in Seq(Token) /\ Sorted(StreamFrom[k], k - 1)
                      /\ \A i \in 1..Len(StreamFrom[k]) : StreamFrom[k][i].req >= k
           S == {m \in 0..n : Good(n + 1 - m)}
<1>0. n \in Nat
  OBVIOUS
<1>1. 0 \in S
  <2>1. n + 1 - 0 \in 1..(n + 1) /\ n + 1 - 0 > n
    BY <1>0
  <2>2. StreamFrom[n + 1 - 0] = <<>>
    BY <2>1, StreamUnfolds
  <2>3. Good(n + 1 - 0)
    BY <2>2 DEF Sorted
  <2>4. 0 \in 0..n
    BY <1>0
  <2> HIDE DEF Good, n
  <2> QED BY <2>3, <2>4
<1>2. ASSUME NEW m \in 0..(n - 1), m \in S PROVE m + 1 \in S
  <2> DEFINE k == n + 1 - (m + 1)
             s == StreamFrom[k]
             t == StreamFrom[k + 1]
             l == 3 + reqs[k].len
  <2>1. k \in 1..n /\ k \in 1..(n + 1) /\ ~(k > n) /\ k + 1 = n + 1 - m /\ k \in Nat /\ k + 1 - 1 = k
    BY <1>0
  <2>2. Good(k + 1)
    BY <1>2, <2>1
  <2>3. s = Tokens(k) \o t
    BY <2>1, StreamUnfolds
  <2>4. /\ Tokens(k) \in Seq(Token) /\ Len(Tokens(k)) = l /\ l \in Nat
        /\ \A i \in 1..l : Tokens(k)[i].req = k /\ (Tokens(k)[i].part = "blank" <=> i = 3)
    <3>1. reqs[k].len \in Nat /\ Tokens(k) \in Seq(Token) /\ Len(Tokens(k)) = l
      BY <2>1, TokensOf
    <3>2. \A i \in 1..l : Tokens(k)[i] \in {Part(k, "line"), Part(k, "eol"), Part(k, "blank"), Part(k, "body")}
                           /\ (Tokens(k)[i] = Part(k, "blank") <=> i = 3)
      <4> TAKE i \in 1..l
      <4>1. i = 1 \/ i = 2 \/ i = 3 \/ i \in 4..l
        BY <3>1
      <4>2. i \in 4..l => Tokens(k)[i] = Part(k, "body") /\ i # 3
        BY <2>1, TokensOf
      <4>3. (i = 1 => Tokens(k)[i] = Part(k, "line")) /\ (i = 2 => Tokens(k)[i] = Part(k, "eol")) /\ (i = 3 => Tokens(k)[i] = Part(k, "blank"))
        BY <2>1, TokensOf
      <4>4. Part(k, "blank") \notin {Part(k, "line"), Part(k, "eol"), Part(k, "body")}
        BY DEF Part
      <4> QED BY <4>1, <4>2, <4>3, <4>4
    <3>3. \A p \in {"line", "eol", "blank", "body"} : Part(k, p).req = k /\ Part(k, p).part = p
      BY DEF Part
    <3>4. \A i \in 1..l : Tokens(k)[i].req = k /\ (Tokens(k)[i].part = "blank" <=> i = 3)
      <4> TAKE i \in 1..l
      <4>1. PICK p \in {"line", "eol", "blank", "body"} : Tokens(k)[i] = Part(k, p)
        BY <3>2
      <4>2. p = "blank" <=> Tokens(k)[i] = Part(k, "blank")
        BY <3>3, <4>1
      <4> QED BY <3>2, <3>3, <4>1, <4>2
    <3>5. l \in Nat
      BY <3>1
    <3> QED BY <3>1, <3>4, <3>5
  <2> HIDE DEF n
  <2>5. t \in Seq(Token) /\ Sorted(t, k) /\ \A i \in 1..Len(t) : t[i].req >= k + 1
    BY <2>1, <2>2
  <2> HIDE DEF s, t, k, l, Good
  <2>6. /\ s \in Seq(Token) /\ Len(s) = l + Len(t) /\ Len(t) \in Nat
        /\ \A i \in 1..Len(s) : s[i] = IF i <= l THEN Tokens(k)[i] ELSE t[i - l]
    <3> DEFINE u == Tokens(k)
    <3> HIDE DEF u
    <3>1. u \in Seq(Token) /\ Len(u) = l /\ s = u \o t
      BY <2>3, <2>4 DEF u
    <3>2. /\ u \o t \in Seq(Token) /\ Len(u \o t) = Len(u) + Len(t)
          /\ \A i \in 1..(Len(u) + Len(t)) : (u \o t)[i] = IF i <= Len(u) THEN u[i] ELSE t[i - Len(u)]
      BY <2>5, <3>1, ConcatProperties
    <3>3. Len(t) \in Nat
      BY <2>5
    <3>4. /\ s \in Seq(Token) /\ Len(s) = l + Len(t)
          /\ \A i \in 1..Len(s) : s[i] = IF i <= l THEN u[i] ELSE t[i - l]
      BY <3>1, <3>2
    <3> QED BY <3>3, <3>4 DEF u
  <2>7. \A i \in 1..Len(s) : i > l => i - l \in 1..Len(t) /\ s[i] = t[i - l]
    BY <2>4, <2>6
  <2>8. \A i \in 1..Len(s) : i <= l => i \in 1..l /\ s[i] = Tokens(k)[i]
    BY <2>4, <2>6
  <2>9. \A i \in 1..Len(s) : s[i].req >= k /\ s[i].req \in 1..Len(reqs) /\ (s[i].part = "blank" => s[i].req > k - 1)
    <3> TAKE i \in 1..Len(s)
    <3>1. CASE i <= l
      BY <2>1, <2>4, <2>8, <3>1 DEF n
    <3>2. CASE i > l
      BY <2>1, <2>5, <2>7, <3>2, SMTT(30) DEF Sorted
    <3> QED BY <2>4, <3>1, <3>2
  <2>10. ASSUME NEW i \in 1..Len(s), NEW j \in 1..Len(s), i < j
         PROVE  s[i].req <= s[j].req /\ (s[i].part = "blank" /\ s[j].part = "blank" => s[i].req < s[j].req)
    <3>1. CASE j <= l
      <4>1. i <= l
        BY <2>4, <2>10, <3>1
      <4> QED BY <2>1, <2>4, <2>8, <2>10, <3>1, <4>1, SMTT(30)
    <3>2. CASE i <= l /\ j > l
      <4>1. s[i].req = k /\ s[j].req >= k + 1
        BY <2>4, <2>5, <2>7, <2>8, <3>2
      <4>2. s[j].req \in Nat
        BY <2>9
      <4> QED BY <2>1, <4>1, <4>2
    <3>3. CASE i > l
      <4>1. j > l /\ i - l < j - l
        BY <2>4, <2>10, <3>3
      <4>2. i - l \in 1..Len(t) /\ j - l \in 1..Len(t) /\ s[i] = t[i - l] /\ s[j] = t[j - l]
        BY <2>7, <3>3, <4>1
      <4> QED BY <2>5, <4>1, <4>2 DEF Sorted
    <3> QED BY <2>4, <3>1, <3>2, <3>3
  <2>11. Good(k)
    BY <2>6, <2>9, <2>10 DEF Sorted, Good, s
  <2>12. m + 1 \in 0..n
    BY <1>0
  <2> QED BY <2>11, <2>12 DEF k
<1> HIDE DEF S, Good
<1>3. 0..n \subseteq S
  <2> HIDE DEF n
  <2> QED BY <1>0, <1>1, <1>2, Counting
<1>4. ASSUME NEW k \in 1..(n + 1) PROVE Good(k)
  <2>1. n + 1 - k \in 0..n /\ n + 1 - (n + 1 - k) = k
    BY <1>0
  <2> QED BY <1>3, <2>1 DEF S
<1> QED BY <1>4 DEF Good

----------------------------------------------------------------------------
(* Where a request ends *)

\* e is the position of the first empty line of s, 0 if there is none.
FirstBlank(s, e) ==
  /\ e \in 0..Len(s)
  /\ e = 0 => \A i \in 1..Len(s) : s[i].part # "blank"
  /\ e # 0 => s[e].part = "blank" /\ \A i \in 1..Len(s) : i < e => s[i].part # "blank"

LEMMA FirstBlankHere ==
  ASSUME Collected \in Seq(Token)
  PROVE  FirstBlank(Collected, HeaderEnd)
<1> DEFINE c == Collected
           I == {i \in 1..Len(c) : c[i].part = "blank"}
<1>1. HeaderEnd = IF I # {} THEN Min(I) ELSE 0
  BY DEF HeaderEnd, SelectInSeq
<1>2. Len(c) \in Nat
  OBVIOUS
<1> HIDE DEF c
<1>3. CASE I = {}
  BY <1>1, <1>2, <1>3 DEF FirstBlank, c
<1>4. CASE I # {}
  <2>1. PICK e \in I : \A y \in I : e <= y
    <3>1. I \in SUBSET Nat
      OBVIOUS
    <3> HIDE DEF I
    <3> QED BY <1>4, <3>1, LeastNat
  <2>2. Min(I) = CHOOSE x \in I : \A y \in I : x <= y
    BY DEF Min
  <2>3. Min(I) \in I /\ \A y \in I : Min(I) <= y
    <3> HIDE DEF I
    <3> QED BY <2>1, <2>2
  <2>4. HeaderEnd = Min(I)
    BY <1>1, <1>4
  <2>5. Min(I) \in 1..Len(c) /\ c[Min(I)].part = "blank"
    BY <2>3
  <2>6. \A i \in 1..Len(c) : i < Min(I) => c[i].part # "blank"
    <3> SUFFICES ASSUME NEW i \in 1..Len(c), i < Min(I), c[i].part = "blank" PROVE FALSE
      OBVIOUS
    <3>1. i \in I
      OBVIOUS
    <3> HIDE DEF I
    <3> QED BY <1>2, <2>3, <2>5, <3>1
  <2> HIDE DEF I
  <2>7. FirstBlank(c, Min(I))
    BY <1>2, <2>5, <2>6 DEF FirstBlank
  <2> QED BY <2>4, <2>7 DEF c
<1> QED BY <1>3, <1>4

LEMMA FirstBlankOnly ==
  ASSUME NEW s \in Seq(Token), NEW d, NEW e, FirstBlank(s, d), FirstBlank(s, e)
  PROVE  d = e
BY DEF FirstBlank

\* The rest of what has been collected is the rest of the chunk.
LEMMA TailOfConcat ==
  ASSUME NEW a \in Seq(Token), NEW b \in Seq(Token), NEW m \in Len(a)..(Len(a) + Len(b))
  PROVE  /\ SubSeq(b, m - Len(a) + 1, Len(b)) = SubSeq(a \o b, m + 1, Len(a \o b))
         /\ SubSeq(a \o b, m + 1, Len(a \o b)) \in Seq(Token)
         /\ Len(SubSeq(a \o b, m + 1, Len(a \o b))) = Len(a) + Len(b) - m
         /\ \A i \in 1..(Len(a) + Len(b) - m) : SubSeq(a \o b, m + 1, Len(a \o b))[i] = (a \o b)[m + i]
<1> DEFINE x == SubSeq(b, m - Len(a) + 1, Len(b))
           c == a \o b
           y == SubSeq(c, m + 1, Len(c))
           k == Len(a) + Len(b) - m
<1>1. /\ c \in Seq(Token) /\ Len(c) = Len(a) + Len(b)
      /\ \A i \in 1..(Len(a) + Len(b)) : c[i] = IF i <= Len(a) THEN a[i] ELSE b[i - Len(a)]
  BY ConcatProperties
<1>2. Len(a) \in Nat /\ Len(b) \in Nat /\ k \in Nat
  OBVIOUS
<1>3. x \in Seq(Token) /\ Len(x) = k /\ \A i \in 1..k : x[i] = b[m - Len(a) + i]
  <2>1. \A i \in (m - Len(a) + 1)..Len(b) : b[i] \in Token
    BY <1>2
  <2>2. m - Len(a) + 1 \in Int /\ Len(b) \in Int
    BY <1>2
  <2>3. /\ x \in Seq(Token) /\ Len(x) = IF m - Len(a) + 1 <= Len(b) THEN Len(b) - (m - Len(a) + 1) + 1 ELSE 0
        /\ \A i \in 1..(Len(b) - (m - Len(a) + 1) + 1) : x[i] = b[m - Len(a) + 1 + i - 1]
    BY <2>1, <2>2, SubSeqProperties
  <2> HIDE DEF x
  <2>4. Len(b) - (m - Len(a) + 1) + 1 = k /\ (m - Len(a) + 1 <= Len(b) \/ k = 0)
    BY <1>2
  <2>5. ASSUME NEW i \in 1..k PROVE x[i] = b[m - Len(a) + i]
    <3>1. m - Len(a) + 1 + i - 1 = m - Len(a) + i
      BY <1>2
    <3> HIDE DEF k
    <3> QED BY <2>3, <2>4, <3>1
  <2>6. Len(x) = k
    BY <1>2, <2>3, <2>4
  <2> QED BY <2>3, <2>5, <2>6
<1>4. y \in Seq(Token) /\ Len(y) = k /\ \A i \in 1..k : y[i] = c[m + i]
  <2> HIDE DEF c
  <2>1. \A i \in (m + 1)..Len(c) : c[i] \in Token
    BY <1>1, <1>2
  <2>2. m + 1 \in Int /\ Len(c) \in Int
    BY <1>1, <1>2
  <2>3. /\ y \in Seq(Token) /\ Len(y) = IF m + 1 <= Len(c) THEN Len(c) - (m + 1) + 1 ELSE 0
        /\ \A i \in 1..(Len(c) - (m + 1) + 1) : y[i] = c[m + 1 + i - 1]
    BY <2>1, <2>2, SubSeqProperties
  <2> HIDE DEF y
  <2>4. Len(c) - (m + 1) + 1 = k /\ \A i \in 1..k : m + 1 + i - 1 = m + i
    BY <1>1, <1>2
  <2> QED BY <1>2, <2>3, <2>4
<1>5. \A i \in 1..k : x[i] = y[i]
  <2> TAKE i \in 1..k
  <2>1. m + i \in 1..(Len(a) + Len(b)) /\ ~(m + i <= Len(a)) /\ m + i - Len(a) = m - Len(a) + i
    BY <1>2
  <2>2. c[m + i] = b[m + i - Len(a)]
    BY <1>1, <2>1
  <2> HIDE DEF x, y, c
  <2> QED BY <1>3, <1>4, <2>1, <2>2
<1> HIDE DEF x, y, c
<1>6. x = y
  BY <1>3, <1>4, <1>5, SeqEqual
<1> QED BY <1>4, <1>6 DEF x, y, c

LEMMA CutConcat ==
  ASSUME NEW c \in Seq(Token), NEW u \in Seq(Token), NEW m \in 0..Len(c)
  PROVE  SubSeq(c, m + 1, Len(c)) \o u = SubSeq(c \o u, m + 1, Len(c \o u))
<1> DEFINE x == SubSeq(c, m + 1, Len(c))
           y == x \o u
           d == c \o u
           z == SubSeq(d, m + 1, Len(d))
           k == Len(c) - m
<1>1. /\ d \in Seq(Token) /\ Len(d) = Len(c) + Len(u)
      /\ \A i \in 1..(Len(c) + Len(u)) : d[i] = IF i <= Len(c) THEN c[i] ELSE u[i - Len(c)]
  BY ConcatProperties
<1>2. Len(c) \in Nat /\ Len(u) \in Nat /\ k \in Nat /\ m \in Nat
  OBVIOUS
<1>3. x \in Seq(Token) /\ Len(x) = k /\ \A i \in 1..k : x[i] = c[m + i]
  <2>1. \A i \in (m + 1)..Len(c) : c[i] \in Token
    BY <1>2
  <2>2. m + 1 \in Int /\ Len(c) \in Int
    BY <1>2
  <2>3. /\ x \in Seq(Token) /\ Len(x) = IF m + 1 <= Len(c) THEN Len(c) - (m + 1) + 1 ELSE 0
        /\ \A i \in 1..(Len(c) - (m + 1) + 1) : x[i] = c[m + 1 + i - 1]
    BY <2>1, <2>2, SubSeqProperties
  <2> HIDE DEF x
  <2>4. Len(c) - (m + 1) + 1 = k /\ (m + 1 <= Len(c) \/ k = 0)
    BY <1>2
  <2>5. ASSUME NEW i \in 1..k PROVE x[i] = c[m + i]
    <3>1. m + 1 + i - 1 = m + i
      BY <1>2
    <3> HIDE DEF k
    <3> QED BY <2>3, <2>4, <3>1
  <2>6. Len(x) = k
    BY <1>2, <2>3, <2>4
  <2> QED BY <2>3, <2>5, <2>6
<1> HIDE DEF x, d
<1>4. /\ y \in Seq(Token) /\ Len(y) = k + Len(u)
      /\ \A i \in 1..(k + Len(u)) : y[i] = IF i <= k THEN x[i] ELSE u[i - k]
  <2>1. /\ y \in Seq(Token) /\ Len(y) = Len(x) + Len(u)
        /\ \A i \in 1..(Len(x) + Len(u)) : y[i] = IF i <= Len(x) THEN x[i] ELSE u[i - Len(x)]
    BY <1>3, ConcatProperties
  <2> HIDE DEF y
  <2> QED BY <1>3, <2>1
<1>5. z \in Seq(Token) /\ Len(z) = k + Len(u) /\ \A i \in 1..(k + Len(u)) : z[i] = d[m + i]
  <2>1. \A i \in (m + 1)..Len(d) : d[i] \in Token
    BY <1>1, <1>2
  <2>2. m + 1 \in Int /\ Len(d) \in Int
    BY <1>1, <1>2
  <2>3. /\ z \in Seq(Token) /\ Len(z) = IF m + 1 <= Len(d) THEN Len(d) - (m + 1) + 1 ELSE 0
        /\ \A i \in 1..(Len(d) - (m + 1) + 1) : z[i] = d[m + 1 + i - 1]
    BY <2>1, <2>2, SubSeqProperties
  <2> HIDE DEF z
  <2>4. Len(d) - (m + 1) + 1 = k + Len(u) /\ \A i \in 1..(k + Len(u)) : m + 1 + i - 1 = m + i
    BY <1>1, <1>2
  <2>5. Len(z) = k + Len(u)
    BY <1>1, <1>2, <2>3, <2>4
  <2> QED BY <2>3, <2>4, <2>5
<1> HIDE DEF y, z
<1>6. \A i \in 1..(k + Len(u)) : y[i] = z[i]
  <2> TAKE i \in 1..(k + Len(u))
  <2>1. CASE i <= k
    <3>1. i \in 1..k /\ m + i \in 1..(Len(c) + Len(u)) /\ m + i <= Len(c)
      BY <1>2, <2>1
    <3> HIDE DEF k
    <3> QED BY <1>1, <1>3, <1>4, <1>5, <2>1, <3>1
  <2>2. CASE ~(i <= k)
    <3>1. m + i \in 1..(Len(c) + Len(u)) /\ ~(m + i <= Len(c)) /\ m + i - Len(c) = i - k
      BY <1>2, <2>2
    <3> HIDE DEF k
    <3>2. y[i] = u[i - k]
      BY <1>4, <2>2
    <3>3. z[i] = d[m + i] /\ d[m + i] = u[m + i - Len(c)]
      BY <1>1, <1>5, <3>1
    <3> QED BY <3>1, <3>2, <3>3
  <2> QED BY <2>1, <2>2
<1>7. y = z
  <2> HIDE DEF k
  <2> QED BY <1>4, <1>5, <1>6, SeqEqual
<1> QED BY <1>7 DEF x, d, y, z

----------------------------------------------------------------------------
(* TypeOK *)

Asked == [pps : {"s0", "lengthed"}, head : BOOLEAN, conn : Conns, len : Nat]
Responses == [code : Codes, length : Int, chunked : BOOLEAN, ss : {"0", "nobody", "need_body"}, conn : Conns]
Readers == [at : {"header", "body", "chunks", "stream", "broken"}, left : Nat, done : Nat, keep : BOOLEAN]
Typed ==
  /\ reqs \in Seq(ReqSet) /\ ver \in Versions
  /\ unsent \in Seq(Token) /\ chunk \in Seq(Token) /\ buf \in Seq(Token) /\ body \in Seq(Token)
  /\ request \in Asked /\ resp \in Responses /\ reader \in Readers /\ odd \in BOOLEAN
  /\ asyncs \in [started : Nat, open : Nat] /\ asyncs.open <= asyncs.started
  /\ pc \in {"sniff", "recv", "write", "call", "send", "closed"} /\ todo \in Nat
  /\ calls \in 0..Len(reqs)
  /\ pc \in {"call", "send"} => request.pps = "lengthed" /\ buf = <<>>
  /\ pc = "recv" => chunk = <<>>
  /\ pc = "sniff" => request = NoRequest /\ buf = <<>> /\ calls = 0

\* What is still to be read has the requests that were not called, in order.
Ahead == buf \o chunk \o unsent
Ordered == pc # "closed" => Sorted(Ahead, calls)

\* As long as a request is waited for, its header or its body is not complete.
Waits ==
  pc \in {"sniff", "recv", "write"} =>
    IF request.pps = "s0" THEN FirstBlank(buf, 0)
    ELSE \E e \in 1..Len(buf) : FirstBlank(buf, e) /\ Len(buf) - e < request.len
Parsing == Typed /\ Ordered /\ Waits

LEMMA CollectedIs ==
  ASSUME Typed
  PROVE  /\ Collected \in Seq(Token) /\ Len(Collected) = Len(buf) + Len(chunk) /\ Len(buf) \in Nat /\ Len(chunk) \in Nat
         /\ \A i \in 1..Len(Collected) : Collected[i] = IF i <= Len(buf) THEN buf[i] ELSE chunk[i - Len(buf)]
         /\ Ahead \in Seq(Token) /\ Len(Ahead) = Len(Collected) + Len(unsent) /\ Len(unsent) \in Nat
         /\ \A i \in 1..Len(Collected) : Ahead[i] = Collected[i]
<1>1. buf \in Seq(Token) /\ chunk \in Seq(Token) /\ unsent \in Seq(Token)
  BY DEF Typed
<1>2. /\ Collected \in Seq(Token) /\ Len(Collected) = Len(buf) + Len(chunk)
      /\ \A i \in 1..(Len(buf) + Len(chunk)) : Collected[i] = IF i <= Len(buf) THEN buf[i] ELSE chunk[i - Len(buf)]
  BY <1>1, ConcatProperties DEF Collected
<1>3. /\ Ahead \in Seq(Token) /\ Len(Ahead) = Len(Collected) + Len(unsent)
      /\ \A i \in 1..(Len(Collected) + Len(unsent)) : Ahead[i] = IF i <= Len(Collected) THEN Collected[i] ELSE unsent[i - Len(Collected)]
  <2>1. Ahead = Collected \o unsent
    BY DEF Ahead, Collected
  <2> DEFINE c == Collected
  <2> HIDE DEF c
  <2>2. c \in Seq(Token) /\ Ahead = c \o unsent
    BY <1>2, <2>1 DEF c
  <2>3. /\ c \o unsent \in Seq(Token) /\ Len(c \o unsent) = Len(c) + Len(unsent)
        /\ \A i \in 1..(Len(c) + Len(unsent)) : (c \o unsent)[i] = IF i <= Len(c) THEN c[i] ELSE unsent[i - Len(c)]
    BY <1>1, <2>2, ConcatProperties
  <2> QED BY <2>2, <2>3 DEF c
<1>4. Len(buf) \in Nat /\ Len(chunk) \in Nat /\ Len(unsent) \in Nat
  BY <1>1
<1>5. \A i \in 1..Len(Collected) : i \in 1..(Len(Collected) + Len(unsent)) /\ i <= Len(Collected)
  BY <1>2, <1>4
<1> QED BY <1>2, <1>3, <1>4, <1>5

\* The header that parse reads.
LEMMA ParsedIs ==
  ASSUME Parsing, pc = "write"
  PROVE  /\ FirstBlank(Collected, HeaderEnd) /\ HeaderEnd \in Nat
         /\ HeaderEnd # 0 => Len(Collected) > 0 /\ Collected[1].req \in 1..Len(reqs) /\ Sent \in ReqSet
         /\ Parsed \in Asked
         /\ Parsed.pps = "lengthed" <=> HeaderEnd # 0
         /\ request.pps = "lengthed" => HeaderEnd \in 1..Len(buf) /\ FirstBlank(buf, HeaderEnd) /\ Len(buf) - HeaderEnd < request.len
         /\ request.pps = "s0" => HeaderEnd = 0 \/ HeaderEnd > Len(buf)
<1>1. FirstBlank(Collected, HeaderEnd)
  BY CollectedIs, FirstBlankHere DEF Parsing
<1>2. HeaderEnd \in Nat /\ HeaderEnd \in 0..Len(Collected) /\ Len(Collected) \in Nat /\ Len(buf) \in Nat
  BY <1>1, CollectedIs DEF FirstBlank, Parsing
<1>3. HeaderEnd # 0 => Len(Collected) > 0 /\ Collected[1].req \in 1..Len(reqs) /\ Sent \in ReqSet
  <2> SUFFICES ASSUME HeaderEnd # 0 PROVE Len(Collected) > 0 /\ Collected[1].req \in 1..Len(reqs) /\ Sent \in ReqSet
    OBVIOUS
  <2>1. Len(Collected) > 0 /\ 1 \in 1..Len(Collected)
    BY <1>2
  <2>2. Ahead[1] = Collected[1] /\ 1 \in 1..Len(Ahead)
    BY <2>1, CollectedIs DEF Parsing
  <2>3. Collected[1].req \in 1..Len(reqs)
    BY <2>2 DEF Parsing, Ordered, Sorted
  <2>4. reqs \in Seq(ReqSet)
    BY DEF Parsing, Typed
  <2> QED BY <2>1, <2>3, <2>4 DEF Sent
<1>4. request \in Asked
  BY DEF Parsing, Typed
<1>5. request.pps = "lengthed" => HeaderEnd \in 1..Len(buf) /\ FirstBlank(buf, HeaderEnd) /\ Len(buf) - HeaderEnd < request.len
  <2> SUFFICES ASSUME request.pps = "lengthed"
               PROVE  HeaderEnd \in 1..Len(buf) /\ FirstBlank(buf, HeaderEnd) /\ Len(buf) - HeaderEnd < request.len
    OBVIOUS
  <2>1. PICK e \in 1..Len(buf) : FirstBlank(buf, e) /\ Len(buf) - e < request.len
    BY DEF Parsing, Waits
  <2>2. /\ Len(buf) <= Len(Collected)
        /\ \A i \in 1..Len(buf) : Collected[i] = buf[i] /\ i \in 1..Len(Collected)
    BY <1>2, CollectedIs DEF Parsing
  <2>3. FirstBlank(Collected, e)
    BY <1>2, <2>1, <2>2 DEF FirstBlank
  <2>4. e = HeaderEnd
    BY <1>1, <2>3, CollectedIs, FirstBlankOnly DEF Parsing
  <2> QED BY <2>1, <2>4
<1>6. request.pps = "s0" => HeaderEnd = 0 \/ HeaderEnd > Len(buf)
  <2> SUFFICES ASSUME request.pps = "s0", HeaderEnd # 0, HeaderEnd <= Len(buf) PROVE FALSE
    BY <1>2
  <2>1. FirstBlank(buf, 0)
    BY DEF Parsing, Waits
  <2>2. HeaderEnd \in 1..Len(buf) /\ Collected[HeaderEnd] = buf[HeaderEnd]
    BY <1>2, CollectedIs DEF Parsing
  <2> QED BY <1>1, <2>1, <2>2 DEF FirstBlank
<1>7. Parsed \in Asked /\ (Parsed.pps = "lengthed" <=> HeaderEnd # 0)
  <2>1. CASE HeaderEnd = 0 \/ request.pps = "lengthed"
    <3>1. Parsed = request
      BY <2>1 DEF Parsed
    <3>2. request.pps \in {"s0", "lengthed"}
      BY <1>4 DEF Asked
    <3> QED BY <1>2, <1>4, <1>5, <2>1, <3>1, <3>2
  <2>2. CASE ~(HeaderEnd = 0 \/ request.pps = "lengthed")
    <3>1. Sent.head \in BOOLEAN /\ Sent.len \in Nat /\ Sent.conn \in Conns
      BY <1>3, <2>2, Request
    <3> QED BY <1>4, <2>2, <3>1 DEF Parsed, Asked
  <2> QED BY <2>1, <2>2
<1> QED BY <1>1, <1>2, <1>3, <1>5, <1>6, <1>7

\* A request that is complete is cut off from what is ahead.
LEMMA RequestCut ==
  ASSUME Parsing, WriteDone
  PROVE  LET m == HeaderEnd + Parsed.len IN
         /\ HeaderEnd \in 1..Len(Collected) /\ m \in 0..Len(Collected) /\ m \in HeaderEnd..Len(Ahead)
         /\ chunk' \in Seq(Token) /\ body' \in Seq(Token)
         /\ \A i \in 1..(Len(Collected) - HeaderEnd) : body'[i] = Collected[HeaderEnd + i]
         /\ Ahead' = SubSeq(Ahead, m + 1, Len(Ahead))
<1> DEFINE m == HeaderEnd + Parsed.len
           c == Collected
<1>0. Typed /\ pc = "write" /\ Complete
  BY DEF Parsing, WriteDone
<1>1. /\ c \in Seq(Token) /\ Len(c) = Len(buf) + Len(chunk) /\ Len(buf) \in Nat /\ Len(chunk) \in Nat
      /\ Ahead = c \o unsent /\ Len(Ahead) = Len(c) + Len(unsent) /\ Len(unsent) \in Nat /\ Len(c) \in Nat
  BY <1>0, CollectedIs DEF Ahead, Collected
<1>2. /\ FirstBlank(c, HeaderEnd) /\ HeaderEnd \in Nat /\ HeaderEnd # 0 /\ Parsed.len \in Nat
      /\ request.pps = "lengthed" => HeaderEnd \in 1..Len(buf) /\ Len(buf) - HeaderEnd < request.len
      /\ request.pps = "s0" => HeaderEnd > Len(buf)
  BY <1>0, ParsedIs DEF Complete, Asked
<1>3. HeaderEnd \in 1..Len(c) /\ Len(c) - HeaderEnd >= Parsed.len
  BY <1>0, <1>2 DEF FirstBlank, Complete
<1>4. m > Len(buf)
  <2>1. CASE request.pps = "s0"
    BY <1>1, <1>2, <2>1
  <2>2. CASE request.pps = "lengthed"
    <3>1. Parsed = request
      BY <2>2 DEF Parsed
    <3> QED BY <1>1, <1>2, <2>2, <3>1
  <2> QED BY <1>0, <2>1, <2>2 DEF Typed, Asked
<1>5. m \in 0..Len(c) /\ m \in HeaderEnd..Len(Ahead) /\ m \in Len(buf)..(Len(buf) + Len(chunk))
  BY <1>1, <1>2, <1>3, <1>4, SMTT(30)
<1>6. Used + 1 = m - Len(buf) + 1
  BY <1>1, <1>2 DEF Used
<1>7. /\ chunk' = SubSeq(chunk, m - Len(buf) + 1, Len(chunk)) /\ body' = SubSeq(c, HeaderEnd + 1, Len(c))
      /\ buf' = <<>> /\ unsent' = unsent
  BY <1>6 DEF WriteDone
<1>8. buf \in Seq(Token) /\ chunk \in Seq(Token) /\ unsent \in Seq(Token)
  BY <1>0 DEF Typed
<1> HIDE DEF m
<1>9. chunk' = SubSeq(c, m + 1, Len(c)) /\ chunk' \in Seq(Token)
  BY <1>5, <1>7, <1>8, TailOfConcat DEF Collected
<1> HIDE DEF c
<1>10. Ahead' = SubSeq(Ahead, m + 1, Len(Ahead))
  <2>1. Ahead' = chunk' \o unsent
    <3>1. <<>> \o chunk' = chunk'
      BY <1>9, ConcatEmptySeq
    <3> QED BY <1>7, <3>1 DEF Ahead
  <2>2. SubSeq(c, m + 1, Len(c)) \o unsent = SubSeq(c \o unsent, m + 1, Len(c \o unsent))
    BY <1>1, <1>5, <1>8, CutConcat
  <2> QED BY <1>1, <1>9, <2>1, <2>2
<1>11. body' \in Seq(Token) /\ \A i \in 1..(Len(c) - HeaderEnd) : body'[i] = c[HeaderEnd + i]
  <2>1. \A i \in (HeaderEnd + 1)..Len(c) : c[i] \in Token
    BY <1>1, <1>2
  <2>2. HeaderEnd + 1 \in Int /\ Len(c) \in Int
    BY <1>1, <1>2
  <2>3. /\ body' \in Seq(Token)
        /\ \A i \in 1..(Len(c) - (HeaderEnd + 1) + 1) : body'[i] = c[HeaderEnd + 1 + i - 1]
    BY <1>7, <2>1, <2>2, SubSeqProperties
  <2>4. ASSUME NEW i \in 1..(Len(c) - HeaderEnd) PROVE body'[i] = c[HeaderEnd + i]
    <3>1. i \in 1..(Len(c) - (HeaderEnd + 1) + 1) /\ HeaderEnd + 1 + i - 1 = HeaderEnd + i
      BY <1>1, <1>2
    <3> QED BY <2>3, <3>1
  <2> QED BY <2>3, <2>4
<1> QED BY <1>3, <1>5, <1>9, <1>10, <1>11 DEF c, m

\* The rest of an ordered stream is ordered, and an empty line that was passed counts its request.
LEMMA SortedCut ==
  ASSUME NEW s \in Seq(Token), NEW k \in Nat, Sorted(s, k), NEW e \in 1..Len(s), NEW m \in e..Len(s),
         s[e].part = "blank", reqs \in Seq(ReqSet)
  PROVE  k + 1 \in 0..Len(reqs) /\ Sorted(SubSeq(s, m + 1, Len(s)), k + 1)
<1> DEFINE t == SubSeq(s, m + 1, Len(s))
           n == Len(s) - m
<1>1. Len(s) \in Nat /\ e \in Nat /\ m \in Nat /\ n \in Nat /\ Len(reqs) \in Nat
  OBVIOUS
<1>2. Len(t) = n /\ \A i \in 1..n : t[i] = s[m + i]
  <2>1. \A i \in (m + 1)..Len(s) : s[i] \in Token
    BY <1>1
  <2>2. m + 1 \in Int /\ Len(s) \in Int
    BY <1>1
  <2>3. /\ Len(t) = IF m + 1 <= Len(s) THEN Len(s) - (m + 1) + 1 ELSE 0
        /\ \A i \in 1..(Len(s) - (m + 1) + 1) : t[i] = s[m + 1 + i - 1]
    BY <2>1, <2>2, SubSeqProperties
  <2> HIDE DEF t
  <2>4. ASSUME NEW i \in 1..n PROVE t[i] = s[m + i]
    <3>1. i \in 1..(Len(s) - (m + 1) + 1) /\ m + 1 + i - 1 = m + i
      BY <1>1
    <3> QED BY <2>3, <3>1
  <2>5. Len(t) = n
    BY <1>1, <2>3
  <2> QED BY <2>4, <2>5
<1> HIDE DEF t
<1>3. s[e].req \in 1..Len(reqs) /\ s[e].req > k
  BY DEF Sorted
<1>4. \A i \in 1..n : m + i \in 1..Len(s) /\ e < m + i
  BY <1>1
<1>5. ASSUME NEW i \in 1..n PROVE t[i].req \in 1..Len(reqs) /\ (t[i].part = "blank" => t[i].req > k + 1)
  <2> DEFINE j == m + i
  <2>1. j \in 1..Len(s) /\ e < j /\ t[i] = s[j]
    BY <1>2, <1>4
  <2> HIDE DEF j
  <2>2. s[j].req \in 1..Len(reqs) /\ (s[j].part = "blank" => s[e].req < s[j].req)
    BY <2>1 DEF Sorted
  <2> QED BY <1>1, <1>3, <2>1, <2>2
<1>6. ASSUME NEW i \in 1..n, NEW j \in 1..n, i < j
      PROVE  t[i].req <= t[j].req /\ (t[i].part = "blank" /\ t[j].part = "blank" => t[i].req < t[j].req)
  <2>1. m + i \in 1..Len(s) /\ m + j \in 1..Len(s) /\ m + i < m + j
    BY <1>1, <1>4, <1>6
  <2> QED BY <1>2, <2>1 DEF Sorted
<1>7. k + 1 \in 0..Len(reqs)
  BY <1>1, <1>3
<1>8. Sorted(t, k + 1)
  BY <1>2, <1>5, <1>6 DEF Sorted
<1> QED BY <1>7, <1>8 DEF t

\* Whatever is written, the client goes on reading or gives up.
Answers == [resp : Responses, reader : Readers]

\* What the client makes of the header u, with q.
Takes(r, u, q) ==
  /\ q \in Readers
  /\ r.at = "header" /\ ~Interim(u.code) =>
       LET none == Bodiless(r.done + 1, u) \/ u.length = 0 IN
       /\ q.keep = u.keep
       /\ none => q.at = "header" /\ q.done = r.done + 1 /\ q.left = r.left
       /\ ~none /\ u.chunked => /\ q.at = (IF ver = "1.0" THEN "stream" ELSE "chunks")
                                /\ q.done = r.done /\ q.left = r.left
       /\ ~none /\ ~u.chunked /\ u.length > 0 => q.at = "body" /\ q.done = r.done /\ q.left = u.length

LEMMA ReadHeader ==
  ASSUME NEW r \in Readers, NEW code, NEW length \in Int, NEW chunked \in BOOLEAN, NEW keep \in BOOLEAN
  PROVE  LET u == Header(code, length, chunked, keep) IN
         /\ Takes(r, u, Read(r, u))
         /\ u.code = code /\ u.length = length /\ u.chunked = chunked /\ u.keep = keep
<1> DEFINE u == Header(code, length, chunked, keep)
           b == Bodiless(r.done + 1, u)
           i == Interim(code)
           old == ver = "1.0"
<1>1. u.kind = "header" /\ u.code = code /\ u.length = length /\ u.chunked = chunked /\ u.keep = keep
  BY DEF Header
<1>2. r.left \in Nat /\ r.done \in Nat /\ r.keep \in BOOLEAN /\ r.at \in {"header", "body", "chunks", "stream", "broken"}
  BY DEF Readers
<1> DEFINE h == [r EXCEPT !.keep = keep]
           at == IF old THEN "stream" ELSE "chunks"
<1>3. h \in Readers /\ h.keep = keep /\ h.at = r.at /\ h.done = r.done /\ h.left = r.left
  BY DEF Readers
<1>6. SUFFICES Takes(r, u, Read(r, u))
  BY <1>1
<1>4. CASE r.at = "header"
  <2>1. Read(r, u) = IF i THEN h
                     ELSE IF b \/ length = 0 THEN [h EXCEPT !.done = @ + 1]
                     ELSE IF chunked THEN [h EXCEPT !.at = at]
                     ELSE IF length < 0 THEN [h EXCEPT !.at = "broken"]
                     ELSE [h EXCEPT !.at = "body", !.left = length]
    <3> HIDE DEF u
    <3> QED BY <1>1, <1>4 DEF Read, b, i
  <2> HIDE DEF u, b, i, h, old
  <2>2. CASE i
    BY <1>1, <1>3, <2>1, <2>2 DEF i, b, Takes
  <2>3. CASE ~i /\ (b \/ length = 0)
    <3>1. Read(r, u) = [h EXCEPT !.done = h.done + 1] /\ h.done + 1 \in Nat
      BY <1>2, <1>3, <2>1, <2>3 DEF Readers
    <3>2. Read(r, u) \in Readers /\ Read(r, u).keep = keep /\ Read(r, u).at = "header"
          /\ Read(r, u).done = r.done + 1 /\ Read(r, u).left = r.left
      BY <1>3, <1>4, <3>1 DEF Readers
    <3> QED BY <1>1, <1>2, <2>3, <3>2 DEF i, b, Takes
  <2>4. CASE ~i /\ ~(b \/ length = 0) /\ chunked
    <3>1. Read(r, u) = [h EXCEPT !.at = at] /\ at \in {"stream", "chunks"}
      BY <2>1, <2>4
    <3>2. Read(r, u) \in Readers /\ Read(r, u).keep = keep /\ Read(r, u).at = at
          /\ Read(r, u).done = r.done /\ Read(r, u).left = r.left
      BY <1>3, <3>1 DEF Readers
    <3> QED BY <1>1, <1>2, <2>4, <3>2 DEF i, b, old, Takes
  <2>5. CASE ~i /\ ~(b \/ length = 0) /\ ~chunked /\ length < 0
    <3>1. Read(r, u) = [h EXCEPT !.at = "broken"]
      BY <2>1, <2>5
    <3>2. Read(r, u) \in Readers /\ Read(r, u).keep = keep
      BY <1>3, <3>1 DEF Readers
    <3> QED BY <1>1, <1>2, <2>5, <3>2 DEF i, b, Takes
  <2>6. CASE ~i /\ ~(b \/ length = 0) /\ ~chunked /\ length > 0
    <3>1. Read(r, u) = [h EXCEPT !.at = "body", !.left = length] /\ length \in Nat
      BY <2>1, <2>6
    <3>2. Read(r, u) \in Readers /\ Read(r, u).keep = keep /\ Read(r, u).at = "body"
          /\ Read(r, u).done = r.done /\ Read(r, u).left = length
      BY <1>3, <3>1 DEF Readers
    <3> QED BY <1>1, <1>2, <2>6, <3>2 DEF i, b, Takes
  <2>7. length = 0 \/ length < 0 \/ length > 0
    OBVIOUS
  <2> QED BY <2>2, <2>3, <2>4, <2>5, <2>6, <2>7
<1>5. CASE r.at # "header"
  <2>1. Read(r, u) = r \/ Read(r, u) = [r EXCEPT !.at = "broken"]
    <3> HIDE DEF u
    <3> QED BY <1>1, <1>5 DEF Read
  <2> HIDE DEF u
  <2>2. [r EXCEPT !.at = "broken"] \in Readers
    BY DEF Readers
  <2> QED BY <1>5, <2>1, <2>2 DEF Takes
<1> QED BY <1>4, <1>5

LEMMA HeaderType ==
  ASSUME NEW r \in Readers, NEW code, NEW length \in Int, NEW chunked \in BOOLEAN, NEW keep \in BOOLEAN
  PROVE  Read(r, Header(code, length, chunked, keep)) \in Readers
BY ReadHeader DEF Takes

LEMMA ReadBytes ==
  ASSUME NEW r \in Readers, NEW chunked \in BOOLEAN, NEW n \in Nat
  PROVE  LET q == Read(r, Bytes(chunked, n)) IN
         /\ q \in Readers
         /\ chunked /\ r.at = "chunks" => q = r
         /\ r.at = "stream" => q = r
         /\ ~chunked /\ r.at = "body" /\ n < r.left => q = [r EXCEPT !.left = r.left - n]
         /\ ~chunked /\ r.at = "body" /\ n = r.left => q = [r EXCEPT !.left = 0, !.at = "header", !.done = r.done + 1]
<1> DEFINE u == Bytes(chunked, n)
<1>1. u.kind = (IF chunked THEN "chunk" ELSE "data") /\ u.n = n
  BY DEF Bytes
<1> HIDE DEF u
<1>2. r.left \in Nat /\ r.done \in Nat /\ r.keep \in BOOLEAN /\ r.at \in {"header", "body", "chunks", "stream", "broken"}
  BY DEF Readers
<1>3. CASE chunked /\ r.at = "chunks"
  BY <1>1, <1>3 DEF Read, u
<1>4. CASE ~chunked /\ r.at = "body" /\ n < r.left
  <2>1. Read(r, u) = [r EXCEPT !.left = r.left - n]
    BY <1>1, <1>4 DEF Read
  <2> QED BY <1>2, <1>4, <2>1 DEF Readers, u
<1>5. CASE ~chunked /\ r.at = "body" /\ n = r.left
  <2>1. Read(r, u) = [r EXCEPT !.left = 0, !.at = "header", !.done = r.done + 1]
    BY <1>1, <1>2, <1>5 DEF Read
  <2>2. [r EXCEPT !.left = 0, !.at = "header", !.done = r.done + 1] \in Readers
    <3>1. r.done + 1 \in Nat
      BY <1>2
    <3> QED BY <3>1 DEF Readers
  <2> QED BY <1>2, <1>5, <2>1, <2>2 DEF u
<1>7. CASE r.at = "stream"
  BY <1>1, <1>7 DEF Read, u
<1>6. CASE r.at # "stream" /\ ~(chunked /\ r.at = "chunks") /\ ~(~chunked /\ r.at = "body" /\ (n < r.left \/ n = r.left))
  <2>1. Read(r, u) = [r EXCEPT !.at = "broken"]
    BY <1>1, <1>6 DEF Read
  <2> QED BY <1>2, <1>6, <2>1 DEF Readers, u
<1> QED BY <1>3, <1>4, <1>5, <1>6, <1>7

LEMMA ReadLast ==
  ASSUME NEW r \in Readers
  PROVE  LET q == Read(r, LastChunk) IN
         /\ q \in Readers
         /\ r.at = "chunks" => q = [r EXCEPT !.at = "header", !.done = r.done + 1]
         /\ r.at = "stream" => q = r
<1>1. LastChunk.kind = "last"
  BY DEF LastChunk
<1>2. r.left \in Nat /\ r.done \in Nat /\ r.keep \in BOOLEAN /\ r.at \in {"header", "body", "chunks", "stream", "broken"}
  BY DEF Readers
<1>3. CASE r.at = "chunks"
  <2>1. Read(r, LastChunk) = [r EXCEPT !.at = "header", !.done = r.done + 1]
    BY <1>1, <1>3 DEF Read
  <2>2. [r EXCEPT !.at = "header", !.done = r.done + 1] \in Readers
    <3>1. r.done + 1 \in Nat
      BY <1>2
    <3> QED BY <3>1 DEF Readers
  <2> QED BY <1>3, <2>1, <2>2
<1>5. CASE r.at = "stream"
  BY <1>1, <1>5 DEF Read
<1>4. CASE r.at \notin {"chunks", "stream"}
  <2>1. Read(r, LastChunk) = [r EXCEPT !.at = "broken"]
    BY <1>1, <1>4 DEF Read
  <2> QED BY <1>2, <1>4, <2>1 DEF Readers
<1> QED BY <1>3, <1>4, <1>5

\* The response and the client keep their types when a header or a piece is sent.
LEMMA SendHeaderType ==
  ASSUME NEW p \in Answers
  PROVE  SendHeader(p) \in Answers
<1> DEFINE r == p.resp
           d == p.reader
           c == r.chunked \/ r.length = -1
           keep == Persists(r.conn)
<1>1. r \in Responses /\ d \in Readers /\ keep \in BOOLEAN /\ c \in BOOLEAN /\ r.length \in Int /\ r.chunked \in BOOLEAN
  BY DEF Answers, Responses, Persists
<1> HIDE DEF r, d, c, keep
<1>0. \A x \in Responses, y \in Readers : [resp |-> x, reader |-> y] \in Answers
  BY DEF Answers
<1>2. CASE r.code \in Pages
  <2> DEFINE h == Read(d, Header(r.code, PageLen, FALSE, keep))
  <2>0. PageLen \in Int
    BY DEF PageLen
  <2>1. h \in Readers
    BY <1>1, <2>0, HeaderType
  <2> HIDE DEF h
  <2>2. Read(h, Bytes(FALSE, PageLen)) \in Readers
    BY <2>1, ReadBytes DEF PageLen
  <2>3. SendHeader(p) = [resp |-> [r EXCEPT !.ss = "nobody"], reader |-> Read(h, Bytes(FALSE, PageLen))]
    BY <1>2 DEF SendHeader, r, d, keep, h
  <2>4. [r EXCEPT !.ss = "nobody"] \in Responses
    BY <1>1 DEF Responses
  <2> QED BY <1>0, <2>2, <2>3, <2>4
<1>3. CASE r.code \notin Pages
  <2> DEFINE h == Read(d, Header(r.code, r.length, c, keep))
  <2>1. h \in Readers
    BY <1>1, HeaderType
  <2> HIDE DEF h
  <2>2. SendHeader(p) = [resp |-> [r EXCEPT !.ss = IF request.head THEN "nobody" ELSE "need_body", !.chunked = c], reader |-> h]
    BY <1>3 DEF SendHeader, r, d, c, keep, h
  <2>3. \A ss \in {"nobody", "need_body"} : [r EXCEPT !.ss = ss, !.chunked = c] \in Responses
    BY <1>1 DEF Responses
  <2>4. (IF request.head THEN "nobody" ELSE "need_body") \in {"nobody", "need_body"}
    OBVIOUS
  <2> QED BY <1>0, <2>1, <2>2, <2>3, <2>4
<1> QED BY <1>2, <1>3

LEMMA SendType ==
  ASSUME NEW p \in Answers
  PROVE  SendHeaderOnce(p) \in Answers /\ Finish(p) \in Answers /\ \A n \in Nat : SendData(p, n) \in Answers
<1> DEFINE q == SendHeaderOnce(p)
<1>1. q \in Answers
  BY SendHeaderType DEF SendHeaderOnce
<1> HIDE DEF q
<1>2. q.resp \in Responses /\ q.reader \in Readers /\ q.resp.chunked \in BOOLEAN
  BY <1>1 DEF Answers, Responses
<1>3. Finish(p) \in Answers
  <2>1. Read(q.reader, LastChunk) \in Readers
    BY <1>2, ReadLast
  <2>2. Finish(p) = IF q.resp.chunked THEN [q EXCEPT !.reader = Read(q.reader, LastChunk)] ELSE q
    BY <1>1 DEF Finish, q, Answers
  <2> QED BY <1>1, <1>2, <2>1, <2>2 DEF Answers
<1>4. ASSUME NEW n \in Nat PROVE SendData(p, n) \in Answers
  <2>1. Read(q.reader, Bytes(q.resp.chunked, n)) \in Readers
    BY <1>2, ReadBytes
  <2>2. SendData(p, n) = IF q.resp.ss # "need_body" THEN q ELSE [q EXCEPT !.reader = Read(q.reader, Bytes(q.resp.chunked, n))]
    BY <1>1 DEF SendData, q, Answers
  <2> QED BY <1>1, <1>2, <2>1, <2>2 DEF Answers
<1> QED BY <1>1, <1>3, <1>4 DEF q

LEMMA InitParsing == Init => Parsing
<1> SUFFICES ASSUME Init PROVE Parsing
  OBVIOUS
<1>1. reqs \in Seq(ReqSet) /\ Len(reqs) \in Nat
  <2>1. PICK n \in 1..MaxReqs : reqs \in [1..n -> ReqSet]
    BY DEF Init
  <2>2. n \in Nat
    BY HttpAssumption
  <2> QED BY <2>1, <2>2
<1>2. 1 \in 1..(Len(reqs) + 1)
  BY <1>1
<1>3. StreamFrom[1] \in Seq(Token) /\ Sorted(StreamFrom[1], 0)
  <2>1. StreamFrom[1] \in Seq(Token) /\ Sorted(StreamFrom[1], 1 - 1)
    BY <1>1, <1>2, StreamSorted
  <2> QED BY <2>1
<1>4. Ahead = StreamFrom[1]
  <2>1. <<>> \o <<>> = <<>> /\ <<>> \in Seq(Token)
    OBVIOUS
  <2>2. <<>> \o StreamFrom[1] = StreamFrom[1]
    BY <1>3, ConcatEmptySeq
  <2> QED BY <2>1, <2>2 DEF Init, Ahead
<1>5. Typed
  <2>1. request \in Asked /\ resp \in Responses /\ reader \in Readers
    BY DEF Init, NoRequest, FreshResponse, FreshReader, Asked, Responses, Readers, Conns, Codes
  <2>2. asyncs \in [started : Nat, open : Nat] /\ asyncs.open <= asyncs.started
    BY DEF Init
  <2>3. unsent \in Seq(Token) /\ chunk \in Seq(Token) /\ buf \in Seq(Token) /\ body \in Seq(Token)
    BY <1>3 DEF Init
  <2>4. ver \in Versions /\ todo \in Nat /\ calls \in 0..Len(reqs) /\ pc = "sniff" /\ odd \in BOOLEAN
    <3>1. odd \in BOOLEAN
      BY DEF Init
    <3>2. ver \in Versions /\ todo = 0 /\ calls = 0 /\ pc = "sniff"
      BY DEF Init
    <3> QED BY <1>1, <3>1, <3>2
  <2>5. request = NoRequest /\ buf = <<>> /\ calls = 0
    BY DEF Init
  <2> QED BY <1>1, <2>1, <2>2, <2>3, <2>4, <2>5 DEF Typed
<1>6. Ordered
  BY <1>3, <1>4 DEF Init, Ordered
<1>7. Waits
  BY DEF Init, Waits, FirstBlank, NoRequest
<1> QED BY <1>5, <1>6, <1>7 DEF Parsing

\* Steps that read nothing from the client.
Silent == UNCHANGED <<reqs, ver, unsent, chunk, buf, calls, asyncs>>
LEMMA SilentSteps ==
  ASSUME Parsing, Silent, request' \in Asked, resp' \in Responses, reader' \in Readers, odd' \in BOOLEAN, todo' \in Nat,
         body' \in Seq(Token), pc # "closed",
         \/ pc' = "closed"
         \/ pc' = "write" /\ request' = request /\ pc \in {"sniff", "write"}
         \/ pc' = "send" /\ request' = request /\ pc \in {"call", "send"}
         \/ pc' \in {"recv", "write"} /\ request' = NoRequest /\ (pc' = "recv" => chunk = <<>>) /\ pc = "send"
  PROVE  Parsing'
<1>1. Ahead' = Ahead
  BY DEF Silent, Ahead
<1>2. Ordered'
  BY <1>1 DEF Silent, Parsing, Ordered, Sorted
<1>3. Typed'
  BY DEF Parsing, Typed, Silent
<1>4. Waits'
  <2>1. CASE pc' \in {"closed", "send"}
    BY <2>1 DEF Waits
  <2>2. CASE pc' = "write" /\ request' = request /\ pc \in {"sniff", "write"}
    BY <2>2 DEF Parsing, Silent, Waits, FirstBlank
  <2>3. CASE pc' \in {"recv", "write"} /\ request' = NoRequest /\ pc = "send"
    <3>1. buf' = <<>> /\ request'.pps = "s0"
      BY <2>3 DEF Parsing, Typed, Silent, NoRequest
    <3>2. FirstBlank(<<>>, 0)
      BY DEF FirstBlank
    <3> QED BY <3>1, <3>2 DEF Waits, FirstBlank
  <2> QED BY <2>1, <2>2, <2>3
<1> QED BY <1>2, <1>3, <1>4 DEF Parsing

LEMMA DeliverParsing ==
  ASSUME Parsing, Deliver
  PROVE  Parsing' /\ Ahead' = Ahead
<1>1. PICK n \in 1..Len(unsent) : chunk' = SubSeq(unsent, 1, n) /\ unsent' = SubSeq(unsent, n + 1, Len(unsent))
  BY DEF Deliver
<1>2. /\ chunk = <<>> /\ pc \in {"sniff", "recv"} /\ pc' = (IF pc = "sniff" THEN "sniff" ELSE "write")
      /\ UNCHANGED <<reqs, ver, buf, request, resp, body, calls, todo, asyncs, reader, odd>>
  BY DEF Deliver
<1>3. unsent \in Seq(Token) /\ Len(unsent) \in Nat /\ buf \in Seq(Token)
  BY DEF Parsing, Typed
<1>4. chunk' \in Seq(Token) /\ unsent' \in Seq(Token)
  <2>1. (\A i \in 1..n : unsent[i] \in Token) /\ (\A i \in (n + 1)..Len(unsent) : unsent[i] \in Token)
    BY <1>1, <1>3
  <2>2. n \in Int /\ n + 1 \in Int /\ Len(unsent) \in Int
    BY <1>1, <1>3
  <2> QED BY <1>1, <2>1, <2>2, SubSeqProperties
<1>5. chunk' \o unsent' = unsent
  <2>1. 1 \in 1..(Len(unsent) + 1) /\ n \in (1 - 1)..Len(unsent) /\ Len(unsent) \in n..Len(unsent)
    BY <1>1, <1>3
  <2>2. SubSeq(unsent, 1, n) \o SubSeq(unsent, n + 1, Len(unsent)) = SubSeq(unsent, 1, Len(unsent))
    BY <1>3, <2>1, ConcatAdjacentSubSeq
  <2> QED BY <1>1, <1>3, <2>2, SubSeqFull
<1>6. Ahead' = Ahead
  <2>1. Ahead' = buf \o (chunk' \o unsent')
    <3>1. \A s, t, u \in Seq(Token) : (s \o t) \o u = s \o (t \o u)
      BY ConcatAssociative, SMTT(30)
    <3>2. Ahead' = (buf \o chunk') \o unsent'
      BY <1>2 DEF Ahead
    <3> QED BY <1>3, <1>4, <3>1, <3>2
  <2>2. buf \o <<>> = buf
    BY <1>3, ConcatEmptySeq
  <2> QED BY <1>2, <1>5, <2>1, <2>2 DEF Ahead
<1>7. Ordered'
  BY <1>2, <1>6 DEF Parsing, Ordered, Sorted
<1>8. Typed'
  BY <1>2, <1>4 DEF Parsing, Typed
<1>9. Waits'
  BY <1>2 DEF Parsing, Waits, FirstBlank
<1> QED BY <1>6, <1>7, <1>8, <1>9 DEF Parsing

LEMMA WriteMoreParsing ==
  ASSUME Parsing, WriteMore
  PROVE  Parsing' /\ Ahead' = Ahead
<1>1. /\ pc = "write" /\ ~Complete /\ request' = Parsed /\ buf' = Collected /\ chunk' = <<>> /\ pc' = "recv"
      /\ UNCHANGED <<reqs, ver, unsent, resp, body, calls, todo, asyncs, reader, odd>>
  BY DEF WriteMore
<1>2. Collected \in Seq(Token) /\ Ahead = Collected \o unsent /\ Len(Collected) \in Nat
  BY CollectedIs DEF Parsing, Ahead, Collected
<1>3. /\ FirstBlank(Collected, HeaderEnd) /\ HeaderEnd \in Nat /\ Parsed \in Asked
      /\ Parsed.pps = "lengthed" <=> HeaderEnd # 0
  BY <1>1, ParsedIs
<1>4. Ahead' = Ahead
  <2>1. Ahead' = (Collected \o <<>>) \o unsent
    BY <1>1 DEF Ahead
  <2>2. Collected \o <<>> = Collected
    BY <1>2, ConcatEmptySeq
  <2> QED BY <1>2, <2>1, <2>2
<1>5. Ordered'
  BY <1>1, <1>4 DEF Parsing, Ordered, Sorted
<1>6. Typed'
  BY <1>1, <1>2, <1>3 DEF Parsing, Typed
<1>7. Waits'
  <2>1. Parsed.pps \in {"s0", "lengthed"} /\ Parsed.len \in Nat
    BY <1>3 DEF Asked
  <2>2. CASE Parsed.pps = "s0"
    <3>1. FirstBlank(Collected, 0)
      BY <1>3, <2>2
    <3>2. FirstBlank(buf', 0)
      BY <1>1, <3>1
    <3> QED BY <1>1, <2>2, <3>2 DEF Waits, FirstBlank
  <2>3. CASE Parsed.pps = "lengthed"
    <3>1. HeaderEnd \in 1..Len(Collected) /\ Len(Collected) - HeaderEnd < Parsed.len
      BY <1>1, <1>2, <1>3, <2>1, <2>3 DEF Complete, FirstBlank
    <3>2. HeaderEnd \in 1..Len(buf') /\ FirstBlank(buf', HeaderEnd) /\ Len(buf') - HeaderEnd < request'.len
      BY <1>1, <1>3, <3>1
    <3>3. request'.pps # "s0"
      BY <1>1, <2>3
    <3> DEFINE e == HeaderEnd
    <3> HIDE DEF e
    <3>4. \E x \in 1..Len(buf') : FirstBlank(buf', x) /\ Len(buf') - x < request'.len
      BY <3>2
    <3> QED BY <3>3, <3>4 DEF Waits, FirstBlank
  <2> QED BY <2>1, <2>2, <2>3
<1> QED BY <1>4, <1>5, <1>6, <1>7 DEF Parsing

LEMMA WriteDoneParsing ==
  ASSUME Parsing, WriteDone
  PROVE  Parsing'
<1>1. /\ pc = "write" /\ Complete /\ request' = Parsed /\ buf' = <<>> /\ pc' = "call" /\ calls' = calls + 1
      /\ resp' = [resp EXCEPT !.conn = IF ver = "1.1" /\ Parsed.conn = "none" THEN "keep-alive" ELSE Parsed.conn]
      /\ UNCHANGED <<reqs, ver, unsent, todo, asyncs, reader, odd>>
  BY DEF WriteDone
<1>2. Parsed \in Asked /\ Parsed.pps = "lengthed" /\ FirstBlank(Collected, HeaderEnd)
  BY <1>1, ParsedIs DEF Complete
<1> DEFINE m == HeaderEnd + Parsed.len
<1>3. /\ HeaderEnd \in 1..Len(Collected) /\ m \in HeaderEnd..Len(Ahead)
      /\ chunk' \in Seq(Token) /\ body' \in Seq(Token) /\ Ahead' = SubSeq(Ahead, m + 1, Len(Ahead))
  BY RequestCut
<1>4. /\ Ahead \in Seq(Token) /\ Len(Ahead) = Len(Collected) + Len(unsent) /\ Len(unsent) \in Nat /\ Len(Collected) \in Nat
      /\ Ahead[HeaderEnd] = Collected[HeaderEnd]
  BY <1>3, CollectedIs DEF Parsing
<1>5. HeaderEnd \in 1..Len(Ahead) /\ Ahead[HeaderEnd].part = "blank"
  BY <1>2, <1>3, <1>4 DEF FirstBlank
<1>6. Sorted(Ahead, calls) /\ calls \in Nat /\ reqs \in Seq(ReqSet)
  BY <1>1 DEF Parsing, Ordered, Typed
<1> HIDE DEF m
<1>7. calls + 1 \in 0..Len(reqs) /\ Sorted(SubSeq(Ahead, m + 1, Len(Ahead)), calls + 1)
  BY <1>3, <1>4, <1>5, <1>6, SortedCut
<1>8. Ordered'
  BY <1>1, <1>3, <1>7 DEF Ordered, Sorted
<1>9. resp' \in Responses
  <2>1. resp \in Responses /\ Parsed.conn \in Conns
    BY <1>2 DEF Parsing, Typed, Asked
  <2> QED BY <1>1, <2>1 DEF Responses, Conns
<1>10. Typed'
  BY <1>1, <1>2, <1>3, <1>7, <1>9 DEF Parsing, Typed
<1>11. Waits'
  BY <1>1 DEF Waits
<1> QED BY <1>8, <1>10, <1>11 DEF Parsing

\* What a handler may leave.
LEMMA AnswerParsing ==
  ASSUME Parsing, NEW r \in Responses, NEW times \in Nat, Answer(r, times),
         \/ UNCHANGED asyncs
         \/ asyncs' = [started |-> asyncs.started + 1, open |-> asyncs.open + 1]
  PROVE  Parsing'
<1>1. /\ pc = "call" /\ pc' = "send" /\ resp' = r /\ todo' = times
      /\ odd' = (odd \/ Misleads(r, times))
      /\ UNCHANGED <<reqs, ver, unsent, chunk, buf, request, body, calls, reader>>
  BY DEF Answer
<1>2. Ordered'
  <2>1. Ahead' = Ahead
    BY <1>1 DEF Ahead
  <2> QED BY <1>1, <2>1 DEF Parsing, Ordered, Sorted
<1>3. asyncs' \in [started : Nat, open : Nat] /\ asyncs'.open <= asyncs'.started
  BY DEF Parsing, Typed
<1>4. odd' \in BOOLEAN
  BY <1>1
<1>5. Typed'
  BY <1>1, <1>3, <1>4 DEF Parsing, Typed
<1>6. Waits'
  BY <1>1 DEF Waits
<1> QED BY <1>2, <1>5, <1>6 DEF Parsing

LEMMA CallParsing ==
  ASSUME Parsing, Call
  PROVE  Parsing'
<1>1. resp \in Responses
  BY DEF Parsing, Typed
<1>2. \A c \in Codes, l \in Int, v \in Conns : [resp EXCEPT !.code = c, !.length = l, !.conn = v] \in Responses
  BY <1>1 DEF Responses
<1>3. \A c \in Codes : [resp EXCEPT !.code = c] \in Responses
  BY <1>1 DEF Responses
<1>4. 404 \in Codes /\ 0 \in Codes /\ Pages \cup Plain \subseteq Codes /\ MaxPieces \in Nat
  BY HttpAssumption DEF Codes
<1>5. CASE CallMiss
  BY <1>3, <1>4, <1>5, AnswerParsing DEF CallMiss
<1>6. CASE CallCounted
  <2>1. PICK c \in Pages \cup Plain, times \in 0..MaxPieces, stop \in BOOLEAN :
          Answer([resp EXCEPT !.code = c, !.length = times, !.conn = IF stop THEN "close" ELSE @], times)
    BY <1>6 DEF CallCounted
  <2> DEFINE v == IF stop THEN "close" ELSE resp.conn
  <2>2. v \in Conns /\ times \in Nat
    BY <1>1, <1>4 DEF Responses, Conns
  <2>3. [resp EXCEPT !.code = c, !.length = times, !.conn = IF stop THEN "close" ELSE @] = [resp EXCEPT !.code = c, !.length = times, !.conn = v]
    BY <1>1 DEF Responses
  <2> HIDE DEF v
  <2>4. [resp EXCEPT !.code = c, !.length = times, !.conn = v] \in Responses
    <3>1. c \in Codes /\ times \in Int /\ v \in Conns
      BY <1>4, <2>2
    <3> QED BY <1>2, <3>1
  <2> QED BY <1>6, <2>1, <2>2, <2>3, <2>4, AnswerParsing DEF CallCounted
<1>10. CASE CallFile
  <2>3. PICK c \in Pages \cup Plain, length \in -2..MaxPieces :
          \E times \in 0..length \cup {0} : Answer([resp EXCEPT !.code = c, !.length = length], times)
    BY <1>10 DEF CallFile
  <2>4. \A times \in 0..length \cup {0} : times \in Nat
    BY <1>4
  <2>1. PICK times \in Nat : Answer([resp EXCEPT !.code = c, !.length = length], times)
    BY <2>3, <2>4
  <2>2. [resp EXCEPT !.code = c, !.length = length] \in Responses
    <3>1. length \in Int /\ c \in Codes
      BY <1>4
    <3> QED BY <1>1, <3>1 DEF Responses
  <2> QED BY <1>10, <2>1, <2>2, AnswerParsing DEF CallFile
<1>7. CASE CallChunked
  <2>1. PICK c \in Pages \cup Plain, times \in 1..(IF ver = "1.1" THEN MaxPieces ELSE 1) : Answer([resp EXCEPT !.code = c], times)
    BY <1>7 DEF CallChunked
  <2>2. times \in Nat
    BY <1>4
  <2> QED BY <1>3, <1>4, <1>7, <2>1, <2>2, AnswerParsing DEF CallChunked
<1>8. CASE CallBare
  <2>1. PICK c \in Pages \cup Plain : Answer([resp EXCEPT !.code = c], 0)
    BY <1>8 DEF CallBare
  <2> QED BY <1>3, <1>4, <1>8, <2>1, AnswerParsing DEF CallBare
<1>9. CASE CallAsync
  BY <1>3, <1>4, <1>9, AnswerParsing DEF CallAsync
<1> QED BY <1>5, <1>6, <1>7, <1>8, <1>9, <1>10 DEF Call

LEMMA StepParsing == Parsing /\ [Next]_vars => Parsing'
<1> SUFFICES ASSUME Parsing, [Next]_vars PROVE Parsing'
  OBVIOUS
<1>0. /\ request \in Asked /\ resp \in Responses /\ reader \in Readers /\ odd \in BOOLEAN /\ todo \in Nat /\ body \in Seq(Token)
      /\ Answering \in Answers
  <2>1. request \in Asked /\ resp \in Responses /\ reader \in Readers /\ odd \in BOOLEAN /\ todo \in Nat /\ body \in Seq(Token)
    BY DEF Parsing, Typed
  <2>2. \A x \in Responses, y \in Readers : [resp |-> x, reader |-> y] \in Answers
    BY DEF Answers
  <2> QED BY <2>1, <2>2 DEF Answering
<1>1. CASE Deliver
  BY <1>1, DeliverParsing
<1>2. CASE Sniff
  BY <1>0, <1>2, SilentSteps DEF Sniff, Silent, http
<1>3. CASE Sniff505
  <2> DEFINE no == FALSE
  <2>0. 0 \in Int /\ no \in BOOLEAN
    OBVIOUS
  <2>1. reader' = Read(reader, Header(505, 0, no, no))
    BY <1>3 DEF Sniff505
  <2> HIDE DEF no
  <2>2. reader' \in Readers
    BY <1>0, <2>0, <2>1, HeaderType
  <2> QED BY <1>0, <1>3, <2>2, SilentSteps DEF Sniff505, Silent, http
<1>4. CASE WriteBad
  BY <1>0, <1>4, SilentSteps DEF WriteBad, Silent, http
<1>5. CASE WriteMore
  BY <1>5, WriteMoreParsing
<1>6. CASE WriteDone
  BY <1>6, WriteDoneParsing
<1>7. CASE Call
  BY <1>7, CallParsing
<1>8. CASE SendPiece
  <2> DEFINE p == SendData(Answering, 1)
  <2>1. p \in Answers
    BY <1>0, SendType
  <2>2. resp' = p.resp /\ reader' = p.reader /\ todo' = todo - 1 /\ todo > 0 /\ pc = "send"
        /\ UNCHANGED <<reqs, ver, unsent, chunk, buf, request, body, calls, pc, asyncs, odd>>
    BY <1>8 DEF SendPiece
  <2> HIDE DEF p
  <2>3. resp' \in Responses /\ reader' \in Readers /\ todo' \in Nat
    BY <1>0, <2>1, <2>2 DEF Answers
  <2> QED BY <1>0, <2>2, <2>3, SilentSteps DEF Silent
<1>9. CASE RequestFinish
  <2> DEFINE p == Finish(Answering)
  <2>1. p \in Answers
    BY <1>0, SendType
  <2>2. /\ reader' = p.reader /\ pc = "send"
        /\ \/ NextRequest
           \/ resp' = p.resp /\ pc' = "closed" /\ UNCHANGED <<request, body>>
        /\ UNCHANGED <<reqs, ver, unsent, chunk, buf, calls, todo, asyncs, odd>>
    BY <1>9 DEF RequestFinish
  <2> HIDE DEF p
  <2>3. p.resp \in Responses /\ reader' \in Readers
    BY <2>1, <2>2 DEF Answers
  <2>4. NoRequest \in Asked /\ FreshResponse \in Responses /\ <<>> \in Seq(Token)
    BY DEF NoRequest, FreshResponse, Asked, Responses, Conns, Codes
  <2>5. CASE NextRequest
    BY <1>0, <2>2, <2>3, <2>4, <2>5, SilentSteps DEF Silent, NextRequest
  <2>6. CASE resp' = p.resp /\ pc' = "closed" /\ UNCHANGED <<request, body>>
    BY <1>0, <2>2, <2>3, <2>6, SilentSteps DEF Silent
  <2> QED BY <2>2, <2>5, <2>6
<1>10. CASE NotifyIn
  <2>1. PICK c \in {"none", "close"}, l \in 0..1 :
          request' = [request EXCEPT !.head = FALSE, !.conn = c, !.len = IF request.pps = "s0" THEN l ELSE @]
    BY <1>10 DEF NotifyIn
  <2>2. /\ request' \in Asked /\ request'.pps = request.pps /\ (request.pps # "s0" => request'.len = request.len)
    <3> DEFINE n == IF request.pps = "s0" THEN l ELSE request.len
    <3>1. request' = [request EXCEPT !.head = FALSE, !.conn = c, !.len = n]
      BY <1>0, <2>1 DEF Asked
    <3>2. n \in Nat /\ c \in Conns
      BY <1>0 DEF Asked, Conns
    <3> QED BY <1>0, <3>1, <3>2 DEF Asked
  <2> DEFINE a == [Answering EXCEPT !.resp = [@ EXCEPT !.code = 200, !.length = 1]]
             p == SendData(a, 1)
  <2>3. a \in Answers
    <3>1. [resp EXCEPT !.code = 200, !.length = 1] \in Responses
      <4>1. resp \in Responses /\ 1 \in Int /\ 200 \in Codes
        BY <1>0 DEF Codes
      <4> QED BY <4>1, ZenonT(30) DEF Responses
    <3>2. a = [resp |-> [resp EXCEPT !.code = 200, !.length = 1], reader |-> reader]
      BY <1>0 DEF Answering, Answers, Responses
    <3> QED BY <1>0, <3>1, <3>2 DEF Answers
  <2> HIDE DEF a
  <2>4. p \in Answers
    BY <2>3, SendType
  <2>5. /\ (resp' = p.resp /\ reader' = p.reader) \/ UNCHANGED <<resp, reader>>
        /\ pc = "recv" /\ asyncs.open > 0 /\ asyncs' = [asyncs EXCEPT !.open = @ - 1]
        /\ UNCHANGED <<reqs, ver, unsent, chunk, buf, pc, todo, body, calls, odd>>
    BY <1>10 DEF NotifyIn, a
  <2> HIDE DEF p
  <2>6. resp' \in Responses /\ reader' \in Readers
    BY <1>0, <2>4, <2>5 DEF Answers
  <2>7. asyncs' \in [started : Nat, open : Nat] /\ asyncs'.open <= asyncs'.started
    <3>1. asyncs \in [started : Nat, open : Nat] /\ asyncs.open <= asyncs.started
      BY DEF Parsing, Typed
    <3>2. asyncs.open > 0 /\ asyncs' = [asyncs EXCEPT !.open = asyncs.open - 1]
      BY <2>5
    <3> QED BY <3>1, <3>2
  <2>8. Typed'
    BY <2>2, <2>5, <2>6, <2>7 DEF Parsing, Typed
  <2>9. Ordered'
    <3>1. Ahead' = Ahead
      BY <2>5 DEF Ahead
    <3> QED BY <2>5, <3>1 DEF Parsing, Ordered, Sorted
  <2>10. Waits'
    BY <2>2, <2>5 DEF Parsing, Waits, FirstBlank
  <2> QED BY <2>8, <2>9, <2>10 DEF Parsing
<1>11. CASE UNCHANGED vars
  <2>1. UNCHANGED <<reqs, ver, unsent, chunk, buf, request, resp, body, calls, pc, todo, asyncs, reader, odd>>
    BY <1>11 DEF vars, http
  <2>2. Typed'
    BY <2>1 DEF Parsing, Typed
  <2>3. Ahead' = Ahead
    BY <2>1 DEF Ahead
  <2>4. Ordered'
    BY <2>1, <2>3 DEF Parsing, Ordered, Sorted
  <2>5. Waits'
    BY <2>1 DEF Parsing, Waits, FirstBlank
  <2> QED BY <2>2, <2>4, <2>5 DEF Parsing
<1> QED BY <1>1, <1>2, <1>3, <1>4, <1>5, <1>6, <1>7, <1>8, <1>9, <1>10, <1>11 DEF Next, Server

\* The variables keep the values the code gives them, also when an upstream's answer has put the parser out of
\* step: no request is handed to a selector that the client did not send.
THEOREM ConnectionTypeCorrect == Spec => []TypeOK
<1>1. Parsing => TypeOK
  BY DEF Parsing, Typed, TypeOK, Asked, Responses, Readers
<1> QED BY <1>1, InitParsing, StepParsing, PTL DEF Spec

----------------------------------------------------------------------------
(* The bytes a request is parsed from *)

\* A request and what comes after it.
LEMMA StreamParts ==
  ASSUME reqs \in Seq(ReqSet), NEW k \in 1..Len(reqs)
  PROVE  LET s == StreamFrom[k]
             l == reqs[k].len
         IN /\ s \in Seq(Token) /\ l \in Nat /\ 3 + l <= Len(s)
            /\ s[1] = Part(k, "line") /\ s[2] = Part(k, "eol") /\ s[3] = Part(k, "blank")
            /\ \A i \in 1..l : s[3 + i] = Part(k, "body")
            /\ SubSeq(s, 3 + l + 1, Len(s)) = StreamFrom[k + 1]
<1> DEFINE l == reqs[k].len
           a == Tokens(k)
           b == StreamFrom[k + 1]
           s == StreamFrom[k]
<1>1. Len(reqs) \in Nat /\ k \in Nat /\ k + 1 \in 1..(Len(reqs) + 1) /\ k \in 1..(Len(reqs) + 1) /\ ~(k > Len(reqs))
  OBVIOUS
<1>2. s = a \o b /\ s \in Seq(Token) /\ b \in Seq(Token)
  BY <1>1, StreamUnfolds, StreamSorted
<1>3. /\ a \in Seq(Token) /\ Len(a) = 3 + l /\ l \in Nat
      /\ a[1] = Part(k, "line") /\ a[2] = Part(k, "eol") /\ a[3] = Part(k, "blank")
      /\ \A i \in 4..(3 + l) : a[i] = Part(k, "body")
  BY TokensOf
<1> HIDE DEF a, b, s, l
<1>4. /\ Len(a \o b) = Len(a) + Len(b) /\ Len(b) \in Nat
      /\ \A i \in 1..(Len(a) + Len(b)) : (a \o b)[i] = IF i <= Len(a) THEN a[i] ELSE b[i - Len(a)]
  <2>1. a \in Seq(Token) /\ b \in Seq(Token) /\ Len(b) \in Nat
    BY <1>2, <1>3
  <2>2. Len(a \o b) = Len(a) + Len(b)
    BY <2>1, ConcatProperties
  <2>3. \A i \in 1..(Len(a) + Len(b)) : (a \o b)[i] = IF i <= Len(a) THEN a[i] ELSE b[i - Len(a)]
    BY <2>1, ConcatProperties
  <2> QED BY <2>1, <2>2, <2>3
<1>5. 3 + l <= Len(s) /\ \A i \in 1..(3 + l) : s[i] = a[i]
  <2>1. 3 + l <= Len(s)
    BY <1>2, <1>3, <1>4
  <2>2. ASSUME NEW i \in 1..(3 + l) PROVE s[i] = a[i]
    <3>1. i \in 1..(Len(a) + Len(b)) /\ i <= Len(a)
      BY <1>3, <1>4
    <3> QED BY <1>2, <1>4, <3>1
  <2> QED BY <2>1, <2>2
<1>6. s[1] = Part(k, "line") /\ s[2] = Part(k, "eol") /\ s[3] = Part(k, "blank")
  <2>1. 1 \in 1..(3 + l) /\ 2 \in 1..(3 + l) /\ 3 \in 1..(3 + l)
    BY <1>3
  <2> QED BY <1>3, <1>5, <2>1
<1>7. \A i \in 1..l : s[3 + i] = Part(k, "body")
  <2> TAKE i \in 1..l
  <2>1. 3 + i \in 4..(3 + l) /\ 3 + i \in 1..(3 + l)
    BY <1>3
  <2> QED BY <1>3, <1>5, <2>1
<1>8. SubSeq(s, 3 + l + 1, Len(s)) = b
  <2> DEFINE m == 3 + l
  <2>1. m = Len(a) /\ m \in Len(a)..(Len(a) + Len(b)) /\ m - Len(a) + 1 = 1
    BY <1>3, <1>4
  <2> HIDE DEF m
  <2>2. SubSeq(b, m - Len(a) + 1, Len(b)) = SubSeq(a \o b, m + 1, Len(a \o b))
    BY <1>2, <1>3, <2>1, TailOfConcat
  <2>3. SubSeq(b, 1, Len(b)) = b
    BY <1>2, SubSeqFull
  <2> QED BY <1>2, <2>1, <2>2, <2>3 DEF m
<1> QED BY <1>2, <1>3, <1>5, <1>6, <1>7, <1>8 DEF a, b, s, l

\* A request is waited for; a request is answered.
Awaiting == pc \in {"sniff", "recv", "write"}
Handling == pc \in {"call", "send"}
\* What has not been read is the requests that were not called.
Unread == pc # "closed" => Ahead = StreamFrom[calls + 1]
\* The fields are those of request k.
HeaderIs(k) == k \in 1..Len(reqs) /\ request.len = reqs[k].len /\ request.head = reqs[k].head
Own ==
  Plainly =>
    /\ Unread
    /\ Awaiting => request = NoRequest \/ HeaderIs(calls + 1)
    /\ Handling => HeaderIs(calls) /\ \A i \in 1..request.len : body[i] = Part(calls, "body")

\* The header that is found is that of the next request, three tokens long.
LEMMA HeaderFound ==
  ASSUME Parsing, Own, Plainly, pc = "write", HeaderEnd # 0
  PROVE  /\ calls + 1 \in 1..Len(reqs) /\ HeaderEnd = 3 /\ Collected[1].req = calls + 1
         /\ Parsed.len = reqs[calls + 1].len /\ Parsed.head = reqs[calls + 1].head
<1> DEFINE k == calls + 1
           s == StreamFrom[k]
<1>1. Typed /\ reqs \in Seq(ReqSet) /\ calls \in 0..Len(reqs) /\ Len(reqs) \in Nat
  BY DEF Parsing, Typed
<1>2. k \in 1..(Len(reqs) + 1) /\ k \in Nat
  BY <1>1
<1>3. Ahead = s
  BY DEF Own, Unread
<1>4. /\ FirstBlank(Collected, HeaderEnd) /\ HeaderEnd \in Nat
      /\ Collected \in Seq(Token) /\ Len(Collected) \in Nat /\ Len(unsent) \in Nat /\ Len(Ahead) = Len(Collected) + Len(unsent)
      /\ \A i \in 1..Len(Collected) : Ahead[i] = Collected[i]
  BY <1>1, ParsedIs, CollectedIs
<1>5. HeaderEnd \in 1..Len(Collected)
  BY <1>4 DEF FirstBlank
<1>6. k \in 1..Len(reqs)
  <2> SUFFICES ASSUME k > Len(reqs) PROVE FALSE
    BY <1>1, <1>2
  <2>1. s = <<>>
    BY <1>1, <1>2, StreamUnfolds
  <2> QED BY <1>3, <1>4, <1>5, <2>1
<1>7. s[1] = Part(k, "line") /\ s[2] = Part(k, "eol") /\ s[3] = Part(k, "blank")
  BY <1>1, <1>6, StreamParts
<1> HIDE DEF s
<1>8. \A i \in 1..HeaderEnd : Collected[i] = s[i]
  BY <1>3, <1>4, <1>5
<1>9. s[1].part # "blank" /\ s[2].part # "blank" /\ s[3].part = "blank" /\ s[1].req = k
  BY <1>7 DEF Part
<1>10. HeaderEnd = 3
  <2>1. Collected[HeaderEnd].part = "blank" /\ \A i \in 1..Len(Collected) : i < HeaderEnd => Collected[i].part # "blank"
    BY <1>4, <1>5 DEF FirstBlank
  <2>2. HeaderEnd # 1 /\ HeaderEnd # 2
    <3>1. Collected[HeaderEnd] = s[HeaderEnd]
      BY <1>5, <1>8
    <3> QED BY <1>9, <2>1, <3>1
  <2>3. ~(3 < HeaderEnd)
    <3> SUFFICES ASSUME 3 < HeaderEnd PROVE FALSE
      OBVIOUS
    <3>1. 3 \in 1..HeaderEnd /\ 3 \in 1..Len(Collected)
      BY <1>4, <1>5
    <3>2. Collected[3] = s[3]
      BY <1>8, <3>1
    <3> QED BY <1>9, <2>1, <3>1, <3>2
  <2> QED BY <1>5, <2>2, <2>3
<1>11. Collected[1].req = k
  <2>1. 1 \in 1..HeaderEnd
    BY <1>10
  <2> QED BY <1>8, <1>9, <2>1
<1>12. Sent = reqs[k]
  BY <1>11 DEF Sent
<1>13. Parsed.len = reqs[k].len /\ Parsed.head = reqs[k].head
  <2>1. request = NoRequest \/ HeaderIs(k)
    BY DEF Own, Awaiting
  <2>2. CASE request.pps = "lengthed"
    <3>1. Parsed = request /\ request # NoRequest
      BY <2>2 DEF Parsed, NoRequest
    <3> QED BY <2>1, <3>1 DEF HeaderIs
  <2>3. CASE request.pps # "lengthed"
    <3>0. request.pps = "s0"
      BY <1>1, <2>3 DEF Typed, Asked
    <3>1. Parsed = [pps  |-> "lengthed", head |-> reqs[k].head,
                    conn |-> IF reqs[k].conn = "none" THEN request.conn ELSE reqs[k].conn,
                    len  |-> IF reqs[k].len = 0 THEN request.len ELSE reqs[k].len]
      BY <1>12, <2>3 DEF Parsed
    <3>2. request = NoRequest \/ request.len = reqs[k].len
      BY <2>1 DEF HeaderIs
    <3>3. request.len = 0 \/ request.len = reqs[k].len
      BY <3>2 DEF NoRequest
    <3> QED BY <3>1, <3>3
  <2> QED BY <2>2, <2>3
<1> QED BY <1>6, <1>10, <1>11, <1>13

LEMMA WriteMoreOwn ==
  ASSUME Parsing, Own, WriteMore
  PROVE  Own'
<1> SUFFICES ASSUME Plainly' PROVE Own'
  BY DEF Own
<1>1. /\ pc = "write" /\ request' = Parsed /\ pc' = "recv"
      /\ UNCHANGED <<reqs, ver, unsent, resp, body, calls, todo, asyncs, reader, odd>>
  BY DEF WriteMore
<1>2. Plainly /\ Unread
  BY <1>1 DEF Plainly, Own
<1>3. UNCHANGED StreamFrom
  BY <1>1 DEF StreamFrom, Tokens
<1>4. Ahead' = StreamFrom'[calls' + 1]
  BY <1>1, <1>2, <1>3, WriteMoreParsing DEF Unread
<1>5. Unread'
  BY <1>4 DEF Unread
<1>6. request' = NoRequest \/ HeaderIs(calls + 1)'
  <2>1. CASE HeaderEnd = 0
    <3>1. Parsed = request /\ request.pps # "lengthed"
      BY <1>1, <2>1, ParsedIs DEF Parsed
    <3>2. request = NoRequest \/ HeaderIs(calls + 1)
      BY <1>1, <1>2 DEF Own, Awaiting
    <3> QED BY <1>1, <3>1, <3>2 DEF HeaderIs
  <2>2. CASE HeaderEnd # 0
    <3>1. calls + 1 \in 1..Len(reqs) /\ Parsed.len = reqs[calls + 1].len /\ Parsed.head = reqs[calls + 1].head
      BY <1>1, <1>2, <2>2, HeaderFound
    <3> QED BY <1>1, <3>1 DEF HeaderIs
  <2> QED BY <2>1, <2>2
<1>7. (request' = NoRequest \/ HeaderIs(calls + 1)') /\ ~Handling'
  BY <1>1, <1>6 DEF Handling
<1> QED BY <1>5, <1>7 DEF Own

LEMMA WriteDoneOwn ==
  ASSUME Parsing, Own, WriteDone
  PROVE  Own'
<1> SUFFICES ASSUME Plainly' PROVE Own'
  BY DEF Own
<1> DEFINE k == calls + 1
           l == reqs[k].len
<1>1. /\ pc = "write" /\ Complete /\ request' = Parsed /\ pc' = "call" /\ calls' = k
      /\ UNCHANGED <<reqs, ver, unsent, todo, asyncs, reader, odd>>
  BY DEF WriteDone
<1>2. Plainly /\ Ahead = StreamFrom[k] /\ Typed /\ reqs \in Seq(ReqSet)
  BY <1>1 DEF Plainly, Own, Unread, Parsing, Typed
<1>3. HeaderEnd # 0 /\ Len(Collected) - HeaderEnd >= Parsed.len /\ Len(Collected) \in Nat
  BY <1>1, <1>2, ParsedIs, CollectedIs DEF Complete
<1>4. k \in 1..Len(reqs) /\ HeaderEnd = 3 /\ Parsed.len = l /\ Parsed.head = reqs[k].head
  BY <1>1, <1>2, <1>3, HeaderFound
<1>5. /\ l \in Nat /\ \A i \in 1..l : StreamFrom[k][3 + i] = Part(k, "body")
      /\ SubSeq(StreamFrom[k], 3 + l + 1, Len(StreamFrom[k])) = StreamFrom[k + 1]
  BY <1>2, <1>4, StreamParts
<1>6. /\ \A i \in 1..(Len(Collected) - HeaderEnd) : body'[i] = Collected[HeaderEnd + i]
      /\ Ahead' = SubSeq(Ahead, HeaderEnd + Parsed.len + 1, Len(Ahead))
  BY RequestCut
<1>7. \A i \in 1..Len(Collected) : Ahead[i] = Collected[i]
  BY <1>2, CollectedIs
<1> HIDE DEF l
<1>8. Ahead' = StreamFrom[k + 1]
  BY <1>2, <1>4, <1>5, <1>6
<1>9. UNCHANGED StreamFrom
  BY <1>1 DEF StreamFrom, Tokens
<1>10. Unread'
  BY <1>1, <1>8, <1>9 DEF Unread
<1>11. \A i \in 1..l : body'[i] = Part(k, "body")
  <2> TAKE i \in 1..l
  <2>1. i \in 1..(Len(Collected) - HeaderEnd) /\ HeaderEnd + i \in 1..Len(Collected) /\ HeaderEnd + i = 3 + i
    BY <1>3, <1>4, <1>5
  <2>2. body'[i] = Ahead[3 + i]
    BY <1>6, <1>7, <2>1
  <2> QED BY <1>2, <1>5, <2>2
<1>12. HeaderIs(calls)' /\ \A i \in 1..request'.len : body'[i] = Part(calls', "body")
  BY <1>1, <1>4, <1>11 DEF HeaderIs, l
<1>13. ~Awaiting'
  BY <1>1 DEF Awaiting
<1> QED BY <1>10, <1>12, <1>13 DEF Own

\* Steps that read nothing from the client.
LEMMA SilentOwn ==
  ASSUME Own, Plainly, Silent, pc # "closed",
         \/ pc' = "closed"
         \/ UNCHANGED <<request, body>> /\ (Awaiting' => Awaiting) /\ (Handling' => Handling)
         \/ request' = NoRequest /\ Awaiting'
  PROVE  Own'
<1>1. UNCHANGED <<reqs, StreamFrom, Ahead, calls>>
  BY DEF Silent, StreamFrom, Tokens, Ahead
<1>2. Ahead = StreamFrom[calls + 1]
  BY DEF Own, Unread
<1>3. Unread'
  BY <1>1, <1>2 DEF Unread
<1>4. CASE pc' = "closed"
  BY <1>3, <1>4 DEF Own, Awaiting, Handling
<1>5. CASE UNCHANGED <<request, body>> /\ (Awaiting' => Awaiting) /\ (Handling' => Handling)
  <2>1. Awaiting' => request' = NoRequest \/ HeaderIs(calls + 1)'
    BY <1>1, <1>5 DEF Own, HeaderIs
  <2>2. Handling' => HeaderIs(calls)' /\ \A i \in 1..request'.len : body'[i] = Part(calls', "body")
    BY <1>1, <1>5 DEF Own, HeaderIs
  <2> QED BY <1>3, <2>1, <2>2 DEF Own
<1>6. CASE request' = NoRequest /\ Awaiting'
  <2>1. ~Handling'
    BY <1>6 DEF Awaiting, Handling
  <2> QED BY <1>3, <1>6, <2>1 DEF Own
<1> QED BY <1>4, <1>5, <1>6

LEMMA InitOwn == Init => Own
<1> SUFFICES ASSUME Init PROVE Own
  OBVIOUS
<1>1. Parsing
  BY InitParsing
<1>2. reqs \in Seq(ReqSet) /\ Len(reqs) \in Nat
  BY <1>1 DEF Parsing, Typed
<1>3. StreamFrom[1] \in Seq(Token)
  <2>1. 1 \in 1..(Len(reqs) + 1)
    BY <1>2
  <2> QED BY <1>2, <2>1, StreamSorted
<1>4. Ahead = StreamFrom[1]
  <2>1. <<>> \o <<>> = <<>>
    OBVIOUS
  <2>2. <<>> \o StreamFrom[1] = StreamFrom[1]
    BY <1>3, ConcatEmptySeq
  <2> QED BY <2>1, <2>2 DEF Init, Ahead
<1>5. calls + 1 = 1 /\ request = NoRequest /\ pc = "sniff"
  BY DEF Init
<1> QED BY <1>4, <1>5 DEF Own, Unread, Awaiting, Handling

LEMMA StepOwn == Parsing /\ Own /\ [Next]_vars => Own'
<1> SUFFICES ASSUME Parsing, Own, [Next]_vars, Plainly' PROVE Own'
  BY DEF Own
<1>1. CASE Deliver
  <2>1. /\ pc \in {"sniff", "recv"} /\ pc' \in {"sniff", "write"}
        /\ UNCHANGED <<reqs, ver, buf, request, resp, body, calls, todo, asyncs, reader, odd>>
    BY <1>1 DEF Deliver
  <2>2. Plainly /\ Awaiting /\ ~Handling' /\ pc # "closed"
    BY <2>1 DEF Plainly, Awaiting, Handling
  <2>3. UNCHANGED <<StreamFrom, Ahead, calls>>
    BY <1>1, <2>1, DeliverParsing DEF StreamFrom, Tokens
  <2>4. Unread'
    BY <2>2, <2>3 DEF Own, Unread
  <2>5. request' = NoRequest \/ HeaderIs(calls + 1)'
    BY <2>1, <2>2 DEF Own, HeaderIs
  <2> QED BY <2>2, <2>4, <2>5 DEF Own
<1>2. CASE Sniff \/ Sniff505 \/ WriteBad
  <2>1. Silent /\ Plainly /\ pc # "closed" /\ UNCHANGED <<request, body>> /\ (pc' = "closed" \/ (Awaiting /\ ~Handling'))
    BY <1>2 DEF Sniff, Sniff505, WriteBad, Silent, http, Plainly, Awaiting, Handling
  <2> QED BY <2>1, SilentOwn
<1>3. CASE WriteMore
  BY <1>3, WriteMoreOwn
<1>4. CASE WriteDone
  BY <1>4, WriteDoneOwn
<1>5. CASE Call
  <2>1. /\ \E r, times : Answer(r, times)
        /\ \/ UNCHANGED asyncs
           \/ asyncs' = [started |-> asyncs.started + 1, open |-> asyncs.open + 1]
    BY <1>5 DEF Call, CallMiss, CallCounted, CallFile, CallChunked, CallBare, CallAsync
  <2>2. UNCHANGED asyncs
    <3>1. asyncs.started + 1 # 0
      BY DEF Parsing, Typed
    <3> QED BY <2>1, <3>1 DEF Plainly
  <2>3. Silent /\ Plainly /\ pc = "call" /\ pc' = "send" /\ UNCHANGED <<request, body>>
    BY <2>1, <2>2 DEF Answer, Silent, Plainly
  <2> QED BY <2>3, SilentOwn DEF Awaiting, Handling
<1>6. CASE SendPiece
  <2>1. Silent /\ Plainly /\ pc = "send" /\ pc' = "send" /\ UNCHANGED <<request, body>>
    BY <1>6 DEF SendPiece, Silent, Plainly
  <2> QED BY <2>1, SilentOwn DEF Awaiting, Handling
<1>7. CASE RequestFinish
  <2>1. /\ Silent /\ Plainly /\ pc = "send"
        /\ \/ NextRequest
           \/ pc' = "closed"
    BY <1>7 DEF RequestFinish, Silent, Plainly
  <2> QED BY <2>1, SilentOwn DEF NextRequest, Awaiting
<1>8. CASE NotifyIn
  <2>1. asyncs.open > 0 /\ asyncs.open <= asyncs.started /\ asyncs \in [started : Nat, open : Nat]
        /\ asyncs' = [asyncs EXCEPT !.open = @ - 1]
    BY <1>8 DEF NotifyIn, Parsing, Typed
  <2>2. asyncs'.started # 0
    BY <2>1
  <2> QED BY <2>2 DEF Plainly
<1>9. CASE UNCHANGED vars
  <2>1. UNCHANGED <<reqs, ver, unsent, chunk, buf, request, body, calls, pc, asyncs>>
    BY <1>9 DEF vars, http
  <2>2. UNCHANGED <<Plainly, StreamFrom, Ahead, Awaiting, Handling>>
    BY <2>1 DEF Plainly, StreamFrom, Tokens, Ahead, Awaiting, Handling
  <2>3. Unread'
    BY <2>1, <2>2 DEF Own, Unread
  <2>4. Awaiting' => request' = NoRequest \/ HeaderIs(calls + 1)'
    BY <2>1, <2>2 DEF Own, HeaderIs
  <2>5. Handling' => HeaderIs(calls)' /\ \A i \in 1..request'.len : body'[i] = Part(calls', "body")
    BY <2>1, <2>2 DEF Own, HeaderIs
  <2> QED BY <2>3, <2>4, <2>5 DEF Own
<1> QED BY <1>1, <1>2, <1>3, <1>4, <1>5, <1>6, <1>7, <1>8, <1>9 DEF Next, Server

\* However the bytes are cut, for every list of requests and every Content-Length, a
\* request is parsed from its own bytes and the next one begins where it ends.
THEOREM RequestsCutRight == Spec => []Boundaries
<1>1. Own => Boundaries
  BY DEF Own, Boundaries, Unread, Ahead, Handling, HeaderIs
<1> QED BY <1>1, InitParsing, StepParsing, InitOwn, StepOwn, PTL DEF Spec

----------------------------------------------------------------------------
(* What the client reads *)

\* A client that has read n answers and waits for the next.
At(d, n) == d.at = "header" /\ d.left = 0 /\ d.done = n
\* The header of an answer r is out and n bytes of it are still to come.
HeaderOut(r, d, n) ==
  /\ d.keep = Persists(r.conn)
  /\ \/ r.ss = "nobody" /\ ~r.chunked /\ At(d, calls)
     \/ r.ss = "need_body" /\ r.chunked /\ d.at = "chunks" /\ d.left = 0 /\ d.done = calls - 1
     \/ r.ss = "need_body" /\ r.chunked /\ d.at = "stream" /\ ~KeepsAlive(r)
     \/ r.ss = "need_body" /\ ~r.chunked /\ n = 0 /\ At(d, calls)
     \/ r.ss = "need_body" /\ ~r.chunked /\ n > 0 /\ d.at = "body" /\ d.left = n /\ d.done = calls - 1
\* A request is being answered by a handler that keeps the rules of HTTP.
Underway ==
  /\ resp.code \in Pages \cup Plain
  /\ resp.ss = "0" => At(reader, calls - 1) /\ ~resp.chunked /\ ~Misleads(resp, todo)
  /\ resp.ss # "0" => HeaderOut(resp, reader, todo)
Framing ==
  Plainly /\ ~odd =>
    /\ Awaiting => At(reader, calls) /\ reader.keep /\ resp = FreshResponse
    /\ pc = "call" => At(reader, calls - 1) /\ reader.keep /\ resp = [FreshResponse EXCEPT !.conn = resp.conn]
    /\ pc = "send" => Underway
    /\ pc = "closed" => reader.at \in {"header", "stream"} /\ (~reader.keep \/ \E k \in DOMAIN reqs : k = calls + 1 /\ ~reqs[k].ok)

\* After send_header the client waits for exactly what the handler still sends.
LEMMA HeaderLeavesOut ==
  ASSUME Parsing, Own, Framing, Plainly, ~odd, pc = "send"
  PROVE  LET q == SendHeaderOnce(Answering) IN
         /\ q \in Answers /\ HeaderOut(q.resp, q.reader, todo)
         /\ q.resp.code = resp.code /\ q.resp.length = resp.length /\ q.resp.conn = resp.conn
<1> DEFINE q == SendHeaderOnce(Answering)
           keep == Persists(resp.conn)
<1>1. /\ resp \in Responses /\ reader \in Readers /\ todo \in Nat /\ Answering \in Answers
      /\ calls \in Nat /\ Answering.resp = resp /\ Answering.reader = reader
  <2>1. resp \in Responses /\ reader \in Readers /\ todo \in Nat /\ calls \in Nat
    BY DEF Parsing, Typed
  <2>2. \A x \in Responses, y \in Readers : [resp |-> x, reader |-> y] \in Answers
    BY DEF Answers
  <2> QED BY <2>1, <2>2 DEF Answering
<1>2. q \in Answers
  BY <1>1, SendType
<1>3. Underway /\ calls \in 1..Len(reqs) /\ request.head = reqs[calls].head /\ request.head \in BOOLEAN
  BY DEF Framing, Own, Handling, HeaderIs, Parsing, Typed, Asked
<1>4. keep \in BOOLEAN /\ resp.length \in Int /\ resp.chunked \in BOOLEAN
  BY <1>1 DEF Persists, Responses
<1>5. CASE resp.ss # "0"
  <2>1. q = Answering
    BY <1>1, <1>5 DEF SendHeaderOnce
  <2> QED BY <1>1, <1>3, <1>5, <2>1 DEF Underway
<1>6. CASE resp.ss = "0"
  <2> DEFINE d == calls - 1
  <2> DEFINE empty == request.head \/ NoContent(resp.code)
             streamed == ver = "1.0" /\ KeepsAlive(resp)
  <2>1. At(reader, d) /\ ~resp.chunked /\ ~Misleads(resp, todo) /\ resp.code \in Pages \cup Plain
    BY <1>3, <1>6 DEF Underway
  <2>2. d + 1 = calls /\ d \in Nat
    BY <1>3
  <2>3. q = SendHeader(Answering)
    BY <1>1, <1>6 DEF SendHeaderOnce
  <2>4. \A u : u.code = resp.code => (Bodiless(reader.done + 1, u) <=> empty)
    BY <1>1, <1>3, <2>1, <2>2 DEF Bodiless, At
  <2>7. /\ ~Interim(resp.code)
        /\ resp.code \in Pages => ~empty
        /\ resp.code \notin Pages /\ empty => resp.length # -1 /\ (request.head \/ ~(todo > 0))
        /\ resp.code \notin Pages /\ ~empty => resp.length = todo \/ (resp.length = -1 /\ ~streamed)
    BY <2>1 DEF Misleads
  <2> HIDE DEF q, keep, d, empty, streamed
  <2>5. CASE resp.code \in Pages
    <3> DEFINE no == FALSE
               u == Header(resp.code, PageLen, no, keep)
               h == Read(reader, u)
    <3>0. PageLen \in Int /\ PageLen > 0 /\ PageLen \in Nat /\ no \in BOOLEAN /\ ~no
      BY DEF PageLen
    <3>1. u.code = resp.code
      BY DEF Header
    <3>2. ~Bodiless(reader.done + 1, u)
      BY <2>4, <2>5, <2>7, <3>1
    <3>3. h \in Readers /\ h.keep = keep /\ h.at = "body" /\ h.done = d /\ h.left = PageLen
      <4> HIDE DEF no
      <4>1. Takes(reader, u, h) /\ u.code = resp.code /\ u.length = PageLen /\ u.chunked = no /\ u.keep = keep
        BY <1>1, <1>4, <3>0, ReadHeader
      <4> HIDE DEF h, u
      <4> QED BY <2>1, <2>7, <3>0, <3>2, <4>1 DEF At, Takes
    <3>4. SendHeader(Answering) = [resp |-> [resp EXCEPT !.ss = "nobody"], reader |-> Read(h, Bytes(no, PageLen))]
      BY <1>1, <2>5 DEF SendHeader, keep
    <3> HIDE DEF h, u, no
    <3>5. Read(h, Bytes(no, PageLen)) = [h EXCEPT !.left = 0, !.at = "header", !.done = h.done + 1]
      BY <3>0, <3>3, ReadBytes
    <3>6. At(q.reader, calls) /\ q.reader.keep = keep
      <4>1. q.reader = [h EXCEPT !.left = 0, !.at = "header", !.done = h.done + 1]
        BY <2>3, <3>4, <3>5
      <4>2. q.reader.left = 0 /\ q.reader.at = "header" /\ q.reader.done = h.done + 1 /\ q.reader.keep = h.keep
        BY <3>3, <4>1 DEF Readers
      <4> QED BY <2>2, <3>3, <4>2 DEF At
    <3>7. q.resp = [resp EXCEPT !.ss = "nobody"]
      BY <2>3, <3>4
    <3>8. q.resp.ss = "nobody" /\ q.resp.conn = resp.conn /\ ~q.resp.chunked /\ q.resp.code = resp.code /\ q.resp.length = resp.length
      BY <1>1, <2>1, <3>7 DEF Responses
    <3> QED BY <1>2, <3>6, <3>8 DEF HeaderOut, q, keep
  <2>6. CASE resp.code \notin Pages
    <3> DEFINE c == resp.chunked \/ resp.length = -1
               u == Header(resp.code, resp.length, c, keep)
               h == Read(reader, u)
    <3>1. u.code = resp.code
      BY DEF Header
    <3>2. Bodiless(reader.done + 1, u) <=> empty
      BY <2>4, <3>1
    <3>3. c \in BOOLEAN /\ (c <=> resp.length = -1)
      BY <1>4, <2>1
    <3>4. /\ SendHeader(Answering).resp = [resp EXCEPT !.ss = IF request.head THEN "nobody" ELSE "need_body", !.chunked = c]
          /\ SendHeader(Answering).reader = h
      BY <1>1, <2>6 DEF SendHeader, keep
    <3> HIDE DEF c
    <3>5. /\ h \in Readers /\ h.keep = keep
          /\ empty \/ resp.length = 0 => h.at = "header" /\ h.done = d + 1 /\ h.left = 0
          /\ ~(empty \/ resp.length = 0) /\ c =>
               h.at = (IF ver = "1.0" THEN "stream" ELSE "chunks") /\ h.done = d /\ h.left = 0
          /\ ~(empty \/ resp.length = 0) /\ ~c /\ resp.length > 0 =>
               h.at = "body" /\ h.done = d /\ h.left = resp.length
      <4>1. reader.at = "header" /\ reader.left = 0 /\ reader.done = d /\ ~Interim(resp.code)
        BY <2>1, <2>7 DEF At
      <4>2. Takes(reader, u, h) /\ u.code = resp.code /\ u.length = resp.length /\ u.chunked = c /\ u.keep = keep
        BY <1>1, <1>4, <3>3, ReadHeader
      <4> HIDE DEF h, u
      <4> QED BY <3>2, <4>1, <4>2 DEF Takes
    <3> HIDE DEF h, u
    <3>6. /\ q.resp.ss = (IF request.head THEN "nobody" ELSE "need_body") /\ q.resp.chunked = c
          /\ q.resp.conn = resp.conn /\ q.resp.code = resp.code /\ q.resp.length = resp.length /\ q.reader = h
      BY <1>1, <2>3, <3>4 DEF Responses
    <3>7. empty => ~c /\ (request.head \/ todo = 0)
      BY <1>1, <2>6, <2>7, <3>3
    <3>8. HeaderOut(q.resp, q.reader, todo)
      <4>0. request.head => empty
        BY DEF empty
      <4>1. CASE request.head
        BY <2>2, <3>5, <3>6, <3>7, <4>0, <4>1 DEF HeaderOut, At, keep
      <4>2. CASE empty /\ ~request.head
        BY <2>2, <3>5, <3>6, <3>7, <4>2 DEF HeaderOut, At, keep
      <4>3. CASE ~empty /\ c /\ ver = "1.0"
        <5>1. resp.length # 0 /\ ~KeepsAlive(resp)
          BY <1>1, <2>6, <2>7, <3>3, <4>3 DEF streamed
        <5>2. ~KeepsAlive(q.resp)
          BY <3>6, <5>1 DEF KeepsAlive
        <5> QED BY <3>5, <3>6, <4>0, <4>3, <5>1, <5>2 DEF HeaderOut, keep
      <4>4. CASE ~empty /\ c /\ ver # "1.0"
        <5>1. resp.length # 0
          BY <3>3, <4>4
        <5> QED BY <3>5, <3>6, <4>0, <4>4, <5>1 DEF HeaderOut, keep, d
      <4>5. CASE ~empty /\ ~c
        <5>1. resp.length = todo
          BY <2>6, <2>7, <3>3, <4>5
        <5>2. todo = 0 \/ todo > 0
          BY <1>1
        <5> QED BY <1>1, <2>2, <3>5, <3>6, <4>0, <4>5, <5>1, <5>2 DEF HeaderOut, At, keep, d
      <4> QED BY <4>1, <4>2, <4>3, <4>4, <4>5
    <3> QED BY <1>2, <3>6, <3>8 DEF q
  <2> QED BY <2>5, <2>6
<1> QED BY <1>5, <1>6

LEMMA SendPieceFraming ==
  ASSUME Parsing, Own, Framing, Plainly, ~odd, SendPiece
  PROVE  Framing'
<1> DEFINE q == SendHeaderOnce(Answering)
           p == SendData(Answering, 1)
<1>1. /\ pc = "send" /\ todo > 0 /\ todo' = todo - 1 /\ resp' = p.resp /\ reader' = p.reader
      /\ UNCHANGED <<reqs, ver, unsent, chunk, buf, request, body, calls, pc, asyncs, odd>>
  BY DEF SendPiece
<1>2. /\ q \in Answers /\ HeaderOut(q.resp, q.reader, todo) /\ todo \in Nat
      /\ q.resp.code = resp.code /\ q.resp.length = resp.length /\ q.resp.conn = resp.conn
  BY <1>1, HeaderLeavesOut DEF Parsing, Typed
<1>3. p = IF q.resp.ss # "need_body" THEN q ELSE [q EXCEPT !.reader = Read(q.reader, Bytes(q.resp.chunked, 1))]
  BY <1>2 DEF SendData, Answers
<1> HIDE DEF p, q
<1>4. /\ p.resp = q.resp /\ q.resp \in Responses /\ q.reader \in Readers
      /\ p.reader = IF q.resp.ss # "need_body" THEN q.reader ELSE Read(q.reader, Bytes(q.resp.chunked, 1))
  BY <1>2, <1>3 DEF Answers
<1>5. HeaderOut(q.resp, p.reader, todo - 1)
  <2> DEFINE r == q.resp
             d == q.reader
  <2>0. r.chunked \in BOOLEAN /\ 1 \in Nat
    BY <1>4 DEF Responses
  <2> HIDE DEF r, d
  <2>1. CASE r.ss # "need_body"
    BY <1>2, <1>4, <2>1 DEF HeaderOut, r, d
  <2>2. CASE r.ss = "need_body" /\ r.chunked
    <3>1. d.at \in {"chunks", "stream"} /\ d \in Readers
      BY <1>2, <1>4, <2>2 DEF HeaderOut, r, d
    <3>2. Read(d, Bytes(r.chunked, 1)) = d
      BY <2>0, <2>2, <3>1, ReadBytes
    <3> QED BY <1>2, <1>4, <2>2, <3>2 DEF HeaderOut, r, d
  <2>3. CASE r.ss = "need_body" /\ ~r.chunked
    <3>1. d.at = "body" /\ d.left = todo /\ d.done = calls - 1 /\ d \in Readers /\ d.keep = Persists(r.conn)
      BY <1>1, <1>2, <1>4, <2>3 DEF HeaderOut, r, d
    <3>2. CASE todo = 1
      <4>1. Read(d, Bytes(r.chunked, 1)) = [d EXCEPT !.left = 0, !.at = "header", !.done = d.done + 1]
        BY <2>0, <2>3, <3>1, <3>2, ReadBytes
      <4>2. p.reader = [d EXCEPT !.left = 0, !.at = "header", !.done = d.done + 1]
        BY <1>4, <2>3, <4>1 DEF r, d
      <4>3. p.reader.left = 0 /\ p.reader.at = "header" /\ p.reader.done = d.done + 1 /\ p.reader.keep = d.keep
        BY <3>1, <4>2 DEF Readers
      <4>4. todo - 1 = 0 /\ calls - 1 + 1 = calls
        BY <3>2 DEF Parsing, Typed
      <4> QED BY <2>3, <3>1, <4>3, <4>4 DEF HeaderOut, At, r
    <3>3. CASE todo > 1
      <4>1. Read(d, Bytes(r.chunked, 1)) = [d EXCEPT !.left = d.left - 1]
        BY <2>0, <2>3, <3>1, <3>3, ReadBytes
      <4>2. p.reader = [d EXCEPT !.left = d.left - 1]
        BY <1>4, <2>3, <4>1 DEF r, d
      <4>3. p.reader.left = todo - 1 /\ p.reader.at = "body" /\ p.reader.done = d.done /\ p.reader.keep = d.keep
        BY <3>1, <4>2 DEF Readers
      <4>4. todo - 1 > 0
        BY <1>2, <3>3
      <4> QED BY <2>3, <3>1, <4>3, <4>4 DEF HeaderOut, r
    <3> QED BY <1>1, <1>2, <3>2, <3>3
  <2> QED BY <2>1, <2>2, <2>3
<1>6. resp' = q.resp /\ reader' = p.reader
  BY <1>1, <1>4
<1>7. HeaderOut(resp, reader, todo)'
  BY <1>1, <1>5, <1>6 DEF HeaderOut, At, Persists, KeepsAlive
<1>8. resp'.ss # "0"
  BY <1>2, <1>6 DEF HeaderOut
<1>9. resp'.code \in Pages \cup Plain
  BY <1>1, <1>2, <1>6 DEF Framing, Underway
<1>10. Underway'
  BY <1>7, <1>8, <1>9 DEF Underway
<1> QED BY <1>1, <1>10 DEF Framing, Awaiting

LEMMA RequestFinishFraming ==
  ASSUME Parsing, Own, Framing, Plainly, ~odd, RequestFinish
  PROVE  Framing'
<1> DEFINE q == SendHeaderOnce(Answering)
           p == Finish(Answering)
<1>1. /\ pc = "send" /\ todo = 0 /\ reader' = p.reader
      /\ IF KeepsAlive(resp) THEN NextRequest ELSE resp' = p.resp /\ pc' = "closed" /\ UNCHANGED <<request, body>>
      /\ UNCHANGED <<reqs, ver, unsent, chunk, buf, calls, todo, asyncs, odd>>
  BY DEF RequestFinish
<1>2. q \in Answers /\ HeaderOut(q.resp, q.reader, 0) /\ q.resp.conn = resp.conn
  BY <1>1, HeaderLeavesOut
<1>3. p = IF q.resp.chunked THEN [q EXCEPT !.reader = Read(q.reader, LastChunk)] ELSE q
  BY <1>2 DEF Finish, Answers
<1> HIDE DEF p, q
<1>4. /\ q.reader \in Readers /\ q.reader.keep = Persists(resp.conn)
      /\ p.reader = IF q.resp.chunked THEN Read(q.reader, LastChunk) ELSE q.reader
  BY <1>2, <1>3 DEF Answers, HeaderOut
<1>6. KeepsAlive(resp) <=> Persists(resp.conn)
  BY DEF KeepsAlive, Persists
<1>5. /\ p.reader.keep = Persists(resp.conn)
      /\ At(p.reader, calls) \/ (p.reader.at = "stream" /\ ~KeepsAlive(resp))
  <2>3. CASE q.resp.chunked /\ q.reader.at = "stream"
    <3>1. ~KeepsAlive(resp)
      BY <1>2, <2>3 DEF HeaderOut, At, KeepsAlive
    <3>2. Read(q.reader, LastChunk) = q.reader
      BY <1>4, <2>3, ReadLast
    <3> QED BY <1>4, <2>3, <3>1, <3>2
  <2>1. CASE q.resp.chunked /\ q.reader.at # "stream"
    <3>1. q.reader.at = "chunks" /\ q.reader.left = 0 /\ q.reader.done = calls - 1
      BY <1>2, <2>1 DEF HeaderOut
    <3>2. Read(q.reader, LastChunk) = [q.reader EXCEPT !.at = "header", !.done = q.reader.done + 1]
      BY <1>4, <3>1, ReadLast
    <3>3. p.reader.at = "header" /\ p.reader.left = 0 /\ p.reader.done = q.reader.done + 1 /\ p.reader.keep = q.reader.keep
      BY <1>4, <2>1, <3>1, <3>2 DEF Readers
    <3>4. calls - 1 + 1 = calls
      BY DEF Parsing, Typed
    <3> QED BY <1>4, <3>1, <3>3, <3>4 DEF At
  <2>2. CASE ~q.resp.chunked
    BY <1>2, <1>4, <2>2 DEF HeaderOut
  <2> QED BY <2>1, <2>2, <2>3
<1>7. CASE KeepsAlive(resp)
  <2>1. resp' = FreshResponse /\ pc' \in {"recv", "write"}
    BY <1>1, <1>7 DEF NextRequest
  <2>2. At(reader, calls)' /\ reader'.keep
    BY <1>1, <1>5, <1>6, <1>7 DEF At
  <2> QED BY <2>1, <2>2 DEF Framing
<1>8. CASE ~KeepsAlive(resp)
  <2>1. pc' = "closed" /\ reader'.at \in {"header", "stream"} /\ ~reader'.keep
    BY <1>1, <1>5, <1>6, <1>8 DEF At
  <2> QED BY <2>1 DEF Framing, Awaiting
<1> QED BY <1>7, <1>8

\* What a handler that keeps the rules leaves.
LEMMA AnswerFraming ==
  ASSUME Framing, Plainly, ~odd, NEW r, NEW times, Answer(r, times), ~odd',
         r.ss = "0", ~r.chunked, r.code \in Pages \cup Plain
  PROVE  Framing'
<1>1. /\ pc = "call" /\ pc' = "send" /\ resp' = r /\ todo' = times
      /\ odd' = (odd \/ Misleads(r, times))
      /\ UNCHANGED <<reqs, ver, request, calls, reader>>
  BY DEF Answer
<1>2. At(reader, calls - 1)' /\ ~Misleads(resp, todo)'
  BY <1>1 DEF Framing, At, Misleads, KeepsAlive
<1>3. Underway'
  BY <1>1, <1>2 DEF Underway
<1> QED BY <1>1, <1>3 DEF Framing, Awaiting

LEMMA CallFraming ==
  ASSUME Parsing, Framing, Plainly', ~odd', Plainly, ~odd, Call
  PROVE  Framing'
<1>1. pc = "call"
  BY DEF Call, CallMiss, CallCounted, CallFile, CallChunked, CallBare, CallAsync, Answer
<1>2. resp \in Responses /\ resp.ss = "0" /\ ~resp.chunked /\ resp.length = -1
  <2>1. resp = [FreshResponse EXCEPT !.conn = resp.conn]
    BY <1>1 DEF Framing
  <2> QED BY <2>1 DEF FreshResponse, Parsing, Typed
<1>3. \A c : LET r == [resp EXCEPT !.code = c] IN r.ss = "0" /\ ~r.chunked /\ r.code = c
  BY <1>2 DEF Responses
<1>4. CASE CallMiss
  <2>1. 404 \in Pages \cup Plain
    BY HttpAssumption
  <2> DEFINE r == [resp EXCEPT !.code = 404]
  <2>2. r.ss = "0" /\ ~r.chunked /\ r.code \in Pages \cup Plain
    BY <1>3, <2>1
  <2>3. Answer(r, 0)
    BY <1>4 DEF CallMiss
  <2> HIDE DEF r
  <2> QED BY <2>2, <2>3, AnswerFraming
<1>5. CASE CallCounted
  <2>1. PICK c \in Pages \cup Plain, times \in 0..MaxPieces, stop \in BOOLEAN :
          Answer([resp EXCEPT !.code = c, !.length = times, !.conn = IF stop THEN "close" ELSE @], times)
    BY <1>5 DEF CallCounted
  <2> DEFINE r == [resp EXCEPT !.code = c, !.length = times, !.conn = IF stop THEN "close" ELSE @]
  <2>2. r.ss = "0" /\ ~r.chunked /\ r.code = c
    BY <1>2 DEF Responses
  <2> HIDE DEF r
  <2>3. Answer(r, times)
    BY <2>1 DEF r
  <2> QED BY <2>1, <2>2, <2>3, AnswerFraming
<1>9. CASE CallFile
  <2>1. PICK c \in Pages \cup Plain, length \in -2..MaxPieces :
          \E times \in 0..length \cup {0} : Answer([resp EXCEPT !.code = c, !.length = length], times)
    BY <1>9 DEF CallFile
  <2>2. PICK times : Answer([resp EXCEPT !.code = c, !.length = length], times)
    BY <2>1
  <2> DEFINE r == [resp EXCEPT !.code = c, !.length = length]
  <2>3. r.ss = "0" /\ ~r.chunked /\ r.code = c
    BY <1>2 DEF Responses
  <2> HIDE DEF r
  <2>4. Answer(r, times)
    BY <2>2 DEF r
  <2> QED BY <2>1, <2>3, <2>4, AnswerFraming
<1>6. CASE CallChunked
  <2>1. PICK c \in Pages \cup Plain, times \in 1..(IF ver = "1.1" THEN MaxPieces ELSE 1) : Answer([resp EXCEPT !.code = c], times)
    BY <1>6 DEF CallChunked
  <2> QED BY <1>3, <2>1, AnswerFraming
<1>7. CASE CallBare
  <2>1. PICK c \in Pages \cup Plain : Answer([resp EXCEPT !.code = c], 0)
    BY <1>7 DEF CallBare
  <2> QED BY <1>3, <2>1, AnswerFraming
<1>8. CASE CallAsync
  <2>1. asyncs.started \in Nat /\ asyncs'.started = asyncs.started + 1
    BY <1>8 DEF CallAsync, Parsing, Typed
  <2> QED BY <2>1 DEF Plainly
<1> QED BY <1>4, <1>5, <1>6, <1>7, <1>8, <1>9 DEF Call

LEMMA StepFraming == Parsing /\ Own /\ Framing /\ [Next]_vars => Framing'
<1> SUFFICES ASSUME Parsing, Own, Framing, [Next]_vars, Plainly', ~odd' PROVE Framing'
  BY DEF Framing
<1>0. Plainly /\ ~odd
  <2>1. asyncs.started \in Nat /\ asyncs.open \in Nat
    BY DEF Parsing, Typed
  <2>2. CASE Call
    <3>1. (\E r, times : Answer(r, times))
          /\ (UNCHANGED asyncs \/ asyncs' = [started |-> asyncs.started + 1, open |-> asyncs.open + 1])
      BY <2>2 DEF Call, CallMiss, CallCounted, CallFile, CallChunked, CallBare, CallAsync
    <3>3. ~odd
      BY <3>1 DEF Answer
    <3>4. Plainly
      BY <2>1, <3>1 DEF Plainly
    <3> QED BY <3>3, <3>4
  <2>3. CASE NotifyIn
    <3>1. asyncs \in [started : Nat, open : Nat] /\ asyncs' = [asyncs EXCEPT !.open = @ - 1] /\ odd' = odd
      BY <2>3 DEF NotifyIn, Parsing, Typed
    <3> QED BY <3>1 DEF Plainly
  <2>4. CASE ~Call /\ ~NotifyIn
    <3>1. UNCHANGED <<asyncs, odd>>
      BY <2>4 DEF Next, Server, Deliver, Sniff, Sniff505, WriteBad, WriteMore, WriteDone, SendPiece, RequestFinish, vars
    <3> QED BY <3>1 DEF Plainly
  <2> QED BY <2>2, <2>3, <2>4
<1>1. CASE Deliver \/ Sniff \/ WriteMore
  <2>1. Awaiting /\ Awaiting' /\ UNCHANGED <<reqs, ver, calls, reader, resp>>
    BY <1>1 DEF Deliver, Sniff, WriteMore, Awaiting, http
  <2>2. At(reader, calls)' /\ reader'.keep /\ resp' = FreshResponse
    BY <1>0, <2>1 DEF Framing, At
  <2>3. pc' \notin {"call", "send", "closed"}
    BY <2>1 DEF Awaiting
  <2> QED BY <2>2, <2>3 DEF Framing
<1>2. CASE Sniff505
  <2> DEFINE no == FALSE
  <2>0. 0 \in Int /\ no \in BOOLEAN /\ reader \in Readers /\ ~no
    BY DEF Parsing, Typed
  <2>1. pc = "sniff" /\ pc' = "closed" /\ reader' = Read(reader, Header(505, 0, no, no))
    BY <1>2 DEF Sniff505
  <2> HIDE DEF no
  <2>2. reader.at = "header"
    BY <1>0, <2>1 DEF Framing, Awaiting, At
  <2>3. reader'.at = "header" /\ reader'.keep = no
    <3>1. ~Interim(505)
      BY DEF Interim
    <3> DEFINE u == Header(505, 0, no, no)
    <3>2. Takes(reader, u, reader') /\ u.code = 505 /\ u.length = 0 /\ u.keep = no
      BY <2>0, <2>1, ReadHeader
    <3> HIDE DEF u
    <3> QED BY <2>2, <3>1, <3>2 DEF Takes
  <2> QED BY <2>0, <2>1, <2>3 DEF Framing, Awaiting
<1>3. CASE WriteBad
  <2>1. pc = "write" /\ pc' = "closed" /\ HeaderEnd # 0 /\ ~Sent.ok /\ UNCHANGED <<reqs, ver, http, reader>>
    BY <1>3 DEF WriteBad
  <2>2. calls + 1 \in 1..Len(reqs) /\ Collected[1].req = calls + 1
    BY <1>0, <2>1, HeaderFound
  <2>3. calls + 1 \in DOMAIN reqs /\ ~reqs[calls + 1].ok
    <3>1. reqs \in Seq(ReqSet)
      BY DEF Parsing, Typed
    <3> QED BY <2>1, <2>2, <3>1 DEF Sent
  <2>4. reader.at = "header"
    BY <1>0, <2>1 DEF Framing, Awaiting, At
  <2> QED BY <2>1, <2>3, <2>4 DEF Framing, Awaiting, http
<1>4. CASE WriteDone
  <2>1. /\ pc = "write" /\ pc' = "call" /\ calls' = calls + 1 /\ UNCHANGED <<reqs, ver, reader>>
        /\ resp' = [resp EXCEPT !.conn = IF ver = "1.1" /\ Parsed.conn = "none" THEN "keep-alive" ELSE Parsed.conn]
    BY <1>4 DEF WriteDone
  <2>2. At(reader, calls) /\ reader.keep /\ resp = FreshResponse
    BY <1>0, <2>1 DEF Framing, Awaiting
  <2>3. resp' = [FreshResponse EXCEPT !.conn = resp'.conn]
    BY <2>1, <2>2 DEF FreshResponse
  <2>4. calls' - 1 = calls
    BY <2>1 DEF Parsing, Typed
  <2>5. At(reader, calls - 1)' /\ reader'.keep
    BY <2>1, <2>2, <2>4 DEF At
  <2> QED BY <2>1, <2>3, <2>5 DEF Framing, Awaiting
<1>5. CASE Call
  BY <1>0, <1>5, CallFraming
<1>6. CASE SendPiece
  BY <1>0, <1>6, SendPieceFraming
<1>7. CASE RequestFinish
  BY <1>0, <1>7, RequestFinishFraming
<1>8. CASE NotifyIn
  <2>1. asyncs.open > 0 /\ asyncs.open <= asyncs.started /\ asyncs \in [started : Nat, open : Nat]
    BY <1>8 DEF NotifyIn, Parsing, Typed
  <2> QED BY <1>0, <2>1 DEF Plainly
<1>9. CASE UNCHANGED vars
  <2>1. UNCHANGED <<reqs, ver, request, resp, calls, pc, todo, asyncs, reader, odd>>
    BY <1>9 DEF vars, http
  <2> QED BY <2>1 DEF Framing, Plainly, Underway, HeaderOut, At, Awaiting, Misleads, KeepsAlive, Persists
<1> QED BY <1>1, <1>2, <1>3, <1>4, <1>5, <1>6, <1>7, <1>8, <1>9 DEF Next, Server

LEMMA InitFraming == Init => Framing
BY DEF Init, Framing, Awaiting, At, FreshReader, FreshResponse

\* For every mix of status codes, lengths and pieces a client that keeps the framing rules
\* has read one whole answer for each request that was handed to a selector, up to the first
\* answer of Misleads: a file sent in part, a body where there may be none.
THEOREM ClientKeepsPlace == Spec => []WellFramed
<1>1. Parsing /\ Framing => WellFramed
  <2> SUFFICES ASSUME Parsing, Framing, Plainly, ~odd
               PROVE  reader.at # "broken" /\ (Awaiting => reader.at = "header" /\ reader.done = calls)
    BY DEF WellFramed, Awaiting
  <2> QED BY DEF Parsing, Typed, Framing, Awaiting, At, Underway, HeaderOut
<1> QED BY <1>1, InitParsing, StepParsing, InitOwn, StepOwn, InitFraming, StepFraming, PTL DEF Spec

\* The connection is closed exactly after an answer that said so, or after a line that is
\* no request line.
THEOREM KeepAliveKept == Spec => []KeepAliveAnnounced
<1>1. Framing => KeepAliveAnnounced
  BY DEF Framing, KeepAliveAnnounced, Awaiting
<1> QED BY <1>1, InitParsing, StepParsing, InitOwn, StepOwn, InitFraming, StepFraming, PTL DEF Spec

-----------------------------------------------------------------------------
(* The request cache *)

\* s holds the bytes 1 to n.
Holds(s, n) == Len(s) = n /\ \A i \in 1..n : s[i] = i

\* Without faults everything that arrived is in the one place data will look at.
Stored == ~faults => Holds(IF fd = -1 THEN static ELSE file, arrived)

\* Between length and data the total is what is stored, and nothing is mapped.
Measured ==
  /\ stage # "idle" => mapped = -1
  /\ (stage = "data" /\ fd # 0) => total = Len(IF fd = -1 THEN static ELSE file)

CacheInv == CacheTypeOK /\ Stored /\ Measured /\ MappingCurrent /\ GivenAll

\* Appending the next n bytes to the bytes 1 to a gives the bytes 1 to a + n.
LEMMA AppendChunk ==
  ASSUME NEW a \in Nat, NEW n \in Nat, NEW s \in Seq(Nat), Holds(s, a)
  PROVE  Holds(s \o [i \in 1..n |-> a + i], a + n)
<1> DEFINE c == [i \in 1..n |-> a + i]
<1>1. c \in Seq(Nat) /\ Len(c) = n /\ \A i \in 1..n : c[i] = a + i
  OBVIOUS
<1> HIDE DEF c
<1>2. Len(s \o c) = a + n
  BY <1>1 DEF Holds
<1>3. ASSUME NEW i \in 1..(a + n) PROVE (s \o c)[i] = i
  BY <1>1 DEF Holds
<1> QED BY <1>2, <1>3 DEF Holds, c

\* A chunk is a sequence of bytes.
LEMMA ChunkType ==
  ASSUME NEW n \in Nat, arrived \in Nat
  PROVE  Chunk(n) \in Seq(Nat) /\ Len(Chunk(n)) = n
BY DEF Chunk

\* However write(2) goes, the file holds bytes; if it takes everything, it holds the chunk.
LEMMA WriteTwiceType ==
  ASSUME NEW f \in Seq(Nat), NEW s \in Seq(Nat),
         NEW r1 \in -1..Len(s), NEW r2 \in -1..(Len(s) - r1)
  PROVE  /\ WriteTwice(f, s, r1, r2) \in Seq(Nat)
         /\ r1 = Len(s) => WriteTwice(f, s, r1, r2) = f \o s
<1>1. ASSUME NEW g \in Seq(Nat), NEW t \in Seq(Nat), NEW r \in -1..Len(t)
      PROVE  Written(g, t, r) \in Seq(Nat) /\ (r = Len(t) => Written(g, t, r) = g \o t)
  <2>1. CASE r = -1
    BY <2>1 DEF Written
  <2>2. CASE r # -1
    <3>1. SubSeq(t, 1, r) \in Seq(Nat)
      BY <2>2
    <3>2. r = Len(t) => SubSeq(t, 1, r) = t
      BY <2>2
    <3>3. Written(g, t, r) = g \o SubSeq(t, 1, r)
      BY <2>2 DEF Written
    <3>4. g \o SubSeq(t, 1, r) \in Seq(Nat)
      BY <3>1
    <3> QED BY <3>2, <3>3, <3>4
  <2> QED BY <2>1, <2>2
<1>2. Rest(s, r1) \in Seq(Nat) /\ r2 \in -1..Len(Rest(s, r1))
  <2>1. CASE r1 = -1
    <3>1. <<Junk>> \in Seq(Nat) /\ Len(<<Junk>>) = 1
      BY DEF Junk
    <3> QED BY <2>1, <3>1 DEF Rest
  <2>2. CASE r1 # -1
    BY <2>2 DEF Rest
  <2> QED BY <2>1, <2>2
<1> QED BY <1>1, <1>2 DEF WriteTwice

LEMMA EmptySequence == <<>> \in Seq(Nat) /\ Len(<<>>) = 0
OBVIOUS

LEMMA InitIInv == CacheInit => CacheInv
<1> SUFFICES ASSUME CacheInit PROVE CacheInv
  OBVIOUS
<1>1. CacheTypeOK
  <2>1. static \in Seq(Nat) /\ Len(static) <= Cap /\ file \in Seq(Nat) /\ given \in Seq(Nat)
    BY FCacheAssumption, EmptySequence DEF CacheInit
  <2>2. arrived \in 0..MaxBytes /\ fd \in Fds \cup {-1} /\ mapped \in Nat \cup {-1}
    BY FCacheAssumption DEF CacheInit
  <2> QED BY <2>1, <2>2 DEF CacheInit, CacheTypeOK
<1>2. Stored /\ GivenAll
  BY EmptySequence DEF CacheInit, Stored, GivenAll, Holds
<1> QED BY <1>1, <1>2 DEF CacheInit, CacheInv, Measured, MappingCurrent

\* What every kind of write does to the bookkeeping.
LEMMA BeginStep ==
  ASSUME CacheInv, NEW n \in 1..MaxChunk, Begin(n)
  PROVE  /\ n \in Nat /\ arrived \in Nat /\ arrived' = arrived + n /\ arrived' \in 0..MaxBytes
         /\ stage' = "length" /\ mapped' = -1 /\ mlen' \in Nat
         /\ total' \in Nat /\ given' \in Seq(Nat)
BY FCacheAssumption DEF CacheInv, CacheTypeOK, Begin, Unmap

\* The rest of the invariant follows from the place where the bytes are kept.
LEMMA AfterWrite ==
  ASSUME CacheInv, NEW n \in 1..MaxChunk, Begin(n),
         static' \in Seq(Nat), Len(static') <= Cap, file' \in Seq(Nat),
         fd' \in Fds \cup {-1}, faults' \in BOOLEAN, Stored'
  PROVE  CacheInv'
<1> USE BeginStep
<1>1. CacheTypeOK'
  BY DEF CacheTypeOK
<1>2. Measured' /\ MappingCurrent' /\ GivenAll'
  BY DEF Measured, MappingCurrent, GivenAll
<1> QED BY <1>1, <1>2 DEF CacheInv

LEMMA WriteIInv ==
  ASSUME CacheInv, NEW n \in 1..MaxChunk
  PROVE  /\ WriteStatic(n) => CacheInv'
         /\ SpillFails(n) => CacheInv'
         /\ Spill(n) => CacheInv'
         /\ WriteFile(n) => CacheInv'
<1>0. /\ n \in Nat /\ arrived \in Nat
      /\ Cap \in Nat /\ Fds \subseteq Nat
      /\ static \in Seq(Nat) /\ Len(static) <= Cap /\ file \in Seq(Nat)
      /\ fd \in Fds \cup {-1} /\ faults \in BOOLEAN /\ Stored
  BY FCacheAssumption DEF CacheInv, CacheTypeOK
<1>1. ASSUME WriteStatic(n) PROVE CacheInv'
  <2>1. static' \in Seq(Nat) /\ Len(static') <= Cap
    BY <1>0, <1>1, ChunkType DEF WriteStatic
  <2>2. Stored'
    BY <1>0, <1>1, AppendChunk, BeginStep DEF WriteStatic, Stored, Chunk
  <2> QED BY <1>0, <1>1, <2>1, <2>2, AfterWrite DEF WriteStatic
<1>2. ASSUME SpillFails(n) PROVE CacheInv'
  <2>1. Stored'
    BY <1>2 DEF SpillFails, Stored
  <2> QED BY <1>0, <1>2, <2>1, AfterWrite DEF SpillFails, store
<1>3. ASSUME Spill(n) PROVE CacheInv'
  <2>1. PICK r0 \in -1..Len(static), r1 \in -1..n :
          \E r2 \in -1..(n - r1) :
            /\ file' = WriteTwice(Written(<<>>, static, r0), Chunk(n), r1, r2)
            /\ faults' = (faults \/ r0 # Len(static) \/ r1 # n)
    BY <1>3 DEF Spill
  <2>2. PICK r2 \in -1..(n - r1) :
            /\ file' = WriteTwice(Written(<<>>, static, r0), Chunk(n), r1, r2)
            /\ faults' = (faults \/ r0 # Len(static) \/ r1 # n)
    BY <2>1
  <2>3. /\ Written(<<>>, static, r0) \in Seq(Nat)
        /\ r0 = Len(static) => Written(<<>>, static, r0) = static
    <3>1. CASE r0 = -1
      BY <1>0, <3>1 DEF Written
    <3>2. CASE r0 # -1
      <4>1. SubSeq(static, 1, r0) \in Seq(Nat)
        BY <1>0, <3>2
      <4>2. r0 = Len(static) => SubSeq(static, 1, r0) = static
        BY <1>0, <3>2
      <4> QED BY <1>0, <3>2, <4>1, <4>2 DEF Written
    <3> QED BY <3>1, <3>2
  <2>4. file' \in Seq(Nat)
    BY <1>0, <2>2, <2>3, ChunkType, WriteTwiceType
  <2>5. Stored'
    <3> SUFFICES ASSUME ~faults' PROVE Holds(file', arrived')
      BY <1>0, <1>3 DEF Stored, Spill
    <3>1. ~faults /\ r0 = Len(static) /\ r1 = n
      BY <2>2
    <3>2. file' = static \o Chunk(n)
      <4>1. /\ Chunk(n) \in Seq(Nat) /\ r1 = Len(Chunk(n))
            /\ r1 \in -1..Len(Chunk(n)) /\ r2 \in -1..(Len(Chunk(n)) - r1)
        BY <1>0, <3>1, ChunkType
      <4>2. WriteTwice(static, Chunk(n), r1, r2) = static \o Chunk(n)
        BY <1>0, <4>1, WriteTwiceType
      <4> QED BY <2>2, <2>3, <3>1, <4>2
    <3>3. Holds(static, arrived) /\ arrived' = arrived + n
      BY <1>0, <1>3, <3>1, BeginStep DEF Stored, Spill
    <3> QED BY <1>0, <3>2, <3>3, AppendChunk DEF Chunk
  <2> QED BY <1>0, <1>3, <2>2, <2>4, <2>5, AfterWrite DEF Spill
<1>4. ASSUME WriteFile(n) PROVE CacheInv'
  <2>1. PICK r1 \in -1..n : \E r2 \in -1..(n - r1) :
            /\ file' = WriteTwice(file, Chunk(n), r1, r2)
            /\ faults' = (faults \/ r1 # n)
    BY <1>4 DEF WriteFile
  <2>2. PICK r2 \in -1..(n - r1) :
            /\ file' = WriteTwice(file, Chunk(n), r1, r2)
            /\ faults' = (faults \/ r1 # n)
    BY <2>1
  <2>3. file' \in Seq(Nat)
    BY <1>0, <2>2, ChunkType, WriteTwiceType
  <2>4. Stored'
    <3> SUFFICES ASSUME ~faults' PROVE Holds(file', arrived')
      BY <1>0, <1>4 DEF Stored, WriteFile
    <3>1. ~faults /\ r1 = n
      BY <2>2
    <3>2. file' = file \o Chunk(n)
      BY <1>0, <2>2, <3>1, ChunkType, WriteTwiceType
    <3>3. Holds(file, arrived) /\ arrived' = arrived + n
      BY <1>0, <1>4, <3>1, BeginStep DEF Stored, WriteFile
    <3> QED BY <1>0, <3>2, <3>3, AppendChunk DEF Chunk
  <2> QED BY <1>0, <1>4, <2>2, <2>3, <2>4, AfterWrite DEF WriteFile
<1> QED BY <1>1, <1>2, <1>3, <1>4

LEMMA LengthIInv ==
  ASSUME CacheInv, Length
  PROVE  CacheInv'
<1>1. CacheTypeOK'
  BY FCacheAssumption DEF CacheInv, CacheTypeOK, Length, store
<1>2. Stored' /\ GivenAll'
  BY DEF CacheInv, Stored, GivenAll, Length, store
<1>3. Measured' /\ MappingCurrent'
  BY FCacheAssumption DEF CacheInv, CacheTypeOK, Measured, MappingCurrent, Length, store
<1> QED BY <1>1, <1>2, <1>3 DEF CacheInv

\* The first total bytes of s are s itself if it is total bytes long.
LEMMA VisibleAll ==
  ASSUME NEW s \in Seq(Nat), total \in Nat
  PROVE  /\ Visible(s) \in Seq(Nat) /\ Len(Visible(s)) = total
         /\ \A i \in 1..total : i <= Len(s) => Visible(s)[i] = s[i]
<1>1. ASSUME NEW i \in 1..total
      PROVE  (IF i <= Len(s) THEN s[i] ELSE Junk) \in Nat
  BY DEF Junk
<1> QED BY <1>1 DEF Visible

LEMMA DataIInv ==
  ASSUME CacheInv, Data
  PROVE  CacheInv'
<1>0. /\ total \in Nat /\ static \in Seq(Nat) /\ file \in Seq(Nat)
      /\ fd \in Fds \cup {-1} /\ Fds \subseteq Nat /\ arrived \in Nat
      /\ mapped = -1 /\ stage = "data"
  BY FCacheAssumption DEF CacheInv, CacheTypeOK, Measured, Data
<1>1. given' = Visible(IF fd = -1 THEN static ELSE file)
  BY <1>0 DEF Data
<1>2. /\ given' \in Seq(Nat) /\ Len(given') = total
      /\ \A i \in 1..total : i <= Len(IF fd = -1 THEN static ELSE file)
                               => given'[i] = (IF fd = -1 THEN static ELSE file)[i]
  BY <1>0, <1>1, VisibleAll
<1>3. CacheTypeOK'
  BY <1>0, <1>2 DEF CacheInv, CacheTypeOK, Data, store
<1>4. Stored'
  BY DEF CacheInv, Stored, Data, store
<1>5. Measured' /\ MappingCurrent'
  BY <1>0 DEF Measured, MappingCurrent, Data, store
<1>6. GivenAll'
  <2> SUFFICES ASSUME ~faults, fd # 0
               PROVE  Len(given') = arrived /\ \A i \in 1..arrived : given'[i] = i
    BY DEF GivenAll, Data, store
  <2>1. Holds(IF fd = -1 THEN static ELSE file, arrived)
    BY DEF CacheInv, Stored
  <2>2. total = arrived
    BY <1>0, <2>1 DEF CacheInv, Measured, Holds
  <2> DEFINE s == IF fd = -1 THEN static ELSE file
  <2>3. s \in Seq(Nat) /\ Len(s) = arrived /\ \A i \in 1..arrived : s[i] = i
    BY <1>0, <2>1 DEF Holds
  <2>4. Len(given') = total /\ \A i \in 1..total : i <= Len(s) => given'[i] = s[i]
    BY <1>2
  <2> HIDE DEF s
  <2> QED BY <1>0, <2>2, <2>3, <2>4
<1> QED BY <1>3, <1>4, <1>5, <1>6 DEF CacheInv

LEMMA ResetIInv ==
  ASSUME CacheInv, Reset
  PROVE  CacheInv'
<1>1. CacheTypeOK'
  <2>1. /\ static' \in Seq(Nat) /\ Len(static') <= Cap
        /\ file' \in Seq(Nat) /\ given' \in Seq(Nat)
    BY FCacheAssumption, EmptySequence DEF Reset
  <2>2. arrived' \in 0..MaxBytes /\ fd' \in Fds \cup {-1} /\ mapped' \in Nat \cup {-1}
    BY FCacheAssumption DEF Reset
  <2> QED BY <2>1, <2>2 DEF Reset, CacheTypeOK
<1>2. Stored' /\ GivenAll'
  BY EmptySequence DEF Stored, GivenAll, Holds, Reset
<1> QED BY <1>1, <1>2 DEF CacheInv, Measured, MappingCurrent, Reset

LEMMA StutterIInv ==
  ASSUME CacheInv, UNCHANGED cacheVars
  PROVE  CacheInv'
BY DEF CacheInv, CacheTypeOK, Stored, Measured, MappingCurrent, GivenAll, cacheVars, store

LEMMA NextIInv ==
  ASSUME CacheInv, [CacheNext]_cacheVars
  PROVE  CacheInv'
<1>1. ASSUME Write PROVE CacheInv'
  BY <1>1, WriteIInv DEF Write
<1> QED BY <1>1, LengthIInv, DataIInv, ResetIInv, StutterIInv DEF CacheNext

\* The invariant holds in every reachable state.
THEOREM CacheInvHolds == CacheSpec => []CacheInv
BY InitIInv, NextIInv, PTL DEF CacheSpec

\* The values of the variables.
THEOREM CacheTypeCorrect == CacheSpec => []CacheTypeOK
<1>1. CacheInv => CacheTypeOK
  BY DEF CacheInv
<1> QED BY <1>1, CacheInvHolds, PTL

\* Whatever the sizes of buffer and chunks, parse is given exactly the bytes that have
\* arrived, in the buffer and in the file, unless a system call failed or the file got
\* descriptor 0.
THEOREM ParserSeesRequest == CacheSpec => []GivenAll
<1>1. CacheInv => GivenAll
  BY DEF CacheInv
<1> QED BY <1>1, CacheInvHolds, PTL

\* The mapping that is read and the length that is unmapped are those of the file as it
\* is, even when system calls fail.
THEOREM MappingNeverStale == CacheSpec => []MappingCurrent
<1>1. CacheInv => MappingCurrent
  BY DEF CacheInv
<1> QED BY <1>1, CacheInvHolds, PTL

----------------------------------------------------------------------------
(* InOrder *)

NoJunk(s) == \A i \in DOMAIN s : s[i] # Junk

\* Bytes of the first a, in their order.
Increasing(s, a) == \A i \in DOMAIN s : s[i] \in 1..a /\ \A j \in 1..(i - 1) : s[j] < s[i]

\* What is stored is in order, unless the retry after an error has put junk into the file.
StoredInOrder ==
  /\ fd = -1 => Increasing(static, arrived)
  /\ fd # -1 /\ NoJunk(file) => Increasing(file, arrived)

\* The bytes that follow the first a.
Follows(s, a) == \A i \in DOMAIN s : s[i] = a + i

LEMMA Appended ==
  ASSUME NEW f \in Seq(Nat), NEW a \in Nat, Increasing(f, a), NEW s \in Seq(Nat), Follows(s, a)
  PROVE  Increasing(f \o s, a + Len(s))
<1>0. /\ f \o s \in Seq(Nat) /\ Len(f \o s) = Len(f) + Len(s) /\ Len(f) \in Nat /\ Len(s) \in Nat
      /\ DOMAIN f = 1..Len(f) /\ DOMAIN s = 1..Len(s) /\ DOMAIN (f \o s) = 1..Len(f) + Len(s)
  OBVIOUS
<1>1. /\ \A i \in 1..Len(f) : (f \o s)[i] = f[i] /\ f[i] \in 1..a
      /\ \A i \in Len(f) + 1..Len(f) + Len(s) : (f \o s)[i] = a + (i - Len(f))
  <2>1. ASSUME NEW i \in 1..Len(f) PROVE (f \o s)[i] = f[i] /\ f[i] \in 1..a
    <3>1. (f \o s)[i] = f[i]
      BY <1>0, ConcatProperties
    <3>2. f[i] \in 1..a
      BY <1>0 DEF Increasing
    <3> QED BY <3>1, <3>2
  <2>2. ASSUME NEW i \in Len(f) + 1..Len(f) + Len(s) PROVE (f \o s)[i] = a + (i - Len(f))
    <3>1. (f \o s)[i] = s[i - Len(f)] /\ i - Len(f) \in 1..Len(s)
      BY <1>0
    <3> QED BY <1>0, <3>1 DEF Follows
  <2> QED BY <2>1, <2>2
<1>2. ASSUME NEW i \in 1..Len(f) + Len(s)
      PROVE  (f \o s)[i] \in 1..a + Len(s) /\ \A j \in 1..(i - 1) : (f \o s)[j] < (f \o s)[i]
  <2>1. CASE i <= Len(f)
    <3>1. \A j \in 1..(i - 1) : f[j] < f[i]
      BY <1>2, <2>1 DEF Increasing
    <3> QED BY <1>0, <1>1, <1>2, <2>1, <3>1
  <2>2. CASE i > Len(f)
    <3>1. (f \o s)[i] = a + (i - Len(f))
      BY <1>0, <1>1, <1>2, <2>2
    <3>2. ASSUME NEW j \in 1..(i - 1) PROVE (f \o s)[j] < (f \o s)[i]
      <4>1. CASE j <= Len(f)
        BY <1>0, <1>1, <1>2, <2>2, <3>1, <4>1
      <4>2. CASE j > Len(f)
        BY <1>0, <1>1, <1>2, <2>2, <3>1, <4>2
      <4> QED BY <1>0, <4>1, <4>2
    <3> QED BY <1>0, <1>2, <2>2, <3>1, <3>2
  <2> QED BY <1>0, <2>1, <2>2, SMTT(30)
<1> QED BY <1>0, <1>2 DEF Increasing

\* A write of s that takes r bytes.
LEMMA WrittenOrdered ==
  ASSUME NEW f \in Seq(Nat), NEW a \in Nat, Increasing(f, a), NEW s \in Seq(Nat), Follows(s, a),
         NEW r \in 0..Len(s)
  PROVE  Written(f, s, r) \in Seq(Nat) /\ Increasing(Written(f, s, r), a + r)
<1> DEFINE p == SubSeq(s, 1, r)
<1>1. p \in Seq(Nat) /\ Len(p) = r /\ Follows(p, a)
  BY DEF Follows
<1>2. Written(f, s, r) = f \o p
  BY DEF Written
<1> HIDE DEF p
<1>3. f \o p \in Seq(Nat)
  BY <1>1
<1> QED BY <1>1, <1>2, <1>3, Appended

LEMMA Weaker ==
  ASSUME NEW s \in Seq(Nat), NEW a \in Nat, NEW b \in Nat, a <= b, Increasing(s, a)
  PROVE  Increasing(s, b)
BY DEF Increasing

\* A write adds to the file behind what it holds.
LEMMA WriteKeeps ==
  ASSUME NEW f \in Seq(Nat), NEW s \in Seq(Nat), NEW r \in -1..Len(s), NoJunk(Written(f, s, r))
  PROVE  NoJunk(f)
<1>1. CASE r = -1
  BY <1>1 DEF Written
<1>2. CASE r # -1
  <2>1. SubSeq(s, 1, r) \in Seq(Nat) /\ Written(f, s, r) = f \o SubSeq(s, 1, r)
    BY <1>2 DEF Written
  <2>2. \A i \in DOMAIN f : i \in DOMAIN Written(f, s, r) /\ Written(f, s, r)[i] = f[i]
    BY <2>1
  <2> QED BY <2>2 DEF NoJunk
<1> QED BY <1>1, <1>2

\* Two tries to write the next bytes to a file in order leave it in order, or junk in it.
LEMMA TwiceOrdered ==
  ASSUME NEW f \in Seq(Nat), NEW a \in Nat, NoJunk(f) => Increasing(f, a),
         NEW s \in Seq(Nat), Follows(s, a), NEW r1 \in -1..Len(s), NEW r2 \in -1..(Len(s) - r1),
         NoJunk(WriteTwice(f, s, r1, r2))
  PROVE  Increasing(WriteTwice(f, s, r1, r2), a + Len(s))
<1>0. Len(s) \in Nat /\ <<Junk>> \in Seq(Nat) /\ Len(<<Junk>>) = 1
  BY DEF Junk
<1>1. CASE r1 = -1
  <2>1. /\ Rest(s, r1) = <<Junk>> \o s /\ Rest(s, r1) \in Seq(Nat) /\ Len(Rest(s, r1)) = Len(s) + 1
        /\ Rest(s, r1)[1] = Junk
    BY <1>0, <1>1 DEF Rest
  <2>2. WriteTwice(f, s, r1, r2) = Written(f, Rest(s, r1), r2)
    BY <1>0, <1>1 DEF WriteTwice, Written
  <2>3. NoJunk(f)
    BY <1>0, <1>1, <2>1, <2>2, WriteKeeps
  <2>4. CASE r2 \in {-1, 0}
    <3>1. Written(f, Rest(s, r1), r2) = f
      <4>1. CASE r2 = -1
        BY <4>1 DEF Written
      <4>2. CASE r2 = 0
        <5>1. SubSeq(Rest(s, r1), 1, 0) = <<>>
          BY <2>1
        <5> QED BY <4>2, <5>1 DEF Written
      <4> QED BY <2>4, <4>1, <4>2
    <3> QED BY <1>0, <2>2, <2>3, <3>1, Weaker
  <2>5. CASE r2 > 0
    <3> DEFINE p == SubSeq(Rest(s, r1), 1, r2)
    <3>1. p \in Seq(Nat) /\ Len(p) = r2 /\ p[1] = Junk
      BY <1>0, <1>1, <2>1, <2>5
    <3>2. WriteTwice(f, s, r1, r2) = f \o p
      BY <2>2, <2>5 DEF Written
    <3> HIDE DEF p
    <3>3. Len(f) + 1 \in DOMAIN (f \o p) /\ (f \o p)[Len(f) + 1] = Junk
      BY <2>5, <3>1
    <3> QED BY <3>2, <3>3 DEF NoJunk
  <2> QED BY <1>0, <1>1, <2>4, <2>5
<1>2. CASE r1 # -1
  <2>1. Written(f, s, r1) \in Seq(Nat)
    <3>1. SubSeq(s, 1, r1) \in Seq(Nat)
      BY <1>2
    <3> QED BY <1>2, <3>1 DEF Written
  <2>2. Rest(s, r1) \in Seq(Nat) /\ Len(Rest(s, r1)) = Len(s) - r1 /\ Follows(Rest(s, r1), a + r1)
    <3> DEFINE x == SubSeq(s, r1 + 1, Len(s))
               n == Len(s)
    <3>1. n \in Int /\ r1 \in 0..n /\ r1 + 1 \in Int /\ \A i \in (r1 + 1)..n : s[i] \in Nat
      BY <1>0, <1>2
    <3>2. x \in Seq(Nat) /\ Len(x) = (IF r1 + 1 <= n THEN n - (r1 + 1) + 1 ELSE 0)
          /\ \A i \in 1..(n - (r1 + 1) + 1) : x[i] = s[r1 + 1 + i - 1]
      BY <3>1, SubSeqProperties
    <3>3. Rest(s, r1) = x
      BY <1>2 DEF Rest
    <3>4. \A i \in 1..n : s[i] = a + i
      BY DEF Follows
    <3> HIDE DEF x, n
    <3>5. Len(x) = n - r1
      BY <3>1, <3>2
    <3>6. ASSUME NEW i \in 1..(n - r1) PROVE x[i] = a + r1 + i
      <4>1. i \in 1..(n - (r1 + 1) + 1) /\ r1 + 1 + i - 1 = r1 + i /\ r1 + i \in 1..n /\ a + (r1 + i) = a + r1 + i
        BY <3>1
      <4> QED BY <3>2, <3>4, <4>1
    <3>7. DOMAIN x = 1..(n - r1)
      BY <3>2, <3>5
    <3> QED BY <3>2, <3>3, <3>5, <3>6, <3>7 DEF Follows, n
  <2>3. NoJunk(Written(f, s, r1))
    BY <2>1, <2>2, WriteKeeps DEF WriteTwice
  <2>4. Increasing(Written(f, s, r1), a + r1)
    BY <1>0, <1>2, <2>3, WriteKeeps, WrittenOrdered
  <2>5. CASE r1 = Len(s)
    BY <2>4, <2>5 DEF WriteTwice
  <2>6. CASE r1 # Len(s)
    <3> DEFINE g == Written(f, s, r1)
               t == Rest(s, r1)
    <3>1. WriteTwice(f, s, r1, r2) = Written(g, t, r2)
      BY <2>6 DEF WriteTwice
    <3>2. a + r1 \in Nat /\ a + Len(s) \in Nat /\ a + r1 <= a + Len(s)
      BY <1>0, <1>2
    <3>3. g \in Seq(Nat) /\ t \in Seq(Nat) /\ Len(t) = Len(s) - r1 /\ Follows(t, a + r1) /\ Increasing(g, a + r1)
      BY <2>1, <2>2, <2>4
    <3> HIDE DEF g, t
    <3>4. CASE r2 = -1
      <4>1. Written(g, t, r2) = g
        BY <3>4 DEF Written
      <4> QED BY <3>1, <3>2, <3>3, <4>1, Weaker
    <3>5. CASE r2 # -1
      <4>1. r2 \in 0..Len(t) /\ a + r1 + r2 \in Nat /\ a + r1 + r2 <= a + Len(s)
        BY <1>0, <1>2, <3>3, <3>5
      <4>2. Written(g, t, r2) \in Seq(Nat) /\ Increasing(Written(g, t, r2), a + r1 + r2)
        BY <3>2, <3>3, <4>1, WrittenOrdered
      <4> QED BY <3>1, <3>2, <4>1, <4>2, Weaker
    <3> QED BY <3>4, <3>5
  <2> QED BY <2>5, <2>6
<1> QED BY <1>1, <1>2

LEMMA InitOrdered == CacheInit => StoredInOrder /\ InOrder
BY EmptySequence DEF CacheInit, StoredInOrder, Increasing, InOrder

LEMMA ChunkFollows ==
  ASSUME NEW n \in Nat, arrived \in Nat
  PROVE  Chunk(n) \in Seq(Nat) /\ Len(Chunk(n)) = n /\ Follows(Chunk(n), arrived)
BY DEF Chunk, Follows

LEMMA WriteOrdered ==
  ASSUME CacheInv, StoredInOrder, NEW n \in 1..MaxChunk, WriteStatic(n) \/ SpillFails(n) \/ Spill(n) \/ WriteFile(n)
  PROVE  StoredInOrder'
<1>1. Begin(n)
  BY DEF WriteStatic, SpillFails, Spill, WriteFile
<1>2. n \in Nat /\ arrived \in Nat /\ arrived' = arrived + n /\ arrived' \in Nat
  <2>1. n \in Nat /\ arrived \in Nat /\ arrived' = arrived + n
    BY <1>1, BeginStep
  <2> QED BY <2>1
<1>3. static \in Seq(Nat) /\ file \in Seq(Nat) /\ arrived <= arrived'
  BY <1>2 DEF CacheInv, CacheTypeOK
<1>4. Chunk(n) \in Seq(Nat) /\ Len(Chunk(n)) = n /\ Follows(Chunk(n), arrived)
  BY <1>2, ChunkFollows
<1>5. CASE WriteStatic(n)
  <2>1. fd = -1 /\ fd' = -1 /\ static' = static \o Chunk(n)
    BY <1>5 DEF WriteStatic
  <2>2. Increasing(static', arrived')
    BY <1>2, <1>3, <1>4, <2>1, Appended DEF StoredInOrder
  <2> QED BY <2>1, <2>2 DEF StoredInOrder
<1>6. CASE SpillFails(n)
  <2>1. fd = -1 /\ fd' = -1 /\ static' = static
    BY <1>6 DEF SpillFails, store
  <2>2. Increasing(static', arrived')
    BY <1>2, <1>3, <2>1, Weaker DEF StoredInOrder
  <2> QED BY <2>1, <2>2 DEF StoredInOrder
<1>7. CASE Spill(n)
  <2>1. PICK r0 \in -1..Len(static), r1 \in -1..n : \E r2 \in -1..(n - r1) :
          file' = WriteTwice(Written(<<>>, static, r0), Chunk(n), r1, r2)
    BY <1>7 DEF Spill
  <2>2. PICK r2 \in -1..(n - r1) : file' = WriteTwice(Written(<<>>, static, r0), Chunk(n), r1, r2)
    BY <2>1
  <2> DEFINE f == Written(<<>>, static, r0)
  <2>3. f \in Seq(Nat) /\ Increasing(f, arrived)
    <3>1. Increasing(static, arrived)
      BY <1>7 DEF StoredInOrder, Spill
    <3>2. CASE r0 = -1
      BY <3>2, EmptySequence DEF Written, Increasing
    <3>3. CASE r0 # -1
      <4>1. f = <<>> \o SubSeq(static, 1, r0)
        BY <3>3 DEF Written
      <4>2. f = SubSeq(static, 1, r0)
        BY <1>3, <3>3, <4>1
      <4> HIDE DEF f
      <4>3. f \in Seq(Nat) /\ DOMAIN f = 1..r0 /\ \A i \in 1..r0 : i \in DOMAIN static /\ f[i] = static[i]
        <5>1. static \in Seq(Nat) /\ Len(static) \in Nat /\ r0 \in 0..Len(static)
          BY <1>3, <3>3
        <5>2. f \in Seq(Nat) /\ Len(f) = r0
          BY <4>2, <5>1
        <5>3. \A i \in 1..r0 : i \in 1..Len(static) /\ f[i] = static[i]
          BY <4>2, <5>1
        <5> QED BY <5>1, <5>2, <5>3
      <4>4. \A i \in 1..r0 : \A j \in 1..(i - 1) : j \in 1..r0
        BY <3>3
      <4> QED BY <3>1, <4>3, <4>4 DEF Increasing
    <3> QED BY <3>2, <3>3
  <2>4. file' = WriteTwice(f, Chunk(n), r1, r2)
    BY <2>2
  <2>5. fd' # -1
    BY <1>7, FCacheAssumption DEF Spill
  <2> HIDE DEF f
  <2>6. NoJunk(file') => Increasing(file', arrived')
    BY <1>2, <1>4, <2>3, <2>4, TwiceOrdered
  <2> QED BY <2>5, <2>6 DEF StoredInOrder
<1>8. CASE WriteFile(n)
  <2>1. PICK r1 \in -1..n : \E r2 \in -1..(n - r1) : file' = WriteTwice(file, Chunk(n), r1, r2)
    BY <1>8 DEF WriteFile
  <2>2. PICK r2 \in -1..(n - r1) : file' = WriteTwice(file, Chunk(n), r1, r2)
    BY <2>1
  <2>3. fd # -1 /\ fd' # -1
    BY <1>8 DEF WriteFile
  <2>4. NoJunk(file') => Increasing(file', arrived')
    BY <1>2, <1>3, <1>4, <2>2, <2>3, TwiceOrdered DEF StoredInOrder
  <2> QED BY <2>3, <2>4 DEF StoredInOrder
<1> QED BY <1>5, <1>6, <1>7, <1>8

\* What data shows is the one place where the bytes are kept.
LEMMA DataInOrder ==
  ASSUME CacheInv, StoredInOrder, Data
  PROVE  InOrder'
<1> DEFINE s == IF fd = -1 THEN static ELSE file
<1>1. /\ total \in Nat /\ static \in Seq(Nat) /\ file \in Seq(Nat) /\ arrived \in Nat
      /\ fd \in Fds \cup {-1} /\ Fds \subseteq Nat /\ mapped = -1 /\ stage = "data"
  BY FCacheAssumption DEF CacheInv, CacheTypeOK, Measured, Data
<1>2. s \in Seq(Nat) /\ given' = Visible(s)
  BY <1>1 DEF Data
<1>3. SUFFICES ASSUME fd # 0, NoJunk(file)
               PROVE  \A i \in DOMAIN given' : given'[i] # Junk /\ \A j \in 1..(i - 1) : given'[j] < given'[i]
  BY DEF InOrder, NoJunk, Data, store
<1>4. total = Len(s)
  BY <1>1, <1>3 DEF CacheInv, Measured
<1>5. Increasing(s, arrived)
  BY <1>3 DEF StoredInOrder
<1> HIDE DEF s
<1>6. DOMAIN given' = DOMAIN s /\ \A i \in DOMAIN s : given'[i] = s[i]
  <2>1. Len(given') = total /\ given' \in Seq(Nat) /\ \A i \in 1..total : given'[i] = s[i]
    BY <1>1, <1>2, <1>4, VisibleAll
  <2> QED BY <1>2, <1>4, <2>1
<1>7. ASSUME NEW i \in DOMAIN s PROVE s[i] # Junk /\ \A j \in 1..(i - 1) : j \in DOMAIN s /\ s[j] < s[i]
  BY <1>1, <1>2, <1>5 DEF Increasing, Junk
<1> QED BY <1>6, <1>7

LEMMA NextOrdered ==
  ASSUME CacheInv, StoredInOrder, InOrder, [CacheNext]_cacheVars
  PROVE  StoredInOrder' /\ InOrder'
<1>1. ASSUME Write PROVE StoredInOrder' /\ InOrder'
  <2>1. PICK n \in 1..MaxChunk : WriteStatic(n) \/ SpillFails(n) \/ Spill(n) \/ WriteFile(n)
    BY <1>1 DEF Write
  <2>2. stage' = "length"
    BY <2>1 DEF WriteStatic, SpillFails, Spill, WriteFile, Begin
  <2> QED BY <2>1, <2>2, WriteOrdered DEF InOrder
<1>2. ASSUME Length PROVE StoredInOrder' /\ InOrder'
  BY <1>2 DEF Length, store, StoredInOrder, InOrder
<1>3. ASSUME Data PROVE StoredInOrder' /\ InOrder'
  <2>1. StoredInOrder'
    BY <1>3 DEF Data, store, StoredInOrder
  <2> QED BY <1>3, <2>1, DataInOrder
<1>4. ASSUME Reset PROVE StoredInOrder' /\ InOrder'
  BY <1>4, EmptySequence DEF Reset, StoredInOrder, Increasing, InOrder
<1>5. ASSUME UNCHANGED cacheVars PROVE StoredInOrder' /\ InOrder'
  BY <1>5 DEF cacheVars, store, StoredInOrder, InOrder
<1> QED BY <1>1, <1>2, <1>3, <1>4, <1>5 DEF CacheNext

\* Whatever write(2) and mkstemp do, what parse is given is taken from the request in its order: nothing foreign,
\* nothing twice, unless an error has made the retry begin one byte before the data.
THEOREM NothingTwice == CacheSpec => []InOrder
BY InitIInv, NextIInv, InitOrdered, NextOrdered, PTL DEF CacheSpec
=============================================================================
