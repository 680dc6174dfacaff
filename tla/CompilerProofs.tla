----------------------------- MODULE CompilerProofs ----------------------------
(***************************************************************************)
(* Proofs about Compiler: its types, that the parser's assumption holds of *)
(* every whole output, that a program is parsed as it was written, and     *)
(* that its header describes the function of the metadata.                 *)
(***************************************************************************)
EXTENDS Compiler, DataLemmas, FiniteSetTheorems

--------------------------------------------------------------------------------
(* Tokens *)

(* The provers know of a string that it is one only when they are told.    *)
Words == {"top", "fn", "f", "param", "node", "bits", "index", "start", "width", "value", "id",
          "ret", "tuple", "package", "main", "helper"} \union Operations \union STRING
Marks == {"(", ")", "[", "]", "{", "}", ",", ":", "-", ">", ".", "="}
Token == [is : {"word"}, of : Words] \union [is : {"num"}, of : Nat] \union [is : Marks]

LEMMA TokensAre ==
  /\ \A w \in Words : Word(w) \in Token /\ Word(w).is = "word" /\ Word(w).of = w
  /\ \A n \in Nat : Num(n) \in Token /\ Num(n).is = "num" /\ Num(n).of = n
  /\ \A c \in Marks : Mark(c) \in Token /\ Mark(c).is = c
BY DEF Token, Word, Num, Mark

(* Every token whose kind is "num" has a number. *)
LEMMA NumberAtIs ==
  ASSUME NEW ts \in Seq(Token), NEW p \in Int
  PROVE  NumberAt(ts, p) \in Nat
<1>1. CASE p \in DOMAIN ts /\ ts[p].is = "num"
  <2>1. ts[p] \in Token
    BY <1>1, LenProperties
  <2>2. ts[p].of \in Nat
    BY <1>1, <2>1 DEF Token, Marks
  <2>3. QED
    BY <1>1, <2>2 DEF NumberAt
<1>2. CASE ~(p \in DOMAIN ts /\ ts[p].is = "num")
  BY <1>2 DEF NumberAt
<1>3. QED
  BY <1>1, <1>2

(* Sequences that agree at every place are the same. *)
LEMMA SameSeq ==
  ASSUME NEW S, NEW s \in Seq(S), NEW t \in Seq(S), Len(s) = Len(t),
         \A i \in 1..Len(s) : s[i] = t[i]
  PROVE  s = t
BY SeqEqual

--------------------------------------------------------------------------------
(* What a search finds *)

(* The least of a non-empty set of places. *)
LEMMA MinIs ==
  ASSUME NEW T \in SUBSET Int, NEW p \in T, \A q \in T : p <= q
  PROVE  Min(T) = p
<1>1. \A x \in T : (\A y \in T : x <= y) => x = p
  OBVIOUS
<1>2. QED
  BY <1>1 DEF Min

(* A mark that no place before p has is found at p. *)
LEMMA FoundAt ==
  ASSUME NEW ts \in Seq(Token), NEW c, NEW from \in Nat, NEW p \in from..Len(ts),
         ts[p].is = c, \A q \in from..(p - 1) : ts[q].is # c
  PROVE  Until(ts, c, from) = p /\ After(ts, c, from) = p + 1
<1>1. Len(ts) \in Nat
  BY LenProperties
<1>2. p \in Found(ts, c, from) /\ Found(ts, c, from) \in SUBSET Int
  BY <1>1 DEF Found
<1>3. ASSUME NEW q \in Found(ts, c, from) PROVE p <= q
  <2>1. q \in from..Len(ts) /\ ts[q].is = c
    BY <1>3 DEF Found
  <2>2. ~(q \in from..(p - 1))
    BY <2>1
  <2>3. QED
    BY <1>1, <2>1, <2>2
<1>4. Min(Found(ts, c, from)) = p /\ Found(ts, c, from) # {}
  BY <1>2, <1>3, MinIs
<1>5. QED
  BY <1>4 DEF Until, After

(* A mark that is nowhere: the search begins at the beginning. *)
LEMMA FoundNowhere ==
  ASSUME NEW ts \in Seq(Token), NEW c, NEW from \in Nat, \A q \in from..Len(ts) : ts[q].is # c
  PROVE  After(ts, c, from) = 1
<1>1. Found(ts, c, from) = {}
  BY DEF Found
<1>2. QED
  BY <1>1 DEF After

(* The numbers behind each c, when the places of the c are known.          *)
Places(ts, c, place, w) ==
  /\ place \in [1..Len(w) -> 1..Len(ts)]
  /\ \A i, j \in 1..Len(w) : i < j => place[i] < place[j]
  /\ \A p \in 1..Len(ts) : ts[p].is = c <=> \E i \in 1..Len(w) : place[i] = p
  /\ \A i \in 1..Len(w) : NumberAt(ts, place[i] + 1) = w[i]

(* They are collected from left to right. *)
Collects(f, ts, c) ==
  /\ f \in [0..Len(ts) -> Seq(Nat)]
  /\ f[0] = <<>>
  /\ \A p \in 1..Len(ts) :
       f[p] = IF ts[p].is = c THEN Append(f[p - 1], NumberAt(ts, p + 1)) ELSE f[p - 1]

LEMMA BehindIs ==
  ASSUME NEW ts \in Seq(Token), NEW c
  PROVE  \E f : Collects(f, ts, c) /\ f[Len(ts)] = Behind(ts, c)
<1>1. Len(ts) \in Nat /\ DOMAIN ts = 1..Len(ts)
  BY LenProperties
<1> DEFINE one(p) == IF ts[p].is = c THEN <<NumberAt(ts, p + 1)>> ELSE <<>>
<1> DEFINE ss == [p \in 1..Len(ts) |-> one(p)]
<1>2. \A p \in 1..Len(ts) : one(p) \in Seq(Nat)
  <2>1. ASSUME NEW p \in 1..Len(ts) PROVE one(p) \in Seq(Nat)
    <3>1. NumberAt(ts, p + 1) \in Nat
      BY <1>1, NumberAtIs
    <3> DEFINE x == NumberAt(ts, p + 1)
    <3> HIDE DEF x
    <3>2. x \in Nat => <<x>> \in Seq(Nat)
      OBVIOUS
    <3>3. QED
      BY <3>1, <3>2 DEF x
  <2>2. QED
    BY <2>1
<1>3. ss \in Seq(Seq(Nat)) /\ Len(ss) = Len(ts)
  <2>1. ss \in [1..Len(ts) -> Seq(Nat)]
    BY <1>2
  <2> HIDE DEF ss
  <2>2. QED
    BY <1>1, <2>1, FunctionIsSeq
<1>4. Behind(ts, c) = FlattenSeq(ss)
  BY <1>1 DEF Behind
<1>a. \A i \in 1..Len(ts) : ss[i] = one(i)
  OBVIOUS
<1> HIDE DEF ss
<1>5. PICK f \in [0..Len(ts) -> Seq(Nat)] :
             /\ f[0] = <<>> /\ f[Len(ts)] = FlattenSeq(ss)
             /\ \A i \in 1..Len(ts) : f[i] = f[i - 1] \o ss[i]
  <2>1. \E f \in [0..Len(ss) -> Seq(Nat)] :
           /\ f[0] = <<>> /\ f[Len(ss)] = FlattenSeq(ss)
           /\ \A i \in 1..Len(ss) : f[i] = f[i - 1] \o ss[i]
    BY <1>3, FlattenSeqIs
  <2>2. QED
    BY <1>3, <2>1
<1>6. ASSUME NEW p \in 1..Len(ts)
      PROVE  f[p] = IF ts[p].is = c THEN Append(f[p - 1], NumberAt(ts, p + 1)) ELSE f[p - 1]
  <2>1. f[p - 1] \in Seq(Nat) /\ f[p] = f[p - 1] \o one(p)
    <3>1. p - 1 \in 0..Len(ts)
      BY <1>1
    <3>2. QED
      BY <1>5, <1>a, <3>1
  <2>2. NumberAt(ts, p + 1) \in Nat
    BY <1>1, NumberAtIs
  <2> DEFINE x == NumberAt(ts, p + 1)
  <2> DEFINE s == f[p - 1]
  <2> HIDE DEF x, s
  <2>3. s \o <<x>> = Append(s, x) /\ s \o <<>> = s
    BY <2>1, <2>2, AppendIsConcat, ConcatEmptySeq DEF s, x
  <2>4. QED
    BY <2>1, <2>3 DEF s, x
<1>7. Collects(f, ts, c)
  BY <1>5, <1>6 DEF Collects
<1>8. QED
  BY <1>4, <1>5, <1>7

(* If the places of the c are known, the numbers behind them are, too. *)
LEMMA BehindPlaces ==
  ASSUME NEW ts \in Seq(Token), NEW c, NEW w \in Seq(Nat), NEW place, Places(ts, c, place, w)
  PROVE  Behind(ts, c) = w
<1> DEFINE n == Len(w)
<1>1. Len(ts) \in Nat /\ n \in Nat /\ \A i \in 1..n : w[i] \in Nat
  BY LenProperties
<1>2. PICK f : Collects(f, ts, c) /\ f[Len(ts)] = Behind(ts, c)
  BY BehindIs
<1>a. /\ f \in [0..Len(ts) -> Seq(Nat)] /\ f[0] = <<>>
      /\ \A p \in 1..Len(ts) :
           f[p] = IF ts[p].is = c THEN Append(f[p - 1], NumberAt(ts, p + 1)) ELSE f[p - 1]
  BY <1>2 DEF Collects
<1>3. /\ \A i \in 1..n : place[i] \in 1..Len(ts) /\ NumberAt(ts, place[i] + 1) = w[i]
      /\ \A i, j \in 1..n : i < j => place[i] < place[j]
      /\ \A p \in 1..Len(ts) : ts[p].is = c <=> \E i \in 1..n : place[i] = p
  BY DEF Places
<1> HIDE DEF n
<1> DEFINE First(p, k) ==
      /\ Len(f[p]) = k
      /\ \A i \in 1..k : f[p][i] = w[i]
      /\ \A i \in 1..n : place[i] <= p <=> i <= k
<1> DEFINE T == {p \in Nat : p <= Len(ts) => \E k \in 0..n : First(p, k)}
<1>4. 0 \in T
  <2>1. First(0, 0)
    BY <1>1, <1>a, <1>3, EmptySeq
  <2>2. QED
    BY <1>1, <2>1
<1>5. ASSUME NEW p \in Nat, p \in T PROVE p + 1 \in T
  <2>1. SUFFICES ASSUME p + 1 <= Len(ts) PROVE \E k \in 0..n : First(p + 1, k)
    <3> HIDE DEF First
    <3>1. QED
      OBVIOUS
  <2>2. PICK k \in 0..n : First(p, k)
    <3> HIDE DEF First
    <3>1. QED
      BY <1>1, <1>5, <2>1
  <2>3. /\ p + 1 \in 1..Len(ts) /\ f[p] \in Seq(Nat)
        /\ f[p + 1] = IF ts[p + 1].is = c THEN Append(f[p], NumberAt(ts, p + 2)) ELSE f[p]
    <3>1. p + 1 \in 1..Len(ts) /\ (p + 1) - 1 = p /\ (p + 1) + 1 = p + 2 /\ p \in 0..Len(ts)
      BY <1>1, <2>1
    <3>2. QED
      BY <1>a, <3>1
  <2>4. CASE ts[p + 1].is = c
    <3>1. PICK i \in 1..n : place[i] = p + 1
      BY <1>3, <2>3, <2>4
    <3>2. i = k + 1
      <4>1. i > k
        BY <2>2, <3>1
      <4>2. ASSUME k + 1 < i PROVE FALSE
        <5>1. k + 1 \in 1..n /\ place[k + 1] < p + 1 /\ place[k + 1] \in Nat
          BY <1>1, <1>3, <3>1, <4>2
        <5>2. k + 1 <= k
          BY <2>2, <5>1
        <5>3. QED
          BY <5>2
      <4>3. QED
        BY <1>1, <4>1, <4>2
    <3>3. f[p + 1] = Append(f[p], w[k + 1]) /\ w[k + 1] \in Nat /\ k + 1 \in 0..n
      <4>1. (p + 1) + 1 = p + 2
        OBVIOUS
      <4>2. QED
        BY <1>1, <1>3, <2>3, <2>4, <3>1, <3>2, <4>1
    <3>4. Len(f[p + 1]) = k + 1 /\ \A j \in 1..(k + 1) : f[p + 1][j] = w[j]
      <4>1. /\ Len(f[p + 1]) = k + 1 /\ f[p + 1][k + 1] = w[k + 1]
            /\ \A j \in 1..k : f[p + 1][j] = f[p][j]
        <5> DEFINE s == f[p]
        <5> DEFINE e == w[k + 1]
        <5>1. s \in Seq(Nat) /\ e \in Nat /\ Len(s) = k /\ f[p + 1] = Append(s, e)
          BY <2>2, <2>3, <3>3
        <5> HIDE DEF s, e
        <5>2. /\ Len(Append(s, e)) = Len(s) + 1 /\ Append(s, e)[Len(s) + 1] = e
              /\ \A j \in 1..Len(s) : Append(s, e)[j] = s[j]
          BY <5>1, AppendProperties
        <5>3. QED
          BY <5>1, <5>2 DEF s, e
      <4>2. ASSUME NEW j \in 1..(k + 1) PROVE f[p + 1][j] = w[j]
        <5>1. j \in 1..k \/ j = k + 1
          OBVIOUS
        <5>2. QED
          BY <2>2, <4>1, <5>1
      <4>3. QED
        BY <4>1, <4>2
    <3>5. \A j \in 1..n : place[j] <= p + 1 <=> j <= k + 1
      <4>1. ASSUME NEW j \in 1..n, place[j] <= p + 1 PROVE j <= k + 1
        <5>1. ~(k + 1 < j)
          BY <1>3, <3>1, <3>2, <4>1
        <5>2. QED
          BY <5>1
      <4>2. ASSUME NEW j \in 1..n, j <= k + 1 PROVE place[j] <= p + 1
        <5>1. CASE j = k + 1
          BY <3>1, <3>2, <5>1
        <5>2. CASE j <= k
          BY <1>3, <2>2, <5>2
        <5>3. QED
          BY <4>2, <5>1, <5>2
      <4>3. QED
        BY <4>1, <4>2
    <3>6. First(p + 1, k + 1)
      BY <3>4, <3>5
    <3> HIDE DEF First
    <3>7. QED
      BY <3>3, <3>6
  <2>5. CASE ts[p + 1].is # c
    <3>1. f[p + 1] = f[p]
      BY <2>3, <2>5
    <3>2. \A j \in 1..n : place[j] # p + 1
      BY <1>3, <2>3, <2>5
    <3>3. \A j \in 1..n : place[j] <= p + 1 <=> place[j] <= p
      BY <1>3, <3>2
    <3>4. First(p + 1, k)
      BY <2>2, <3>1, <3>3
    <3> HIDE DEF First
    <3>5. QED
      BY <3>4
  <2>6. QED
    BY <2>4, <2>5
<1>6. Len(ts) \in T
  <2> HIDE DEF T
  <2>1. QED
    BY <1>1, <1>4, <1>5, SetInduction
<1>7. PICK k \in 0..n : First(Len(ts), k)
  <2> HIDE DEF First
  <2>1. QED
    BY <1>1, <1>6
<1>8. k = n
  <2>1. CASE n = 0
    BY <2>1
  <2>2. CASE n # 0
    <3>1. n \in 1..n /\ place[n] <= Len(ts)
      BY <1>1, <1>3, <2>2
    <3>2. QED
      BY <1>1, <1>7, <3>1
  <2>3. QED
    BY <2>1, <2>2
<1>9. f[Len(ts)] \in Seq(Nat) /\ Len(f[Len(ts)]) = n /\ \A i \in 1..n : f[Len(ts)][i] = w[i]
  <2>1. Len(ts) \in 0..Len(ts)
    BY <1>1
  <2>2. f[Len(ts)] \in Seq(Nat)
    BY <1>a, <2>1
  <2>3. First(Len(ts), n)
    BY <1>7, <1>8
  <2>4. QED
    BY <2>2, <2>3
<1>10. QED
  BY <1>2, <1>9, SameSeq DEF n

--------------------------------------------------------------------------------
(* A list of items, with commas between them: item i begins behind b[i].   *)

ListedAt(items, ts, b) ==
  LET n == Len(items) IN
  /\ b \in [1..n -> Nat]
  /\ n = 0 => Len(ts) = 0
  /\ n # 0 => b[1] = 0 /\ Len(ts) = b[n] + Len(items[n])
  /\ \A i \in 2..n : b[i] = b[i - 1] + Len(items[i - 1]) + 1
  /\ \A i \in 2..n : ts[b[i]].is = ","
  /\ \A i \in 1..n : b[i] + Len(items[i]) <= Len(ts)
  /\ \A i \in 1..n : \A j \in 1..Len(items[i]) : ts[b[i] + j] = items[i][j]
  /\ \A p \in 1..Len(ts) :
       \E i \in 1..n : (p = b[i] /\ i > 1) \/ (\E j \in 1..Len(items[i]) : p = b[i] + j)

LEMMA ListedIs ==
  ASSUME NEW items \in Seq(Seq(Token))
  PROVE  Listed(items) \in Seq(Token) /\ \E b : ListedAt(items, Listed(items), b)
<1> DEFINE n == Len(items)
<1>1. n \in Nat /\ DOMAIN items = 1..n /\ \A i \in 1..n : items[i] \in Seq(Token) /\ Len(items[i]) \in Nat
  BY LenProperties
<1>2. Mark(",") \in Token /\ Mark(",").is = ","
  BY TokensAre DEF Marks
<1> DEFINE one(i) == IF i = 1 THEN items[i] ELSE <<Mark(",")>> \o items[i]
<1> DEFINE skip(i) == IF i = 1 THEN 0 ELSE 1
<1> DEFINE ss == [i \in 1..n |-> one(i)]
<1>3. ASSUME NEW i \in 1..n
      PROVE  /\ one(i) \in Seq(Token) /\ Len(one(i)) = Len(items[i]) + skip(i)
             /\ \A j \in 1..Len(items[i]) : one(i)[skip(i) + j] = items[i][j]
             /\ i # 1 => one(i)[1] = Mark(",")
  <2>1. CASE i = 1
    BY <1>1, <2>1
  <2>2. CASE i # 1
    <3> DEFINE c == Mark(",")
    <3> DEFINE s == items[i]
    <3>1. c \in Token /\ s \in Seq(Token) /\ Len(s) \in Nat
      BY <1>1, <1>2
    <3> HIDE DEF c, s
    <3>2. <<c>> \in Seq(Token) /\ Len(<<c>>) = 1 /\ <<c>>[1] = c
      BY <3>1
    <3>3. /\ <<c>> \o s \in Seq(Token) /\ Len(<<c>> \o s) = 1 + Len(s)
          /\ \A j \in 1..(1 + Len(s)) : (<<c>> \o s)[j] = IF j <= 1 THEN <<c>>[j] ELSE s[j - 1]
      BY <3>1, <3>2, ConcatProperties
    <3>4. (<<c>> \o s)[1] = c /\ \A j \in 1..Len(s) : (<<c>> \o s)[1 + j] = s[j]
      BY <3>1, <3>2, <3>3
    <3>5. one(i) = <<c>> \o s /\ skip(i) = 1
      BY <2>2 DEF c, s
    <3> HIDE DEF one, skip
    <3>6. /\ one(i) \in Seq(Token) /\ Len(one(i)) = Len(s) + skip(i)
          /\ \A j \in 1..Len(s) : one(i)[skip(i) + j] = s[j]
          /\ one(i)[1] = c
      BY <3>1, <3>3, <3>4, <3>5
    <3>7. QED
      BY <3>6 DEF c, s
  <2>3. QED
    BY <2>1, <2>2
<1>4. /\ \A i \in 1..n : skip(i) \in {0, 1}
      /\ \A i \in 2..n : skip(i) = 1
      /\ skip(1) = 0
  OBVIOUS
<1>5. ss \in Seq(Seq(Token)) /\ Len(ss) = n /\ \A i \in 1..n : ss[i] = one(i)
  <2>1. ss \in [1..n -> Seq(Token)] /\ \A i \in 1..n : ss[i] = one(i)
    BY <1>3
  <2> HIDE DEF ss
  <2>2. QED
    BY <1>1, <2>1, FunctionIsSeq
<1>6. Listed(items) = FlattenSeq(ss)
  BY <1>1 DEF Listed
<1> DEFINE L == Listed(items)
<1>7. L \in Seq(Token) /\ \E at_ : Parts(ss, L, at_)
  <2> HIDE DEF ss
  <2>1. QED
    BY <1>5, <1>6, FlattenSeqParts
<1> HIDE DEF ss, one, skip, L, n
<1>8. PICK a : Parts(ss, L, a)
  BY <1>7
<1>9. /\ a \in [0..n -> Nat] /\ a[0] = 0 /\ a[n] = Len(L) /\ Len(L) \in Nat
      /\ \A i \in 1..n : a[i] = a[i - 1] + Len(one(i))
      /\ \A i \in 1..n : \A j \in 1..Len(one(i)) : L[a[i - 1] + j] = one(i)[j]
      /\ \A p \in 1..Len(L) : \E i \in 1..n : \E j \in 1..Len(one(i)) : p = a[i - 1] + j
      /\ \A i \in 0..n : a[i] <= Len(L)
  <2>1. n \in 0..n
    BY <1>1
  <2>2. L \in Seq(Token) /\ Len(L) \in Nat
    BY <1>7, LenProperties
  <2>3. /\ a \in [0..n -> Nat] /\ a[0] = 0 /\ a[n] = Len(L)
        /\ \A i \in 1..n : a[i] = a[i - 1] + Len(ss[i])
        /\ \A i \in 1..n : \A j \in 1..Len(ss[i]) : L[a[i - 1] + j] = ss[i][j]
        /\ \A p \in 1..a[n] : \E i \in 1..n : \E j \in 1..Len(ss[i]) : p = a[i - 1] + j
        /\ \A i \in 0..n : a[i] <= a[n]
    BY <1>5, <1>8, <2>1 DEF Parts
  <2>4. QED
    BY <1>5, <2>2, <2>3
<1> DEFINE b == [i \in 1..n |-> a[i - 1] + skip(i)]
<1>10. ASSUME NEW i \in 1..n
       PROVE  /\ i - 1 \in 0..n /\ i \in 0..n /\ a[i - 1] \in Nat /\ a[i] \in Nat
              /\ b[i] = a[i - 1] + skip(i) /\ b[i] \in Nat
              /\ a[i] = b[i] + Len(items[i])
              /\ Len(items[i]) \in Nat
              /\ i = 1 => b[i] = 0
  <2>1. i - 1 \in 0..n /\ i \in 0..n
    BY <1>1
  <2>2. a[i - 1] \in Nat /\ a[i] \in Nat
    BY <1>9, <2>1
  <2>3. b[i] = a[i - 1] + skip(i) /\ skip(i) \in {0, 1}
    BY <1>4
  <2>4. a[i] = a[i - 1] + (Len(items[i]) + skip(i))
    BY <1>3, <1>9
  <2>5. i = 1 => i - 1 = 0 /\ skip(i) = 0
    BY <1>4
  <2>6. Len(items[i]) \in Nat /\ a[0] = 0
    BY <1>1, <1>9
  <2> HIDE DEF b
  <2>7. a[i] = b[i] + Len(items[i]) /\ b[i] \in Nat
    <3> DEFINE x == Len(items[i])
    <3> DEFINE y == a[i - 1]
    <3> DEFINE z == skip(i)
    <3>1. x \in Nat /\ y \in Nat /\ z \in {0, 1} /\ a[i] = y + (x + z) /\ b[i] = y + z
      BY <2>2, <2>3, <2>4, <2>6
    <3> HIDE DEF x, y, z
    <3>2. a[i] = b[i] + x /\ b[i] \in Nat
      BY <3>1
    <3>3. QED
      BY <3>2 DEF x
  <2>8. i = 1 => b[i] = 0
    BY <2>3, <2>5, <2>6
  <2>9. QED
    BY <2>1, <2>2, <2>3, <2>6, <2>7, <2>8
<1>11. b \in [1..n -> Nat]
  BY <1>10
<1> HIDE DEF b
<1>12. n = 0 => Len(L) = 0
  BY <1>9
<1>13. n # 0 => b[1] = 0 /\ Len(L) = b[n] + Len(items[n])
  <2>1. SUFFICES ASSUME n # 0 PROVE 1 \in 1..n /\ n \in 1..n
    BY <1>9, <1>10
  <2>2. QED
    BY <1>1, <2>1
<1>14. ASSUME NEW i \in 2..n
       PROVE  b[i] = b[i - 1] + Len(items[i - 1]) + 1 /\ L[b[i]].is = ","
  <2>1. i \in 1..n /\ i - 1 \in 1..n /\ i # 1
    BY <1>1
  <2>2. b[i] = a[i - 1] + 1
    BY <1>4, <1>10, <2>1
  <2>3. a[i - 1] = b[i - 1] + Len(items[i - 1])
    BY <1>10, <2>1
  <2>4. 1 \in 1..Len(one(i)) /\ one(i)[1] = Mark(",")
    <3>1. Len(one(i)) = Len(items[i]) + 1 /\ Len(items[i]) \in Nat /\ one(i)[1] = Mark(",")
      BY <1>3, <1>4, <1>10, <2>1
    <3> DEFINE x == Len(items[i])
    <3> HIDE DEF x
    <3>2. x \in Nat /\ Len(one(i)) = x + 1
      BY <3>1 DEF x
    <3>3. 1 \in 1..Len(one(i))
      BY <3>2
    <3>4. QED
      BY <3>1, <3>3
  <2>5. L[b[i]] = Mark(",")
    <3>1. L[a[i - 1] + 1] = one(i)[1]
      BY <1>9, <2>1, <2>4
    <3>2. QED
      BY <2>2, <2>4, <3>1
  <2>6. QED
    BY <1>2, <1>10, <2>1, <2>2, <2>3, <2>5
<1>15. ASSUME NEW i \in 1..n
       PROVE  /\ b[i] + Len(items[i]) <= Len(L)
              /\ \A j \in 1..Len(items[i]) : L[b[i] + j] = items[i][j]
  <2>1. b[i] + Len(items[i]) <= Len(L)
    BY <1>9, <1>10
  <2>2. ASSUME NEW j \in 1..Len(items[i]) PROVE L[b[i] + j] = items[i][j]
    <3>1. skip(i) + j \in 1..Len(one(i)) /\ one(i)[skip(i) + j] = items[i][j]
      <4>1. /\ Len(one(i)) = Len(items[i]) + skip(i) /\ Len(items[i]) \in Nat
            /\ one(i)[skip(i) + j] = items[i][j] /\ skip(i) \in {0, 1}
        BY <1>3, <1>4, <1>10
      <4>2. QED
        BY <4>1
    <3>2. a[i - 1] + (skip(i) + j) = b[i] + j
      <4>1. PICK s : s = skip(i)
        OBVIOUS
      <4>2. PICK c : c = a[i - 1]
        OBVIOUS
      <4>3. PICK d : d = b[i]
        OBVIOUS
      <4>4. c \in Nat /\ s \in {0, 1} /\ d = c + s
        BY <1>4, <1>10, <4>1, <4>2, <4>3
      <4>5. j \in Nat
        BY <1>10
      <4>6. c + (s + j) = d + j
        BY ONLY <4>4, <4>5
      <4>7. QED
        BY <4>1, <4>2, <4>3, <4>6
    <3>3. QED
      BY <1>9, <3>1, <3>2
  <2>3. QED
    BY <2>1, <2>2
<1>16. ASSUME NEW p \in 1..Len(L)
       PROVE  \E i \in 1..n : (p = b[i] /\ i > 1) \/ (\E j \in 1..Len(items[i]) : p = b[i] + j)
  <2>0. PICK i \in 1..n : \E j \in 1..Len(one(i)) : p = a[i - 1] + j
    BY <1>9
  <2>1. PICK j \in 1..Len(one(i)) : p = a[i - 1] + j
    BY <2>0
  <2>2. Len(one(i)) = Len(items[i]) + skip(i) /\ skip(i) \in {0, 1} /\ (i = 1 => skip(i) = 0)
    BY <1>3, <1>4
  <2>3. b[i] = a[i - 1] + skip(i) /\ a[i - 1] \in Nat /\ Len(items[i]) \in Nat
    BY <1>10
  <2>4. CASE j = skip(i)
    <3>1. p = b[i] /\ i > 1
      BY <1>1, <2>1, <2>2, <2>3, <2>4
    <3>2. QED
      BY <3>1
  <2>5. CASE j # skip(i)
    <3>1. j - skip(i) \in 1..Len(items[i]) /\ p = b[i] + (j - skip(i))
      <4> DEFINE x == Len(items[i])
      <4> DEFINE y == Len(one(i))
      <4>1. /\ x \in Nat /\ y = x + skip(i) /\ b[i] = a[i - 1] + skip(i)
            /\ skip(i) \in {0, 1} /\ a[i - 1] \in Nat /\ p = a[i - 1] + j /\ j \in 1..y
        BY <2>1, <2>2, <2>3
      <4>2. PICK s : s = skip(i)
        OBVIOUS
      <4>3. PICK c : c = a[i - 1]
        OBVIOUS
      <4>4. PICK d : d = b[i]
        OBVIOUS
      <4>5. /\ x \in Nat /\ y = x + s /\ d = c + s /\ s \in {0, 1} /\ c \in Nat
            /\ p = c + j /\ j \in 1..y /\ j # s
        BY <2>5, <4>1, <4>2, <4>3, <4>4
      <4> HIDE DEF x, y
      <4>6. j - s \in 1..x /\ p = d + (j - s)
        BY ONLY <4>5
      <4>7. QED
        BY <4>2, <4>4, <4>6 DEF x
    <3>2. QED
      BY <3>1
  <2>6. QED
    BY <2>4, <2>5
<1>17. ListedAt(items, L, b)
  BY <1>11, <1>12, <1>13, <1>14, <1>15, <1>16 DEF ListedAt, n
<1>18. QED
  BY <1>7, <1>17 DEF L

ItemAt(items, ts, i, c, x) ==
  /\ c \in Nat /\ x \in Nat /\ c + x <= Len(ts)
  /\ \A j \in 1..x : ts[c + j] = items[i][j]
  /\ i = 1 => c = 0
  /\ i = Len(items) => Len(ts) = c + x

LEMMA ListedItem ==
  ASSUME NEW items \in Seq(Seq(Token)), NEW ts, NEW b, ListedAt(items, ts, b),
         NEW i \in 1..Len(items)
  PROVE  ItemAt(items, ts, i, b[i], Len(items[i]))
<1>1. items[i] \in Seq(Token) /\ Len(items) \in Nat
  BY LenProperties
<1>2. PICK c : c = b[i]
  OBVIOUS
<1>3. PICK x : x = Len(items[i])
  OBVIOUS
<1>4. x \in Nat
  BY <1>1, <1>3, LenProperties
<1>5. /\ c \in Nat /\ c + x <= Len(ts)
      /\ \A j \in 1..x : ts[c + j] = items[i][j]
  BY <1>2, <1>3 DEF ListedAt
<1>6. Len(items) # 0
  BY <1>1
<1>7. b[1] = 0 /\ Len(ts) = b[Len(items)] + Len(items[Len(items)])
  BY <1>6 DEF ListedAt
<1>8. ItemAt(items, ts, i, c, x)
  BY <1>2, <1>3, <1>4, <1>5, <1>7 DEF ItemAt
<1>9. QED
  BY <1>2, <1>3, <1>8

NextAt(ts, c, d, x) == c = d + x + 1 /\ c \in 1..Len(ts) /\ ts[c].is = ","

LEMMA ListedNext ==
  ASSUME NEW items \in Seq(Seq(Token)), NEW ts, NEW b, ListedAt(items, ts, b), Len(ts) \in Nat,
         NEW k \in 1..Len(items), NEW i \in 1..Len(items), i = k + 1
  PROVE  NextAt(ts, b[i], b[k], Len(items[k]))
<1>0. Len(items) \in Nat
  BY LenProperties
<1>1. PICK c : c = b[i]
  OBVIOUS
<1>2. PICK d : d = b[k]
  OBVIOUS
<1>3. PICK x : x = Len(items[k])
  OBVIOUS
<1>4. PICK y : y = Len(items[i])
  OBVIOUS
<1>5. ItemAt(items, ts, i, c, y) /\ ItemAt(items, ts, k, d, x)
  BY <1>1, <1>2, <1>3, <1>4, ListedItem
<1>6. c \in Nat /\ d \in Nat /\ x \in Nat /\ y \in Nat /\ c + y <= Len(ts)
  BY <1>5 DEF ItemAt
<1>7. i \in 2..Len(items) /\ i - 1 = k
  BY <1>0
<1>8. b[i] = b[i - 1] + Len(items[i - 1]) + 1 /\ ts[b[i]].is = ","
  BY <1>7 DEF ListedAt
<1>9. c = d + x + 1
  BY <1>1, <1>2, <1>3, <1>7, <1>8
<1>10. c \in 1..Len(ts)
  BY ONLY <1>6, <1>9
<1>11. NextAt(ts, c, d, x)
  BY <1>1, <1>8, <1>9, <1>10 DEF NextAt
<1>12. QED
  BY <1>1, <1>2, <1>3, <1>11

(* Items of one length: 4 tokens, or 3. *)
Evenly(b, n, m) == \A i \in 1..n : b[i] = m * (i - 1)

LEMMA EvenItems ==
  ASSUME NEW items, NEW ts, NEW b, ListedAt(items, ts, b), Len(items) \in Nat, NEW m \in {4, 5},
         \A i \in 1..(Len(items) - 1) : Len(items[i]) = m - 1
  PROVE  Evenly(b, Len(items), m)
<1> DEFINE n == Len(items)
<1>1. \A i \in 1..n : b[i] \in Nat
  BY DEF ListedAt
<1>2. n # 0 => b[1] = 0
  BY DEF ListedAt
<1>3. ASSUME NEW i \in Nat, i + 1 \in 1..n, i # 0 PROVE i \in 1..n /\ b[i + 1] = b[i] + m
  <2>1. i + 1 \in 2..n /\ (i + 1) - 1 = i /\ i \in 1..(n - 1) /\ i \in 1..n
    BY <1>3
  <2>2. b[i + 1] = b[i] + Len(items[i]) + 1
    BY <2>1 DEF ListedAt
  <2> DEFINE x == Len(items[i])
  <2>3. x = m - 1 /\ b[i + 1] = b[i] + x + 1 /\ b[i] \in Nat
    BY <1>1, <2>1, <2>2
  <2> HIDE DEF x, n
  <2>4. b[i + 1] = b[i] + m
    BY <2>3
  <2>5. QED
    BY <2>1, <2>4
<1> HIDE DEF n
<1> DEFINE T == {i \in Nat : i + 1 \in 1..n => b[i + 1] = m * i}
<1>4. 0 \in T
  BY <1>2
<1>5. ASSUME NEW i \in Nat, i \in T PROVE i + 1 \in T
  <2>1. SUFFICES ASSUME (i + 1) + 1 \in 1..n PROVE b[(i + 1) + 1] = m * (i + 1)
    OBVIOUS
  <2>2. i + 1 \in 1..n /\ b[(i + 1) + 1] = b[i + 1] + m
    BY <1>3, <2>1
  <2>3. b[i + 1] = m * i
    BY <1>5, <2>2
  <2>4. m * (i + 1) = m * i + m
    <3>1. CASE m = 4
      BY <3>1
    <3>2. CASE m = 5
      BY <3>2
    <3>3. QED
      BY <3>1, <3>2
  <2>5. QED
    BY <2>2, <2>3, <2>4
<1>6. Nat \subseteq T
  <2> HIDE DEF T
  <2>1. QED
    BY <1>4, <1>5, SetInduction
<1>7. ASSUME NEW i \in 1..n PROVE b[i] = m * (i - 1)
  <2>1. i - 1 \in Nat /\ (i - 1) + 1 = i
    BY DEF n
  <2>2. i - 1 \in T
    BY <1>6, <2>1
  <2>3. QED
    BY <2>1, <2>2
<1>8. QED
  BY <1>7 DEF n, Evenly

--------------------------------------------------------------------------------
(* Concatenations *)

LEMMA ConcatIs ==
  ASSUME NEW s \in Seq(Token), NEW t \in Seq(Token)
  PROVE  /\ s \o t \in Seq(Token) /\ Len(s \o t) = Len(s) + Len(t)
         /\ Len(s) \in Nat /\ Len(t) \in Nat
         /\ \A i \in 1..Len(s) : (s \o t)[i] = s[i]
         /\ \A i \in 1..Len(t) : (s \o t)[Len(s) + i] = t[i]
<1>1. Len(s) \in Nat /\ Len(t) \in Nat
  BY LenProperties
<1>2. /\ s \o t \in Seq(Token) /\ Len(s \o t) = Len(s) + Len(t)
      /\ \A i \in 1..(Len(s) + Len(t)) :
           (s \o t)[i] = IF i <= Len(s) THEN s[i] ELSE t[i - Len(s)]
  BY ConcatProperties
<1>3. ASSUME NEW i \in 1..Len(s) PROVE (s \o t)[i] = s[i]
  BY <1>1, <1>2
<1>4. ASSUME NEW i \in 1..Len(t) PROVE (s \o t)[Len(s) + i] = t[i]
  BY <1>1, <1>2
<1>5. QED
  BY <1>1, <1>2, <1>3, <1>4

LEMMA OneTokenIs ==
  ASSUME NEW t \in Token
  PROVE  <<t>> \in Seq(Token) /\ Len(<<t>>) = 1 /\ <<t>>[1] = t
OBVIOUS

LEMMA ParensIs ==
  ASSUME NEW ts \in Seq(Token)
  PROVE  /\ Parens(ts) \in Seq(Token) /\ Len(Parens(ts)) = Len(ts) + 2
         /\ Parens(ts)[1].is = "(" /\ Parens(ts)[Len(ts) + 2].is = ")"
         /\ \A i \in 1..Len(ts) : Parens(ts)[i + 1] = ts[i]
<1> DEFINE l == Mark("(")
<1> DEFINE r == Mark(")")
<1>1. l \in Token /\ r \in Token /\ l.is = "(" /\ r.is = ")"
  BY TokensAre DEF Marks
<1> DEFINE u == <<l>> \o ts
<1> DEFINE v == u \o <<r>>
<1>2. Parens(ts) = v
  BY DEF Parens
<1> HIDE DEF l, r
<1>3. <<l>> \in Seq(Token) /\ Len(<<l>>) = 1 /\ <<l>>[1] = l
  BY <1>1, OneTokenIs
<1>4. <<r>> \in Seq(Token) /\ Len(<<r>>) = 1 /\ <<r>>[1] = r
  BY <1>1, OneTokenIs
<1>5. /\ u \in Seq(Token) /\ Len(u) = 1 + Len(ts) /\ Len(ts) \in Nat
      /\ u[1] = l /\ \A i \in 1..Len(ts) : u[1 + i] = ts[i]
  BY <1>3, ConcatIs
<1> HIDE DEF u
<1>6. /\ v \in Seq(Token) /\ Len(v) = Len(u) + 1 /\ v[Len(u) + 1] = r
      /\ \A i \in 1..Len(u) : v[i] = u[i]
  BY <1>4, <1>5, ConcatIs
<1> HIDE DEF v
<1>7. ASSUME NEW i \in 1..Len(ts) PROVE v[i + 1] = ts[i]
  BY <1>5, <1>6
<1>8. Len(v) = Len(ts) + 2 /\ v[1] = l /\ v[Len(ts) + 2] = r
  BY <1>5, <1>6
<1>9. QED
  BY <1>1, <1>2, <1>6, <1>7, <1>8

(* The tokens of u stand behind the first a. *)
Stands(u, k, ts, a) == \A j \in 1..k : ts[a + j] = u[j]

(* The k tokens behind the first a. *)
Slice(u, ts, a, k) ==
  /\ u \in Seq(Token) /\ Len(u) = k
  /\ \A i \in 1..k : u[i] = ts[a + i]

LEMMA SliceIs ==
  ASSUME NEW ts \in Seq(Token), NEW a \in Nat, NEW k \in Nat, a + k <= Len(ts),
         NEW l, l = a + 1, NEW r, r = a + k
  PROVE  Slice(SubSeq(ts, l, r), ts, a, k)
<1>1. Len(ts) \in Nat
  BY LenProperties
<1>2. \A i \in l..r : i \in 1..Len(ts)
  BY <1>1
<1>3. l \in Int /\ r \in Int /\ \A i \in l..r : ts[i] \in Token
  BY <1>2
<1> DEFINE u == SubSeq(ts, l, r)
<1>4. /\ u \in Seq(Token) /\ Len(u) = IF l <= r THEN r - l + 1 ELSE 0
      /\ \A i \in 1..(r - l + 1) : u[i] = ts[l + i - 1]
  BY <1>3, SubSeqProperties
<1> HIDE DEF u
<1>5. Len(u) = k /\ r - l + 1 = k
  BY <1>4
<1>6. ASSUME NEW i \in 1..k PROVE u[i] = ts[a + i]
  <2>1. l + i - 1 = a + i /\ i \in 1..(r - l + 1)
    BY <1>5
  <2>2. QED
    BY <1>4, <2>1
<1>7. QED
  BY <1>4, <1>5, <1>6 DEF u, Slice

--------------------------------------------------------------------------------
(* Lists of types *)

(* bits [ w ]: the tokens of a type. *)
TypesAt(ts, widths) ==
  /\ ts \in Seq(Token) /\ Len(ts) \in Nat
  /\ \A p \in 1..Len(ts) : ts[p].is \in {"word", "[", "num", "]", ","}
  /\ \A i \in 1..Len(widths) :
       /\ 5 * i - 3 >= 1 /\ 5 * i - 2 <= Len(ts)
       /\ ts[5 * i - 3].is = "[" /\ ts[5 * i - 2] = Num(widths[i])
  /\ \A p \in 1..Len(ts) : ts[p].is = "[" => \E i \in 1..Len(widths) : p = 5 * i - 3

LEMMA TypesAre ==
  ASSUME NEW widths \in Seq(Nat)
  PROVE  TypesAt(WrittenTypes(widths), widths)
<1> DEFINE n == Len(widths)
<1> DEFINE one(i) == <<Word("bits"), Mark("["), Num(widths[i]), Mark("]")>>
<1> DEFINE items == [i \in 1..n |-> one(i)]
<1> DEFINE T == WrittenTypes(widths)
<1>1. n \in Nat /\ DOMAIN widths = 1..n /\ \A i \in 1..n : widths[i] \in Nat
  BY LenProperties
<1>2. ASSUME NEW i \in 1..n
      PROVE  /\ one(i) \in Seq(Token) /\ Len(one(i)) = 4
             /\ one(i)[1].is = "word" /\ one(i)[2].is = "[" /\ one(i)[3] = Num(widths[i])
             /\ one(i)[3].is = "num" /\ one(i)[4].is = "]"
  <2>1. /\ Word("bits") \in Token /\ Word("bits").is = "word"
        /\ Mark("[") \in Token /\ Mark("[").is = "["
        /\ Mark("]") \in Token /\ Mark("]").is = "]"
    BY TokensAre DEF Words, Marks
  <2>2. Num(widths[i]) \in Token /\ Num(widths[i]).is = "num"
    BY <1>1, TokensAre
  <2> DEFINE c == Word("bits")
  <2> DEFINE d == Mark("[")
  <2> DEFINE e == Num(widths[i])
  <2> DEFINE f == Mark("]")
  <2>3. c \in Token /\ d \in Token /\ e \in Token /\ f \in Token
    BY <2>1, <2>2
  <2>4. one(i) = <<c, d, e, f>>
    OBVIOUS
  <2> HIDE DEF c, d, e, f, one
  <2>5. /\ <<c, d, e, f>> \in Seq(Token) /\ Len(<<c, d, e, f>>) = 4
        /\ <<c, d, e, f>>[1] = c /\ <<c, d, e, f>>[2] = d
        /\ <<c, d, e, f>>[3] = e /\ <<c, d, e, f>>[4] = f
    BY <2>3
  <2>6. QED
    BY <2>1, <2>2, <2>4, <2>5 DEF c, d, e, f
<1> HIDE DEF one
<1>3. items \in Seq(Seq(Token)) /\ Len(items) = n /\ \A i \in 1..n : items[i] = one(i)
  <2>1. items \in [1..n -> Seq(Token)] /\ \A i \in 1..n : items[i] = one(i)
    BY <1>2
  <2> HIDE DEF items
  <2>2. QED
    BY <1>1, <2>1, FunctionIsSeq
<1>4. T = Listed(items)
  BY <1>1 DEF WrittenTypes, one
<1> HIDE DEF items, T, n
<1>5. PICK b : ListedAt(items, T, b)
  BY <1>3, <1>4, ListedIs
<1>6. T \in Seq(Token) /\ Len(T) \in Nat
  BY <1>3, <1>4, ListedIs, LenProperties
<1>7. \A i \in 1..n : b[i] = 5 * (i - 1)
  <2>1. 5 \in {4, 5} /\ \A i \in 1..(n - 1) : i \in 1..n
    BY <1>1
  <2>2. \A i \in 1..(n - 1) : Len(items[i]) = 5 - 1
    BY <1>2, <1>3, <2>1
  <2>3. QED
    <3>1. Len(items) \in Nat /\ \A i \in 1..(Len(items) - 1) : Len(items[i]) = 5 - 1
      BY <1>1, <1>3, <2>2
    <3>2. Evenly(b, Len(items), 5)
      BY <1>5, <2>1, <3>1, EvenItems
    <3>3. QED
      BY <1>3, <3>2 DEF Evenly
<1>8. ASSUME NEW i \in 1..n
      PROVE  /\ 5 * i - 1 <= Len(T) /\ 5 * i - 4 >= 1
             /\ T[5 * i - 4].is = "word" /\ T[5 * i - 3].is = "["
             /\ T[5 * i - 2] = Num(widths[i]) /\ T[5 * i - 2].is = "num" /\ T[5 * i - 1].is = "]"
  <2>1. items[i] = one(i) /\ Len(items[i]) = 4 /\ b[i] = 5 * (i - 1)
    BY <1>2, <1>3, <1>7
  <2>2. b[i] + 4 <= Len(T) /\ \A j \in 1..4 : T[b[i] + j] = one(i)[j]
    <3>1. b[i] + Len(items[i]) <= Len(T) /\ \A j \in 1..Len(items[i]) : T[b[i] + j] = items[i][j]
      BY <1>3, <1>5 DEF ListedAt
    <3>2. QED
      BY <2>1, <3>1
  <2>3. /\ b[i] + 1 = 5 * i - 4 /\ b[i] + 2 = 5 * i - 3 /\ b[i] + 3 = 5 * i - 2 /\ b[i] + 4 = 5 * i - 1
        /\ 5 * i - 4 >= 1
    <3>1. PICK c : c = b[i]
      OBVIOUS
    <3>2. c = 5 * (i - 1)
      BY <2>1, <3>1
    <3>3. c + 1 = 5 * i - 4 /\ c + 2 = 5 * i - 3 /\ c + 3 = 5 * i - 2 /\ c + 4 = 5 * i - 1 /\ 5 * i - 4 >= 1
      BY ONLY <1>1, <3>2, i \in 1..n
    <3>4. QED
      BY <3>1, <3>3
  <2>4. T[b[i] + 1] = one(i)[1] /\ T[b[i] + 2] = one(i)[2] /\ T[b[i] + 3] = one(i)[3] /\ T[b[i] + 4] = one(i)[4]
    <3>1. 1 \in 1..4 /\ 2 \in 1..4 /\ 3 \in 1..4 /\ 4 \in 1..4
      OBVIOUS
    <3>2. QED
      BY ONLY <2>2, <3>1, Zenon
  <2>5. QED
    BY <1>2, <2>2, <2>3, <2>4
<1>9. ASSUME NEW p \in 1..Len(T)
      PROVE  /\ T[p].is \in {"word", "[", "num", "]", ","}
             /\ T[p].is = "[" => \E i \in 1..n : p = 5 * i - 3
  <2>1. PICK i \in 1..n : (p = b[i] /\ i > 1) \/ (\E j \in 1..Len(items[i]) : p = b[i] + j)
    BY <1>3, <1>5 DEF ListedAt
  <2>2. b[i] = 5 * (i - 1) /\ Len(items[i]) = 4
    BY <1>2, <1>3, <1>7
  <2>3. CASE p = b[i] /\ i > 1
    <3>1. i \in 2..n
      BY <1>1, <2>3
    <3>2. T[p].is = ","
      BY <1>3, <1>5, <2>3, <3>1 DEF ListedAt
    <3>3. QED
      BY <3>2
  <2>4. CASE \E j \in 1..Len(items[i]) : p = b[i] + j
    <3>1. PICK j \in 1..4 : p = 5 * (i - 1) + j
      BY <2>2, <2>4
    <3>2. p = 5 * i - 4 \/ p = 5 * i - 3 \/ p = 5 * i - 2 \/ p = 5 * i - 1
      BY <1>1, <3>1
    <3>3. QED
      BY <1>8, <3>2
  <2>5. QED
    BY <2>1, <2>3, <2>4
<1>10. TypesAt(T, widths)
  <2>1. \A i \in 1..n : 5 * i - 2 <= Len(T) /\ 5 * i - 3 >= 1
    BY <1>1, <1>6, <1>8
  <2>2. QED
    BY <1>6, <1>8, <1>9, <2>1 DEF TypesAt, n
<1>11. QED
  BY <1>10 DEF T

(* A width the parser can hold. *)
Bytes == 0..255

LEMMA BytesAre ==
  ASSUME NEW widths \in Seq(Bytes)
  PROVE  /\ widths \in Seq(Nat) /\ Len(widths) \in Nat /\ DOMAIN widths = 1..Len(widths)
         /\ \A i \in 1..Len(widths) : widths[i] \in Nat /\ InByte(widths[i]) = widths[i]
<1>1. Len(widths) \in Nat /\ DOMAIN widths = 1..Len(widths)
  BY LenProperties
<1>2. \A i \in 1..Len(widths) : widths[i] \in Bytes
  OBVIOUS
<1>3. \A x \in Bytes : x \in Nat /\ InByte(x) = x
  BY DEF Bytes, InByte
<1>4. \A i \in 1..Len(widths) : widths[i] \in Nat /\ InByte(widths[i]) = widths[i]
  BY <1>2, <1>3
<1>5. widths \in [1..Len(widths) -> Nat]
  BY <1>1, <1>4, LenProperties
<1>6. QED
  BY <1>1, <1>4, <1>5, FunctionIsSeq

(* The widths are read back, also behind the parenthesis of a parameter. *)
LEMMA TypesAreRead ==
  ASSUME NEW widths \in Seq(Bytes), NEW ts, TypesAt(ts, widths),
         NEW u \in Seq(Token), NEW d \in {0, 1}, Len(u) = Len(ts) + d,
         \A p \in 1..Len(ts) : u[p + d] = ts[p],
         d = 1 => u[1].is = "("
  PROVE  ParseTypeList(u) = widths
<1> DEFINE n == Len(widths)
<1>1. /\ n \in Nat /\ DOMAIN widths = 1..n
      /\ Len(ts) \in Nat /\ Len(u) \in Nat /\ DOMAIN u = 1..Len(u)
  BY LenProperties DEF TypesAt
<1>2. widths \in Seq(Nat) /\ Len(widths) = n
  BY BytesAre
<1>a. \A i \in 1..n : widths[i] \in Nat /\ InByte(widths[i]) = widths[i]
  BY BytesAre
<1>3. /\ \A i \in 1..n :
           /\ 5 * i - 3 >= 1 /\ 5 * i - 2 <= Len(ts)
           /\ ts[5 * i - 3].is = "[" /\ ts[5 * i - 2] = Num(widths[i])
      /\ \A p \in 1..Len(ts) : ts[p].is = "[" => \E i \in 1..n : p = 5 * i - 3
  BY DEF TypesAt
<1> HIDE DEF n
<1> DEFINE place == [i \in 1..n |-> 5 * i - 3 + d]
<1>4. ASSUME NEW i \in 1..n
      PROVE  /\ place[i] = 5 * i - 3 + d /\ place[i] \in 1..Len(u)
             /\ u[place[i]].is = "["
             /\ NumberAt(u, place[i] + 1) = widths[i]
  <2>1. place[i] = (5 * i - 3) + d /\ place[i] + 1 = (5 * i - 2) + d
    BY <1>1
  <2>2. 5 * i - 3 \in 1..Len(ts) /\ 5 * i - 2 \in 1..Len(ts)
    BY <1>1, <1>3
  <2>3. place[i] \in 1..Len(u) /\ place[i] + 1 \in 1..Len(u)
    BY <1>1, <2>1, <2>2
  <2>4. u[place[i]] = ts[5 * i - 3] /\ u[place[i] + 1] = Num(widths[i])
    BY <1>3, <2>1, <2>2
  <2>5. Num(widths[i]).is = "num" /\ Num(widths[i]).of = widths[i]
    BY <1>a, TokensAre
  <2> HIDE DEF place
  <2>6. NumberAt(u, place[i] + 1) = widths[i]
    BY <1>1, <1>a, <2>3, <2>4, <2>5 DEF NumberAt
  <2>7. QED
    BY <1>3, <2>1, <2>3, <2>4, <2>6
<1>5. place \in [1..n -> 1..Len(u)]
  BY <1>4
<1>6. \A i, j \in 1..n : i < j => place[i] < place[j]
  BY <1>1
<1>7. ASSUME NEW p \in 1..Len(u), u[p].is = "[" PROVE \E i \in 1..n : place[i] = p
  <2>1. ~(d = 1 /\ p = 1)
    BY <1>7
  <2>2. p - d \in 1..Len(ts) /\ (p - d) + d = p
    BY <1>1, <2>1
  <2>3. ts[p - d].is = "["
    BY <1>7, <2>2
  <2>4. PICK i \in 1..n : p - d = 5 * i - 3
    BY <1>3, <2>2, <2>3
  <2>5. place[i] = p
    BY <1>1, <1>4, <2>2, <2>4
  <2>6. QED
    BY <2>5
<1> HIDE DEF place
<1>8. Places(u, "[", place, widths)
  <2>1. /\ place \in [1..Len(widths) -> 1..Len(u)]
        /\ \A i, j \in 1..Len(widths) : i < j => place[i] < place[j]
        /\ \A p \in 1..Len(u) : u[p].is = "[" => \E i \in 1..Len(widths) : place[i] = p
    BY <1>5, <1>6, <1>7 DEF n
  <2>2. \A i \in 1..Len(widths) : u[place[i]].is = "[" /\ NumberAt(u, place[i] + 1) = widths[i]
    BY <1>4 DEF n
  <2>3. QED
    BY <2>1, <2>2 DEF Places
<1>9. Behind(u, "[") = widths
  BY <1>2, <1>8, BehindPlaces
<1>10. ParseTypeList(u) = [i \in 1..n |-> InByte(widths[i])]
  BY <1>1, <1>9 DEF ParseTypeList
<1>12. widths = [i \in 1..n |-> widths[i]]
  BY <1>1, <1>2, LenProperties
<1>13. QED
  BY <1>a, <1>10, <1>12

--------------------------------------------------------------------------------
(* The state machine of the header *)

Heads(h, n, ts) == h = [p \in 0..n |-> IF p = 0 THEN Unparsed ELSE HeaderStep(h[p - 1], p, ts)]

LEMMA HeadsExist == \A ts : \A n \in Nat : \E h : Heads(h, n, ts)
<1>1. SUFFICES ASSUME NEW ts PROVE \A n \in Nat : \E h : Heads(h, n, ts)
  OBVIOUS
<1> DEFINE T == {n \in Nat : \E h : Heads(h, n, ts)}
<1>2. 0 \in T
  <2>1. Heads([p \in 0..0 |-> Unparsed], 0, ts)
    BY DEF Heads
  <2>2. QED
    BY <2>1
<1>3. ASSUME NEW n \in Nat, n \in T PROVE n + 1 \in T
  <2>1. PICK f : Heads(f, n, ts)
    BY <1>3
  <2>2. PICK g : g = [p \in 0..(n + 1) |-> IF p <= n THEN f[p] ELSE HeaderStep(f[n], n + 1, ts)]
    OBVIOUS
  <2>3. \A p \in 0..n : f[p] = IF p = 0 THEN Unparsed ELSE HeaderStep(f[p - 1], p, ts)
    BY <2>1 DEF Heads
  <2>4. ASSUME NEW p \in 0..(n + 1)
        PROVE  g[p] = IF p = 0 THEN Unparsed ELSE HeaderStep(g[p - 1], p, ts)
    <3>1. CASE p = 0
      BY <2>2, <2>3, <3>1
    <3>2. CASE p \in 1..n
      <4>1. p - 1 \in 0..n /\ p \in 0..n /\ p - 1 \in 0..(n + 1)
        BY <3>2
      <4>2. g[p] = f[p] /\ g[p - 1] = f[p - 1]
        BY <2>2, <4>1
      <4>3. QED
        BY <2>3, <3>2, <4>1, <4>2
    <3>3. CASE p = n + 1
      <4>1. p - 1 = n /\ ~(p <= n) /\ n \in 0..(n + 1) /\ p # 0
        BY <3>3
      <4>2. g[p] = HeaderStep(f[n], n + 1, ts) /\ g[n] = f[n]
        BY <2>2, <4>1
      <4>3. QED
        BY <3>3, <4>1, <4>2
    <3>4. QED
      BY <3>1, <3>2, <3>3
  <2>5. g = [p \in 0..(n + 1) |-> IF p = 0 THEN Unparsed ELSE HeaderStep(g[p - 1], p, ts)]
    BY <2>2, <2>4
  <2>6. Heads(g, n + 1, ts)
    BY <2>5 DEF Heads
  <2>7. QED
    BY <2>6
<1> HIDE DEF T
<1>4. Nat \subseteq T
  BY <1>2, <1>3, SetInduction
<1>5. QED
  BY <1>4 DEF T

Steps(h, n, ts) == \A p \in 1..n : h[p] = HeaderStep(h[p - 1], p, ts)

LEMMA ParseHeaderIs ==
  ASSUME NEW ts \in Seq(Token)
  PROVE  \E h : h[0] = Unparsed /\ ParseHeader(ts) = h[Len(ts)] /\ Steps(h, Len(ts), ts)
<1> DEFINE h[p \in 0..Len(ts)] == IF p = 0 THEN Unparsed ELSE HeaderStep(h[p - 1], p, ts)
<1>1. Len(ts) \in Nat
  BY LenProperties
<1>2. ParseHeader(ts) = h[Len(ts)]
  BY DEF ParseHeader
<1>3. \E f : Heads(f, Len(ts), ts)
  BY <1>1, HeadsExist
<1>4. Heads(h, Len(ts), ts)
  BY <1>3 DEF Heads
<1> HIDE DEF h
<1>5. \A p \in 0..Len(ts) : h[p] = IF p = 0 THEN Unparsed ELSE HeaderStep(h[p - 1], p, ts)
  BY <1>4 DEF Heads
<1>6. h[0] = Unparsed
  BY <1>1, <1>5
<1>7. \A p \in 1..Len(ts) : h[p] = HeaderStep(h[p - 1], p, ts)
  BY <1>1, <1>5
<1>8. Steps(h, Len(ts), ts)
  BY <1>7 DEF Steps
<1>9. QED
  BY <1>2, <1>6, <1>8

Head4(state, from, ins, out) == [state |-> state, begin |-> from, inputs |-> ins, output |-> out]

(* One token, in each of the states. *)
LEMMA HeaderSteps ==
  ASSUME NEW from, NEW ins, NEW out, NEW p, NEW ts, NEW c, c = ts[p].is,
         NEW signature, signature = ParseTypeList(SubSeq(ts, from + 1, p - 1))
  PROVE  LET step(state) == HeaderStep(Head4(state, from, ins, out), p, ts)
         IN  /\ c # ":" /\ c # ">" => step("arguments_start") = Head4("arguments_start", from, ins, out)
             /\ c = ":" => step("arguments_start") = Head4("arguments_end", p, ins, out)
             /\ c = ">" => step("arguments_start") = Head4("return_start", from, ins, out)
             /\ c # ")" => step("arguments_end") = Head4("arguments_end", from, ins, out)
             /\ c = ")" => step("arguments_end") = Head4("arguments_start", from, Append(ins, signature), out)
             /\ c = "(" => step("return_start") = Head4("return_end", p, ins, out)
             /\ c # ")" => step("return_end") = Head4("return_end", from, ins, out)
             /\ c = ")" => step("return_end") = Head4("end", from, ins, signature)
             /\ step("end") = Head4("completed", from, ins, out)
<1> DEFINE step(state) == HeaderStep(Head4(state, from, ins, out), p, ts)
<1> DEFINE more == Append(ins, signature)
<1>0. ASSUME NEW s
      PROVE  /\ s = "arguments_start" /\ c = ":" => step(s) = Head4("arguments_end", p, ins, out)
             /\ s = "arguments_start" /\ c = ">" => step(s) = Head4("return_start", from, ins, out)
             /\ s = "arguments_end" /\ c = ")" => step(s) = Head4("arguments_start", from, more, out)
             /\ s = "return_start" /\ c = "(" => step(s) = Head4("return_end", p, ins, out)
             /\ s = "return_end" /\ c = ")" => step(s) = Head4("end", from, ins, signature)
             /\ s = "end" => step(s) = Head4("completed", from, ins, out)
             /\ /\ s \in {"arguments_start", "arguments_end", "return_start", "return_end"}
                /\ s = "arguments_start" => c # ":" /\ c # ">"
                /\ s # "arguments_start" => c # ")" /\ c # "("
                => step(s) = Head4(s, from, ins, out)
             /\ s \in {"arguments_end", "return_end"} /\ c # ")" => step(s) = Head4(s, from, ins, out)
  <2> DEFINE h == Head4(s, from, ins, out)
  <2>1. /\ h.state = s /\ h.begin = from /\ h.inputs = ins
        /\ \A s2 : [h EXCEPT !.state = s2] = Head4(s2, from, ins, out)
    BY DEF Head4
  <2>a. \A s2 : [[h EXCEPT !.state = s2] EXCEPT !.begin = p] = Head4(s2, p, ins, out)
    <3>1. \A s2 : [Head4(s2, from, ins, out) EXCEPT !.begin = p] = Head4(s2, p, ins, out)
      BY DEF Head4
    <3> HIDE DEF h
    <3>2. QED
      BY <2>1, <3>1
  <2>2. [[h EXCEPT !.state = "arguments_start"] EXCEPT !.inputs = Append(@, signature)]
          = Head4("arguments_start", from, more, out)
    <3>1. Head4("arguments_start", from, ins, out).inputs = ins
      BY DEF Head4
    <3>2. [Head4("arguments_start", from, ins, out) EXCEPT !.inputs = more]
            = Head4("arguments_start", from, more, out)
      BY DEF Head4
    <3>3. [h EXCEPT !.state = "arguments_start"] = Head4("arguments_start", from, ins, out)
      BY <2>1
    <3> HIDE DEF h
    <3>4. QED
      BY <3>1, <3>2, <3>3
  <2>3. [[h EXCEPT !.state = "end"] EXCEPT !.output = signature] = Head4("end", from, ins, signature)
    <3>1. [Head4("end", from, ins, out) EXCEPT !.output = signature] = Head4("end", from, ins, signature)
      BY DEF Head4
    <3>2. [h EXCEPT !.state = "end"] = Head4("end", from, ins, out)
      BY <2>1
    <3> HIDE DEF h
    <3>3. QED
      BY <3>1, <3>2
  <2> HIDE DEF h
  <2>4. HeaderStep(h, p, ts) =
               CASE s = "arguments_start" /\ c = ":" -> Head4("arguments_end", p, ins, out)
                 [] s = "arguments_start" /\ c = ">" -> Head4("return_start", from, ins, out)
                 [] s = "arguments_end" /\ c = ")"   -> Head4("arguments_start", from, more, out)
                 [] s = "return_start" /\ c = "("    -> Head4("return_end", p, ins, out)
                 [] s = "return_end" /\ c = ")"      -> Head4("end", from, ins, signature)
                 [] s = "end"                        -> Head4("completed", from, ins, out)
                 [] OTHER                            -> h
    BY <2>1, <2>a, <2>2, <2>3 DEF HeaderStep
  <2>5. h = Head4(s, from, ins, out)
    BY DEF h
  <2>6. QED
    BY <2>4, <2>5
<1> HIDE DEF more, step
<1>1. QED
  BY <1>0 DEF more, step

LEMMA StaysBetween ==
  ASSUME NEW from, NEW ins, NEW out, NEW p, NEW ts, NEW h,
         h = Head4("arguments_start", from, ins, out), ts[p].is # ":", ts[p].is # ">"
  PROVE  HeaderStep(h, p, ts) = h
BY HeaderSteps

LEMMA StaysInside ==
  ASSUME NEW from, NEW ins, NEW out, NEW p, NEW ts, NEW h, NEW s \in {"arguments_end", "return_end"},
         h = Head4(s, from, ins, out), ts[p].is # ")"
  PROVE  HeaderStep(h, p, ts) = h
BY HeaderSteps

LEMMA StepColon ==
  ASSUME NEW from, NEW ins, NEW out, NEW p, NEW ts, NEW h,
         h = Head4("arguments_start", from, ins, out), ts[p].is = ":"
  PROVE  HeaderStep(h, p, ts) = Head4("arguments_end", p, ins, out)
BY HeaderSteps

LEMMA StepParameter ==
  ASSUME NEW from, NEW ins, NEW out, NEW p, NEW ts, NEW h,
         h = Head4("arguments_end", from, ins, out), ts[p].is = ")",
         NEW w, w = ParseTypeList(SubSeq(ts, from + 1, p - 1))
  PROVE  HeaderStep(h, p, ts) = Head4("arguments_start", from, Append(ins, w), out)
BY HeaderSteps

LEMMA StepArrow ==
  ASSUME NEW from, NEW ins, NEW out, NEW p, NEW ts, NEW h,
         h = Head4("arguments_start", from, ins, out), ts[p].is = ">"
  PROVE  HeaderStep(h, p, ts) = Head4("return_start", from, ins, out)
BY HeaderSteps

LEMMA StepReturn ==
  ASSUME NEW from, NEW ins, NEW out, NEW p, NEW ts, NEW h,
         h = Head4("return_start", from, ins, out), ts[p].is = "("
  PROVE  HeaderStep(h, p, ts) = Head4("return_end", p, ins, out)
BY HeaderSteps

LEMMA StepResult ==
  ASSUME NEW from, NEW ins, NEW out, NEW p, NEW ts, NEW h,
         h = Head4("return_end", from, ins, out), ts[p].is = ")",
         NEW w, w = ParseTypeList(SubSeq(ts, from + 1, p - 1))
  PROVE  HeaderStep(h, p, ts) = Head4("end", from, ins, w)
BY HeaderSteps

LEMMA StepEnd ==
  ASSUME NEW from, NEW ins, NEW out, NEW p, NEW ts, NEW h, h = Head4("end", from, ins, out)
  PROVE  HeaderStep(h, p, ts) = Head4("completed", from, ins, out)
BY HeaderSteps

(* A parameter:  param : ( bits [ w ] , ... )                              *)
Param(widths) == <<Word("param"), Mark(":")>> \o Parens(WrittenTypes(widths))

ParamAt(v, ts) ==
  /\ v \in Seq(Token) /\ Len(v) = Len(ts) + 4 /\ Len(ts) \in Nat
  /\ v[1].is = "word" /\ v[2].is = ":" /\ v[3].is = "("
  /\ \A j \in 1..Len(ts) : v[3 + j] = ts[j]
  /\ v[4 + Len(ts)].is = ")"

LEMMA ParamIs ==
  ASSUME NEW widths \in Seq(Nat), NEW ts, ts = WrittenTypes(widths)
  PROVE  ParamAt(Param(widths), ts)
<1> DEFINE c == Word("param")
<1> DEFINE d == Mark(":")
<1> DEFINE u == Parens(ts)
<1>1. c \in Token /\ d \in Token /\ c.is = "word" /\ d.is = ":"
  BY TokensAre DEF Words, Marks
<1>2. ts \in Seq(Token) /\ Len(ts) \in Nat
  BY TypesAre DEF TypesAt
<1>3. /\ u \in Seq(Token) /\ Len(u) = Len(ts) + 2
      /\ u[1].is = "(" /\ u[Len(ts) + 2].is = ")"
      /\ \A i \in 1..Len(ts) : u[i + 1] = ts[i]
  BY <1>2, ParensIs
<1>4. Param(widths) = <<c, d>> \o u
  BY DEF Param
<1> HIDE DEF c, d, u
<1> DEFINE v == Param(widths)
<1>5. <<c, d>> \in Seq(Token) /\ Len(<<c, d>>) = 2 /\ <<c, d>>[1] = c /\ <<c, d>>[2] = d
  BY <1>1
<1>6. /\ v \in Seq(Token) /\ Len(v) = 2 + Len(u)
      /\ v[1] = c /\ v[2] = d /\ \A i \in 1..Len(u) : v[2 + i] = u[i]
  BY <1>3, <1>4, <1>5, ConcatIs
<1> HIDE DEF v
<1>7. 1 \in 1..Len(u) /\ Len(ts) + 2 \in 1..Len(u)
  BY <1>2, <1>3
<1>8. v[3].is = "("
  BY <1>3, <1>6, <1>7
<1>9. v[4 + Len(ts)].is = ")"
  <2>1. 2 + (Len(ts) + 2) = 4 + Len(ts)
    BY <1>2
  <2>2. v[2 + (Len(ts) + 2)] = u[Len(ts) + 2]
    BY <1>6, <1>7
  <2>3. QED
    BY <1>3, <2>1, <2>2
<1>10. ASSUME NEW j \in 1..Len(ts) PROVE v[3 + j] = ts[j]
  <2>1. j + 1 \in 1..Len(u) /\ 2 + (j + 1) = 3 + j
    BY <1>2, <1>3
  <2>2. v[2 + (j + 1)] = u[j + 1]
    BY <1>6, <2>1
  <2>3. QED
    BY <1>3, <2>1, <2>2
<1>11. Len(v) = Len(ts) + 4
  BY <1>2, <1>3, <1>6
<1>12. QED
  <2>1. ParamAt(v, ts)
    BY <1>1, <1>2, <1>6, <1>8, <1>9, <1>10, <1>11 DEF ParamAt
  <2>2. QED
    BY <2>1 DEF v

(* top fn f ( I ) - > ( O ) {                                              *)
HeaderAt(ts, I, O) ==
  /\ ts \in Seq(Token) /\ Len(ts) = 10 + Len(I) + Len(O)
  /\ ts[1] = Word("top")
  /\ \A p \in 1..3 : ts[p].is = "word"
  /\ ts[4].is = "("
  /\ \A i \in 1..Len(I) : ts[4 + i] = I[i]
  /\ ts[5 + Len(I)].is = ")" /\ ts[6 + Len(I)].is = "-" /\ ts[7 + Len(I)].is = ">"
  /\ ts[8 + Len(I)].is = "("
  /\ \A i \in 1..Len(O) : ts[8 + Len(I) + i] = O[i]
  /\ ts[9 + Len(I) + Len(O)].is = ")"

Params(inputs) == [i \in DOMAIN inputs |-> Param(inputs[i])]

LEMMA HeaderIs ==
  ASSUME NEW inputs, NEW output_, NEW I, NEW O, I = Listed(Params(inputs)), O = WrittenTypes(output_),
         I \in Seq(Token), O \in Seq(Token)
  PROVE  HeaderAt(WrittenHeader(inputs, output_), I, O)
<1> DEFINE w1 == Word("top")
<1> DEFINE w2 == Word("fn")
<1> DEFINE w3 == Word("f")
<1> DEFINE m1 == Mark("-")
<1> DEFINE m2 == Mark(">")
<1> DEFINE m3 == Mark("{")
<1> DEFINE PI == Parens(I)
<1> DEFINE PO == Parens(O)
<1> DEFINE s1 == <<w1, w2, w3>>
<1> DEFINE s2 == s1 \o PI
<1> DEFINE s3 == s2 \o <<m1, m2>>
<1> DEFINE s4 == s3 \o PO
<1> DEFINE s5 == s4 \o <<m3>>
<1>1. /\ w1 \in Token /\ w2 \in Token /\ w3 \in Token /\ m1 \in Token /\ m2 \in Token /\ m3 \in Token
      /\ w1.is = "word" /\ w2.is = "word" /\ w3.is = "word" /\ m1.is = "-" /\ m2.is = ">"
  <2>1. w1 \in Token /\ w2 \in Token /\ w3 \in Token /\ w1.is = "word" /\ w2.is = "word" /\ w3.is = "word"
    BY TokensAre DEF Words
  <2>2. m1 \in Token /\ m2 \in Token /\ m3 \in Token /\ m1.is = "-" /\ m2.is = ">"
    BY TokensAre DEF Marks
  <2>3. QED
    BY <2>1, <2>2
<1>2. WrittenHeader(inputs, output_) = s5
  BY DEF WrittenHeader, Params, Param
<1>a. Len(I) \in Nat /\ Len(O) \in Nat
  BY LenProperties
<1>3. /\ PI \in Seq(Token) /\ Len(PI) = Len(I) + 2 /\ PI[1].is = "(" /\ PI[Len(I) + 2].is = ")"
      /\ \A i \in 1..Len(I) : PI[i + 1] = I[i]
  BY ParensIs
<1>4. /\ PO \in Seq(Token) /\ Len(PO) = Len(O) + 2 /\ PO[1].is = "(" /\ PO[Len(O) + 2].is = ")"
      /\ \A i \in 1..Len(O) : PO[i + 1] = O[i]
  BY ParensIs
<1>w. w1 = Word("top")
  OBVIOUS
<1> HIDE DEF w1, w2, w3, m1, m2, m3, PI, PO
<1>5. s1 \in Seq(Token) /\ Len(s1) = 3 /\ s1[1] = w1 /\ s1[2] = w2 /\ s1[3] = w3
  BY <1>1
<1> HIDE DEF s1
<1>6. /\ s2 \in Seq(Token) /\ Len(s2) = 3 + Len(PI)
      /\ \A i \in 1..3 : s2[i] = s1[i]
      /\ \A i \in 1..Len(PI) : s2[3 + i] = PI[i]
  <2>1. /\ s2 \in Seq(Token) /\ Len(s2) = Len(s1) + Len(PI)
        /\ \A i \in 1..Len(s1) : s2[i] = s1[i]
        /\ \A i \in 1..Len(PI) : s2[Len(s1) + i] = PI[i]
    BY <1>3, <1>5, ConcatIs
  <2> HIDE DEF s2
  <2>2. QED
    BY <1>5, <2>1
<1> HIDE DEF s2
<1>7. <<m1, m2>> \in Seq(Token) /\ Len(<<m1, m2>>) = 2 /\ <<m1, m2>>[1] = m1 /\ <<m1, m2>>[2] = m2
  BY <1>1
<1>8. /\ s3 \in Seq(Token) /\ Len(s3) = Len(s2) + 2
      /\ \A i \in 1..Len(s2) : s3[i] = s2[i]
      /\ s3[Len(s2) + 1] = m1 /\ s3[Len(s2) + 2] = m2
  BY <1>6, <1>7, ConcatIs
<1> HIDE DEF s3
<1>9. /\ s4 \in Seq(Token) /\ Len(s4) = Len(s3) + Len(PO)
      /\ \A i \in 1..Len(s3) : s4[i] = s3[i]
      /\ \A i \in 1..Len(PO) : s4[Len(s3) + i] = PO[i]
  <2>1. s3 \in Seq(Token) /\ PO \in Seq(Token)
    BY <1>4, <1>8
  <2>2. QED
    BY <2>1, ConcatIs
<1> HIDE DEF s4
<1>10. <<m3>> \in Seq(Token) /\ Len(<<m3>>) = 1
  BY <1>1
<1>11. /\ s5 \in Seq(Token) /\ Len(s5) = Len(s4) + 1
       /\ \A i \in 1..Len(s4) : s5[i] = s4[i]
  BY <1>9, <1>10, ConcatIs
<1> HIDE DEF s5
<1>12. /\ Len(s2) = 5 + Len(I) /\ Len(s3) = 7 + Len(I) /\ Len(s4) = 9 + Len(I) + Len(O)
       /\ Len(s5) = 10 + Len(I) + Len(O)
  BY <1>a, <1>3, <1>4, <1>6, <1>8, <1>9, <1>11
<1>13. /\ \A i \in 1..(5 + Len(I)) : s5[i] = s2[i]
       /\ s5[6 + Len(I)] = m1 /\ s5[7 + Len(I)] = m2
       /\ \A i \in 1..(Len(O) + 2) : s5[7 + Len(I) + i] = PO[i]
  <2> DEFINE q == Len(I)
  <2> DEFINE r == Len(O)
  <2>1. /\ q \in Nat /\ r \in Nat /\ Len(s2) = 5 + q /\ Len(s3) = 7 + q /\ Len(s4) = 9 + q + r
        /\ Len(PO) = r + 2
    BY <1>a, <1>4, <1>12
  <2>2. /\ \A i \in 1..(5 + q) : s3[i] = s2[i]
        /\ s3[6 + q] = m1 /\ s3[7 + q] = m2
        /\ \A i \in 1..(7 + q) : s4[i] = s3[i]
        /\ \A i \in 1..(r + 2) : s4[7 + q + i] = PO[i]
        /\ \A i \in 1..(9 + q + r) : s5[i] = s4[i]
    <3>1. (5 + q) + 1 = 6 + q /\ (5 + q) + 2 = 7 + q
      BY <2>1
    <3> HIDE DEF q, r
    <3>2. QED
      BY <1>8, <1>9, <1>11, <2>1, <3>1
  <2> HIDE DEF q, r
  <2>3. ASSUME NEW i \in 1..(5 + q) PROVE s5[i] = s2[i]
    BY <2>1, <2>2
  <2>4. s5[6 + q] = m1 /\ s5[7 + q] = m2
    BY <2>1, <2>2
  <2>5. ASSUME NEW i \in 1..(r + 2) PROVE s5[7 + q + i] = PO[i]
    BY <2>1, <2>2
  <2>6. QED
    BY <2>3, <2>4, <2>5 DEF q, r
<1>14. /\ s5[1] = w1 /\ s5[2] = w2 /\ s5[3] = w3 /\ s5[4].is = "("
       /\ \A i \in 1..Len(I) : s5[4 + i] = I[i]
       /\ s5[5 + Len(I)].is = ")"
  <2> DEFINE q == Len(I)
  <2>1. /\ q \in Nat /\ Len(PI) = q + 2 /\ PI[1].is = "(" /\ PI[q + 2].is = ")"
        /\ \A i \in 1..q : PI[i + 1] = I[i]
        /\ \A i \in 1..(5 + q) : s5[i] = s2[i]
    BY <1>a, <1>3, <1>13
  <2> HIDE DEF q
  <2>2. \A i \in 1..(q + 2) : s2[3 + i] = PI[i]
    BY <1>6, <2>1
  <2>3. s5[1] = w1 /\ s5[2] = w2 /\ s5[3] = w3
    BY <1>5, <1>6, <2>1
  <2>4. s5[4].is = "("
    <3>1. 1 \in 1..(q + 2) /\ 4 \in 1..(5 + q) /\ 3 + 1 = 4
      BY <2>1
    <3>2. s2[3 + 1] = PI[1]
      BY <2>2, <3>1
    <3>3. QED
      BY <2>1, <3>1, <3>2
  <2>5. s5[5 + q].is = ")"
    <3>1. q + 2 \in 1..(q + 2) /\ 5 + q \in 1..(5 + q) /\ 3 + (q + 2) = 5 + q
      BY <2>1
    <3>2. s2[3 + (q + 2)] = PI[q + 2]
      BY <2>2, <3>1
    <3>3. QED
      BY <2>1, <3>1, <3>2
  <2>6. ASSUME NEW i \in 1..q PROVE s5[4 + i] = I[i]
    <3>1. i + 1 \in 1..(q + 2) /\ 4 + i \in 1..(5 + q) /\ 3 + (i + 1) = 4 + i
      BY <2>1
    <3>2. s2[3 + (i + 1)] = PI[i + 1]
      BY <2>2, <3>1
    <3>3. QED
      BY <2>1, <3>1, <3>2
  <2>7. QED
    BY <2>3, <2>4, <2>5, <2>6 DEF q
<1>15. /\ s5[8 + Len(I)].is = "("
       /\ \A i \in 1..Len(O) : s5[8 + Len(I) + i] = O[i]
       /\ s5[9 + Len(I) + Len(O)].is = ")"
  <2> DEFINE q == Len(I)
  <2> DEFINE r == Len(O)
  <2>1. /\ q \in Nat /\ r \in Nat /\ PO[1].is = "(" /\ PO[r + 2].is = ")"
        /\ \A i \in 1..r : PO[i + 1] = O[i]
        /\ \A i \in 1..(r + 2) : s5[7 + q + i] = PO[i]
    BY <1>a, <1>4, <1>13
  <2> HIDE DEF q, r
  <2>2. s5[8 + q].is = "("
    <3>1. 1 \in 1..(r + 2) /\ 7 + q + 1 = 8 + q
      BY <2>1
    <3>2. QED
      BY <2>1, <3>1
  <2>3. s5[9 + q + r].is = ")"
    <3>1. r + 2 \in 1..(r + 2) /\ 7 + q + (r + 2) = 9 + q + r
      BY <2>1
    <3>2. s5[7 + q + (r + 2)] = PO[r + 2]
      BY <2>1, <3>1
    <3>3. QED
      BY <2>1, <3>1, <3>2
  <2>4. ASSUME NEW i \in 1..r PROVE s5[8 + q + i] = O[i]
    <3>1. i + 1 \in 1..(r + 2) /\ 7 + q + (i + 1) = 8 + q + i
      BY <2>1
    <3>2. s5[7 + q + (i + 1)] = PO[i + 1]
      BY <2>1, <3>1
    <3>3. QED
      BY <2>1, <3>1, <3>2
  <2>5. QED
    BY <2>2, <2>3, <2>4 DEF q, r
<1>16. \A p \in 1..3 : s5[p].is = "word"
  BY <1>1, <1>14
<1>17. HeaderAt(s5, I, O)
  BY <1>w, <1>1, <1>11, <1>12, <1>13, <1>14, <1>15, <1>16 DEF HeaderAt
<1>18. QED
  BY <1>2, <1>17

(* Tokens that change nothing. *)
Idle(h, a, e, ts) == \A p \in (a + 1)..e : HeaderStep(h[a], p, ts) = h[a]

LEMMA HeaderStays ==
  ASSUME NEW h, NEW ts, NEW n \in Nat, Steps(h, n, ts),
         NEW a \in Nat, NEW e \in Nat, e <= n,
         Idle(h, a, e, ts)
  PROVE  a <= e => h[e] = h[a]
<1> DEFINE T == {k \in Nat : a + k <= e => h[a + k] = h[a]}
<1>1. 0 \in T
  OBVIOUS
<1>2. ASSUME NEW k \in Nat, k \in T PROVE k + 1 \in T
  <2>1. SUFFICES ASSUME a + (k + 1) <= e PROVE h[a + (k + 1)] = h[a]
    OBVIOUS
  <2>2. /\ a + (k + 1) \in 1..n /\ a + (k + 1) \in (a + 1)..e /\ (a + (k + 1)) - 1 = a + k
        /\ a + k <= e
    BY <2>1
  <2>3. h[a + k] = h[a]
    BY <1>2, <2>2
  <2> DEFINE p == a + (k + 1)
  <2>4. p \in 1..n /\ p \in (a + 1)..e /\ p - 1 = a + k
    BY <2>2
  <2> HIDE DEF p
  <2>5. h[p] = HeaderStep(h[p - 1], p, ts) /\ HeaderStep(h[a], p, ts) = h[a]
    BY <2>4 DEF Steps, Idle
  <2>6. QED
    BY <2>3, <2>4, <2>5 DEF p
<1>3. Nat \subseteq T
  <2> HIDE DEF T
  <2>1. QED
    BY <1>1, <1>2, SetInduction
<1>4. ASSUME a <= e PROVE h[e] = h[a]
  <2>1. e - a \in Nat /\ a + (e - a) = e
    BY <1>4
  <2>2. e - a \in T
    BY <1>3, <2>1
  <2>3. QED
    BY <2>1, <2>2
<1>5. QED
  BY <1>4

(* The tokens of one parameter, behind a, are read up to e. *)
ReadsParam(h, ts, widths, a, e) ==
  LET len == Len(WrittenTypes(widths)) IN
  /\ Steps(h, Len(ts), ts)
  /\ a \in Nat /\ len \in Nat /\ e = a + 4 + len /\ e <= Len(ts)
  /\ Stands(Param(widths), 4 + len, ts, a)

LEMMA ParamIsRead ==
  ASSUME NEW widths \in Seq(Bytes), NEW ts \in Seq(Token), NEW h, NEW a, NEW e,
         ReadsParam(h, ts, widths, a, e),
         NEW from, NEW ins, NEW out, h[a] = Head4("arguments_start", from, ins, out)
  PROVE  h[e] = Head4("arguments_start", a + 2, Append(ins, widths), out)
<1>n. PICK n : n = Len(ts)
  OBVIOUS
<1>T. PICK T : T = WrittenTypes(widths)
  OBVIOUS
<1>l. PICK len : len = Len(T)
  OBVIOUS
<1>h. /\ Steps(h, n, ts) /\ a \in Nat /\ len \in Nat /\ e = a + 4 + len /\ e <= n
      /\ Stands(Param(widths), 4 + len, ts, a)
  BY <1>n, <1>T, <1>l DEF ReadsParam
<1>0. n \in Nat /\ n = Len(ts) /\ len = Len(T) /\ e \in Nat
  BY <1>n, <1>l, <1>h, LenProperties
<1>i. e = a + 4 + len /\ a \in Nat /\ len \in Nat /\ e <= n
  BY <1>h
<1>1. widths \in Seq(Nat)
  BY BytesAre
<1>2. TypesAt(T, widths)
  BY <1>1, <1>T, TypesAre
<1>3. len \in Nat
  BY <1>i
<1>a. \A p \in 1..len : T[p].is # ")"
  BY <1>2, <1>l DEF TypesAt
<1>4. /\ ts[a + 1].is = "word" /\ ts[a + 2].is = ":" /\ ts[a + 3].is = "("
      /\ \A j \in 1..len : ts[a + 3 + j] = T[j]
      /\ ts[e].is = ")"
  <2>1. /\ Param(widths)[1].is = "word" /\ Param(widths)[2].is = ":" /\ Param(widths)[3].is = "("
        /\ \A j \in 1..len : Param(widths)[3 + j] = T[j]
        /\ Param(widths)[4 + len].is = ")"
    <3>1. ParamAt(Param(widths), T)
      BY <1>1, <1>T, ParamIs
    <3>2. QED
      BY <1>l, <3>1 DEF ParamAt
  <2>2. \A j \in 1..(4 + len) : ts[a + j] = Param(widths)[j]
    BY <1>h DEF Stands
  <2>3. ts[a + 1].is = "word" /\ ts[a + 2].is = ":" /\ ts[a + 3].is = "("
    <3>1. 1 \in 1..(4 + len) /\ 2 \in 1..(4 + len) /\ 3 \in 1..(4 + len)
      BY <1>3, <1>i
    <3>2. ts[a + 1] = Param(widths)[1] /\ ts[a + 2] = Param(widths)[2] /\ ts[a + 3] = Param(widths)[3]
      BY <2>2, <3>1
    <3>3. QED
      BY <2>1, <3>2
  <2>4. ASSUME NEW j \in 1..len PROVE ts[a + 3 + j] = T[j]
    <3>1. 3 + j \in 1..(4 + len) /\ a + (3 + j) = a + 3 + j
      BY <1>3, <1>i
    <3>2. ts[a + (3 + j)] = Param(widths)[3 + j]
      BY <2>2, <3>1
    <3>3. QED
      BY <2>1, <3>1, <3>2
  <2>5. ts[e].is = ")"
    <3>1. 4 + len \in 1..(4 + len) /\ a + (4 + len) = e
      BY <1>3, <1>i
    <3>2. ts[a + (4 + len)] = Param(widths)[4 + len]
      BY <2>2, <3>1
    <3>3. QED
      BY <2>1, <3>1, <3>2
  <2>6. QED
    BY <2>3, <2>4, <2>5
<1>5. e <= n /\ n <= Len(ts) /\ Len(ts) \in Nat /\ e \in Nat
  BY <1>0, <1>i
<1>6. /\ h[a + 1] = HeaderStep(h[a], a + 1, ts)
      /\ h[a + 2] = HeaderStep(h[a + 1], a + 2, ts)
      /\ h[e] = HeaderStep(h[e - 1], e, ts)
  <2>1. /\ a + 1 \in 1..n /\ a + 2 \in 1..n /\ e \in 1..n
        /\ (a + 1) - 1 = a /\ (a + 2) - 1 = a + 1
    BY <1>0, <1>3, <1>i, <1>5
  <2>2. QED
    BY <1>h, <2>1 DEF Steps
<1>7. h[a + 1] = Head4("arguments_start", from, ins, out)
  <2>1. ts[a + 1].is # ":" /\ ts[a + 1].is # ">"
    BY <1>4
  <2>2. HeaderStep(h[a], a + 1, ts) = h[a]
    BY <2>1, StaysBetween
  <2>3. QED
    BY <1>6, <2>2
<1>8. h[a + 2] = Head4("arguments_end", a + 2, ins, out)
  <2> DEFINE p == a + 2
  <2>1. ts[p].is = ":" /\ h[p] = HeaderStep(h[a + 1], p, ts)
    BY <1>4, <1>6
  <2> HIDE DEF p
  <2>2. h[p] = Head4("arguments_end", p, ins, out)
    BY ONLY <1>7, <2>1, StepColon
  <2>3. QED
    BY <2>2 DEF p
<1>9. h[e - 1] = h[a + 2]
  <2>1. ASSUME NEW p \in (a + 2 + 1)..(e - 1) PROVE ts[p].is # ")"
    <3>1. CASE p = a + 3
      BY <1>4, <3>1
    <3>2. CASE p # a + 3
      <4>1. p - (a + 3) \in 1..len /\ a + 3 + (p - (a + 3)) = p
        BY <1>3, <1>i, <3>2
      <4>2. ts[a + 3 + (p - (a + 3))] = T[p - (a + 3)]
        BY <1>4, <4>1
      <4>3. QED
        BY <1>a, <4>1, <4>2
    <3>3. QED
      BY <3>1, <3>2
  <2> DEFINE b == a + 2
  <2> DEFINE g == h[b]
  <2>2. g = Head4("arguments_end", b, ins, out) /\ \A p \in (b + 1)..(e - 1) : ts[p].is # ")"
    BY <1>8, <2>1
  <2>3. b \in Nat /\ e - 1 \in Nat /\ e - 1 <= n /\ b <= e - 1
    BY <1>0, <1>3, <1>i, <1>5
  <2> HIDE DEF b, g
  <2>4. \A p \in (b + 1)..(e - 1) : HeaderStep(g, p, ts) = g
    BY ONLY <2>2, StaysInside
  <2>5. Idle(h, b, e - 1, ts)
    BY <2>4 DEF Idle, g
  <2>6. h[e - 1] = h[b]
    BY <1>0, <1>h, <2>3, <2>5, HeaderStays
  <2>7. QED
    BY <2>6 DEF b
<1>10. ParseTypeList(SubSeq(ts, (a + 2) + 1, e - 1)) = widths
  <2> DEFINE u == SubSeq(ts, (a + 2) + 1, e - 1)
  <2>0. ts \in Seq(Token)
    OBVIOUS
  <2>1. /\ a + 2 \in Nat /\ len + 1 \in Nat /\ (a + 2) + (len + 1) <= Len(ts)
        /\ e - 1 = (a + 2) + (len + 1)
    BY <1>0, <1>3, <1>i, <1>5
  <2>2. /\ u \in Seq(Token) /\ Len(u) = len + 1
        /\ \A i \in 1..(len + 1) : u[i] = ts[(a + 2) + i]
    <3>1. Slice(u, ts, a + 2, len + 1)
      BY <2>1, SliceIs
    <3>2. QED
      BY <3>1 DEF Slice
  <2> HIDE DEF u
  <2>3. u[1].is = "("
    <3>1. 1 \in 1..(len + 1) /\ (a + 2) + 1 = a + 3
      BY <1>3, <1>i
    <3>2. u[1] = ts[(a + 2) + 1]
      BY <2>2, <3>1
    <3>3. QED
      BY <1>4, <3>1, <3>2
  <2>4. ASSUME NEW p \in 1..len PROVE u[p + 1] = T[p]
    <3>1. p + 1 \in 1..(len + 1) /\ (a + 2) + (p + 1) = a + 3 + p
      BY <1>3, <1>i
    <3>2. u[p + 1] = ts[(a + 2) + (p + 1)]
      BY <2>2, <3>1
    <3>3. QED
      BY <1>4, <3>1, <3>2
  <2>5. ParseTypeList(u) = widths
    BY <1>2, <1>l, <2>2, <2>3, <2>4, TypesAreRead
  <2>6. QED
    BY <2>5 DEF u
<1>11. h[e] = Head4("arguments_start", a + 2, Append(ins, widths), out)
  <2> DEFINE w == ParseTypeList(SubSeq(ts, (a + 2) + 1, e - 1))
  <2> DEFINE g == h[e - 1]
  <2> DEFINE b == a + 2
  <2>1. /\ w = ParseTypeList(SubSeq(ts, b + 1, e - 1)) /\ w = widths
        /\ g = Head4("arguments_end", b, ins, out) /\ ts[e].is = ")" /\ h[e] = HeaderStep(g, e, ts)
    BY <1>4, <1>6, <1>8, <1>9, <1>10
  <2> HIDE DEF w, g, b
  <2>2. h[e] = Head4("arguments_start", b, Append(ins, w), out)
    BY ONLY <2>1, StepParameter
  <2>3. QED
    BY <2>1, <2>2 DEF b
<1>12. QED
  BY <1>11

LEMMA ParamsAre ==
  ASSUME NEW inputs \in Seq(Seq(Bytes))
  PROVE  /\ Params(inputs) \in Seq(Seq(Token)) /\ Len(Params(inputs)) = Len(inputs)
         /\ \A k \in 1..Len(inputs) :
              /\ Params(inputs)[k] = Param(inputs[k])
              /\ inputs[k] \in Seq(Bytes)
              /\ ParamAt(Param(inputs[k]), WrittenTypes(inputs[k]))
<1> DEFINE n == Len(inputs)
<1> DEFINE s == Params(inputs)
<1>1. n \in Nat /\ DOMAIN inputs = 1..n /\ \A k \in 1..n : inputs[k] \in Seq(Bytes)
  BY LenProperties
<1>2. ASSUME NEW k \in 1..n PROVE ParamAt(Param(inputs[k]), WrittenTypes(inputs[k]))
  <2> DEFINE w == inputs[k]
  <2>1. w \in Seq(Bytes)
    BY <1>1
  <2> HIDE DEF w
  <2>2. w \in Seq(Nat)
    BY <2>1, BytesAre
  <2>3. ParamAt(Param(w), WrittenTypes(w))
    BY <2>2, ParamIs
  <2>4. QED
    BY <2>3 DEF w
<1>3. \A k \in 1..n : Param(inputs[k]) \in Seq(Token)
  BY <1>2 DEF ParamAt
<1>4. s = [k \in 1..n |-> Param(inputs[k])]
  BY <1>1 DEF Params
<1>5. s \in [1..n -> Seq(Token)] /\ \A k \in 1..n : s[k] = Param(inputs[k])
  BY <1>3, <1>4
<1> HIDE DEF s, n
<1>6. s \in Seq(Seq(Token)) /\ Len(s) = n
  BY <1>1, <1>5, FunctionIsSeq
<1>7. QED
  BY <1>1, <1>2, <1>5, <1>6 DEF s, n

(* The header after the first k parameters. *)
Through(h, p, k, inputs) ==
  \E from : \E ins \in Seq(Seq(Bytes)) :
    /\ Len(ins) = k /\ \A j \in 1..k : ins[j] = inputs[j]
    /\ h[p] = Head4("arguments_start", from, ins, <<>>)

LEMMA OneMoreParam ==
  ASSUME NEW inputs, NEW ts \in Seq(Token), NEW h, Steps(h, Len(ts), ts),
         NEW k \in Nat, NEW w \in Seq(Bytes), w = inputs[k + 1],
         NEW a \in Nat, NEW e, ReadsParam(h, ts, w, a, e),
         NEW p \in Nat, p = a \/ (a \in 1..Len(ts) /\ p + 1 = a /\ ts[a].is = ","),
         Through(h, p, k, inputs)
  PROVE  Through(h, e, k + 1, inputs)
<1>1. PICK from : \E ins \in Seq(Seq(Bytes)) :
         /\ Len(ins) = k /\ \A j \in 1..k : ins[j] = inputs[j]
         /\ h[p] = Head4("arguments_start", from, ins, <<>>)
  BY DEF Through
<1>2. PICK ins \in Seq(Seq(Bytes)) :
         /\ Len(ins) = k /\ \A j \in 1..k : ins[j] = inputs[j]
         /\ h[p] = Head4("arguments_start", from, ins, <<>>)
  BY <1>1
<1>3. h[a] = Head4("arguments_start", from, ins, <<>>)
  <2>1. CASE p = a
    BY <1>2, <2>1
  <2>2. CASE a \in 1..Len(ts) /\ p + 1 = a /\ ts[a].is = ","
    <3>0. p \in Nat /\ p + 1 = a
      BY <2>2
    <3>a. a \in 1..Len(ts)
      BY <2>2
    <3>b. a - 1 = p
      BY ONLY <3>0
    <3>1. a \in 1..Len(ts) /\ a - 1 = p
      BY <3>a, <3>b
    <3>2. h[a] = HeaderStep(h[a - 1], a, ts)
      BY <3>1 DEF Steps
    <3>3. ts[a].is # ":" /\ ts[a].is # ">"
      BY <2>2
    <3> DEFINE g == h[p]
    <3>4. g = Head4("arguments_start", from, ins, <<>>) /\ h[a] = HeaderStep(g, a, ts)
      BY <1>2, <3>1, <3>2
    <3> HIDE DEF g
    <3>5. HeaderStep(g, a, ts) = g
      BY ONLY <3>3, <3>4, StaysBetween
    <3>6. QED
      BY <3>4, <3>5
  <2>3. QED
    BY <2>1, <2>2
<1>4. h[e] = Head4("arguments_start", a + 2, Append(ins, w), <<>>)
  <2>1. ReadsParam(h, ts, w, a, e) /\ w \in Seq(Bytes) /\ ts \in Seq(Token)
    OBVIOUS
  <2>2. QED
    BY ONLY <1>3, <2>1, ParamIsRead
<1>b. ins \in Seq(Seq(Bytes)) /\ w \in Seq(Bytes) /\ k \in Nat /\ w = inputs[k + 1]
  OBVIOUS
<1>5. /\ Append(ins, w) \in Seq(Seq(Bytes)) /\ Len(Append(ins, w)) = k + 1
      /\ \A j \in 1..(k + 1) : Append(ins, w)[j] = inputs[j]
  <2>1. /\ Append(ins, w) \in Seq(Seq(Bytes)) /\ Len(Append(ins, w)) = Len(ins) + 1
        /\ Append(ins, w)[Len(ins) + 1] = w /\ \A j \in 1..Len(ins) : Append(ins, w)[j] = ins[j]
    BY ONLY <1>b, AppendProperties
  <2>2. QED
    BY ONLY <1>b, <1>2, <2>1
<1>6. QED
  BY <1>4, <1>5 DEF Through

LEMMA ParamStands ==
  ASSUME NEW inputs \in Seq(Seq(Bytes)), NEW I \in Seq(Token), NEW b, ListedAt(Params(inputs), I, b),
         NEW O \in Seq(Token), NEW ts, HeaderAt(ts, I, O), NEW h, Steps(h, Len(ts), ts),
         NEW i \in 1..Len(inputs), NEW w, w = inputs[i], NEW a, a = 4 + b[i],
         NEW e, e = a + Len(Params(inputs)[i])
  PROVE  ReadsParam(h, ts, w, a, e) /\ e <= 4 + Len(I) /\ e \in Nat /\ a \in Nat
<1>1. PICK items : items = Params(inputs)
  OBVIOUS
<1>2. PICK c : c = b[i]
  OBVIOUS
<1>3. PICK x : x = Len(items[i])
  OBVIOUS
<1>4. PICK len : len = Len(WrittenTypes(w))
  OBVIOUS
<1>5. PICK u : u = Param(w)
  OBVIOUS
<1>6. items \in Seq(Seq(Token)) /\ Len(items) = Len(inputs) /\ items[i] = u /\ ParamAt(u, WrittenTypes(w))
  BY <1>1, <1>5, ParamsAre
<1>7. x = len + 4 /\ len \in Nat
  BY <1>3, <1>4, <1>6 DEF ParamAt
<1>8. /\ c \in Nat /\ x \in Nat /\ c + x <= Len(I)
      /\ \A j \in 1..x : I[c + j] = u[j]
  <2>1. i \in 1..Len(items) /\ ListedAt(items, I, b)
    BY <1>1, <1>6
  <2>2. /\ c \in Nat /\ x \in Nat /\ c + x <= Len(I)
        /\ \A j \in 1..x : I[c + j] = items[i][j]
    <3>1. ItemAt(items, I, i, c, x)
      BY <1>2, <1>3, <1>6, <2>1, ListedItem
    <3>2. QED
      BY <3>1 DEF ItemAt
  <2>3. QED
    BY <1>6, <2>2
<1>9. /\ ts \in Seq(Token) /\ Len(ts) = 10 + Len(I) + Len(O)
      /\ \A j \in 1..Len(I) : ts[4 + j] = I[j]
  BY DEF HeaderAt
<1>10. Len(I) \in Nat /\ Len(O) \in Nat
  BY LenProperties
<1>11. a = 4 + c /\ e = a + x
  BY <1>1, <1>2, <1>3
<1>q. PICK q : q = Len(I)
  OBVIOUS
<1>12. /\ q \in Nat /\ c \in Nat /\ c + x <= q /\ 10 + q + Len(O) = Len(ts)
  BY <1>q, <1>8, <1>9, <1>10
<1>13. /\ a \in Nat /\ e = a + 4 + len /\ e <= 4 + q /\ e <= Len(ts) /\ e \in Nat
  BY ONLY <1>7, <1>10, <1>11, <1>12
<1>14. Stands(u, 4 + len, ts, a)
  <2>1. ASSUME NEW j \in 1..(4 + len) PROVE ts[a + j] = u[j]
    <3>0. j \in 1..(4 + len)
      OBVIOUS
    <3>1. j \in 1..x /\ c + j \in 1..q /\ 4 + (c + j) = a + j
      BY ONLY <3>0, <1>7, <1>11, <1>12
    <3>2. ts[4 + (c + j)] = I[c + j]
      BY <1>9, <1>q, <3>1
    <3>3. I[c + j] = u[j]
      BY <1>8, <3>1
    <3>4. QED
      BY <3>1, <3>2, <3>3
  <2>2. QED
    BY <2>1 DEF Stands
<1>15. ReadsParam(h, ts, w, a, e)
  BY <1>4, <1>5, <1>7, <1>13, <1>14 DEF ReadsParam
<1>16. QED
  BY <1>13, <1>15, <1>q

LEMMA ParamsAreRead ==
  ASSUME NEW inputs \in Seq(Seq(Bytes)), NEW I, I = Listed(Params(inputs)),
         NEW O \in Seq(Token), NEW ts, HeaderAt(ts, I, O), NEW h, Steps(h, Len(ts), ts), h[0] = Unparsed
  PROVE  Through(h, 4 + Len(I), Len(inputs), inputs)
<1>1. PICK items : items = Params(inputs)
  OBVIOUS
<1>2. PICK n : n = Len(inputs)
  OBVIOUS
<1>3. items \in Seq(Seq(Token)) /\ Len(items) = n /\ n \in Nat
  BY <1>1, <1>2, ParamsAre, LenProperties
<1>4. PICK b : ListedAt(items, I, b)
  BY <1>1, <1>3, ListedIs
<1>5. I \in Seq(Token) /\ Len(I) \in Nat /\ Len(O) \in Nat
  <2>1. I \in Seq(Token)
    BY <1>1, <1>3, ListedIs
  <2>2. QED
    BY <2>1, LenProperties
<1>6. ts \in Seq(Token) /\ Len(ts) \in Nat /\ 4 <= Len(ts)
  <2>1. ts \in Seq(Token) /\ Len(ts) = 10 + Len(I) + Len(O)
    BY DEF HeaderAt
  <2>2. QED
    BY <1>5, <2>1
<1>7. Through(h, 4, 0, inputs)
  <2>1. h[0] = Head4("arguments_start", 0, <<>>, <<>>)
    BY DEF Unparsed, Head4
  <2>2. \A p \in 1..4 : ts[p].is # ":" /\ ts[p].is # ">"
    <3>1. (\A p \in 1..3 : ts[p].is = "word") /\ ts[4].is = "("
      BY DEF HeaderAt
    <3>2. \A p \in 1..4 : p \in 1..3 \/ p = 4
      OBVIOUS
    <3>3. QED
      BY <3>1, <3>2
  <2>3. PICK g : g = h[0]
    OBVIOUS
  <2>4. \A p \in 1..4 : HeaderStep(g, p, ts) = g
    <3>1. g = Head4("arguments_start", 0, <<>>, <<>>)
      BY <2>1, <2>3
    <3>2. QED
      BY ONLY <2>2, <3>1, StaysBetween
  <2>5. Idle(h, 0, 4, ts)
    BY <2>3, <2>4 DEF Idle
  <2>6. h[4] = h[0]
    BY <1>6, <2>5, HeaderStays
  <2>7. h[4] = Head4("arguments_start", 0, <<>>, <<>>)
    BY <2>1, <2>6
  <2>8. <<>> \in Seq(Seq(Bytes)) /\ Len(<<>>) = 0
    BY EmptySeq
  <2>9. \A j \in 1..0 : FALSE
    OBVIOUS
  <2>10. PICK ins \in Seq(Seq(Bytes)) : ins = <<>> /\ Len(ins) = 0
    BY <2>8
  <2>11. QED
    BY <2>7, <2>9, <2>10 DEF Through
<1> DEFINE pos(k) == IF k = 0 THEN 4 ELSE 4 + b[k] + Len(items[k])
<1> DEFINE T == {k \in Nat : k <= n => Through(h, pos(k), k, inputs)}
<1>8. 0 \in T
  BY <1>7
<1>9. ASSUME NEW k \in Nat, k \in T PROVE k + 1 \in T
  <2>1. SUFFICES ASSUME k + 1 <= n PROVE Through(h, pos(k + 1), k + 1, inputs)
    OBVIOUS
  <2>2. PICK i : i = k + 1
    OBVIOUS
  <2>3. i \in 1..n /\ k <= n /\ i # 0 /\ i <= n
    BY <1>3, <2>1, <2>2
  <2>4. PICK w : w = inputs[i]
    OBVIOUS
  <2>5. PICK a : a = 4 + b[i]
    OBVIOUS
  <2>6. PICK e : e = a + Len(items[i])
    OBVIOUS
  <2>7. ReadsParam(h, ts, w, a, e) /\ e \in Nat /\ a \in Nat
    BY <1>1, <1>2, <1>4, <1>5, <2>3, <2>4, <2>5, <2>6, ParamStands
  <2>8. w \in Seq(Bytes)
    BY <1>2, <2>3, <2>4
  <2>9. PICK p : p = pos(k)
    OBVIOUS
  <2>10. p \in Nat /\ (p = a \/ (a \in 1..Len(ts) /\ p + 1 = a /\ ts[a].is = ","))
    <3>1. PICK c : c = b[i]
      OBVIOUS
    <3>2. CASE k = 0
      <4>1. i = 1 /\ i \in 1..Len(items)
        BY <1>3, <2>2, <2>3, <3>2
      <4>0. ItemAt(items, I, i, b[i], Len(items[i]))
        BY <1>3, <1>4, <4>1, ListedItem
      <4>2. c = 0
        BY <3>1, <4>0, <4>1 DEF ItemAt
      <4>3. p = 4 /\ a = 4 + c
        BY <2>5, <2>9, <3>1, <3>2
      <4>4. QED
        BY <4>2, <4>3
    <3>3. CASE k # 0
      <4>1. PICK d : d = b[k]
        OBVIOUS
      <4>2. PICK x : x = Len(items[k])
        OBVIOUS
      <4>3. i \in 1..Len(items) /\ k \in 1..Len(items)
        BY <1>3, <2>2, <2>3, <3>3
      <4>b. NextAt(I, b[i], b[k], Len(items[k])) /\ ItemAt(items, I, k, b[k], Len(items[k]))
        BY <1>3, <1>4, <1>5, <2>2, <4>3, ListedNext, ListedItem
      <4>4. c = d + x + 1 /\ c \in 1..Len(I) /\ d \in Nat /\ x \in Nat /\ I[c].is = ","
        BY <3>1, <4>1, <4>2, <4>b DEF NextAt, ItemAt
      <4>5. p = 4 + d + x /\ a = 4 + c
        BY <2>5, <2>9, <3>1, <3>3, <4>1, <4>2
      <4>6. c = d + x + 1 /\ c \in 1..Len(I) /\ d \in Nat /\ x \in Nat
        BY <4>4
      <4>7. p \in Nat /\ p + 1 = a
        BY ONLY <4>5, <4>6
      <4>8. ts[4 + c] = I[c] /\ Len(ts) = 10 + Len(I) + Len(O)
        BY <4>6 DEF HeaderAt
      <4>9. ts[a].is = ","
        BY <4>4, <4>5, <4>8
      <4>a. Len(ts) = 10 + Len(I) + Len(O)
        BY <4>8
      <4>10. a \in 1..Len(ts)
        BY ONLY <1>5, <4>5, <4>6, <4>a
      <4>11. QED
        BY <4>7, <4>9, <4>10
    <3>4. QED
      BY <3>2, <3>3
  <2>11. Through(h, p, k, inputs)
    <3> HIDE DEF pos
    <3>1. QED
      BY <1>9, <2>3, <2>9
  <2>12. Through(h, e, k + 1, inputs)
    <3>1. w = inputs[k + 1]
      BY <2>2, <2>4
    <3>2. ts \in Seq(Token) /\ Steps(h, Len(ts), ts) /\ k \in Nat
      BY <1>6
    <3>3. QED
      BY ONLY <2>7, <2>8, <2>10, <2>11, <3>1, <3>2, OneMoreParam
  <2>13. pos(k + 1) = e
    BY <2>2, <2>3, <2>5, <2>6
  <2> HIDE DEF pos
  <2>14. QED
    BY <2>12, <2>13
<1>10. Through(h, pos(n), n, inputs)
  <2> HIDE DEF pos, T
  <2>1. n \in T
    BY <1>3, <1>8, <1>9, SetInduction
  <2>2. n <= n
    BY <1>3
  <2>3. QED
    BY <2>1, <2>2 DEF T
<1>11. pos(n) = 4 + Len(I)
  <2>1. CASE n = 0
    <3>1. Len(I) = 0
      BY <1>3, <1>4, <2>1 DEF ListedAt
    <3>2. QED
      BY <2>1, <3>1
  <2>2. CASE n # 0
    <3>1. PICK c : c = b[n]
      OBVIOUS
    <3>2. PICK x : x = Len(items[n])
      OBVIOUS
    <3>3. n \in 1..Len(items) /\ n = Len(items)
      BY <1>3, <2>2
    <3>4. Len(I) = c + x /\ c \in Nat /\ x \in Nat
      <4>1. ItemAt(items, I, n, b[n], Len(items[n]))
        BY <1>3, <1>4, <3>3, ListedItem
      <4>2. QED
        BY <3>1, <3>2, <3>3, <4>1 DEF ItemAt
    <3>5. pos(n) = 4 + c + x
      BY <2>2, <3>1, <3>2
    <3> HIDE DEF pos
    <3>6. QED
      BY <3>4, <3>5
  <2>3. QED
    BY <2>1, <2>2
<1>12. QED
  BY <1>2, <1>10, <1>11

(* What was written as the header is what is read. *)
LEMMA HeaderIsParsed ==
  ASSUME NEW inputs \in Seq(Seq(Bytes)), NEW result \in Seq(Bytes)
  PROVE  \E from : ParseHeader(WrittenHeader(inputs, result)) = Head4("completed", from, inputs, result)
<1>1. PICK ts : ts = WrittenHeader(inputs, result)
  OBVIOUS
<1>2. PICK I : I = Listed(Params(inputs))
  OBVIOUS
<1>3. PICK O : O = WrittenTypes(result)
  OBVIOUS
<1>4. I \in Seq(Token)
  BY <1>2, ParamsAre, ListedIs
<1>5. TypesAt(O, result)
  BY <1>3, BytesAre, TypesAre
<1>6. O \in Seq(Token)
  BY <1>5 DEF TypesAt
<1>7. HeaderAt(ts, I, O)
  BY <1>1, <1>2, <1>3, <1>4, <1>6, HeaderIs
<1>8. PICK q : q = Len(I)
  OBVIOUS
<1>9. PICK r : r = Len(O)
  OBVIOUS
<1>10. q \in Nat /\ r \in Nat
  BY <1>4, <1>6, <1>8, <1>9, LenProperties
<1>11. ts \in Seq(Token) /\ Len(ts) = 10 + q + r
  BY <1>7, <1>8, <1>9 DEF HeaderAt
<1>12. PICK h : h[0] = Unparsed /\ ParseHeader(ts) = h[Len(ts)] /\ Steps(h, Len(ts), ts)
  BY <1>11, ParseHeaderIs
<1>13. Through(h, 4 + q, Len(inputs), inputs)
  BY <1>2, <1>6, <1>7, <1>8, <1>12, ParamsAreRead
<1>14. PICK from : h[4 + q] = Head4("arguments_start", from, inputs, <<>>)
  <2>1. PICK from : \E ins \in Seq(Seq(Bytes)) :
           /\ Len(ins) = Len(inputs) /\ \A j \in 1..Len(inputs) : ins[j] = inputs[j]
           /\ h[4 + q] = Head4("arguments_start", from, ins, <<>>)
    BY <1>13 DEF Through
  <2>2. PICK ins \in Seq(Seq(Bytes)) :
           /\ Len(ins) = Len(inputs) /\ \A j \in 1..Len(inputs) : ins[j] = inputs[j]
           /\ h[4 + q] = Head4("arguments_start", from, ins, <<>>)
    BY <2>1
  <2>3. ins = inputs
    BY <2>2, SameSeq
  <2>4. QED
    BY <2>2, <2>3
<1>a. PICK m : m = Len(ts)
  OBVIOUS
<1>15. /\ h[4 + q + 1] = HeaderStep(h[4 + q], 4 + q + 1, ts)
       /\ h[4 + q + 2] = HeaderStep(h[4 + q + 1], 4 + q + 2, ts)
       /\ h[4 + q + 3] = HeaderStep(h[4 + q + 2], 4 + q + 3, ts)
       /\ h[4 + q + 4] = HeaderStep(h[4 + q + 3], 4 + q + 4, ts)
       /\ h[8 + q + r + 1] = HeaderStep(h[8 + q + r], 8 + q + r + 1, ts)
       /\ h[m] = HeaderStep(h[8 + q + r + 1], m, ts)
  <2>1. \A p \in 1..m : h[p] = HeaderStep(h[p - 1], p, ts)
    BY <1>12, <1>a DEF Steps
  <2>2. m = 10 + q + r
    BY <1>11, <1>a
  <2>3. /\ 4 + q + 1 \in 1..m /\ 4 + q + 2 \in 1..m /\ 4 + q + 3 \in 1..m /\ 4 + q + 4 \in 1..m
        /\ 8 + q + r + 1 \in 1..m /\ m \in 1..m
        /\ (4 + q + 1) - 1 = 4 + q /\ (4 + q + 2) - 1 = 4 + q + 1 /\ (4 + q + 3) - 1 = 4 + q + 2
        /\ (4 + q + 4) - 1 = 4 + q + 3 /\ (8 + q + r + 1) - 1 = 8 + q + r
        /\ m - 1 = 8 + q + r + 1
    BY ONLY <1>10, <2>2
  <2>4. QED
    BY ONLY <2>1, <2>3
<1>16. /\ ts[4 + q + 1].is = ")" /\ ts[4 + q + 2].is = "-" /\ ts[4 + q + 3].is = ">" /\ ts[4 + q + 4].is = "("
       /\ \A i \in 1..r : ts[8 + q + i] = O[i]
       /\ ts[8 + q + r + 1].is = ")"
  <2>1. /\ 4 + q + 1 = 5 + q /\ 4 + q + 2 = 6 + q /\ 4 + q + 3 = 7 + q /\ 4 + q + 4 = 8 + q
        /\ 8 + q + r + 1 = 9 + q + r
    BY ONLY <1>10
  <2>2. /\ ts[5 + q].is = ")" /\ ts[6 + q].is = "-" /\ ts[7 + q].is = ">" /\ ts[8 + q].is = "("
        /\ \A i \in 1..r : ts[8 + q + i] = O[i]
        /\ ts[9 + q + r].is = ")"
    BY <1>7, <1>8, <1>9 DEF HeaderAt
  <2>3. QED
    BY ONLY <2>1, <2>2
<1>17. h[4 + q + 1] = Head4("arguments_start", from, inputs, <<>>)
  <2>1. PICK g : g = h[4 + q]
    OBVIOUS
  <2>2. PICK p : p = 4 + q + 1
    OBVIOUS
  <2>3. /\ g = Head4("arguments_start", from, inputs, <<>>) /\ ts[p].is # ":" /\ ts[p].is # ">"
        /\ h[p] = HeaderStep(g, p, ts)
    BY <1>14, <1>15, <1>16, <2>1, <2>2
  <2>4. HeaderStep(g, p, ts) = g
    BY ONLY <2>3, StaysBetween
  <2>5. QED
    BY <2>2, <2>3, <2>4
<1>18. h[4 + q + 2] = Head4("arguments_start", from, inputs, <<>>)
  <2>1. PICK g : g = h[4 + q + 1]
    OBVIOUS
  <2>2. PICK p : p = 4 + q + 2
    OBVIOUS
  <2>3. /\ g = Head4("arguments_start", from, inputs, <<>>) /\ ts[p].is # ":" /\ ts[p].is # ">"
        /\ h[p] = HeaderStep(g, p, ts)
    BY <1>15, <1>16, <1>17, <2>1, <2>2
  <2>4. HeaderStep(g, p, ts) = g
    BY ONLY <2>3, StaysBetween
  <2>5. QED
    BY <2>2, <2>3, <2>4
<1>19. h[4 + q + 3] = Head4("return_start", from, inputs, <<>>)
  <2>1. PICK g : g = h[4 + q + 2]
    OBVIOUS
  <2>2. PICK p : p = 4 + q + 3
    OBVIOUS
  <2>3. /\ g = Head4("arguments_start", from, inputs, <<>>) /\ ts[p].is = ">"
        /\ h[p] = HeaderStep(g, p, ts)
    BY <1>15, <1>16, <1>18, <2>1, <2>2
  <2>4. HeaderStep(g, p, ts) = Head4("return_start", from, inputs, <<>>)
    BY ONLY <2>3, StepArrow
  <2>5. QED
    BY <2>2, <2>3, <2>4
<1>b. PICK v : v = 4 + q + 4
  OBVIOUS
<1>20. h[v] = Head4("return_end", v, inputs, <<>>)
  <2>1. PICK g : g = h[4 + q + 3]
    OBVIOUS
  <2>3. /\ g = Head4("return_start", from, inputs, <<>>) /\ ts[v].is = "("
        /\ h[v] = HeaderStep(g, v, ts)
    BY <1>15, <1>16, <1>19, <1>b, <2>1
  <2>4. HeaderStep(g, v, ts) = Head4("return_end", v, inputs, <<>>)
    BY ONLY <2>3, StepReturn
  <2>5. QED
    BY <2>3, <2>4
<1>21. v \in Nat /\ v + r <= m /\ m = Len(ts) /\ m \in Nat /\ v = 8 + q /\ v + r \in Nat
  <2>1. m = 10 + q + r
    BY <1>11, <1>a
  <2>2. v = 8 + q /\ v \in Nat /\ v + r <= m /\ m \in Nat /\ v + r \in Nat
    BY ONLY <1>10, <1>b, <2>1
  <2>3. QED
    BY <1>a, <2>2
<1>22. h[v + r] = h[v]
  <2>1. ASSUME NEW p \in (v + 1)..(v + r) PROVE ts[p].is # ")"
    <3>0. p \in (v + 1)..(v + r)
      OBVIOUS
    <3>1. PICK i : i = p - v
      OBVIOUS
    <3>2. i \in 1..r /\ 8 + q + i = p
      BY ONLY <1>10, <1>21, <3>0, <3>1
    <3>3. ts[8 + q + i] = O[i]
      BY <1>16, <3>2
    <3>4. O[i].is # ")"
      BY <1>5, <1>9, <3>2 DEF TypesAt
    <3>5. QED
      BY <3>2, <3>3, <3>4
  <2>2. PICK g : g = h[v]
    OBVIOUS
  <2>3. g = Head4("return_end", v, inputs, <<>>)
    BY <1>20, <2>2
  <2>4. \A p \in (v + 1)..(v + r) : HeaderStep(g, p, ts) = g
    BY ONLY <2>1, <2>3, StaysInside
  <2>5. Idle(h, v, v + r, ts)
    BY <2>2, <2>4 DEF Idle
  <2>6. Steps(h, m, ts) /\ v <= v + r
    <3>1. v <= v + r
      BY ONLY <1>10, <1>21
    <3>2. QED
      BY <1>12, <1>a, <3>1
  <2>7. QED
    BY <1>21, <2>5, <2>6, HeaderStays
<1>23. ParseTypeList(SubSeq(ts, v + 1, v + r)) = result
  <2>1. PICK u : u = SubSeq(ts, v + 1, v + r)
    OBVIOUS
  <2>2. Slice(u, ts, v, r)
    <3>1. v + r <= Len(ts)
      BY <1>21
    <3>2. QED
      BY <1>10, <1>11, <1>21, <2>1, <3>1, SliceIs
  <2>3. /\ u \in Seq(Token) /\ Len(u) = r + 0
        /\ \A p \in 1..r : u[p + 0] = O[p]
    <3>1. u \in Seq(Token) /\ Len(u) = r /\ \A i \in 1..r : u[i] = ts[v + i]
      BY <2>2 DEF Slice
    <3>2. \A i \in 1..r : ts[v + i] = O[i]
      BY <1>16, <1>21
    <3>3. QED
      BY <1>10, <3>1, <3>2
  <2>4. ParseTypeList(u) = result
    <3>1. PICK d : d = 0
      OBVIOUS
    <3>2. /\ d \in {0, 1} /\ Len(u) = Len(O) + d /\ u \in Seq(Token)
          /\ \A p \in 1..Len(O) : u[p + d] = O[p]
          /\ (d = 1 => u[1].is = "(")
      BY <1>9, <2>3, <3>1
    <3>3. QED
      BY <1>5, <3>2, TypesAreRead
  <2>5. QED
    BY <2>1, <2>4
<1>24. h[8 + q + r + 1] = Head4("end", v, inputs, result)
  <2>1. PICK g : g = h[v + r]
    OBVIOUS
  <2>2. PICK p : p = 8 + q + r + 1
    OBVIOUS
  <2>a. v + r = 8 + q + r /\ p - 1 = v + r
    BY ONLY <1>10, <1>21, <2>2
  <2>b. PICK w : w = ParseTypeList(SubSeq(ts, v + 1, p - 1))
    OBVIOUS
  <2>3. /\ g = Head4("return_end", v, inputs, <<>>) /\ ts[p].is = ")"
        /\ h[p] = HeaderStep(g, p, ts) /\ w = result
    BY <1>15, <1>16, <1>20, <1>22, <1>23, <2>1, <2>2, <2>a, <2>b
  <2>4. HeaderStep(g, p, ts) = Head4("end", v, inputs, w)
    BY ONLY <2>3, <2>b, StepResult
  <2>5. QED
    BY <2>2, <2>3, <2>4
<1>25. h[m] = Head4("completed", v, inputs, result)
  <2>1. PICK g : g = h[8 + q + r + 1]
    OBVIOUS
  <2>3. g = Head4("end", v, inputs, result) /\ h[m] = HeaderStep(g, m, ts)
    BY <1>15, <1>24, <2>1
  <2>4. HeaderStep(g, m, ts) = Head4("completed", v, inputs, result)
    BY ONLY <2>3, StepEnd
  <2>5. QED
    BY <2>3, <2>4
<1>26. QED
  BY <1>1, <1>12, <1>a, <1>25


--------------------------------------------------------------------------------
(* Statements *)

(* No token of ts is a c. *)
Lacks(ts, c) == \A p \in 1..Len(ts) : ts[p].is # c

LEMMA ConcatLacks ==
  ASSUME NEW s \in Seq(Token), NEW t \in Seq(Token), NEW c, Lacks(s, c), Lacks(t, c)
  PROVE  s \o t \in Seq(Token) /\ Lacks(s \o t, c)
<1> DEFINE u == s \o t
<1>1. PICK x : x = Len(s)
  OBVIOUS
<1>2. PICK y : y = Len(t)
  OBVIOUS
<1>3. /\ u \in Seq(Token) /\ Len(u) = x + y /\ x \in Nat /\ y \in Nat
      /\ \A i \in 1..x : u[i] = s[i]
      /\ \A i \in 1..y : u[x + i] = t[i]
  BY <1>1, <1>2, ConcatIs
<1> HIDE DEF u
<1>4. ASSUME NEW p \in 1..Len(u) PROVE u[p].is # c
  <2>1. p \in 1..x \/ (p - x \in 1..y /\ p = x + (p - x))
    BY ONLY <1>3, <1>4
  <2>2. CASE p \in 1..x
    BY <1>1, <1>3, <2>2 DEF Lacks
  <2>3. CASE p - x \in 1..y /\ p = x + (p - x)
    <3>1. u[x + (p - x)] = t[p - x]
      BY <1>3, <2>3
    <3>2. u[p] = t[p - x] /\ t[p - x].is # c
      BY <1>2, <2>3, <3>1 DEF Lacks
    <3>3. QED
      BY <3>2
  <2>4. QED
    BY <2>1, <2>2, <2>3
<1>5. QED
  BY <1>3, <1>4 DEF Lacks, u

LEMMA OneTokenLacks ==
  ASSUME NEW t \in Token, NEW c, t.is # c
  PROVE  <<t>> \in Seq(Token) /\ Lacks(<<t>>, c)
BY OneTokenIs DEF Lacks

LEMMA ParensLacks ==
  ASSUME NEW ts \in Seq(Token), Lacks(ts, "=")
  PROVE  Parens(ts) \in Seq(Token) /\ Lacks(Parens(ts), "=")
<1>1. /\ Mark("(") \in Token /\ Mark("(").is = "("
      /\ Mark(")") \in Token /\ Mark(")").is = ")"
  BY TokensAre DEF Marks
<1>2. /\ <<Mark("(")>> \in Seq(Token) /\ Lacks(<<Mark("(")>>, "=")
      /\ <<Mark(")")>> \in Seq(Token) /\ Lacks(<<Mark(")")>>, "=")
  BY <1>1, OneTokenLacks
<1>3. <<Mark("(")>> \o ts \in Seq(Token) /\ Lacks(<<Mark("(")>> \o ts, "=")
  BY <1>2, ConcatLacks
<1>4. QED
  BY <1>2, <1>3, ConcatLacks DEF Parens

LEMMA TypesLack ==
  ASSUME NEW widths \in Seq(Nat)
  PROVE  WrittenTypes(widths) \in Seq(Token) /\ Lacks(WrittenTypes(widths), "=")
BY TypesAre DEF TypesAt, Lacks

(* Three tokens: their kinds, and the number the last one is. *)
Three(s, first, second, n) ==
  /\ s \in Seq(Token) /\ Len(s) = 3
  /\ s[1] = first /\ first.is = "word" /\ s[2].is = second /\ s[3] = Num(n)

LEMMA ThreeIs ==
  ASSUME NEW w \in Words, NEW c \in Marks, NEW n \in Nat
  PROVE  Three(<<Word(w), Mark(c), Num(n)>>, Word(w), c, n)
<1> DEFINE x == Word(w)
<1> DEFINE y == Mark(c)
<1> DEFINE z == Num(n)
<1>1. x \in Token /\ x.is = "word" /\ y \in Token /\ y.is = c /\ z \in Token
  BY TokensAre
<1>2. Num(n) = z
  OBVIOUS
<1>3. Word(w) = x
  OBVIOUS
<1>4. Mark(c) = y
  OBVIOUS
<1> HIDE DEF x, y, z
<1>5. /\ <<x, y, z>> \in Seq(Token) /\ Len(<<x, y, z>>) = 3
      /\ <<x, y, z>>[1] = x /\ <<x, y, z>>[2] = y /\ <<x, y, z>>[3] = z
  BY <1>1
<1>6. QED
  BY <1>1, <1>2, <1>3, <1>4, <1>5 DEF Three

LEMMA NodeIs ==
  ASSUME NEW n \in Nat
  PROVE  Three(Node(n), Word("node"), ".", n)
BY ThreeIs DEF Node, Words, Marks

LEMMA NamedIs ==
  ASSUME NEW w \in Words, NEW n \in Nat
  PROVE  Three(Named(w, n), Word(w), "=", n)
BY ThreeIs DEF Named, Marks

(* None of the three is another mark. *)
LEMMA ThreeLacks ==
  ASSUME NEW s, NEW first, NEW second, NEW n, Three(s, first, second, n),
         NEW c \in Marks, c # second
  PROVE  Lacks(s, c)
<1>1. s[1].is = "word" /\ s[2].is = second /\ s[3].is = "num" /\ Len(s) = 3
  BY DEF Three, Num
<1>2. c # "word" /\ c # "num"
  BY DEF Marks
<1>3. ASSUME NEW p \in 1..3 PROVE s[p].is # c
  <2>1. p = 1 \/ p = 2 \/ p = 3
    BY <1>3
  <2>2. QED
    BY <1>1, <1>2, <2>1
<1>4. QED
  BY <1>1, <1>3 DEF Lacks

(* P = name ( A ): a line as the tools write it. *)
LineAt(ts, P, name, A) ==
  /\ ts \in Seq(Token) /\ Len(ts) = Len(P) + 4 + Len(A)
  /\ \A i \in 1..Len(P) : ts[i] = P[i]
  /\ ts[Len(P) + 1].is = "=" /\ ts[Len(P) + 2] = Word(name) /\ ts[Len(P) + 3].is = "("
  /\ \A i \in 1..Len(A) : ts[Len(P) + 3 + i] = A[i]
  /\ ts[Len(P) + 4 + Len(A)].is = ")"

Line(P, name, A) == P \o <<Mark("="), Word(name)>> \o Parens(A)

LEMMA LineIs ==
  ASSUME NEW P \in Seq(Token), NEW name \in Words, NEW A \in Seq(Token)
  PROVE  LineAt(Line(P, name, A), P, name, A)
<1> DEFINE e == Mark("=")
<1> DEFINE w == Word(name)
<1> DEFINE Q == Parens(A)
<1> DEFINE u == P \o <<e, w>>
<1> DEFINE v == u \o Q
<1>1. e \in Token /\ e.is = "=" /\ w \in Token
  BY TokensAre DEF Marks
<1>2. Line(P, name, A) = v
  BY DEF Line
<1>3. Word(name) = w
  OBVIOUS
<1>4. PICK x : x = Len(P)
  OBVIOUS
<1>5. PICK y : y = Len(A)
  OBVIOUS
<1>6. /\ Q \in Seq(Token) /\ Len(Q) = y + 2 /\ Q[1].is = "(" /\ Q[y + 2].is = ")"
      /\ \A i \in 1..y : Q[i + 1] = A[i]
  BY <1>5, ParensIs
<1> HIDE DEF e, w, Q
<1>7. <<e, w>> \in Seq(Token) /\ Len(<<e, w>>) = 2 /\ <<e, w>>[1] = e /\ <<e, w>>[2] = w
  BY <1>1
<1>8. /\ u \in Seq(Token) /\ Len(u) = x + 2 /\ x \in Nat
      /\ (\A i \in 1..x : u[i] = P[i]) /\ (\A i \in 1..2 : u[x + i] = <<e, w>>[i])
  BY <1>4, <1>7, ConcatIs
<1>9. u[x + 1] = e /\ u[x + 2] = w
  BY <1>7, <1>8
<1> HIDE DEF u
<1>10. /\ v \in Seq(Token) /\ Len(v) = (x + 2) + (y + 2)
       /\ (\A i \in 1..(x + 2) : v[i] = u[i]) /\ (\A i \in 1..(y + 2) : v[(x + 2) + i] = Q[i])
  <2>1. Len(u) = x + 2 /\ Len(Q) = y + 2
    BY <1>6, <1>8
  <2>2. /\ v \in Seq(Token) /\ Len(v) = Len(u) + Len(Q)
        /\ (\A i \in 1..Len(u) : v[i] = u[i]) /\ (\A i \in 1..Len(Q) : v[Len(u) + i] = Q[i])
    BY <1>6, <1>8, ConcatIs
  <2> HIDE DEF v
  <2>3. QED
    BY <2>1, <2>2
<1> HIDE DEF v
<1>11. y \in Nat
  BY <1>5, LenProperties
<1>12. Len(v) = x + 4 + y
  BY ONLY <1>8, <1>10, <1>11
<1>13. ASSUME NEW i \in 1..x PROVE v[i] = P[i]
  <2>1. i \in 1..(x + 2)
    BY ONLY <1>8, <1>13
  <2>2. QED
    BY <1>8, <1>10, <2>1
<1>14. v[x + 1] = e /\ v[x + 2] = w
  <2>1. x + 1 \in 1..(x + 2) /\ x + 2 \in 1..(x + 2)
    BY ONLY <1>8
  <2>2. QED
    BY <1>9, <1>10, <2>1
<1>15. v[x + 3] = Q[1] /\ v[x + 4 + y] = Q[y + 2]
  <2>1. 1 \in 1..(y + 2) /\ y + 2 \in 1..(y + 2) /\ (x + 2) + 1 = x + 3 /\ (x + 2) + (y + 2) = x + 4 + y
    BY ONLY <1>8, <1>11
  <2>2. QED
    BY <1>10, <2>1
<1>16. ASSUME NEW i \in 1..y PROVE v[x + 3 + i] = A[i]
  <2>1. i + 1 \in 1..(y + 2) /\ (x + 2) + (i + 1) = x + 3 + i
    BY ONLY <1>8, <1>11, <1>16
  <2>2. v[(x + 2) + (i + 1)] = Q[i + 1]
    BY <1>10, <2>1
  <2>3. QED
    BY <1>6, <2>1, <2>2
<1>17. QED
  BY <1>1, <1>2, <1>3, <1>4, <1>5, <1>6, <1>10, <1>12, <1>13, <1>14, <1>15, <1>16 DEF LineAt

(* What the parser finds in it. *)
LineRead(ts, P, name, A) ==
  /\ ts[1] = P[1]
  /\ ts[Assignment(ts) + 1].of = name
  /\ SubSeq(ts, After(ts, "(", Assignment(ts)), Until(ts, ")", Assignment(ts)) - 1) = A

LEMMA LineIsRead ==
  ASSUME NEW P \in Seq(Token), NEW name \in Words, NEW A \in Seq(Token), NEW ts, LineAt(ts, P, name, A),
         P # <<>>, Lacks(P, "="), Lacks(A, ")")
  PROVE  LineRead(ts, P, name, A)
<1>1. PICK x : x = Len(P)
  OBVIOUS
<1>2. PICK y : y = Len(A)
  OBVIOUS
<1>3. x \in Nat \ {0} /\ y \in Nat
  BY <1>1, <1>2, EmptySeq, LenProperties
<1>4. /\ ts \in Seq(Token) /\ Len(ts) = x + 4 + y
      /\ \A i \in 1..x : ts[i] = P[i]
      /\ ts[x + 1].is = "=" /\ ts[x + 2] = Word(name) /\ ts[x + 3].is = "("
      /\ \A i \in 1..y : ts[x + 3 + i] = A[i]
      /\ ts[x + 4 + y].is = ")"
  BY <1>1, <1>2 DEF LineAt
<1>5. PICK z : z = x + 1
  OBVIOUS
<1>6. z \in Nat /\ z \in 1..Len(ts) /\ x + 3 \in z..Len(ts) /\ x + 4 + y \in z..Len(ts)
  BY ONLY <1>3, <1>4, <1>5
<1>7. Assignment(ts) = z
  <2>1. ASSUME NEW q \in 1..(z - 1) PROVE ts[q].is # "="
    <3>1. q \in 1..x
      BY ONLY <1>3, <1>5, <2>1
    <3>2. P[q].is # "="
      BY <1>1, <3>1 DEF Lacks
    <3>3. QED
      BY <1>4, <3>1, <3>2
  <2>2. ts[z].is = "="
    BY <1>4, <1>5
  <2>3. Until(ts, "=", 1) = z
    BY <1>4, <1>6, <2>1, <2>2, FoundAt
  <2>4. QED
    BY <2>3 DEF Assignment
<1>8. ts[z + 1].is = "word" /\ ts[z + 1].of = name
  <2>1. z + 1 = x + 2
    BY ONLY <1>3, <1>5
  <2>2. QED
    BY <1>4, <2>1, TokensAre
<1>9. After(ts, "(", z) = (x + 3) + 1
  <2>1. ASSUME NEW q \in z..((x + 3) - 1) PROVE ts[q].is # "("
    <3>1. q = x + 1 \/ q = z + 1
      BY ONLY <1>3, <1>5, <2>1
    <3>2. CASE q = x + 1
      BY <1>4, <3>2
    <3>3. CASE q = z + 1
      BY <1>8, <3>3
    <3>4. QED
      BY <3>1, <3>2, <3>3
  <2>2. QED
    BY <1>4, <1>6, <2>1, FoundAt
<1>10. Until(ts, ")", z) = x + 4 + y
  <2>0. PICK w : w = x + 4 + y
    OBVIOUS
  <2>1. ASSUME NEW q \in z..(w - 1) PROVE ts[q].is # ")"
    <3>1. q = x + 1 \/ q = z + 1 \/ q = x + 3 \/ (q - (x + 3) \in 1..y /\ q = x + 3 + (q - (x + 3)))
      BY ONLY <1>3, <1>5, <2>0, <2>1
    <3>2. CASE q = x + 1
      BY <1>4, <3>2
    <3>3. CASE q = z + 1
      BY <1>8, <3>3
    <3>4. CASE q = x + 3
      BY <1>4, <3>4
    <3>5. CASE q - (x + 3) \in 1..y /\ q = x + 3 + (q - (x + 3))
      <4>1. ts[x + 3 + (q - (x + 3))] = A[q - (x + 3)]
        BY <1>4, <3>5
      <4>2. A[q - (x + 3)].is # ")"
        BY <1>2, <3>5 DEF Lacks
      <4>3. QED
        BY <3>5, <4>1, <4>2
    <3>6. QED
      BY <3>1, <3>2, <3>3, <3>4, <3>5
  <2>2. w \in z..Len(ts) /\ ts[w].is = ")"
    BY <1>4, <1>6, <2>0
  <2>3. Until(ts, ")", z) = w
    <3>1. ts \in Seq(Token) /\ z \in Nat /\ w \in z..Len(ts) /\ ts[w].is = ")"
          /\ \A q \in z..(w - 1) : ts[q].is # ")"
      BY <1>4, <1>6, <2>1, <2>2
    <3>2. QED
      BY ONLY <3>1, FoundAt
  <2>4. QED
    BY <2>0, <2>3
<1>11. PICK l : l = (x + 3) + 1
  OBVIOUS
<1>12. PICK r : r = (x + 4 + y) - 1
  OBVIOUS
<1>13. SubSeq(ts, l, r) = A
  <2>1. r = (x + 3) + y /\ x + 3 \in Nat /\ (x + 3) + y <= Len(ts)
    BY ONLY <1>3, <1>4, <1>12
  <2>2. Slice(SubSeq(ts, l, r), ts, x + 3, y)
    BY <1>3, <1>4, <1>11, <2>1, SliceIs
  <2> DEFINE u == SubSeq(ts, l, r)
  <2>3. u \in Seq(Token) /\ Len(u) = y /\ \A i \in 1..y : u[i] = ts[x + 3 + i]
    BY <2>2 DEF Slice
  <2> HIDE DEF u
  <2>4. \A i \in 1..y : u[i] = A[i]
    BY <1>4, <2>3
  <2>5. Len(u) = Len(A) /\ \A i \in 1..Len(u) : u[i] = A[i]
    BY <1>2, <2>3, <2>4
  <2>6. u = A
    BY <2>3, <2>5, SameSeq
  <2>7. QED
    BY <2>6 DEF u
<1>14. ts[1] = P[1]
  BY ONLY <1>3, <1>4
<1>15. QED
  BY <1>7, <1>8, <1>9, <1>10, <1>11, <1>12, <1>13, <1>14 DEF LineRead

(* A list has no other mark than its items and its commas. *)
LEMMA ListedLacks ==
  ASSUME NEW items \in Seq(Seq(Token)), NEW c, c # ",",
         \A i \in 1..Len(items) : Lacks(items[i], c)
  PROVE  Lacks(Listed(items), c)
<1> DEFINE ts == Listed(items)
<1>0. Len(items) \in Nat
  BY LenProperties
<1>1. PICK b : ListedAt(items, ts, b)
  BY ListedIs
<1> HIDE DEF ts
<1>2. ASSUME NEW p \in 1..Len(ts) PROVE ts[p].is # c
  <2>1. PICK i \in 1..Len(items) : (p = b[i] /\ i > 1) \/ (\E j \in 1..Len(items[i]) : p = b[i] + j)
    BY <1>1 DEF ListedAt
  <2>2. CASE p = b[i] /\ i > 1
    <3>1. i \in 2..Len(items)
      BY ONLY <1>0, <2>1, <2>2
    <3>2. ts[b[i]].is = ","
      BY <1>1, <3>1 DEF ListedAt
    <3>3. QED
      BY <2>2, <3>2
  <2>3. CASE \E j \in 1..Len(items[i]) : p = b[i] + j
    <3>1. PICK j \in 1..Len(items[i]) : p = b[i] + j
      BY <2>3
    <3>2. ts[b[i] + j] = items[i][j]
      BY <1>1, <2>1 DEF ListedAt
    <3>3. items[i][j].is # c
      BY <2>1 DEF Lacks
    <3>4. QED
      BY <3>1, <3>2, <3>3
  <2>4. QED
    BY <2>1, <2>2, <2>3
<1>3. QED
  BY <1>2 DEF Lacks, ts

(* name = v, or node . v, behind the first c tokens. *)
ThreeAt(ts, c, mark, v) ==
  /\ c \in Nat /\ c + 3 <= Len(ts) /\ v \in Nat
  /\ ts[c + 1].is = "word" /\ ts[c + 2].is = mark /\ ts[c + 3] = Num(v)

CommaAt(ts, c) == c \in 1..Len(ts) /\ ts[c].is = ","

LEMMA ThreeStands ==
  ASSUME NEW items, NEW ts, NEW i, NEW c, ItemAt(items, ts, i, c, 3),
         NEW first, NEW mark, NEW v \in Nat, Three(items[i], first, mark, v)
  PROVE  ThreeAt(ts, c, mark, v)
<1>1. c \in Nat /\ c + 3 <= Len(ts) /\ \A j \in 1..3 : ts[c + j] = items[i][j]
  BY DEF ItemAt
<1>2. ts[c + 1] = items[i][1] /\ ts[c + 2] = items[i][2] /\ ts[c + 3] = items[i][3]
  BY <1>1
<1>3. items[i][1].is = "word" /\ items[i][2].is = mark /\ items[i][3] = Num(v)
  BY DEF Three
<1>4. QED
  BY <1>1, <1>2, <1>3 DEF ThreeAt

LEMMA NumberThere ==
  ASSUME NEW ts \in Seq(Token), NEW c, NEW mark, NEW v, ThreeAt(ts, c, mark, v), NEW p, p = c + 3
  PROVE  NumberAt(ts, p) = v /\ ts[p].is = "num"
<1>1. c \in Nat /\ c + 3 <= Len(ts) /\ Len(ts) \in Nat /\ v \in Nat /\ DOMAIN ts = 1..Len(ts)
  BY LenProperties DEF ThreeAt
<1>2. p \in 1..Len(ts)
  BY ONLY <1>1, p = c + 3
<1>3. ts[p] = Num(v)
  BY DEF ThreeAt
<1>4. ts[p].is = "num" /\ ts[p].of = v
  BY <1>1, <1>3, TokensAre
<1>5. QED
  BY <1>1, <1>2, <1>4 DEF NumberAt

(* The search for the next "=" from a comma, or from the beginning, ends   *)
(* in the item behind it, and the search for a comma from there behind it. *)
LEMMA NamedRead ==
  ASSUME NEW ts \in Seq(Token), NEW c, NEW v, ThreeAt(ts, c, "=", v), NEW from,
         (c = 0 /\ from = 1) \/ (from = c /\ CommaAt(ts, c))
  PROVE  NamedNumber(ts, from) = v /\ After(ts, "=", from) = c + 3
<1>1. c \in Nat /\ c + 3 <= Len(ts) /\ Len(ts) \in Nat
  BY LenProperties DEF ThreeAt
<1>2. ts[c + 1].is = "word" /\ ts[c + 2].is = "="
  BY DEF ThreeAt
<1>3. from \in Nat
  BY <1>1
<1>4. PICK p : p = c + 2
  OBVIOUS
<1>5. p \in from..Len(ts)
  <2>1. (c = 0 /\ from = 1) \/ from = c
    OBVIOUS
  <2>2. QED
    BY ONLY <1>1, <1>4, <2>1
<1>6. ASSUME NEW q \in from..(p - 1) PROVE ts[q].is # "="
  <2>0. (c = 0 /\ from = 1) \/ (from = c /\ c \in 1..Len(ts))
    BY DEF CommaAt
  <2>1. (c = 0 /\ from = 1) \/ (from = c /\ c # 0)
    BY ONLY <1>1, <2>0
  <2>2. q = c + 1 \/ (q = c /\ c # 0)
    BY ONLY <1>1, <1>4, <1>6, <2>1
  <2>3. CASE q = c + 1
    BY <1>2, <2>3
  <2>4. CASE q = c /\ c # 0
    BY <2>4 DEF CommaAt
  <2>5. QED
    BY <2>2, <2>3, <2>4
<1>7. After(ts, "=", from) = p + 1
  BY <1>2, <1>3, <1>4, <1>5, <1>6, FoundAt
<1>8. p + 1 = c + 3
  BY ONLY <1>1, <1>4
<1>9. NumberAt(ts, c + 3) = v
  BY NumberThere
<1>10. QED
  BY <1>7, <1>8, <1>9 DEF NamedNumber

LEMMA CommaRead ==
  ASSUME NEW ts \in Seq(Token), NEW c, NEW mark, NEW v, ThreeAt(ts, c, mark, v), CommaAt(ts, c + 4)
  PROVE  Until(ts, ",", c + 3) = c + 4
<1>1. c \in Nat /\ c + 3 <= Len(ts) /\ Len(ts) \in Nat
  BY LenProperties DEF ThreeAt
<1>2. PICK p : p = c + 4
  OBVIOUS
<1>3. PICK from : from = c + 3
  OBVIOUS
<1>4. ts[p].is = ","
  BY <1>2 DEF CommaAt
<1>5. p \in from..Len(ts) /\ from \in Nat
  <2>1. p \in 1..Len(ts)
    BY <1>2 DEF CommaAt
  <2>2. QED
    BY ONLY <1>1, <1>2, <1>3, <2>1
<1>6. ts[from].is = "num"
  BY <1>3, NumberThere
<1>7. \A q \in from..(p - 1) : q = from
  BY ONLY <1>1, <1>2, <1>3
<1>8. \A q \in from..(p - 1) : ts[q].is # ","
  BY <1>6, <1>7
<1>9. Until(ts, ",", from) = p
  BY <1>4, <1>5, <1>8, FoundAt
<1>10. QED
  BY <1>2, <1>3, <1>9

(* Items of three tokens each stand behind every fourth token. *)
LEMMA RowOfThrees ==
  ASSUME NEW items \in Seq(Seq(Token)), \A j \in 1..Len(items) : Len(items[j]) = 3,
         NEW i \in 1..Len(items), NEW first, NEW mark, NEW v \in Nat, Three(items[i], first, mark, v),
         NEW c, c = 4 * (i - 1)
  PROVE  /\ ThreeAt(Listed(items), c, mark, v)
         /\ i # 1 => CommaAt(Listed(items), c)
<1> DEFINE ts == Listed(items)
<1>0. Len(items) \in Nat
  BY LenProperties
<1>1. PICK b : ListedAt(items, ts, b)
  BY ListedIs
<1> HIDE DEF ts
<1>2. 4 \in {4, 5} /\ \A j \in 1..(Len(items) - 1) : j \in 1..Len(items)
  BY <1>0
<1>3. \A j \in 1..(Len(items) - 1) : Len(items[j]) = 4 - 1
  BY <1>2
<1>4. Evenly(b, Len(items), 4)
  BY <1>0, <1>1, <1>2, <1>3, EvenItems
<1>5. b[i] = c
  BY <1>4 DEF Evenly
<1>6. ItemAt(items, ts, i, c, 3)
  <2>1. ItemAt(items, ts, i, b[i], Len(items[i]))
    BY <1>1, ListedItem
  <2>2. Len(items[i]) = 3
    OBVIOUS
  <2>3. QED
    BY <1>5, <2>1, <2>2
<1>7. ThreeAt(ts, c, mark, v)
  BY <1>6, ThreeStands
<1>8. ASSUME i # 1 PROVE CommaAt(ts, c)
  <2>1. i \in 2..Len(items)
    BY ONLY <1>0, <1>8, i \in 1..Len(items)
  <2>2. ts[b[i]].is = ","
    BY <1>1, <2>1 DEF ListedAt
  <2>3. c + 3 <= Len(ts) /\ c \in Nat
    BY <1>7 DEF ThreeAt
  <2>4. ts \in Seq(Token)
    BY ListedIs DEF ts
  <2>5. Len(ts) \in Nat
    BY <2>4, LenProperties
  <2>6. c \in 1..Len(ts)
    BY ONLY <1>0, <2>1, <2>3, <2>5, c = 4 * (i - 1)
  <2>7. QED
    BY <1>5, <2>2, <2>6 DEF CommaAt
<1>9. QED
  BY <1>7, <1>8 DEF ts

(* name , index = k , id = d *)
LEMMA TupleRow ==
  ASSUME NEW items \in Seq(Seq(Token)), Len(items) = 3, Len(items[1]) = 1,
         NEW f, NEW k \in Nat, Three(items[2], f, "=", k),
         NEW g, NEW d \in Nat, Three(items[3], g, "=", d),
         NEW ts, ts = Listed(items)
  PROVE  /\ ts[1] = items[1][1]
         /\ CommaAt(ts, 2) /\ ThreeAt(ts, 2, "=", k)
         /\ CommaAt(ts, 6) /\ ThreeAt(ts, 6, "=", d)
<1>1. PICK b : ListedAt(items, ts, b)
  BY ListedIs
<1>2. ts \in Seq(Token)
  BY ListedIs
<1>3. Len(ts) \in Nat
  BY <1>2, LenProperties
<1>4. Len(items[2]) = 3 /\ Len(items[3]) = 3
  BY DEF Three
<1>5. 1 \in 1..Len(items) /\ 2 \in 1..Len(items) /\ 3 \in 1..Len(items) /\ 2 = 1 + 1 /\ 3 = 2 + 1
  OBVIOUS
<1>6. ItemAt(items, ts, 1, b[1], 1) /\ ItemAt(items, ts, 2, b[2], 3) /\ ItemAt(items, ts, 3, b[3], 3)
  BY <1>1, <1>4, <1>5, ListedItem
<1>7. NextAt(ts, b[2], b[1], 1) /\ NextAt(ts, b[3], b[2], 3)
  BY <1>1, <1>3, <1>4, <1>5, ListedNext
<1>8. b[1] = 0 /\ ts[b[1] + 1] = items[1][1]
  BY <1>6 DEF ItemAt
<1>9. b[2] = b[1] + 1 + 1 /\ b[3] = b[2] + 3 + 1
  BY <1>7 DEF NextAt
<1>10. b[1] = 0 /\ b[2] = 2 /\ b[3] = 6
  BY <1>8, <1>9
<1>11. CommaAt(ts, 2) /\ CommaAt(ts, 6)
  BY <1>7, <1>10 DEF NextAt, CommaAt
<1>12. ThreeAt(ts, 2, "=", k) /\ ThreeAt(ts, 6, "=", d)
  BY <1>6, <1>10, ThreeStands
<1>13. QED
  BY <1>8, <1>10, <1>11, <1>12

--------------------------------------------------------------------------------
(* Operands *)

LEMMA OneNamedIsRead ==
  ASSUME NEW ts \in Seq(Token), NEW k, NEW d,
         ThreeAt(ts, 0, "=", k), CommaAt(ts, 4), ThreeAt(ts, 4, "=", d)
  PROVE  ParseOneNamed(ts) = [args |-> <<k>>, id |-> d]
<1>1. NamedNumber(ts, 1) = k /\ After(ts, "=", 1) = 0 + 3
  BY NamedRead
<1>2. 0 + 3 = 3 /\ 0 + 4 = 4
  OBVIOUS
<1>3. Until(ts, ",", 3) = 4
  BY <1>2, CommaRead
<1>4. NamedNumber(ts, 4) = d
  BY NamedRead
<1>5. QED
  BY <1>1, <1>2, <1>3, <1>4 DEF ParseOneNamed

LEMMA TupleIndexIsRead ==
  ASSUME NEW ts \in Seq(Token), NEW k, NEW d, Lacks(ts, "("), ts[1].is = "word",
         CommaAt(ts, 2), ThreeAt(ts, 2, "=", k), CommaAt(ts, 6), ThreeAt(ts, 6, "=", d)
  PROVE  ParseTupleIndex(ts) = [args |-> <<ts[1].of, k>>, id |-> d]
<1>1. After(ts, "(", 1) = 1
  <2>1. \A q \in 1..Len(ts) : ts[q].is # "("
    BY DEF Lacks
  <2>2. QED
    BY <2>1, FoundNowhere
<1>2. Until(ts, ",", 1) = 2
  <2>0. PICK p : p = 2
    OBVIOUS
  <2>1. ts[p].is = "," /\ p \in 1..Len(ts) /\ 1 \in Nat
    BY <2>0 DEF CommaAt
  <2>2. \A q \in 1..(p - 1) : q = 1
    BY <2>0
  <2>3. \A q \in 1..(p - 1) : ts[q].is # ","
    BY <2>2
  <2>4. Until(ts, ",", 1) = p
    <3>1. ts \in Seq(Token) /\ p \in 1..Len(ts) /\ ts[p].is = "," /\ 1 \in Nat
      BY <2>1
    <3>2. QED
      BY ONLY <2>3, <3>1, FoundAt
  <2>5. QED
    BY <2>0, <2>4
<1>3. NamedNumber(ts, 2) = k /\ After(ts, "=", 2) = 2 + 3
  BY NamedRead
<1>4. 2 + 3 = 5 /\ 2 + 4 = 6
  OBVIOUS
<1>5. Until(ts, ",", 5) = 6
  BY <1>4, CommaRead
<1>6. NamedNumber(ts, 6) = d
  BY NamedRead
<1>7. QED
  BY <1>1, <1>2, <1>3, <1>4, <1>5, <1>6 DEF ParseTupleIndex

LEMMA BitSliceIsRead ==
  ASSUME NEW ts \in Seq(Token), NEW n, NEW s, NEW w, NEW d,
         ThreeAt(ts, 0, ".", n), CommaAt(ts, 4), ThreeAt(ts, 4, "=", s),
         CommaAt(ts, 8), ThreeAt(ts, 8, "=", w), CommaAt(ts, 12), ThreeAt(ts, 12, "=", d)
  PROVE  ParseBitSlice(ts) = [args |-> <<n, s, w>>, id |-> d]
<1>1. After(ts, ".", 1) = 3
  <2>0. 0 + 1 = 1 /\ 0 + 2 = 2 /\ 0 + 3 = 3 /\ 2 + 1 = 3
    OBVIOUS
  <2>1. ts[1].is = "word" /\ ts[2].is = "." /\ 3 <= Len(ts)
    BY <2>0 DEF ThreeAt
  <2>2. \A q \in 1..(2 - 1) : q = 1
    OBVIOUS
  <2>3. \A q \in 1..(2 - 1) : ts[q].is # "."
    BY <2>1, <2>2
  <2>4. 2 \in 1..Len(ts) /\ 1 \in Nat
    <3>1. Len(ts) \in Nat /\ 3 <= Len(ts)
      BY <2>1, LenProperties
    <3>2. QED
      BY ONLY <3>1
  <2>5. After(ts, ".", 1) = 2 + 1
    BY <2>1, <2>3, <2>4, FoundAt
  <2>6. QED
    BY <2>5
<1>2. NumberAt(ts, 3) = n
  BY NumberThere
<1>3. /\ 0 + 3 = 3 /\ 0 + 4 = 4 /\ 4 + 3 = 7 /\ 4 + 4 = 8 /\ 8 + 3 = 11 /\ 8 + 4 = 12
  OBVIOUS
<1>4. Until(ts, ",", 3) = 4 /\ Until(ts, ",", 7) = 8 /\ Until(ts, ",", 11) = 12
  BY <1>3, CommaRead
<1>5. /\ NamedNumber(ts, 4) = s /\ After(ts, "=", 4) = 7
      /\ NamedNumber(ts, 8) = w /\ After(ts, "=", 8) = 11
      /\ NamedNumber(ts, 12) = d
  BY <1>3, NamedRead
<1>6. QED
  BY <1>1, <1>2, <1>4, <1>5 DEF ParseBitSlice

(* node . n , ... , id = d *)
NodesAndId(items, args, d) ==
  /\ items \in Seq(Seq(Token)) /\ args \in Seq(Nat) /\ d \in Nat
  /\ Len(items) = Len(args) + 1
  /\ \A i \in 1..Len(args) : Three(items[i], Word("node"), ".", args[i])
  /\ \E g : Three(items[Len(args) + 1], g, "=", d)

(* Where their marks stand: the i-th node's dot, and the id's sign. *)
Dot(i) == 4 * (i - 1) + 2

NodesStand(ts, args, d) ==
  /\ ts \in Seq(Token) /\ Len(ts) = 4 * Len(args) + 3
  /\ \A i \in 1..Len(args) : ThreeAt(ts, 4 * (i - 1), ".", args[i])
  /\ ThreeAt(ts, 4 * Len(args), "=", d)
  /\ \A p \in 1..Len(ts) :
       \/ ts[p].is \in {"word", "num", ","}
       \/ ts[p].is = "." /\ \E i \in 1..Len(args) : p = Dot(i)
       \/ ts[p].is = "=" /\ p = 4 * Len(args) + 2

LEMMA NodesDoStand ==
  ASSUME NEW items, NEW args, NEW d, NodesAndId(items, args, d), NEW ts, ts = Listed(items)
  PROVE  NodesStand(ts, args, d)
<1>0. PICK n : n = Len(args)
  OBVIOUS
<1>1. /\ n \in Nat /\ Len(items) = n + 1 /\ d \in Nat /\ items \in Seq(Seq(Token))
      /\ \A i \in 1..n : args[i] \in Nat /\ Three(items[i], Word("node"), ".", args[i])
  BY <1>0, LenProperties DEF NodesAndId
<1>2. PICK g : Three(items[n + 1], g, "=", d)
  BY <1>0 DEF NodesAndId
<1>3. \A j \in 1..(n + 1) : j \in 1..n \/ j = n + 1
  BY ONLY <1>1
<1>4. \A j \in 1..Len(items) : Len(items[j]) = 3
  BY <1>1, <1>2, <1>3 DEF Three
<1>5. ts \in Seq(Token) /\ Len(ts) \in Nat
  BY <1>1, ListedIs, LenProperties
<1>6. ASSUME NEW i \in 1..n PROVE ThreeAt(ts, 4 * (i - 1), ".", args[i])
  <2>1. i \in 1..Len(items)
    BY ONLY <1>1, <1>6
  <2>2. QED
    BY <1>1, <1>4, <2>1, RowOfThrees
<1>7. ThreeAt(ts, 4 * n, "=", d)
  <2>1. n + 1 \in 1..Len(items) /\ 4 * n = 4 * ((n + 1) - 1)
    BY ONLY <1>1
  <2>2. QED
    BY <1>1, <1>2, <1>4, <2>1, RowOfThrees
<1>8. PICK b : ListedAt(items, ts, b)
  BY <1>1, ListedIs
<1>9. \A i \in 1..(n + 1) : b[i] = 4 * (i - 1)
  <2>1. 4 \in {4, 5} /\ Len(items) \in Nat /\ \A j \in 1..(Len(items) - 1) : j \in 1..Len(items)
    BY <1>1
  <2>2. \A j \in 1..(Len(items) - 1) : Len(items[j]) = 4 - 1
    BY <1>4, <2>1
  <2>3. Evenly(b, Len(items), 4)
    BY <1>8, <2>1, <2>2, EvenItems
  <2>4. QED
    BY <1>1, <2>3 DEF Evenly
<1>10. Len(ts) = 4 * n + 3
  <2>1. Len(items) # 0 /\ Len(items) \in 1..Len(items)
    BY ONLY <1>1
  <2>2. Len(ts) = b[Len(items)] + Len(items[Len(items)])
    BY <1>8, <2>1 DEF ListedAt
  <2>3. b[Len(items)] = 4 * n /\ Len(items[Len(items)]) = 3
    <3>1. n + 1 \in 1..(n + 1) /\ 4 * ((n + 1) - 1) = 4 * n
      BY ONLY <1>1
    <3>2. b[n + 1] = 4 * n
      BY <1>9, <3>1
    <3>3. QED
      BY <1>1, <1>4, <2>1, <3>2
  <2>4. QED
    BY <2>2, <2>3
<1>11. ASSUME NEW p \in 1..Len(ts)
       PROVE  \/ ts[p].is \in {"word", "num", ","}
              \/ ts[p].is = "." /\ \E i \in 1..n : p = Dot(i)
              \/ ts[p].is = "=" /\ p = 4 * n + 2
  <2>0. \E i \in 1..Len(items) : (p = b[i] /\ i > 1) \/ (\E j \in 1..Len(items[i]) : p = b[i] + j)
    BY <1>8 DEF ListedAt
  <2>1. PICK i \in 1..(n + 1) : (p = b[i] /\ i > 1) \/ (\E j \in 1..Len(items[i]) : p = b[i] + j)
    BY <1>1, <2>0
  <2>2. CASE p = b[i] /\ i > 1
    <3>1. i \in 2..(n + 1)
      BY ONLY <1>1, <2>1, <2>2
    <3>2. ts[b[i]].is = ","
      BY <1>1, <1>8, <3>1 DEF ListedAt
    <3>3. QED
      BY <2>2, <3>2
  <2>3. CASE \E j \in 1..Len(items[i]) : p = b[i] + j
    <3>0. PICK c : c = 4 * (i - 1)
      OBVIOUS
    <3>1. PICK j \in 1..3 : p = c + j
      BY <1>1, <1>4, <1>9, <2>1, <2>3, <3>0
    <3>2. j = 1 \/ j = 2 \/ j = 3
      BY ONLY <3>1
    <3>3. ASSUME NEW mark, NEW v, ThreeAt(ts, c, mark, v) PROVE ts[p].is \in {"word", "num"} \/ (ts[p].is = mark /\ p = c + 2)
      <4>1. ts[c + 1].is = "word" /\ ts[c + 2].is = mark /\ ts[c + 3].is = "num"
        BY <3>3 DEF ThreeAt, Num
      <4>2. QED
        BY <3>1, <3>2, <4>1
    <3>4. CASE i \in 1..n
      <4>1. ThreeAt(ts, c, ".", args[i])
        BY <1>6, <3>0, <3>4
      <4>2. ts[p].is \in {"word", "num"} \/ (ts[p].is = "." /\ p = c + 2)
        BY <3>3, <4>1
      <4>3. p = c + 2 => p = Dot(i)
        BY <3>0 DEF Dot
      <4>4. QED
        BY <3>4, <4>2, <4>3
    <3>5. CASE i = n + 1
      <4>1. c = 4 * n
        BY ONLY <1>1, <3>0, <3>5
      <4>2. ts[p].is \in {"word", "num"} \/ (ts[p].is = "=" /\ p = c + 2)
        BY <1>7, <3>3, <4>1
      <4>3. QED
        BY <4>1, <4>2
    <3>6. QED
      BY <1>3, <2>1, <3>4, <3>5
  <2>4. QED
    BY <2>1, <2>2, <2>3
<1>12. QED
  BY <1>0, <1>5, <1>6, <1>7, <1>10, <1>11 DEF NodesStand

LEMMA NodesAreRead ==
  ASSUME NEW args \in Seq(Nat), NEW ts, NEW d, NodesStand(ts, args, d)
  PROVE  ParseVariadic(ts) = [args |-> args, id |-> d]
<1>0. PICK n : n = Len(args)
  OBVIOUS
<1>1. n \in Nat /\ ts \in Seq(Token) /\ Len(ts) = 4 * n + 3 /\ ThreeAt(ts, 4 * n, "=", d)
  BY <1>0, LenProperties DEF NodesStand
<1>2. \A i \in 1..n : ThreeAt(ts, 4 * (i - 1), ".", args[i])
  BY <1>0 DEF NodesStand
<1>3. ASSUME NEW p \in 1..Len(ts)
      PROVE  \/ ts[p].is \in {"word", "num", ","}
             \/ ts[p].is = "." /\ \E i \in 1..n : p = Dot(i)
             \/ ts[p].is = "=" /\ p = 4 * n + 2
  BY <1>0 DEF NodesStand
<1>4. PICK place : place = [i \in 1..n |-> Dot(i)]
  OBVIOUS
<1>5. ASSUME NEW i \in 1..n
      PROVE  /\ Dot(i) \in 1..Len(ts) /\ ts[Dot(i)].is = "." /\ NumberAt(ts, Dot(i) + 1) = args[i]
  <2>1. PICK c : c = 4 * (i - 1)
    OBVIOUS
  <2>2. ThreeAt(ts, c, ".", args[i])
    BY <1>2, <2>1
  <2>3. Dot(i) = c + 2 /\ Dot(i) + 1 = c + 3 /\ Dot(i) \in 1..Len(ts)
    BY ONLY <1>1, <1>5, <2>1 DEF Dot
  <2>4. ts[c + 2].is = "."
    BY <2>2 DEF ThreeAt
  <2>5. NumberAt(ts, c + 3) = args[i]
    BY <1>1, <2>2, NumberThere
  <2>6. QED
    BY <2>3, <2>4, <2>5
<1>6. \A i, j \in 1..n : i < j => Dot(i) < Dot(j)
  BY ONLY <1>1 DEF Dot
<1>7. \A i \in 1..n : place[i] = Dot(i)
  BY <1>4
<1>8. Places(ts, ".", place, args)
  <2>1. place \in [1..n -> 1..Len(ts)]
    BY <1>4, <1>5
  <2>2. \A i, j \in 1..n : i < j => place[i] < place[j]
    BY <1>6, <1>7
  <2>3. ASSUME NEW p \in 1..Len(ts) PROVE ts[p].is = "." <=> \E i \in 1..n : place[i] = p
    <3>1. ASSUME ts[p].is = "." PROVE \E i \in 1..n : place[i] = p
      <4>1. \E i \in 1..n : p = Dot(i)
        BY <1>3, <3>1
      <4>2. QED
        BY <1>7, <4>1
    <3>2. ASSUME NEW i \in 1..n, place[i] = p PROVE ts[p].is = "."
      BY <1>5, <1>7, <3>2
    <3>3. QED
      BY <3>1, <3>2
  <2>4. \A i \in 1..n : NumberAt(ts, place[i] + 1) = args[i]
    BY <1>5, <1>7
  <2>5. QED
    BY <1>0, <2>1, <2>2, <2>3, <2>4 DEF Places
<1>9. Behind(ts, ".") = args
  BY <1>1, <1>8, BehindPlaces
<1>10. NamedNumber(ts, 1) = d
  <2>0. PICK p : p = 4 * n + 2
    OBVIOUS
  <2>1. p \in 1..Len(ts) /\ p + 1 = 4 * n + 3 /\ 1 \in Nat /\ \A q \in 1..(p - 1) : q \in 1..Len(ts) /\ q # p
    BY ONLY <1>1, <2>0
  <2>2. ts[p].is = "="
    BY <1>1, <2>0 DEF ThreeAt
  <2>3. \A q \in 1..(p - 1) : ts[q].is # "="
    BY <1>3, <2>0, <2>1
  <2>4. After(ts, "=", 1) = p + 1
    <3>1. ts \in Seq(Token) /\ p \in 1..Len(ts) /\ 1 \in Nat
      BY <1>1, <2>1
    <3>2. QED
      BY ONLY <2>2, <2>3, <3>1, FoundAt
  <2>5. NumberAt(ts, p + 1) = d
    <3>1. p + 1 = 4 * n + 3
      BY <2>1
    <3>2. QED
      BY <1>1, <3>1, NumberThere
  <2>6. QED
    BY <2>4, <2>5 DEF NamedNumber
<1>11. QED
  BY <1>9, <1>10 DEF ParseVariadic

LEMMA AppendToOne ==
  ASSUME NEW S, NEW x \in S, NEW y \in S, NEW s, s = Append(<<x>>, y)
  PROVE  s \in Seq(S) /\ Len(s) = 2 /\ s[1] = x /\ s[2] = y
<1>1. PICK a \in Seq(S) : a = <<x>>
  OBVIOUS
<1>2. Len(a) = 1 /\ a[1] = x
  BY <1>1
<1>3. QED
  BY <1>1, <1>2, AppendIs

LEMMA AppendToTwo ==
  ASSUME NEW S, NEW x \in S, NEW y \in S, NEW z \in S, NEW s, s = Append(<<x, y>>, z)
  PROVE  s \in Seq(S) /\ Len(s) = 3 /\ s[1] = x /\ s[2] = y /\ s[3] = z
<1>1. PICK a \in Seq(S) : a = <<x, y>>
  OBVIOUS
<1>2. Len(a) = 2 /\ a[1] = x /\ a[2] = y
  BY <1>1
<1>3. QED
  BY <1>1, <1>2, AppendIs

LEMMA AppendToThree ==
  ASSUME NEW S, NEW w \in S, NEW x \in S, NEW y \in S, NEW z \in S, NEW s, s = Append(<<w, x, y>>, z)
  PROVE  s \in Seq(S) /\ Len(s) = 4 /\ s[1] = w /\ s[2] = x /\ s[3] = y /\ s[4] = z
<1>1. <<w, x, y>> \in Seq(S) /\ Len(<<w, x, y>>) = 3
  OBVIOUS
<1>2. PICK a \in Seq(S) : a = <<w, x, y>>
  BY <1>1
<1>3. Len(a) = 3 /\ a[1] = w /\ a[2] = x /\ a[3] = y
  BY <1>1, <1>2
<1>4. QED
  BY <1>2, <1>3, AppendIs

(* Each list of operands is read as it was written. *)
ItemsOf(st) == Append(WrittenArguments(st), Named("id", st.id))

OperandsRead(st, A) ==
  /\ A \in Seq(Token) /\ Lacks(A, ")")
  /\ ParseArguments(st.op, A) = [args |-> st.args, id |-> st.id]

LEMMA TupleIndexOperands ==
  ASSUME NEW st, st.op = "tuple_index", st.args \in STRING \X Nat, st.id \in Nat
  PROVE  OperandsRead(st, Listed(ItemsOf(st)))
<1>1. PICK w \in STRING, k \in Nat : st.args = <<w, k>>
  <2>1. st.args[1] \in STRING /\ st.args[2] \in Nat /\ st.args = <<st.args[1], st.args[2]>>
    OBVIOUS
  <2>2. QED
    BY <2>1
<1>2. PICK d \in Nat : d = st.id
  OBVIOUS
<1> DEFINE t == Word(w)
<1> DEFINE u == Named("index", k)
<1> DEFINE v == Named("id", d)
<1>3. t \in Token /\ t.is = "word" /\ t.of = w
  <2>1. w \in Words
    BY DEF Words
  <2>2. QED
    BY <2>1, TokensAre
<1>4. Three(u, Word("index"), "=", k) /\ Three(v, Word("id"), "=", d)
  BY NamedIs DEF Words
<1>5. WrittenArguments(st) = <<<<t>>, u>>
  BY <1>1 DEF WrittenArguments
<1>6. ItemsOf(st) = Append(<<<<t>>, u>>, v)
  BY <1>2, <1>5 DEF ItemsOf
<1> HIDE DEF t, u, v
<1>7. <<t>> \in Seq(Token) /\ Len(<<t>>) = 1 /\ <<t>>[1] = t
  BY <1>3, OneTokenIs
<1>8. u \in Seq(Token) /\ v \in Seq(Token)
  BY <1>4 DEF Three
<1>9. PICK x : x = <<t>>
  OBVIOUS
<1>10. PICK items : items = ItemsOf(st)
  OBVIOUS
<1>11. items \in Seq(Seq(Token)) /\ Len(items) = 3 /\ items[1] = x /\ items[2] = u /\ items[3] = v
  <2>1. x \in Seq(Token) /\ items = Append(<<x, u>>, v)
    BY <1>6, <1>7, <1>9, <1>10
  <2>2. QED
    BY <1>8, <2>1, AppendToTwo
<1>12. PICK ts : ts = Listed(items)
  OBVIOUS
<1>13. /\ ts[1] = t /\ CommaAt(ts, 2) /\ ThreeAt(ts, 2, "=", k)
       /\ CommaAt(ts, 6) /\ ThreeAt(ts, 6, "=", d)
  <2>1. Len(items[1]) = 1 /\ items[1][1] = t
    BY <1>7, <1>9, <1>11
  <2>2. Three(items[2], Word("index"), "=", k) /\ Three(items[3], Word("id"), "=", d)
    BY <1>4, <1>11
  <2>3. QED
    BY <1>11, <1>12, <2>1, <2>2, TupleRow
<1>14. ASSUME NEW c \in {"(", ")"} PROVE Lacks(ts, c)
  <2>1. c \in Marks /\ c # "=" /\ c # "," /\ c # "word"
    BY DEF Marks
  <2>2. Lacks(x, c)
    BY <1>3, <1>9, <2>1, OneTokenLacks
  <2>3. Lacks(u, c) /\ Lacks(v, c)
    BY <1>4, <2>1, ThreeLacks
  <2>4. \A i \in 1..3 : i = 1 \/ i = 2 \/ i = 3
    OBVIOUS
  <2>5. \A i \in 1..Len(items) : Lacks(items[i], c)
    BY <1>11, <2>2, <2>3, <2>4
  <2>6. QED
    BY <1>11, <1>12, <2>1, <2>5, ListedLacks
<1>15. ts \in Seq(Token)
  BY <1>11, <1>12, ListedIs
<1>16. Lacks(ts, "(") /\ Lacks(ts, ")")
  BY <1>14
<1>17. ParseTupleIndex(ts) = [args |-> <<ts[1].of, k>>, id |-> d]
  <2>1. ts[1].is = "word"
    BY <1>3, <1>13
  <2>2. QED
    BY <1>13, <1>15, <1>16, <2>1, TupleIndexIsRead
<1>18. ParseArguments(st.op, ts) = [args |-> st.args, id |-> st.id]
  BY <1>1, <1>2, <1>3, <1>13, <1>17 DEF ParseArguments
<1>19. QED
  BY <1>10, <1>12, <1>15, <1>16, <1>18 DEF OperandsRead

(* The others' items have three tokens each. *)
LEMMA ThreesLack ==
  ASSUME NEW items \in Seq(Seq(Token)),
         \A i \in 1..Len(items) : \E first, n : \E mark \in {".", "="} : Three(items[i], first, mark, n)
  PROVE  /\ Listed(items) \in Seq(Token) /\ Lacks(Listed(items), ")")
         /\ \A i \in 1..Len(items) : Len(items[i]) = 3
<1>1. ASSUME NEW i \in 1..Len(items) PROVE Len(items[i]) = 3 /\ Lacks(items[i], ")")
  <2>0. PICK first, n : \E mark \in {".", "="} : Three(items[i], first, mark, n)
    OBVIOUS
  <2>1. PICK mark \in {".", "="} : Three(items[i], first, mark, n)
    BY <2>0
  <2>2. ")" \in Marks /\ ")" # mark
    BY DEF Marks
  <2>3. Lacks(items[i], ")")
    BY <2>1, <2>2, ThreeLacks
  <2>4. QED
    BY <2>1, <2>3 DEF Three
<1>2. ")" # ","
  OBVIOUS
<1>3. QED
  BY <1>1, <1>2, ListedIs, ListedLacks

LEMMA LiteralOperands ==
  ASSUME NEW st, st.op = "literal", st.args \in [1..1 -> Nat], st.id \in Nat
  PROVE  OperandsRead(st, Listed(ItemsOf(st)))
<1>1. PICK k \in Nat : st.args = <<k>> /\ st.args[1] = k
  <2>1. st.args = [i \in 1..1 |-> st.args[1]] /\ st.args[1] \in Nat
    OBVIOUS
  <2>2. st.args = <<st.args[1]>>
    BY <2>1
  <2>3. QED
    BY <2>1, <2>2
<1>2. PICK d \in Nat : d = st.id
  OBVIOUS
<1> DEFINE u == Named("value", k)
<1> DEFINE v == Named("id", d)
<1>3. Three(u, Word("value"), "=", k) /\ Three(v, Word("id"), "=", d)
  BY NamedIs DEF Words
<1>4. PICK items : items = ItemsOf(st)
  OBVIOUS
<1>5. items = Append(<<u>>, v)
  <2>1. WrittenArguments(st) = <<u>>
    BY <1>1 DEF WrittenArguments
  <2>2. QED
    BY <1>2, <1>4, <2>1 DEF ItemsOf
<1> HIDE DEF u, v
<1>6. u \in Seq(Token) /\ v \in Seq(Token)
  BY <1>3 DEF Three
<1>7. items \in Seq(Seq(Token)) /\ Len(items) = 2 /\ items[1] = u /\ items[2] = v
  BY <1>5, <1>6, AppendToOne
<1>8. \A i \in 1..Len(items) : \E first, n : \E mark \in {".", "="} : Three(items[i], first, mark, n)
  <2>1. \A i \in 1..2 : i = 1 \/ i = 2
    OBVIOUS
  <2>2. Three(items[1], Word("value"), "=", k) /\ Three(items[2], Word("id"), "=", d)
    BY <1>3, <1>7
  <2>3. QED
    BY <1>7, <2>1, <2>2
<1>9. PICK ts : ts = Listed(items)
  OBVIOUS
<1>10. ts \in Seq(Token) /\ Lacks(ts, ")") /\ \A i \in 1..Len(items) : Len(items[i]) = 3
  BY <1>7, <1>8, <1>9, ThreesLack
<1>11. ThreeAt(ts, 0, "=", k) /\ CommaAt(ts, 4) /\ ThreeAt(ts, 4, "=", d)
  <2>1. 1 \in 1..Len(items) /\ 2 \in 1..Len(items) /\ 0 = 4 * (1 - 1) /\ 4 = 4 * (2 - 1) /\ 2 # 1
    BY <1>7
  <2>2. Three(items[1], Word("value"), "=", k) /\ Three(items[2], Word("id"), "=", d)
    BY <1>3, <1>7
  <2>3. QED
    BY <1>7, <1>9, <1>10, <2>1, <2>2, RowOfThrees
<1>12. ParseOneNamed(ts) = [args |-> <<k>>, id |-> d]
  BY <1>10, <1>11, OneNamedIsRead
<1>13. ParseArguments(st.op, ts) = [args |-> st.args, id |-> st.id]
  BY <1>1, <1>2, <1>12 DEF ParseArguments
<1>14. QED
  BY <1>4, <1>9, <1>10, <1>13 DEF OperandsRead

LEMMA BitSliceOperands ==
  ASSUME NEW st, st.op = "bit_slice", st.args \in Nat \X Nat \X Nat, st.id \in Nat
  PROVE  OperandsRead(st, Listed(ItemsOf(st)))
<1>1. PICK n \in Nat, s \in Nat, w \in Nat : st.args = <<n, s, w>>
  <2>1. st.args[1] \in Nat /\ st.args[2] \in Nat /\ st.args[3] \in Nat
    OBVIOUS
  <2>2. st.args = <<st.args[1], st.args[2], st.args[3]>>
    OBVIOUS
  <2>3. QED
    BY <2>1, <2>2
<1>2. PICK d \in Nat : d = st.id
  OBVIOUS
<1> DEFINE a == Node(n)
<1> DEFINE u == Named("start", s)
<1> DEFINE v == Named("width", w)
<1> DEFINE z == Named("id", d)
<1>3. /\ Three(a, Word("node"), ".", n) /\ Three(u, Word("start"), "=", s)
      /\ Three(v, Word("width"), "=", w) /\ Three(z, Word("id"), "=", d)
  BY NodeIs, NamedIs DEF Words
<1>4. PICK items : items = ItemsOf(st)
  OBVIOUS
<1>5. items = Append(<<a, u, v>>, z)
  <2>1. WrittenArguments(st) = <<a, u, v>>
    BY <1>1 DEF WrittenArguments
  <2>2. QED
    BY <1>2, <1>4, <2>1 DEF ItemsOf
<1> HIDE DEF a, u, v, z
<1>6. a \in Seq(Token) /\ u \in Seq(Token) /\ v \in Seq(Token) /\ z \in Seq(Token)
  BY <1>3 DEF Three
<1>7. /\ items \in Seq(Seq(Token)) /\ Len(items) = 4
      /\ items[1] = a /\ items[2] = u /\ items[3] = v /\ items[4] = z
  BY <1>5, <1>6, AppendToThree
<1>8. /\ Three(items[1], Word("node"), ".", n) /\ Three(items[2], Word("start"), "=", s)
      /\ Three(items[3], Word("width"), "=", w) /\ Three(items[4], Word("id"), "=", d)
  BY <1>3, <1>7
<1>9. \A i \in 1..Len(items) : \E first, m : \E mark \in {".", "="} : Three(items[i], first, mark, m)
  <2>1. \A i \in 1..4 : i = 1 \/ i = 2 \/ i = 3 \/ i = 4
    OBVIOUS
  <2>2. QED
    BY <1>7, <1>8, <2>1
<1>10. PICK ts : ts = Listed(items)
  OBVIOUS
<1>11. ts \in Seq(Token) /\ Lacks(ts, ")") /\ \A i \in 1..Len(items) : Len(items[i]) = 3
  BY <1>7, <1>9, <1>10, ThreesLack
<1>12. /\ ThreeAt(ts, 0, ".", n)
       /\ CommaAt(ts, 4) /\ ThreeAt(ts, 4, "=", s)
       /\ CommaAt(ts, 8) /\ ThreeAt(ts, 8, "=", w)
       /\ CommaAt(ts, 12) /\ ThreeAt(ts, 12, "=", d)
  <2>1. /\ 1 \in 1..Len(items) /\ 2 \in 1..Len(items) /\ 3 \in 1..Len(items) /\ 4 \in 1..Len(items)
        /\ 0 = 4 * (1 - 1) /\ 4 = 4 * (2 - 1) /\ 8 = 4 * (3 - 1) /\ 12 = 4 * (4 - 1)
        /\ 2 # 1 /\ 3 # 1 /\ 4 # 1
    BY <1>7
  <2>2. QED
    BY <1>7, <1>8, <1>10, <1>11, <2>1, RowOfThrees
<1>13. ParseBitSlice(ts) = [args |-> <<n, s, w>>, id |-> d]
  BY <1>11, <1>12, BitSliceIsRead
<1>14. ParseArguments(st.op, ts) = [args |-> st.args, id |-> st.id]
  BY <1>1, <1>2, <1>13 DEF ParseArguments
<1>15. QED
  BY <1>4, <1>10, <1>11, <1>14 DEF OperandsRead

LEMMA VariadicOperands ==
  ASSUME NEW st, st.op \notin {"tuple_index", "bit_slice", "literal"}, st.args \in Seq(Nat), st.id \in Nat
  PROVE  OperandsRead(st, Listed(ItemsOf(st)))
<1>1. PICK args \in Seq(Nat) : args = st.args
  OBVIOUS
<1>2. PICK d \in Nat : d = st.id
  OBVIOUS
<1>3. PICK n : n = Len(args)
  OBVIOUS
<1>4. n \in Nat /\ DOMAIN args = 1..n /\ \A i \in 1..n : args[i] \in Nat
  BY <1>3, LenProperties
<1> DEFINE nodes == [i \in 1..n |-> Node(args[i])]
<1> DEFINE v == Named("id", d)
<1>5. PICK items : items = ItemsOf(st)
  OBVIOUS
<1>6. items = Append(nodes, v)
  <2>1. WrittenArguments(st) = nodes
    BY <1>1, <1>4 DEF WrittenArguments
  <2>2. QED
    BY <1>2, <1>5, <2>1 DEF ItemsOf
<1>7. \A i \in 1..n : Three(nodes[i], Word("node"), ".", args[i])
  BY <1>4, NodeIs
<1>8. Three(v, Word("id"), "=", d)
  BY NamedIs DEF Words
<1>9. nodes \in [1..n -> Seq(Token)] /\ v \in Seq(Token)
  <2>1. \A i \in 1..n : Node(args[i]) \in Seq(Token)
    BY <1>4, NodeIs DEF Three
  <2>2. QED
    BY <1>8, <2>1 DEF Three
<1> HIDE DEF nodes, v
<1>10. nodes \in Seq(Seq(Token)) /\ Len(nodes) = n
  BY <1>4, <1>9, FunctionIsSeq
<1>11. /\ items \in Seq(Seq(Token)) /\ Len(items) = n + 1 /\ items[n + 1] = v
       /\ \A i \in 1..n : items[i] = nodes[i]
  BY <1>6, <1>9, <1>10, AppendIs
<1>12. \A i \in 1..n : Three(items[i], Word("node"), ".", args[i])
  BY <1>7, <1>11
<1>13. Three(items[n + 1], Word("id"), "=", d)
  BY <1>8, <1>11
<1>14. \A i \in 1..Len(items) : \E first, m : \E mark \in {".", "="} : Three(items[i], first, mark, m)
  <2>1. \A i \in 1..(n + 1) : i \in 1..n \/ i = n + 1
    BY ONLY <1>4
  <2>2. QED
    BY <1>11, <1>12, <1>13, <2>1
<1>15. PICK ts : ts = Listed(items)
  OBVIOUS
<1>16. ts \in Seq(Token) /\ Lacks(ts, ")")
  BY <1>11, <1>14, <1>15, ThreesLack
<1>17. NodesAndId(items, args, d)
  BY <1>3, <1>11, <1>12, <1>13 DEF NodesAndId
<1>18. ParseVariadic(ts) = [args |-> args, id |-> d]
  BY <1>15, <1>17, NodesDoStand, NodesAreRead
<1>19. ParseArguments(st.op, ts) = [args |-> st.args, id |-> st.id]
  BY <1>1, <1>2, <1>18 DEF ParseArguments
<1>20. QED
  BY <1>5, <1>15, <1>16, <1>19 DEF OperandsRead

LEMMA OperandsAreRead ==
  ASSUME NEW st, st.args \in Operands(st.op), st.id \in Nat
  PROVE  OperandsRead(st, Listed(ItemsOf(st)))
<1>1. CASE st.op = "tuple_index"
  BY <1>1, TupleIndexOperands DEF Operands
<1>2. CASE st.op = "bit_slice"
  BY <1>2, BitSliceOperands DEF Operands
<1>3. CASE st.op = "literal"
  BY <1>3, LiteralOperands DEF Operands
<1>4. CASE st.op \notin {"tuple_index", "bit_slice", "literal"}
  BY <1>4, VariadicOperands DEF Operands
<1>5. QED
  BY <1>1, <1>2, <1>3, <1>4

--------------------------------------------------------------------------------
(* A statement is parsed as it was written *)

Prefix(st) ==
  (IF st.op = "ret" THEN <<Word("ret")>> ELSE <<>>)
  \o Node(st.id) \o <<Mark(":")>>
  \o (IF st.op = "ret" THEN Parens(WrittenTypes([i \in DOMAIN st.args |-> 1]))
                       ELSE WrittenTypes(<<1>>))

FirstWord(st) == IF st.op = "ret" THEN "ret" ELSE "node"

(* What is known of a statement that the tools write. *)
IsStatement(st) ==
  /\ st = [op |-> st.op, args |-> st.args, id |-> st.id]
  /\ st.op \in Words /\ st.args \in Operands(st.op) /\ st.id \in Nat

PrefixAt(P, st) == P \in Seq(Token) /\ P # <<>> /\ Lacks(P, "=") /\ P[1] = Word(FirstWord(st))

LEMMA PrefixIs ==
  ASSUME NEW st, IsStatement(st)
  PROVE  PrefixAt(Prefix(st), st)
<1> DEFINE types == IF st.op = "ret" THEN Parens(WrittenTypes([i \in DOMAIN st.args |-> 1]))
                                     ELSE WrittenTypes(<<1>>)
<1> DEFINE lead == IF st.op = "ret" THEN <<Word("ret")>> ELSE <<>>
<1> DEFINE N == Node(st.id)
<1> DEFINE C == <<Mark(":")>>
<1>1. types \in Seq(Token) /\ Lacks(types, "=")
  <2>1. CASE st.op = "ret"
    <3>1. st.args \in Seq(Nat)
      BY <2>1 DEF IsStatement, Operands
    <3>2. Len(st.args) \in Nat /\ DOMAIN st.args = 1..Len(st.args)
      BY <3>1, LenProperties
    <3> DEFINE w == [i \in DOMAIN st.args |-> 1]
    <3>3. w \in [1..Len(st.args) -> Nat]
      BY <3>2
    <3> HIDE DEF w
    <3>4. w \in Seq(Nat)
      BY <3>2, <3>3, FunctionIsSeq
    <3>5. WrittenTypes(w) \in Seq(Token) /\ Lacks(WrittenTypes(w), "=")
      BY <3>4, TypesLack
    <3>6. Parens(WrittenTypes(w)) \in Seq(Token) /\ Lacks(Parens(WrittenTypes(w)), "=")
      BY <3>5, ParensLacks
    <3>7. QED
      BY <2>1, <3>6 DEF w
  <2>2. CASE st.op # "ret"
    <3>1. <<1>> \in Seq(Nat)
      OBVIOUS
    <3>2. QED
      BY <2>2, <3>1, TypesLack
  <2>3. QED
    BY <2>1, <2>2
<1>2. /\ lead \in Seq(Token) /\ Lacks(lead, "=")
      /\ st.op = "ret" => Len(lead) = 1 /\ lead[1] = Word("ret")
      /\ st.op # "ret" => Len(lead) = 0
  <2>1. Word("ret") \in Token /\ Word("ret").is # "="
    BY TokensAre DEF Words
  <2>2. CASE st.op = "ret"
    BY <2>1, <2>2, OneTokenLacks, OneTokenIs
  <2>3. CASE st.op # "ret"
    <3>1. <<>> \in Seq(Token) /\ Len(<<>>) = 0
      OBVIOUS
    <3>2. QED
      BY <2>3, <3>1 DEF Lacks
  <2>4. QED
    BY <2>2, <2>3
<1>3. N \in Seq(Token) /\ Lacks(N, "=") /\ Len(N) = 3 /\ N[1] = Word("node")
  <2>1. Three(N, Word("node"), ".", st.id)
    BY NodeIs DEF IsStatement
  <2>2. "=" \in Marks /\ "=" # "."
    BY DEF Marks
  <2>3. Lacks(N, "=")
    BY <2>1, <2>2, ThreeLacks
  <2>4. QED
    BY <2>1, <2>3 DEF Three
<1>4. C \in Seq(Token) /\ Lacks(C, "=")
  <2>1. Mark(":") \in Token /\ Mark(":").is # "="
    BY TokensAre DEF Marks
  <2>2. QED
    BY <2>1, OneTokenLacks
<1>5. Prefix(st) = ((lead \o N) \o C) \o types
  BY DEF Prefix
<1> HIDE DEF types, lead, N, C
<1> DEFINE u == lead \o N
<1> DEFINE v == u \o C
<1> DEFINE P == v \o types
<1>6. u \in Seq(Token) /\ Lacks(u, "=") /\ Len(u) \in Nat /\ Len(u) > 0 /\ u[1] = Word(FirstWord(st))
  <2>1. u \in Seq(Token) /\ Lacks(u, "=")
    BY <1>2, <1>3, ConcatLacks
  <2>2. /\ Len(u) = Len(lead) + Len(N) /\ Len(lead) \in Nat
        /\ \A i \in 1..Len(lead) : u[i] = lead[i]
        /\ \A i \in 1..Len(N) : u[Len(lead) + i] = N[i]
    BY <1>2, <1>3, ConcatIs
  <2> HIDE DEF u
  <2>3. Len(u) \in Nat /\ Len(u) > 0
    BY <1>3, <2>2
  <2>4. CASE st.op = "ret"
    <3>1. Len(lead) = 1 /\ lead[1] = Word("ret") /\ 1 \in 1..1
      BY <1>2, <2>4
    <3>2. u[1] = Word("ret")
      BY <2>2, <3>1
    <3>3. QED
      BY <2>1, <2>3, <2>4, <3>2 DEF FirstWord
  <2>5. CASE st.op # "ret"
    <3>1. Len(lead) = 0 /\ 1 \in 1..Len(N)
      BY <1>2, <1>3, <2>5
    <3>2. u[Len(lead) + 1] = N[1] /\ Len(lead) + 1 = 1
      BY <2>2, <3>1
    <3>3. QED
      BY <1>3, <2>1, <2>3, <2>5, <3>2 DEF FirstWord
  <2>6. QED
    BY <2>4, <2>5
<1> HIDE DEF u
<1>7. v \in Seq(Token) /\ Lacks(v, "=") /\ Len(v) \in Nat /\ Len(v) > 0 /\ v[1] = u[1]
  <2>1. v \in Seq(Token) /\ Lacks(v, "=")
    BY <1>4, <1>6, ConcatLacks
  <2>2. Len(v) = Len(u) + Len(C) /\ Len(C) \in Nat /\ \A i \in 1..Len(u) : v[i] = u[i]
    BY <1>4, <1>6, ConcatIs
  <2>3. 1 \in 1..Len(u)
    BY <1>6
  <2> HIDE DEF v
  <2>4. QED
    BY <1>6, <2>1, <2>2, <2>3
<1> HIDE DEF v
<1>8. P \in Seq(Token) /\ Lacks(P, "=") /\ Len(P) > 0 /\ P[1] = v[1]
  <2>1. P \in Seq(Token) /\ Lacks(P, "=")
    BY <1>1, <1>7, ConcatLacks
  <2>2. Len(P) = Len(v) + Len(types) /\ Len(types) \in Nat /\ \A i \in 1..Len(v) : P[i] = v[i]
    BY <1>1, <1>7, ConcatIs
  <2>3. 1 \in 1..Len(v)
    BY <1>7
  <2> HIDE DEF P
  <2>4. QED
    BY <1>7, <2>1, <2>2, <2>3
<1>9. Prefix(st) = P
  BY <1>5 DEF P, v, u
<1> HIDE DEF P
<1>10. P # <<>>
  <2>1. Len(P) # 0
    BY <1>8, LenProperties
  <2>2. QED
    BY <2>1
<1>11. QED
  BY <1>6, <1>7, <1>8, <1>9, <1>10 DEF PrefixAt

StatementAt(ts, st) ==
  /\ ts \in Seq(Token) /\ ts # <<>> /\ ts[1] = Word(FirstWord(st))
  /\ ParseStatement(ts) = st

LEMMA StatementIsParsed ==
  ASSUME NEW st, IsStatement(st)
  PROVE  StatementAt(Written(st), st)
<1>1. PICK A : A = Listed(ItemsOf(st))
  OBVIOUS
<1>2. PICK P : P = Prefix(st)
  OBVIOUS
<1>3. PICK name : name = IF st.op = "ret" THEN "tuple" ELSE st.op
  OBVIOUS
<1>4. PICK ts : ts = Written(st)
  OBVIOUS
<1>5. A \in Seq(Token) /\ Lacks(A, ")") /\ ParseArguments(st.op, A) = [args |-> st.args, id |-> st.id]
  BY <1>1, OperandsAreRead DEF IsStatement, OperandsRead
<1>6. P \in Seq(Token) /\ P # <<>> /\ Lacks(P, "=") /\ P[1] = Word(FirstWord(st))
  BY <1>2, PrefixIs DEF PrefixAt
<1>7. name \in Words
  BY <1>3 DEF IsStatement, Words
<1>8. ts = Line(P, name, A)
  BY <1>1, <1>2, <1>3, <1>4 DEF Written, Line, Prefix, ItemsOf
<1>9. LineAt(ts, P, name, A)
  BY <1>5, <1>6, <1>7, <1>8, LineIs
<1>10. LineRead(ts, P, name, A)
  BY <1>5, <1>6, <1>7, <1>9, LineIsRead
<1>11. ts[1] = Word(FirstWord(st)) /\ ts[Assignment(ts) + 1].of = name
       /\ SubSeq(ts, After(ts, "(", Assignment(ts)), Until(ts, ")", Assignment(ts)) - 1) = A
  BY <1>6, <1>10 DEF LineRead
<1>12. OperationName(ts) = st.op
  <2>1. FirstWord(st) \in Words
    BY DEF FirstWord, Words
  <2>2. ts[1].is = "word" /\ ts[1].of = FirstWord(st)
    BY <1>11, <2>1, TokensAre
  <2>3. QED
    BY <1>3, <1>11, <2>2 DEF OperationName, FirstWord
<1>13. ParseStatement(ts) = st
  <2>1. PICK parsed : parsed = ParseArguments(st.op, A)
    OBVIOUS
  <2>2. parsed.args = st.args /\ parsed.id = st.id
    BY <1>5, <2>1
  <2>3. ParseStatement(ts) = [op |-> st.op, args |-> parsed.args, id |-> parsed.id]
    BY <1>11, <1>12, <2>1 DEF ParseStatement
  <2>4. QED
    BY <2>2, <2>3 DEF IsStatement
<1>14. ts \in Seq(Token) /\ ts # <<>>
  <2>1. ts \in Seq(Token) /\ Len(ts) = Len(P) + 4 + Len(A) /\ Len(P) \in Nat /\ Len(A) \in Nat
    BY <1>5, <1>6, <1>9, LenProperties DEF LineAt
  <2>2. Len(ts) # 0
    BY ONLY <2>1
  <2>3. QED
    BY <2>1, <2>2
<1>15. QED
  BY <1>4, <1>11, <1>13, <1>14 DEF StatementAt

--------------------------------------------------------------------------------
(* What the analyzer takes a signature for *)

Signatures == [inputs : Seq(Seq(Bytes)), output : Seq(Bytes)]

LEMMA ReverseIs ==
  ASSUME NEW S, NEW s \in Seq(S)
  PROVE  Reverse(s) \in Seq(S)
<1>1. Len(s) \in Nat /\ \A i \in 1..Len(s) : s[i] \in S
  BY LenProperties
<1>2. \A i \in 1..Len(s) : (Len(s) - i) + 1 \in 1..Len(s)
  BY <1>1
<1>3. Reverse(s) \in [1..Len(s) -> S]
  BY <1>1, <1>2 DEF Reverse
<1>4. QED
  BY <1>1, <1>3, FunctionIsSeq

(* A function on a sequence's places is a sequence. *)
LEMMA EachIs ==
  ASSUME NEW R, NEW s \in Seq(R), NEW S, NEW f, DOMAIN f = DOMAIN s, f = [i \in DOMAIN s |-> f[i]],
         \A i \in 1..Len(s) : f[i] \in S
  PROVE  f \in Seq(S) /\ Len(f) = Len(s)
<1>1. Len(s) \in Nat /\ DOMAIN s = 1..Len(s)
  BY LenProperties
<1>2. f \in [1..Len(s) -> S]
  BY <1>1
<1>3. QED
  BY <1>1, <1>2, FunctionIsSeq

LEMMA InTuplesIs ==
  ASSUME NEW sig \in Signatures
  PROVE  InTuples(sig) \in Signatures
<1>1. sig.inputs \in Seq(Seq(Bytes)) /\ sig.output \in Seq(Bytes)
  BY DEF Signatures
<1> DEFINE f == [i \in DOMAIN sig.inputs |-> Reverse(sig.inputs[i])]
<1>2. \A i \in 1..Len(sig.inputs) : i \in DOMAIN sig.inputs /\ sig.inputs[i] \in Seq(Bytes)
  BY <1>1, LenProperties
<1>3. \A i \in 1..Len(sig.inputs) : f[i] \in Seq(Bytes)
  BY <1>2, ReverseIs
<1>4. DOMAIN f = DOMAIN sig.inputs /\ f = [i \in DOMAIN sig.inputs |-> f[i]]
  OBVIOUS
<1>5. InTuples(sig) = [inputs |-> f, output |-> Reverse(sig.output)]
  BY DEF InTuples
<1> HIDE DEF f
<1>6. f \in Seq(Seq(Bytes))
  BY <1>1, <1>3, <1>4, EachIs
<1>7. Reverse(sig.output) \in Seq(Bytes)
  BY <1>1, ReverseIs
<1>8. QED
  BY <1>5, <1>6, <1>7 DEF Signatures

LEMMA KindWidthIs ==
  ASSUME NEW kind \in DOMAIN KindWidth
  PROVE  KindWidth[kind] \in Bytes
<1>1. DOMAIN KindWidth = {"bool", "char", "short", "int", "long"}
  BY DEF KindWidth
<1>2. /\ KindWidth["bool"] = 1 /\ KindWidth["char"] = 8 /\ KindWidth["short"] = 16
      /\ KindWidth["int"] = 32 /\ KindWidth["long"] = 64
  BY DEF KindWidth
<1>3. 1 \in Bytes /\ 8 \in Bytes /\ 16 \in Bytes /\ 32 \in Bytes /\ 64 \in Bytes
  BY DEF Bytes
<1>4. QED
  BY <1>1, <1>2, <1>3

LEMMA WidthsAre ==
  ASSUME NEW type \in Types, Accepted(type)
  PROVE  Widths(type) \in Seq(Bytes)
<1>1. type.fields \in Seq(STRING) /\ \A i \in DOMAIN type.fields : type.fields[i] \in DOMAIN KindWidth
  BY DEF Types, Accepted
<1>2. DOMAIN type.fields = 1..Len(type.fields)
  BY <1>1, LenProperties
<1> DEFINE f == Widths(type)
<1>3. DOMAIN f = DOMAIN type.fields /\ f = [i \in DOMAIN type.fields |-> f[i]]
      /\ \A i \in DOMAIN type.fields : f[i] = KindWidth[type.fields[i]]
  BY DEF Widths
<1> HIDE DEF f
<1>4. \A i \in 1..Len(type.fields) : f[i] \in Bytes
  BY <1>1, <1>2, <1>3, KindWidthIs
<1>5. f \in Seq(Bytes)
  BY <1>1, <1>3, <1>4, EachIs
<1>6. QED
  BY <1>5 DEF f

LEMMA MetadataIs ==
  ASSUME NEW f \in Lines, f.is = "function", Supported(f)
  PROVE  Metadata(f) \in Signatures
<1>1. f.params \in Seq(Types) /\ f.output \in Types
  BY DEF Lines
<1>2. (\A i \in DOMAIN f.params : Accepted(f.params[i])) /\ Accepted(f.output)
  BY DEF Supported
<1> DEFINE g == [i \in DOMAIN f.params |-> Widths(f.params[i])]
<1>3. \A i \in 1..Len(f.params) : i \in DOMAIN f.params /\ f.params[i] \in Types
  BY <1>1, LenProperties
<1>4. \A i \in 1..Len(f.params) : g[i] \in Seq(Bytes)
  BY <1>2, <1>3, WidthsAre
<1>5. DOMAIN g = DOMAIN f.params /\ g = [i \in DOMAIN f.params |-> g[i]]
  OBVIOUS
<1>6. Metadata(f) = [inputs |-> g, output |-> Widths(f.output)]
  BY DEF Metadata
<1> HIDE DEF g
<1>7. g \in Seq(Seq(Bytes))
  BY <1>1, <1>4, <1>5, EachIs
<1>8. Widths(f.output) \in Seq(Bytes)
  BY <1>1, <1>2, WidthsAre
<1>9. QED
  BY <1>6, <1>7, <1>8 DEF Signatures

(* The line that the function begins with. *)
Header(sig) == WrittenHeader(InTuples(sig).inputs, InTuples(sig).output)

HeaderLineAt(ts, sig) ==
  /\ ts \in Seq(Token) /\ ts # <<>> /\ ts[1] = Word("top")
  /\ ParseHeader(ts).state = "completed"
  /\ ParseHeader(ts).inputs = InTuples(sig).inputs
  /\ ParseHeader(ts).output = InTuples(sig).output

LEMMA HeaderLineIs ==
  ASSUME NEW sig \in Signatures
  PROVE  HeaderLineAt(Header(sig), sig)
<1>1. PICK inputs \in Seq(Seq(Bytes)) : inputs = InTuples(sig).inputs
  BY InTuplesIs DEF Signatures
<1>2. PICK result \in Seq(Bytes) : result = InTuples(sig).output
  BY InTuplesIs DEF Signatures
<1>3. PICK ts : ts = WrittenHeader(inputs, result)
  OBVIOUS
<1>4. PICK from : ParseHeader(ts) = Head4("completed", from, inputs, result)
  BY <1>3, HeaderIsParsed
<1>5. PICK I : I = Listed(Params(inputs))
  OBVIOUS
<1>6. PICK O : O = WrittenTypes(result)
  OBVIOUS
<1>7. O \in Seq(Token)
  BY <1>6, BytesAre, TypesLack
<1>8. I \in Seq(Token)
  BY <1>5, ParamsAre, ListedIs
<1>9. HeaderAt(ts, I, O)
  BY <1>3, <1>5, <1>6, <1>7, <1>8, HeaderIs
<1>10. ts \in Seq(Token) /\ ts[1] = Word("top")
  BY <1>9 DEF HeaderAt
<1>11. ts # <<>>
  <2>1. Len(ts) = 10 + Len(I) + Len(O) /\ Len(I) \in Nat /\ Len(O) \in Nat
    BY <1>7, <1>8, <1>9, LenProperties DEF HeaderAt
  <2>2. Len(ts) # 0
    BY ONLY <2>1
  <2>3. QED
    BY <2>2
<1>12. /\ ParseHeader(ts).state = "completed"
       /\ ParseHeader(ts).inputs = inputs /\ ParseHeader(ts).output = result
  BY <1>4 DEF Head4
<1>13. QED
  BY <1>1, <1>2, <1>3, <1>10, <1>11, <1>12 DEF Header, HeaderLineAt

--------------------------------------------------------------------------------
(* The text that the tools write *)

\* A line of it.
Row == Seq(Token)

LEMMA RowsConcat ==
  ASSUME NEW s \in Seq(Row), NEW t \in Seq(Row)
  PROVE  /\ s \o t \in Seq(Row) /\ Len(s \o t) = Len(s) + Len(t)
         /\ Len(s) \in Nat /\ Len(t) \in Nat
         /\ \A i \in 1..Len(s) : (s \o t)[i] = s[i]
         /\ \A i \in 1..Len(t) : (s \o t)[Len(s) + i] = t[i]
<1>1. Len(s) \in Nat /\ Len(t) \in Nat
  BY LenProperties
<1>2. /\ s \o t \in Seq(Row) /\ Len(s \o t) = Len(s) + Len(t)
      /\ \A i \in 1..(Len(s) + Len(t)) :
           (s \o t)[i] = IF i <= Len(s) THEN s[i] ELSE t[i - Len(s)]
  BY ConcatProperties
<1>3. ASSUME NEW i \in 1..Len(s) PROVE (s \o t)[i] = s[i]
  BY <1>1, <1>2
<1>4. ASSUME NEW i \in 1..Len(t) PROVE (s \o t)[Len(s) + i] = t[i]
  BY <1>1, <1>2
<1>5. QED
  BY <1>1, <1>2, <1>3, <1>4

LEMMA OneRowIs ==
  ASSUME NEW r \in Row
  PROVE  <<r>> \in Seq(Row) /\ Len(<<r>>) = 1 /\ <<r>>[1] = r
OBVIOUS

(* Whatever the tools write a function's statements from, and the last one. *)
Statements == SampleStatements \union {Return(n) : n \in Nat}

LEMMA ReturnIs ==
  ASSUME NEW n \in Nat
  PROVE  IsStatement(Return(n)) /\ Return(n).op = "ret"
<1> DEFINE args == [i \in 1..n |-> i]
<1>1. args \in [1..n -> Nat]
  OBVIOUS
<1> HIDE DEF args
<1>2. args \in Seq(Nat)
  BY <1>1, FunctionIsSeq
<1>3. Return(n) = [op |-> "ret", args |-> args, id |-> 9]
  BY DEF Return, args
<1>4. QED
  BY <1>2, <1>3 DEF IsStatement, Words, Operands

LEMMA StatementsAre ==
  ASSUME NEW st \in Statements
  PROVE  StatementAt(Written(st), st)
<1>1. CASE st \in SampleStatements
  BY <1>1, CompilerAssumption, StatementIsParsed DEF IsStatement, Words
<1>2. CASE st \in {Return(n) : n \in Nat}
  BY <1>2, ReturnIs, StatementIsParsed
<1>3. QED
  BY <1>1, <1>2 DEF Statements

(* No line but the function's first begins with "top". *)
NotTop(line) == line = Blank \/ line[1].is # "word" \/ line[1].of # "top"

(* The function stands behind the first k - 1 lines, as far as the text    *)
(* reaches, and there is no other "top" before it.                         *)
FunctionAt(ts, sig, ops, k) ==
  /\ k \in Nat \ {0} /\ ts \in Seq(Row)
  /\ \A i \in 1..Len(ts) : i < k => NotTop(ts[i])
  /\ k <= Len(ts) => ts[k] = Header(sig)
  /\ \A j \in 1..Len(ops) : k + j <= Len(ts) => ts[k + j] = Written(ops[j])
  /\ k + Len(ops) + 1 <= Len(ts) => ts[k + Len(ops) + 1] = Closing

LEMMA ClosingIs == Closing \in Row /\ Closing # Blank /\ Closing[1].is = "}" /\ NotTop(Closing)
<1>1. PICK c : c = Mark("}")
  OBVIOUS
<1>2. c \in Token /\ c.is = "}"
  BY <1>1, TokensAre DEF Marks
<1>3. <<c>> \in Row /\ <<c>>[1] = c /\ <<c>> # <<>>
  <2>1. <<c>> \in Seq(Token) /\ Len(<<c>>) = 1 /\ <<c>>[1] = c
    BY <1>2, OneTokenIs
  <2>2. PICK s : s = <<c>>
    OBVIOUS
  <2>3. s # <<>>
    BY <2>1, <2>2
  <2>4. QED
    BY <2>1, <2>2, <2>3 DEF Row
<1>4. QED
  BY <1>1, <1>2, <1>3 DEF Closing, Blank, NotTop

Quiet(s) == s \in Seq(Row) /\ \A i \in 1..Len(s) : NotTop(s[i])

LEMMA QuietConcat ==
  ASSUME NEW s, NEW t, Quiet(s), Quiet(t)
  PROVE  Quiet(s \o t)
<1> DEFINE u == s \o t
<1>1. s \in Seq(Row) /\ t \in Seq(Row)
  BY DEF Quiet
<1>2. /\ u \in Seq(Row) /\ Len(u) = Len(s) + Len(t) /\ Len(s) \in Nat /\ Len(t) \in Nat
      /\ \A i \in 1..Len(s) : u[i] = s[i]
      /\ \A i \in 1..Len(t) : u[Len(s) + i] = t[i]
  BY <1>1, RowsConcat
<1> HIDE DEF u
<1>3. ASSUME NEW i \in 1..Len(u) PROVE NotTop(u[i])
  <2>1. i \in 1..Len(s) \/ (i - Len(s) \in 1..Len(t) /\ Len(s) + (i - Len(s)) = i)
    BY ONLY <1>2, <1>3
  <2>2. CASE i \in 1..Len(s)
    BY <1>2, <2>2 DEF Quiet
  <2>3. CASE i - Len(s) \in 1..Len(t) /\ Len(s) + (i - Len(s)) = i
    <3>1. u[i] = t[i - Len(s)]
      BY <1>2, <2>3
    <3>2. QED
      BY <2>3, <3>1 DEF Quiet
  <2>4. QED
    BY <2>1, <2>2, <2>3
<1>4. QED
  BY <1>2, <1>3 DEF Quiet, u

LEMMA QuietOne ==
  ASSUME NEW r \in Row, NotTop(r)
  PROVE  Quiet(<<r>>)
BY OneRowIs DEF Quiet

LEMMA QuietTwo ==
  ASSUME NEW r \in Row, NotTop(r), NEW s \in Row, NotTop(s)
  PROVE  Quiet(<<r, s>>)
<1>1. <<r, s>> \in Seq(Row) /\ Len(<<r, s>>) = 2
  OBVIOUS
<1>2. PICK t \in Seq(Row) : t = <<r, s>>
  BY <1>1
<1>3. Len(t) = 2 /\ t[1] = r /\ t[2] = s
  BY <1>1, <1>2
<1>4. \A i \in 1..2 : i = 1 \/ i = 2
  OBVIOUS
<1>5. QED
  BY <1>2, <1>3, <1>4 DEF Quiet

LEMMA QuietThree ==
  ASSUME NEW r \in Row, NotTop(r), NEW s \in Row, NotTop(s), NEW q \in Row, NotTop(q)
  PROVE  Quiet(<<r, s, q>>)
<1>1. <<r, s, q>> \in Seq(Row) /\ Len(<<r, s, q>>) = 3
  OBVIOUS
<1>2. PICK t \in Seq(Row) : t = <<r, s, q>>
  BY <1>1
<1>3. Len(t) = 3 /\ t[1] = r /\ t[2] = s /\ t[3] = q
  BY <1>1, <1>2
<1>4. \A i \in 1..3 : i = 1 \/ i = 2 \/ i = 3
  OBVIOUS
<1>5. QED
  BY <1>2, <1>3, <1>4 DEF Quiet

(* Neither a line of the package nor a helper's is the function's first. *)
LEMMA AmblesAre ==
  /\ \A before \in Preambles : Quiet(before)
  /\ \A after \in Postambles : after \in Seq(Row)
<1>1. Blank \in Row /\ NotTop(Blank)
  BY DEF Blank, Row, NotTop
<1>2. Package \in Row /\ NotTop(Package)
  <2>1. PICK a : a = Word("package")
    OBVIOUS
  <2>2. PICK b : b = Word("main")
    OBVIOUS
  <2>3. a \in Token /\ a.is = "word" /\ a.of = "package" /\ b \in Token
    BY <2>1, <2>2, TokensAre DEF Words
  <2>4. <<a, b>> \in Row /\ <<a, b>>[1] = a
    BY <2>3 DEF Row
  <2>5. QED
    BY <2>1, <2>2, <2>3, <2>4 DEF Package, NotTop
<1>3. Quiet(Helper)
  <2> DEFINE a == Word("fn")
  <2> DEFINE b == Word("helper")
  <2> DEFINE c == Mark("(")
  <2> DEFINE d == Mark(")")
  <2> DEFINE e == Mark("{")
  <2> DEFINE r == <<a, b, c, d, e>>
  <2>1. a \in Token /\ a.of = "fn" /\ b \in Token /\ c \in Token /\ d \in Token /\ e \in Token
    BY TokensAre DEF Words, Marks
  <2>2. Helper = <<r, Closing>>
    BY DEF Helper
  <2> HIDE DEF a, b, c, d, e
  <2>3. r \in Row /\ r[1] = a
    BY <2>1 DEF Row
  <2> HIDE DEF r
  <2>4. NotTop(r)
    BY <2>1, <2>3 DEF NotTop
  <2>5. QED
    BY <2>2, <2>3, <2>4, ClosingIs, QuietTwo
<1>4. Quiet(<<Blank>>) /\ Quiet(<<Package, Blank>>)
  BY <1>1, <1>2, QuietOne, QuietTwo
<1>5. Quiet(<<Package, Blank, Blank>>)
  BY <1>1, <1>2, QuietThree
<1>6. Quiet((<<Package, Blank>> \o Helper) \o <<Blank>>)
  BY <1>3, <1>4, QuietConcat
<1>7. ASSUME NEW before \in Preambles PROVE Quiet(before)
  BY <1>4, <1>5, <1>6 DEF Preambles
<1>8. Quiet(<<Blank>> \o Helper)
  BY <1>3, <1>4, QuietConcat
<1>9. <<>> \in Seq(Row)
  OBVIOUS
<1>10. ASSUME NEW after \in Postambles PROVE after \in Seq(Row)
  BY <1>4, <1>8, <1>9 DEF Postambles, Quiet
<1>11. QED
  BY <1>7, <1>10

(* top ... , the statements, } *)
FunctionIs(f, sig, ops) ==
  /\ f \in Seq(Row) /\ Len(f) = Len(ops) + 2
  /\ f[1] = Header(sig)
  /\ \A j \in 1..Len(ops) : f[j + 1] = Written(ops[j])
  /\ f[Len(ops) + 2] = Closing

LEMMA FunctionIsWritten ==
  ASSUME NEW sig \in Signatures, NEW ops \in Seq(Statements)
  PROVE  FunctionIs(Function(sig, ops), sig, ops)
<1>1. PICK n : n = Len(ops)
  OBVIOUS
<1>2. n \in Nat /\ DOMAIN ops = 1..n /\ \A i \in 1..n : ops[i] \in Statements
  BY <1>1, LenProperties
<1>3. PICK H : H = Header(sig)
  OBVIOUS
<1>4. H \in Row
  BY <1>3, HeaderLineIs DEF HeaderLineAt, Row
<1> DEFINE W == [i \in DOMAIN ops |-> Written(ops[i])]
<1>5. \A i \in 1..n : W[i] = Written(ops[i]) /\ W[i] \in Row
  BY <1>2, StatementsAre DEF StatementAt, Row
<1>6. W \in [1..n -> Row]
  BY <1>2, <1>5
<1>7. Function(sig, ops) = (<<H>> \o W) \o <<Closing>>
  BY <1>3 DEF Function, Header
<1> HIDE DEF W
<1>8. W \in Seq(Row) /\ Len(W) = n
  BY <1>2, <1>6, FunctionIsSeq
<1> DEFINE u == <<H>> \o W
<1>9. <<H>> \in Seq(Row) /\ Len(<<H>>) = 1 /\ <<H>>[1] = H
  BY <1>4, OneRowIs
<1>10. /\ u \in Seq(Row) /\ Len(u) = 1 + n
       /\ u[1] = H /\ \A j \in 1..n : u[1 + j] = W[j]
  BY <1>8, <1>9, RowsConcat
<1> HIDE DEF u
<1> DEFINE v == u \o <<Closing>>
<1>11. <<Closing>> \in Seq(Row) /\ Len(<<Closing>>) = 1 /\ <<Closing>>[1] = Closing
  BY ClosingIs, OneRowIs
<1>12. /\ v \in Seq(Row) /\ Len(v) = Len(u) + 1 /\ v[Len(u) + 1] = Closing
       /\ \A j \in 1..Len(u) : v[j] = u[j]
  BY <1>10, <1>11, RowsConcat
<1> HIDE DEF v
<1>13. Len(v) = n + 2 /\ v[n + 2] = Closing
  BY <1>2, <1>10, <1>12
<1>14. v[1] = H
  BY <1>2, <1>10, <1>12
<1>15. ASSUME NEW j \in 1..n PROVE v[j + 1] = Written(ops[j])
  <2>1. j + 1 \in 1..(1 + n) /\ j + 1 = 1 + j
    BY ONLY <1>2, <1>15
  <2>2. QED
    BY <1>5, <1>10, <1>12, <2>1
<1>16. QED
  BY <1>1, <1>3, <1>7, <1>12, <1>13, <1>14, <1>15 DEF FunctionIs, u, v

LEMMA FunctionInPackage ==
  ASSUME NEW before, Quiet(before), NEW after \in Seq(Row), NEW f, NEW sig, NEW ops,
         FunctionIs(f, sig, ops), Len(ops) \in Nat, NEW ts, ts = before \o f \o after
  PROVE  \E k \in Nat \ {0} : FunctionAt(ts, sig, ops, k) /\ k + Len(ops) + 1 <= Len(ts)
<1>1. PICK b : b = Len(before)
  OBVIOUS
<1>2. PICK n : n = Len(ops)
  OBVIOUS
<1>3. PICK a : a = Len(after)
  OBVIOUS
<1>4. before \in Seq(Row) /\ f \in Seq(Row) /\ Len(f) = n + 2
  BY <1>2 DEF Quiet, FunctionIs
<1>5. b \in Nat /\ n \in Nat /\ a \in Nat
  BY <1>1, <1>2, <1>3, <1>4, LenProperties
<1> DEFINE u == before \o f
<1>6. /\ u \in Seq(Row) /\ Len(u) = b + (n + 2)
      /\ (\A i \in 1..b : u[i] = before[i]) /\ (\A i \in 1..(n + 2) : u[b + i] = f[i])
  <2>1. /\ u \in Seq(Row) /\ Len(u) = Len(before) + Len(f)
        /\ (\A i \in 1..Len(before) : u[i] = before[i]) /\ (\A i \in 1..Len(f) : u[Len(before) + i] = f[i])
    BY <1>4, RowsConcat
  <2> HIDE DEF u
  <2>2. QED
    BY <1>1, <1>4, <2>1
<1>7. ts = u \o after
  OBVIOUS
<1> HIDE DEF u
<1>8. ts \in Seq(Row) /\ Len(ts) = (b + (n + 2)) + a /\ \A i \in 1..(b + (n + 2)) : ts[i] = u[i]
  <2>1. u \o after \in Seq(Row) /\ Len(u \o after) = Len(u) + Len(after) /\ \A i \in 1..Len(u) : (u \o after)[i] = u[i]
    BY <1>6, RowsConcat
  <2>2. QED
    BY ONLY <1>3, <1>6, <1>7, <2>1
<1>9. ASSUME NEW i \in 1..b PROVE NotTop(ts[i])
  <2>1. i \in 1..(b + (n + 2))
    BY ONLY <1>5, <1>9
  <2>2. ts[i] = before[i]
    BY <1>6, <1>8, <2>1
  <2>3. QED
    BY <1>1, <2>2 DEF Quiet
<1>10. ASSUME NEW i \in 1..(n + 2) PROVE ts[b + i] = f[i]
  <2>1. b + i \in 1..(b + (n + 2))
    BY ONLY <1>5, <1>10
  <2>2. QED
    BY <1>6, <1>8, <2>1
<1>11. PICK k : k = b + 1
  OBVIOUS
<1>12. ts[k] = Header(sig)
  <2>1. 1 \in 1..(n + 2)
    BY ONLY <1>5
  <2>2. QED
    BY <1>10, <1>11, <2>1 DEF FunctionIs
<1>13. ASSUME NEW j \in 1..n PROVE ts[k + j] = Written(ops[j])
  <2>1. j + 1 \in 1..(n + 2) /\ k + j = b + (j + 1)
    BY ONLY <1>5, <1>11, <1>13
  <2>2. QED
    BY <1>2, <1>10, <2>1 DEF FunctionIs
<1>14. ts[k + n + 1] = Closing
  <2>1. n + 2 \in 1..(n + 2) /\ k + n + 1 = b + (n + 2)
    BY ONLY <1>5, <1>11
  <2>2. QED
    BY <1>2, <1>10, <2>1 DEF FunctionIs
<1>15. k \in Nat \ {0} /\ k + n + 1 <= Len(ts) /\ \A i \in 1..Len(ts) : i < k => i \in 1..b
  BY ONLY <1>5, <1>8, <1>11
<1>16. FunctionAt(ts, sig, ops, k)
  BY <1>2, <1>8, <1>9, <1>12, <1>13, <1>14, <1>15 DEF FunctionAt
<1>17. QED
  BY <1>2, <1>15, <1>16

(* A part of the text still has the function there, as far as it reaches. *)
LEMMA FunctionInPart ==
  ASSUME NEW ts, NEW sig, NEW ops, NEW k, FunctionAt(ts, sig, ops, k), NEW n \in 1..(Len(ts) - 1),
         Len(ops) \in Nat, NEW part, part = SubSeq(ts, 1, n)
  PROVE  FunctionAt(part, sig, ops, k)
<1>1. ts \in Seq(Row) /\ k \in Nat \ {0}
  BY DEF FunctionAt
<1>2. Len(ts) \in Nat /\ \A i \in 1..Len(ts) : ts[i] \in Row
  BY <1>1, LenProperties
<1>3. n \in Nat /\ n <= Len(ts) /\ 1 \in Int /\ n \in Int /\ \A i \in 1..n : i \in 1..Len(ts)
  BY <1>2
<1>4. \A i \in 1..n : ts[i] \in Row
  BY <1>2, <1>3
<1>5. /\ part \in Seq(Row) /\ Len(part) = IF 1 <= n THEN n - 1 + 1 ELSE 0
      /\ \A i \in 1..(n - 1 + 1) : part[i] = ts[1 + i - 1]
  BY <1>3, <1>4, SubSeqProperties
<1>6. Len(part) = n /\ n - 1 + 1 = n /\ \A i \in 1..n : 1 + i - 1 = i
  BY <1>3, <1>5
<1>7. \A i \in 1..n : part[i] = ts[i]
  BY <1>5, <1>6
<1>8. ASSUME NEW i \in 1..n, i < k PROVE NotTop(part[i])
  BY <1>3, <1>7, <1>8 DEF FunctionAt
<1>9. ASSUME k <= n PROVE part[k] = Header(sig)
  <2>1. k \in 1..n /\ k <= Len(ts)
    BY ONLY <1>1, <1>2, <1>3, <1>9
  <2>2. QED
    BY <1>7, <2>1 DEF FunctionAt
<1>10. ASSUME NEW j \in 1..Len(ops), k + j <= n PROVE part[k + j] = Written(ops[j])
  <2>1. k + j \in 1..n /\ k + j <= Len(ts)
    BY ONLY <1>1, <1>2, <1>3, <1>10
  <2>2. QED
    BY <1>7, <2>1 DEF FunctionAt
<1>11. ASSUME k + Len(ops) + 1 <= n PROVE part[k + Len(ops) + 1] = Closing
  <2>1. k + Len(ops) + 1 \in 1..n /\ k + Len(ops) + 1 <= Len(ts)
    BY ONLY <1>1, <1>2, <1>3, <1>11, Len(ops) \in Nat
  <2>2. QED
    BY <1>7, <2>1 DEF FunctionAt
<1>12. QED
  BY <1>1, <1>5, <1>6, <1>8, <1>9, <1>10, <1>11 DEF FunctionAt

--------------------------------------------------------------------------------
(* The inductive invariant *)

Searching == {"search start", "search end"}
Reading == {"header", "instructions", "end", "parsed"}
Before == {"analyze"} \union Tools

Typed ==
  /\ source \in Seq(Lines)
  /\ metadata \in Signatures
  /\ written \in [signature : Signatures, operations : Seq(Statements)]
  /\ definition = [header |-> definition.header, operations |-> definition.operations]
  /\ definition.operations \in Seq(Statements)

(* Nothing is there to parse before the last tool ran.                     *)
Unread ==
  stage \in Before =>
    text = <<>> /\ at = 1 /\ begin = 0 /\ finish = 0 /\ definition.operations = <<>>

(* The analyzer and xlscc find the same function.                          *)
SameFunction ==
  /\ stage = "xlscc" => \E l \in Top : metadata = Metadata(source[l])
  /\ stage \in (Tools \ {"xlscc"}) \union Searching \union Reading /\ output # "nothing" =>
       written.signature = metadata

(* Where the function is, and how much of it is found and read.            *)
End(k) == k + Len(written.operations) + 1

InText(k) ==
  /\ FunctionAt(text, written.signature, written.operations, k)
  /\ output = "all" => End(k) <= Len(text)
  /\ output = "nothing" => text = <<>>

Searched(k) ==
  /\ finish = 0 /\ definition.operations = <<>>
  /\ stage = "search start" => begin = 0 /\ at <= k
  /\ stage = "search end" => begin = k /\ k <= Len(text) /\ at \in k..End(k)

Read(k) ==
  /\ begin = k /\ finish = End(k) /\ finish <= Len(text)
  /\ stage = "header" => at = k /\ definition.operations = <<>>
  /\ stage # "header" => definition.header = ParseHeader(Header(written.signature))
  /\ stage = "instructions" =>
       /\ at \in (k + 1)..End(k)
       /\ Len(definition.operations) = at - k - 1
       /\ \A j \in 1..(at - k - 1) : definition.operations[j] = written.operations[j]
  /\ stage \in {"end", "parsed"} => at = End(k) + 1 /\ definition.operations = written.operations

Placed ==
  stage \in Searching \union Reading =>
    \E k \in Nat \ {0} :
      /\ InText(k)
      /\ stage \in Searching => Searched(k)
      /\ stage \in Reading => Read(k)

IInv == TypeOK /\ Typed /\ Unread /\ SameFunction /\ Placed /\ WholeRunsNeverFault

LEMMA NothingIs == Nothing \in Signatures
<1>1. <<>> \in Seq(Seq(Bytes)) /\ <<>> \in Seq(Bytes)
  OBVIOUS
<1>2. QED
  BY <1>1 DEF Nothing, Signatures

LEMMA InitHolds ==
  ASSUME Init
  PROVE  IInv
<1>1. /\ stage = "analyze" /\ text = <<>> /\ at = 1 /\ begin = 0 /\ finish = 0 /\ output = "all"
      /\ source \in Sources /\ metadata = Nothing
      /\ written = [signature |-> Nothing, operations |-> <<>>]
      /\ definition = [header |-> ParseHeader(<<>>), operations |-> <<>>]
  BY DEF Init
<1>2. Len(text) = 0
  BY <1>1
<1>3. TypeOK
  BY <1>1, <1>2 DEF TypeOK, Tools, Over
<1>4. Typed
  <2>1. source \in Seq(Lines)
    BY <1>1, CompilerAssumption
  <2>2. <<>> \in Seq(Statements)
    OBVIOUS
  <2>3. metadata \in Signatures /\ written \in [signature : Signatures, operations : Seq(Statements)]
    BY <1>1, <2>2, NothingIs
  <2>4. definition = [header |-> definition.header, operations |-> definition.operations]
        /\ definition.operations \in Seq(Statements)
    BY <1>1, <2>2
  <2>5. QED
    BY <2>1, <2>3, <2>4 DEF Typed
<1>5. Unread
  BY <1>1 DEF Unread
<1>6. SameFunction /\ Placed /\ WholeRunsNeverFault
  BY <1>1 DEF SameFunction, Placed, WholeRunsNeverFault, Searching, Reading, Tools
<1>7. QED
  BY <1>3, <1>4, <1>5, <1>6 DEF IInv

LEMMA StutterKeeps ==
  ASSUME IInv, UNCHANGED vars
  PROVE  IInv'
<1>1. /\ stage' = stage /\ source' = source /\ metadata' = metadata /\ output' = output
      /\ written' = written /\ text' = text /\ at' = at /\ begin' = begin /\ finish' = finish
      /\ definition' = definition
  BY DEF vars, parsing
<1>2. TypeOK' /\ Typed' /\ Unread'
  BY <1>1 DEF IInv, TypeOK, Typed, Unread
<1>3. SameFunction' /\ WholeRunsNeverFault'
  BY <1>1 DEF IInv, SameFunction, WholeRunsNeverFault, Candidates, Top
<1>4. Placed'
  <2>1. ASSUME NEW k \in Nat \ {0} PROVE (InText(k)' <=> InText(k)) /\ (Searched(k)' <=> Searched(k))
    BY <1>1 DEF InText, Searched, End
  <2>2. ASSUME NEW k \in Nat \ {0} PROVE Read(k)' <=> Read(k)
    BY <1>1 DEF Read, End
  <2>3. QED
    BY <1>1, <2>1, <2>2 DEF IInv, Placed
<1>5. QED
  BY <1>2, <1>3, <1>4 DEF IInv

(* A function on the first two lines, or nothing found.                    *)
LEMMA AnalyzeKeeps ==
  ASSUME IInv, AnalyzeFaults \/ AnalyzeThrows \/ Analyze
  PROVE  IInv'
<1>1. /\ stage = "analyze" /\ stage' \in {"faulted", "rejected", "xlscc"}
      /\ source' = source /\ output' = output /\ written' = written /\ text' = text
      /\ at' = at /\ begin' = begin /\ finish' = finish /\ definition' = definition
  BY DEF AnalyzeFaults, AnalyzeThrows, Analyze, parsing
<1>2. TypeOK'
  BY <1>1 DEF IInv, TypeOK, Tools, Over
<1>3. Unread'
  BY <1>1 DEF IInv, Unread, Before
<1>4. Placed'
  BY <1>1 DEF Placed, Searching, Reading
<1>5. source \in Seq(Lines) /\ Len(source) \in Nat /\ DOMAIN source = 1..Len(source)
      /\ \A l \in DOMAIN source : source[l] \in Lines
  BY LenProperties DEF IInv, Typed
<1>6. CASE AnalyzeFaults
  <2>1. stage' = "faulted" /\ metadata' = metadata
    BY <1>6 DEF AnalyzeFaults
  <2>2. Typed'
    BY <1>1, <2>1 DEF IInv, Typed
  <2>3. SameFunction'
    BY <2>1 DEF SameFunction, Searching, Reading, Tools
  <2>4. WholeRunsNeverFault'
    <3>1. PICK l \in DOMAIN source : Visited(l) /\ ~HasLineBefore(l)
      BY <1>6 DEF AnalyzeFaults, OutOfLines
    <3>2. l \in Candidates
      BY <3>1 DEF Visited
    <3>3. l <= 2
      BY <1>5, <3>1 DEF HasLineBefore
    <3>4. Candidates' = Candidates
      BY <1>1 DEF Candidates
    <3>5. QED
      BY <3>2, <3>3, <3>4 DEF WholeRunsNeverFault
  <2>5. QED
    BY <1>2, <1>3, <1>4, <2>2, <2>3, <2>4 DEF IInv
<1>7. CASE AnalyzeThrows
  <2>1. stage' = "rejected" /\ metadata' = metadata
    BY <1>7 DEF AnalyzeThrows
  <2>2. Typed'
    BY <1>1, <2>1 DEF IInv, Typed
  <2>3. SameFunction' /\ WholeRunsNeverFault'
    BY <2>1 DEF SameFunction, Searching, Reading, Tools, WholeRunsNeverFault
  <2>4. QED
    BY <1>2, <1>3, <1>4, <2>2, <2>3 DEF IInv
<1>8. CASE Analyze
  <2>1. stage' = "xlscc"
    BY <1>8 DEF Analyze
  <2>2. PICK l \in Main : Supported(source[l]) /\ metadata' = Metadata(source[l])
    BY <1>8 DEF Analyze
  <2>3. l \in Candidates /\ l - 2 >= 1 /\ source[(l - 2) + 1].is = "pragma"
    BY <2>2 DEF Main, Visited, Marked, HasLineBefore, PragmaLine
  <2>4. l \in DOMAIN source /\ source[l].is = "function"
    BY <2>3 DEF Candidates
  <2>5. l \in Nat /\ l > 1 /\ (l - 2) + 1 = l - 1
    <3>1. l \in 1..Len(source) /\ l - 2 >= 1
      BY <1>5, <2>3, <2>4
    <3>2. QED
      BY ONLY <1>5, <3>1
  <2>6. l \in Top
    BY <2>3, <2>5 DEF Top
  <2>7. metadata' \in Signatures
    BY <1>5, <2>2, <2>4, MetadataIs
  <2>8. Typed'
    BY <1>1, <2>7 DEF IInv, Typed
  <2>9. SameFunction'
    <3>1. Top' = Top
      BY <1>1 DEF Top, Candidates
    <3>2. QED
      BY <1>1, <2>1, <2>2, <2>6, <3>1 DEF SameFunction, Searching, Reading, Tools
  <2>10. WholeRunsNeverFault'
    BY <2>1 DEF WholeRunsNeverFault
  <2>11. QED
    BY <1>2, <1>3, <1>4, <2>8, <2>9, <2>10 DEF IInv
<1>9. QED
  BY <1>6, <1>7, <1>8

(* A tool that cannot be run ends the translation, nothing being parsed.   *)
LEMMA ToolNotRunKeeps ==
  ASSUME IInv, ToolNotRun
  PROVE  IInv'
<1>1. /\ stage \in Tools /\ stage' = "rejected" /\ source' = source /\ metadata' = metadata
      /\ output' = output /\ written' = written /\ text' = text
      /\ at' = at /\ begin' = begin /\ finish' = finish /\ definition' = definition
  BY DEF ToolNotRun, parsing
<1>2. TypeOK' /\ Typed'
  BY <1>1 DEF IInv, TypeOK, Typed, Tools, Over
<1>3. Unread' /\ Placed'
  BY <1>1 DEF IInv, Unread, Placed, Before, Searching, Reading, Tools
<1>4. SameFunction' /\ WholeRunsNeverFault'
  BY <1>1 DEF SameFunction, Searching, Reading, Tools, WholeRunsNeverFault
<1>5. QED
  BY <1>2, <1>3, <1>4 DEF IInv

(* A tool's output is empty, a part of what it should write, or all of it. *)
LEMMA PassesOn ==
  ASSUME IInv, NEW from, NEW to, Passes(from, to)
  PROVE  /\ stage = from /\ stage' = to /\ output' \in {"all", "part", "nothing"}
         /\ output' # "nothing" => output # "nothing"
BY DEF Passes, IInv, TypeOK

LEMMA TranspileKeeps ==
  ASSUME IInv, TranspileToIr
  PROVE  IInv'
<1>1. /\ stage = "xlscc" /\ stage' = "opt_main" /\ output' \in {"all", "part", "nothing"}
      /\ output' # "nothing" => output # "nothing"
  BY PassesOn DEF TranspileToIr
<1>2. /\ source' = <<>> /\ metadata' = metadata /\ text' = text /\ at' = at /\ begin' = begin
      /\ finish' = finish /\ definition' = definition
  BY DEF TranspileToIr, parsing
<1>3. TypeOK' /\ Unread' /\ Placed' /\ WholeRunsNeverFault'
  BY <1>1, <1>2 DEF IInv, TypeOK, Unread, Placed, WholeRunsNeverFault, Searching, Reading, Tools, Over, Before
<1>4. source \in Seq(Lines) /\ written \in [signature : Signatures, operations : Seq(Statements)]
  BY DEF IInv, Typed
<1>5. <<>> \in Seq(Lines)
  OBVIOUS
<1>6. CASE output' = "nothing" /\ written' = written
  <2>1. Typed'
    BY <1>2, <1>5, <1>6 DEF IInv, Typed
  <2>2. SameFunction'
    BY <1>1, <1>6 DEF SameFunction
  <2>3. QED
    BY <1>3, <2>1, <2>2 DEF IInv
<1>7. CASE \E l \in Top : /\ Top = {l} /\ Supported(source[l])
                          /\ written' = [written EXCEPT !.signature = Metadata(source[l])]
  <2>1. PICK l \in Top : /\ Top = {l} /\ Supported(source[l])
                         /\ written' = [written EXCEPT !.signature = Metadata(source[l])]
    BY <1>7
  <2>2. l \in DOMAIN source /\ source[l].is = "function"
    BY DEF Top, Candidates
  <2>3. source[l] \in Lines
    BY <1>4, <2>2, LenProperties
  <2>4. PICK sig \in Signatures : sig = Metadata(source[l])
    BY <2>1, <2>2, <2>3, MetadataIs
  <2>5. metadata = sig
    BY <1>1, <2>1, <2>4 DEF IInv, SameFunction
  <2>6. written' \in [signature : Signatures, operations : Seq(Statements)] /\ written'.signature = sig
    BY <1>4, <2>1, <2>4
  <2>7. Typed'
    BY <1>2, <1>5, <2>6 DEF IInv, Typed
  <2>8. SameFunction'
    BY <1>1, <1>2, <2>5, <2>6 DEF SameFunction
  <2>9. QED
    BY <1>3, <2>7, <2>8 DEF IInv
<1>8. QED
  BY <1>6, <1>7 DEF TranspileToIr

LEMMA OptimizeKeeps ==
  ASSUME IInv, OptimizeIr
  PROVE  IInv'
<1>1. /\ stage = "opt_main" /\ stage' = "booleanify_main" /\ output' \in {"all", "part", "nothing"}
      /\ output' # "nothing" => output # "nothing"
  BY PassesOn DEF OptimizeIr
<1>2. /\ source' = source /\ metadata' = metadata /\ text' = text /\ at' = at /\ begin' = begin
      /\ finish' = finish /\ definition' = definition /\ written' = written
  BY DEF OptimizeIr, parsing
<1>3. TypeOK' /\ Unread' /\ Placed' /\ WholeRunsNeverFault'
  BY <1>1, <1>2 DEF IInv, TypeOK, Unread, Placed, WholeRunsNeverFault, Searching, Reading, Tools, Over, Before
<1>4. Typed'
  BY <1>2 DEF IInv, Typed
<1>5. SameFunction'
  BY <1>1, <1>2 DEF IInv, SameFunction, Tools
<1>6. QED
  BY <1>3, <1>4, <1>5 DEF IInv

LEMMA BodiesAre ==
  ASSUME NEW body \in BoundedSeq(SampleStatements, MaxStatements), NEW n \in Nat,
         NEW ops, ops = Append(body, Return(n))
  PROVE  ops \in Seq(Statements)
<1>1. PICK m \in 0..MaxStatements : body \in [1..m -> SampleStatements]
  BY DEF BoundedSeq, SeqOf
<1>2. m \in Nat /\ body \in [1..m -> Statements]
  BY <1>1, CompilerAssumption DEF Statements
<1>3. body \in Seq(Statements)
  BY <1>2, FunctionIsSeq
<1>4. Return(n) \in Statements
  BY DEF Statements
<1>5. QED
  BY <1>3, <1>4, AppendIs

(* What the last tool writes has the function, and what a tool that fails  *)
(* half-way writes a part of it.                                           *)
LEMMA WritesFunction ==
  ASSUME IInv, Writes, UNCHANGED metadata
  PROVE  /\ written' \in [signature : Signatures, operations : Seq(Statements)]
         /\ written'.signature = written.signature
         /\ output' # "nothing"
         /\ \E k \in Nat \ {0} : InText(k)'
<1>1. PICK before \in Preambles, after \in Postambles, body \in BoundedSeq(SampleStatements, MaxStatements) :
        LET statements == Append(body, Return(Len(written.signature.output)))
            lines == before \o Function(written.signature, statements) \o after
        IN  /\ written' = [written EXCEPT !.operations = statements]
            /\ \/ output' = "all" /\ text' = lines
               \/ output' = "part" /\ \E n \in 1..Len(lines) - 1 : text' = SubSeq(lines, 1, n)
  BY DEF Writes
<1>2. PICK ops : ops = Append(body, Return(Len(written.signature.output)))
  OBVIOUS
<1>3. PICK sig : sig = written.signature
  OBVIOUS
<1>4. written \in [signature : Signatures, operations : Seq(Statements)]
  BY DEF IInv, Typed
<1>5. sig \in Signatures /\ Len(sig.output) \in Nat
  BY <1>3, <1>4, LenProperties DEF Signatures
<1>6. ops \in Seq(Statements) /\ Len(ops) \in Nat
  <2>1. ops \in Seq(Statements)
    BY <1>2, <1>3, <1>5, BodiesAre
  <2>2. QED
    BY <2>1, LenProperties
<1>7. PICK f : f = Function(sig, ops)
  OBVIOUS
<1>8. PICK lines : lines = before \o f \o after
  OBVIOUS
<1>9. /\ written' = [written EXCEPT !.operations = ops]
      /\ \/ output' = "all" /\ text' = lines
         \/ output' = "part" /\ \E n \in 1..Len(lines) - 1 : text' = SubSeq(lines, 1, n)
  BY <1>1, <1>2, <1>3, <1>7, <1>8
<1>10. /\ written' \in [signature : Signatures, operations : Seq(Statements)]
       /\ written'.signature = sig /\ written'.operations = ops
  BY <1>3, <1>4, <1>6, <1>9
<1>11. PICK k \in Nat \ {0} : FunctionAt(lines, sig, ops, k) /\ k + Len(ops) + 1 <= Len(lines)
  BY <1>5, <1>6, <1>7, <1>8, AmblesAre, FunctionIsWritten, FunctionInPackage
<1>12. InText(k)'
  <2>1. CASE output' = "all" /\ text' = lines
    BY <1>10, <1>11, <2>1 DEF InText, End
  <2>2. CASE output' = "part" /\ \E n \in 1..Len(lines) - 1 : text' = SubSeq(lines, 1, n)
    <3>1. PICK n \in 1..Len(lines) - 1 : text' = SubSeq(lines, 1, n)
      BY <2>2
    <3>2. FunctionAt(text', sig, ops, k)
      BY <1>6, <1>11, <3>1, FunctionInPart
    <3>3. QED
      BY <1>10, <2>2, <3>2 DEF InText
  <2>3. QED
    BY <1>9, <2>1, <2>2
<1>13. QED
  BY <1>3, <1>9, <1>10, <1>12

LEMMA BooleanifyKeeps ==
  ASSUME IInv, BooleanifyIr
  PROVE  IInv'
<1>1. /\ stage = "booleanify_main" /\ stage' = "search start" /\ output' \in {"all", "part", "nothing"}
      /\ output' # "nothing" => output # "nothing"
  BY PassesOn DEF BooleanifyIr
<1>2. /\ source' = source /\ metadata' = metadata /\ at' = at /\ begin' = begin
      /\ finish' = finish /\ definition' = definition
  BY DEF BooleanifyIr, parsing
<1>3. at = 1 /\ begin = 0 /\ finish = 0 /\ definition.operations = <<>>
  BY <1>1 DEF IInv, Unread, Before, Tools
<1>4. /\ written' \in [signature : Signatures, operations : Seq(Statements)]
      /\ written'.signature = written.signature
      /\ \E k \in Nat \ {0} : InText(k)'
  <2>1. CASE WritesNothing
    <3>1. output' = "nothing" /\ text' = <<>> /\ written' = written
      BY <2>1 DEF WritesNothing
    <3>2. FunctionAt(<<>>, written.signature, written.operations, 1)
      <4>1. <<>> \in Seq(Row) /\ Len(<<>>) = 0 /\ 1 \in Nat \ {0}
        OBVIOUS
      <4>2. Len(written.operations) \in Nat
        BY LenProperties DEF IInv, Typed
      <4>3. ~(1 <= 0) /\ (\A j \in 1..Len(written.operations) : ~(1 + j <= 0)) /\ ~(1 + Len(written.operations) + 1 <= 0)
        BY <4>2
      <4>4. QED
        BY <4>1, <4>3 DEF FunctionAt
    <3>3. InText(1)'
      BY <3>1, <3>2 DEF InText
    <3>4. QED
      BY <3>1, <3>3 DEF IInv, Typed
  <2>2. CASE Writes
    BY <1>2, <2>2, WritesFunction
  <2>3. QED
    BY <2>1, <2>2 DEF BooleanifyIr
<1>5. PICK k \in Nat \ {0} : InText(k)'
  BY <1>4
<1>6. text' \in Seq(Row) /\ Len(text)' \in Nat
  BY <1>5, LenProperties DEF InText, FunctionAt
<1>7. TypeOK'
  <2>1. at' \in 1..(Len(text)' + 1) /\ begin' \in 0..(Len(text)') /\ finish' \in 0..(Len(text)') /\ finish' = 0
    BY <1>2, <1>3, <1>6
  <2>2. QED
    BY <1>1, <2>1 DEF TypeOK
<1>8. Typed'
  BY <1>2, <1>4 DEF IInv, Typed
<1>9. Unread' /\ WholeRunsNeverFault'
  BY <1>1 DEF Unread, WholeRunsNeverFault, Before, Tools
<1>10. SameFunction'
  BY <1>1, <1>2, <1>4 DEF IInv, SameFunction, Tools
<1>11. Searched(k)'
  <2>1. at' <= k /\ begin' = 0 /\ finish' = 0 /\ definition'.operations = <<>>
    BY <1>2, <1>3
  <2>2. QED
    BY <1>1, <2>1 DEF Searched
<1>12. Placed'
  BY <1>1, <1>5, <1>11 DEF Placed, Reading
<1>13. QED
  BY <1>7, <1>8, <1>9, <1>10, <1>12 DEF IInv

(* The lines of the text where the function is.                            *)
Numbers(k, n) ==
  /\ k \in Nat \ {0} /\ n \in Nat /\ n = Len(written.operations) /\ End(k) = k + n + 1
  /\ Len(text) \in Nat /\ DOMAIN text = 1..Len(text)
  /\ at \in Nat \ {0}

LEMMA NumbersAre ==
  ASSUME IInv, NEW k \in Nat \ {0}, InText(k)
  PROVE  \E n : Numbers(k, n)
<1>1. text \in Seq(Row) /\ written.operations \in Seq(Statements)
  BY DEF InText, FunctionAt, IInv, Typed
<1>2. Len(text) \in Nat /\ DOMAIN text = 1..Len(text) /\ Len(written.operations) \in Nat
  BY <1>1, LenProperties
<1>3. at \in Nat \ {0}
  <2>1. at \in 1..Len(text) + 1
    BY DEF IInv, TypeOK
  <2>2. QED
    BY ONLY <1>2, <2>1
<1>4. QED
  BY <1>2, <1>3 DEF Numbers, End

(* The header line, if the text reaches it.                                *)
LEMMA HeaderInText ==
  ASSUME IInv, NEW k, InText(k), k <= Len(text)
  PROVE  /\ text[k] = Header(written.signature) /\ text[k] # Blank
         /\ text[k][1].is = "word" /\ text[k][1].of = "top"
<1>1. text[k] = Header(written.signature)
  BY DEF InText, FunctionAt
<1>2. HeaderLineAt(text[k], written.signature)
  BY <1>1, HeaderLineIs DEF IInv, Typed
<1>3. Word("top").is = "word" /\ Word("top").of = "top"
  BY DEF Word
<1>4. QED
  BY <1>1, <1>2, <1>3 DEF HeaderLineAt, Blank

(* A statement's line. *)
LEMMA StatementInText ==
  ASSUME IInv, NEW k, InText(k), NEW j \in 1..Len(written.operations), k + j <= Len(text)
  PROVE  /\ text[k + j] # Blank /\ text[k + j][1].is = "word"
         /\ ParseStatement(text[k + j]) = written.operations[j]
<1>1. text[k + j] = Written(written.operations[j])
  BY DEF InText, FunctionAt
<1>2. written.operations[j] \in Statements
  <2>1. written.operations \in Seq(Statements)
    BY DEF IInv, Typed
  <2>2. QED
    BY <2>1, LenProperties
<1>3. PICK st \in Statements : st = written.operations[j]
  BY <1>2
<1>4. StatementAt(text[k + j], st)
  BY <1>1, <1>3, StatementsAre
<1>5. Word(FirstWord(st)).is = "word"
  BY DEF Word
<1>6. QED
  BY <1>3, <1>4, <1>5 DEF StatementAt, Blank

(* Of the function's lines, the last one only is its end.                  *)
LEMMA EndsAtEnd ==
  ASSUME IInv, NEW k, NEW n, Numbers(k, n), InText(k), NEW l \in k..End(k), l <= Len(text)
  PROVE  EndsFunction(l) <=> l = End(k)
<1>1. /\ k \in Nat /\ n \in Nat /\ n = Len(written.operations) /\ End(k) = k + n + 1
      /\ Len(text) \in Nat
  BY DEF Numbers
<1>2. l = k \/ l = k + n + 1 \/ (l - k \in 1..n /\ l = k + (l - k))
  BY ONLY <1>1, l \in k..End(k)
<1>3. CASE l = k
  <2>1. text[l] # Blank /\ text[l][1].is = "word"
    BY <1>3, HeaderInText
  <2>2. l # End(k)
    BY ONLY <1>1, <1>3
  <2>3. QED
    BY <2>1, <2>2 DEF EndsFunction
<1>4. CASE l = k + n + 1
  <2>1. l = End(k)
    BY <1>1, <1>4
  <2>2. text[l] = Closing
    BY <1>1, <1>4 DEF InText, FunctionAt
  <2>3. QED
    BY <2>1, <2>2, ClosingIs DEF EndsFunction
<1>5. CASE l - k \in 1..n /\ l = k + (l - k)
  <2>1. PICK j \in 1..n : l = k + j
    BY <1>5
  <2>2. text[k + j][1].is = "word"
    BY <1>1, <2>1, StatementInText
  <2>3. l # End(k)
    BY ONLY <1>1, <2>1
  <2>4. QED
    BY <2>1, <2>2, <2>3 DEF EndsFunction
<1>6. QED
  BY <1>2, <1>3, <1>4, <1>5

(* Of the lines up to the function's, the last or the blank before it only *)
(* is where it starts.                                                     *)
LEMMA StartsAtStart ==
  ASSUME IInv, NEW k, NEW n, Numbers(k, n), InText(k), NEW l \in DOMAIN text, l <= k
  PROVE  /\ StartsFunction(l) => Trimmed(l) = k /\ k <= Len(text) /\ k <= l + 1
         /\ l = k => StartsFunction(l)
<1>1. k \in Nat /\ Len(text) \in Nat /\ DOMAIN text = 1..Len(text)
  BY DEF Numbers
<1>2. l \in Nat /\ l \in 1..Len(text)
  BY <1>1
<1>3. ASSUME l = k PROVE Trimmed(l) = l /\ StartsFunction(l)
  <2>1. k <= Len(text)
    BY ONLY <1>1, <1>2, <1>3
  <2>2. text[k] # Blank /\ text[k][1].is = "word" /\ text[k][1].of = "top"
    BY <2>1, HeaderInText
  <2>3. Trimmed(l) = l
    BY <1>3, <2>2 DEF Trimmed
  <2>4. QED
    BY <1>3, <2>2, <2>3 DEF StartsFunction
<1>4. ASSUME StartsFunction(l) PROVE Trimmed(l) = k /\ k <= Len(text) /\ k <= l + 1
  <2>1. PICK t : t = Trimmed(l)
    OBVIOUS
  <2>2. t \in 1..Len(text) /\ text[t] # Blank /\ text[t][1].is = "word" /\ text[t][1].of = "top"
    BY <1>1, <1>4, <2>1 DEF StartsFunction
  <2>3. ~NotTop(text[t])
    BY <2>2 DEF NotTop
  <2>4. ~(t < k)
    BY <2>2, <2>3 DEF InText, FunctionAt
  <2>5. t = l \/ (t = l + 1 /\ l # k)
    BY <1>3, <2>1 DEF Trimmed
  <2>6. t \in 1..Len(text)
    BY <2>2
  <2>7. t = k /\ k <= Len(text) /\ k <= l + 1
    BY ONLY <1>1, <1>2, <2>4, <2>5, <2>6, l <= k
  <2>8. QED
    BY <2>1, <2>7
<1>5. QED
  BY <1>3, <1>4

LEMMA SearchStartKeeps ==
  ASSUME IInv, SearchStart
  PROVE  IInv'
<1>1. /\ stage = "search start" /\ at \in DOMAIN text /\ at' = at + 1
      /\ source' = source /\ metadata' = metadata /\ output' = output /\ written' = written
      /\ text' = text /\ finish' = finish /\ definition' = definition
  BY DEF SearchStart, NextLine
<1>2. PICK k \in Nat \ {0} : InText(k) /\ Searched(k)
  BY <1>1 DEF IInv, Placed, Searching
<1>3. PICK n : Numbers(k, n)
  BY <1>2, NumbersAre
<1>4. /\ k \in Nat \ {0} /\ n \in Nat /\ End(k) = k + n + 1 /\ Len(text) \in Nat /\ at \in 1..Len(text)
  BY <1>1, <1>3 DEF Numbers
<1>5. finish = 0 /\ definition.operations = <<>> /\ begin = 0
  BY <1>1, <1>2 DEF Searched
<1>b. at <= k
  BY <1>1, <1>2 DEF Searched
<1>0. at' = at + 1
  BY <1>1
<1>6. at' \in 1..(Len(text) + 1)
  BY ONLY <1>0, <1>4
<1>7. Typed'
  BY <1>1 DEF IInv, Typed
<1>8. InText(k)'
  BY <1>1, <1>2 DEF InText, End
<1>9. End(k)' = End(k)
  BY <1>1 DEF End
<1>10. CASE StartsFunction(at) /\ begin' = Trimmed(at) /\ stage' = "search end"
  <2>1. begin' = k /\ k <= Len(text) /\ k <= at + 1
    BY <1>1, <1>2, <1>3, <1>b, <1>10, StartsAtStart
  <2>2. begin' \in 0..Len(text) /\ at' \in k..End(k)
    BY ONLY <1>0, <1>4, <1>b, <2>1
  <2>3. TypeOK'
    <3>0. finish' = 0
      BY <1>1, <1>5
    <3>1. finish' \in 0..Len(text) /\ finish' = 0
      BY ONLY <1>4, <3>0
    <3>2. QED
      BY <1>1, <1>6, <1>10, <2>2, <3>1 DEF IInv, TypeOK
  <2>4. Searched(k)'
    BY <1>1, <1>5, <1>9, <1>10, <2>1, <2>2 DEF Searched
  <2>5. Placed'
    BY <1>8, <1>10, <2>4 DEF Placed, Reading
  <2>6. Unread' /\ SameFunction' /\ WholeRunsNeverFault'
    BY <1>1, <1>10 DEF IInv, Unread, SameFunction, WholeRunsNeverFault, Before, Tools, Searching
  <2>7. QED
    BY <1>7, <2>3, <2>5, <2>6 DEF IInv
<1>11. CASE ~StartsFunction(at) /\ begin' = begin /\ stage' = stage
  <2>1. at # k
    BY <1>1, <1>2, <1>3, <1>b, <1>11, StartsAtStart
  <2>2. at' <= k
    BY ONLY <1>0, <1>4, <1>b, <2>1
  <2>3. TypeOK'
    BY <1>1, <1>6, <1>11 DEF IInv, TypeOK
  <2>4. Searched(k)'
    BY <1>1, <1>5, <1>11, <2>2 DEF Searched
  <2>5. Placed'
    BY <1>1, <1>8, <1>11, <2>4 DEF Placed, Reading
  <2>6. Unread' /\ SameFunction' /\ WholeRunsNeverFault'
    BY <1>1, <1>11 DEF IInv, Unread, SameFunction, WholeRunsNeverFault, Before, Tools, Searching
  <2>7. QED
    BY <1>7, <2>3, <2>5, <2>6 DEF IInv
<1>12. QED
  BY <1>10, <1>11 DEF SearchStart

LEMMA SearchEndKeeps ==
  ASSUME IInv, SearchEnd
  PROVE  IInv'
<1>1. /\ stage = "search end" /\ at \in DOMAIN text
      /\ source' = source /\ metadata' = metadata /\ output' = output /\ written' = written
      /\ text' = text /\ begin' = begin /\ definition' = definition
  BY DEF SearchEnd
<1>2. PICK k \in Nat \ {0} : InText(k) /\ Searched(k)
  BY <1>1 DEF IInv, Placed, Searching
<1>3. PICK n : Numbers(k, n)
  BY <1>2, NumbersAre
<1>4. /\ k \in Nat \ {0} /\ n \in Nat /\ End(k) = k + n + 1 /\ Len(text) \in Nat /\ at \in 1..Len(text)
  BY <1>1, <1>3 DEF Numbers
<1>5. finish = 0 /\ definition.operations = <<>> /\ begin = k /\ k <= Len(text) /\ at \in k..End(k)
  BY <1>1, <1>2 DEF Searched
<1>b. k <= Len(text) /\ at \in k..End(k)
  BY <1>5
<1>6. EndsFunction(at) <=> at = End(k)
  BY <1>2, <1>3, <1>4, <1>5, EndsAtEnd
<1>7. Typed'
  BY <1>1 DEF IInv, Typed
<1>8. InText(k)'
  BY <1>1, <1>2 DEF InText, End
<1>9. End(k)' = End(k)
  BY <1>1 DEF End
<1>10. CASE EndsFunction(at) /\ finish' = at /\ stage' = "header" /\ at' = begin
  <2>0. begin' = k /\ at' = k /\ finish' = End(k) /\ finish' = at
    BY <1>1, <1>5, <1>6, <1>10
  <2>1. begin' = k /\ at' = k /\ finish' = End(k) /\ finish' <= Len(text)
    BY ONLY <1>4, <2>0
  <2>2. /\ at' \in 1..(Len(text) + 1) /\ begin' \in 0..finish' /\ begin' \in 0..Len(text)
        /\ finish' \in 0..Len(text) /\ begin' <= finish' /\ at' >= begin'
    BY ONLY <1>4, <1>b, <2>1
  <2>3. TypeOK'
    BY <1>1, <1>10, <2>2 DEF IInv, TypeOK
  <2>4. Read(k)'
    BY <1>1, <1>5, <1>9, <1>10, <2>1 DEF Read
  <2>5. Placed'
    BY <1>8, <1>10, <2>4 DEF Placed, Searching
  <2>6. Unread' /\ SameFunction' /\ WholeRunsNeverFault'
    BY <1>1, <1>10 DEF IInv, Unread, SameFunction, WholeRunsNeverFault, Before, Tools, Searching
  <2>7. QED
    BY <1>7, <2>3, <2>5, <2>6 DEF IInv
<1>11. CASE ~EndsFunction(at) /\ at' = NextLine(at) /\ finish' = finish /\ stage' = stage
  <2>0. at' = at + 1
    BY <1>11 DEF NextLine
  <2>1. at # End(k)
    BY <1>6, <1>11
  <2>2. at' \in k..End(k) /\ at' \in 1..(Len(text) + 1)
    BY ONLY <1>4, <1>b, <2>0, <2>1
  <2>3. TypeOK'
    BY <1>1, <1>11, <2>2 DEF IInv, TypeOK
  <2>4. Searched(k)'
    BY <1>1, <1>5, <1>9, <1>11, <2>2 DEF Searched
  <2>5. Placed'
    BY <1>1, <1>8, <1>11, <2>4 DEF Placed, Reading
  <2>6. Unread' /\ SameFunction' /\ WholeRunsNeverFault'
    BY <1>1, <1>11 DEF IInv, Unread, SameFunction, WholeRunsNeverFault, Before, Tools, Searching
  <2>7. QED
    BY <1>7, <2>3, <2>5, <2>6 DEF IInv
<1>12. QED
  BY <1>10, <1>11 DEF SearchEnd

LEMMA SearchFailsKeeps ==
  ASSUME IInv, SearchFails
  PROVE  IInv'
<1>1. /\ stage \in {"search start", "search end"} /\ at > Len(text) /\ stage' = "faulted"
      /\ source' = source /\ metadata' = metadata /\ output' = output /\ written' = written
      /\ text' = text /\ at' = at /\ begin' = begin /\ finish' = finish /\ definition' = definition
  BY DEF SearchFails, parsing
<1>2. PICK k \in Nat \ {0} : InText(k) /\ Searched(k)
  BY <1>1 DEF IInv, Placed, Searching
<1>3. PICK n : Numbers(k, n)
  BY <1>2, NumbersAre
<1>4. /\ k \in Nat \ {0} /\ n \in Nat /\ End(k) = k + n + 1 /\ Len(text) \in Nat /\ at \in Nat
  BY <1>1, <1>3 DEF Numbers
<1>5. at <= End(k)
  <2>1. at <= k \/ at \in k..End(k)
    BY <1>1, <1>2 DEF Searched
  <2>2. QED
    BY ONLY <1>4, <2>1
<1>6. output # "all"
  <2>1. ~(End(k) <= Len(text))
    <3>1. at > Len(text)
      BY <1>1
    <3>2. QED
      BY ONLY <1>4, <1>5, <3>1
  <2>2. QED
    BY <1>2, <2>1 DEF InText
<1>7. TypeOK' /\ Typed'
  BY <1>1 DEF IInv, TypeOK, Typed, Over
<1>8. Unread' /\ SameFunction' /\ Placed' /\ WholeRunsNeverFault'
  BY <1>1, <1>6 DEF Unread, SameFunction, Placed, WholeRunsNeverFault, Before, Tools, Searching, Reading
<1>9. QED
  BY <1>7, <1>8 DEF IInv

LEMMA ParseHeaderKeeps ==
  ASSUME IInv, ParseHeaderLine
  PROVE  IInv'
<1>1. /\ stage = "header" /\ stage' = "instructions"
      /\ source' = source /\ metadata' = metadata /\ output' = output /\ written' = written
      /\ text' = text /\ begin' = begin /\ finish' = finish
      /\ definition' = [definition EXCEPT !.header = ParseHeader(text[at])]
  BY DEF ParseHeaderLine
<1>2. at' = at + 1
  BY DEF ParseHeaderLine, NextLine
<1>3. PICK k \in Nat \ {0} : InText(k) /\ Read(k)
  BY <1>1 DEF IInv, Placed, Reading
<1>4. PICK n : Numbers(k, n)
  BY <1>3, NumbersAre
<1>5. k \in Nat \ {0} /\ n \in Nat /\ End(k) = k + n + 1 /\ Len(text) \in Nat
  BY <1>4 DEF Numbers
<1>6. begin = k /\ finish = End(k) /\ finish <= Len(text) /\ at = k
  BY <1>1, <1>3 DEF Read
<1>7. definition.operations = <<>>
  BY <1>1, <1>3 DEF Read
<1>8. k <= Len(text) /\ at' \in (k + 1)..End(k) /\ at' \in 1..(Len(text) + 1) /\ begin <= finish /\ at' >= begin /\ at' - k - 1 = 0
  BY ONLY <1>2, <1>5, <1>6
<1>9. text[at] = Header(written.signature)
  BY <1>3, <1>6, <1>8, HeaderInText
<1>10. /\ definition' = [header |-> definition'.header, operations |-> definition'.operations]
       /\ definition'.header = ParseHeader(Header(written.signature))
       /\ definition'.operations = definition.operations
  BY <1>1, <1>9 DEF IInv, Typed
<1>11. TypeOK'
  BY <1>1, <1>8 DEF IInv, TypeOK
<1>12. Typed'
  BY <1>1, <1>10 DEF IInv, Typed
<1>13. InText(k)' /\ End(k)' = End(k)
  BY <1>1, <1>3 DEF InText, End
<1>14. Read(k)'
  <2>1. Len(<<>>) = 0 /\ \A j \in 1..0 : FALSE
    OBVIOUS
  <2>2. Len(definition'.operations) = at' - k - 1
    BY <1>7, <1>8, <1>10, <2>1
  <2>3. \A j \in 1..(at' - k - 1) : definition'.operations[j] = written'.operations[j]
    BY <1>8, <2>1
  <2>4. stage' # "header" /\ stage' \notin {"end", "parsed"}
    BY <1>1
  <2>5. begin' = k /\ finish' = End(k)' /\ finish' <= Len(text') /\ at' \in (k + 1)..(End(k)')
    BY <1>1, <1>6, <1>8, <1>13
  <2>6. definition'.header = ParseHeader(Header(written'.signature))
    BY <1>1, <1>10
  <2>7. QED
    BY <2>2, <2>3, <2>4, <2>5, <2>6 DEF Read
<1>15. Placed'
  BY <1>1, <1>13, <1>14 DEF Placed, Searching
<1>16. Unread' /\ SameFunction' /\ WholeRunsNeverFault'
  BY <1>1 DEF IInv, Unread, SameFunction, WholeRunsNeverFault, Before, Tools, Reading
<1>17. QED
  BY <1>11, <1>12, <1>15, <1>16 DEF IInv

(* In the middle of the function, before the line that ends it.            *)
LEMMA ParseStatementKeeps ==
  ASSUME IInv, ParseStatementLine
  PROVE  IInv'
<1>1. /\ stage = "instructions" /\ ~EndsFunction(at)
      /\ source' = source /\ metadata' = metadata /\ output' = output /\ written' = written
      /\ text' = text /\ begin' = begin /\ finish' = finish
  BY DEF ParseStatementLine
<1>2. PICK k \in Nat \ {0} : InText(k) /\ Read(k)
  BY <1>1 DEF IInv, Placed, Reading
<1>3. PICK n : Numbers(k, n)
  BY <1>2, NumbersAre
<1>4. /\ k \in Nat \ {0} /\ n \in Nat /\ n = Len(written.operations) /\ End(k) = k + n + 1
      /\ Len(text) \in Nat
  BY <1>3 DEF Numbers
<1>5. begin = k /\ finish = End(k) /\ finish <= Len(text) /\ at \in (k + 1)..End(k)
  BY <1>1, <1>2 DEF Read
<1>6. PICK ops : ops = definition.operations
  OBVIOUS
<1>7. /\ definition.header = ParseHeader(Header(written.signature))
      /\ Len(ops) = at - k - 1 /\ \A j \in 1..(at - k - 1) : ops[j] = written.operations[j]
      /\ ops \in Seq(Statements)
      /\ definition = [header |-> definition.header, operations |-> ops]
  BY <1>1, <1>2, <1>6 DEF Read, IInv, Typed
<1>8. InText(k)' /\ End(k)' = End(k)
  BY <1>1, <1>2 DEF InText, End
<1>9. CASE /\ definition' = [definition EXCEPT !.operations = Append(@, ParseStatement(text[at]))]
           /\ at' = NextLine(at) /\ stage' = stage
  <2>1. at # End(k)
    <3>1. at \in k..End(k) /\ at <= Len(text)
      BY ONLY <1>4, <1>5
    <3>2. EndsFunction(at) <=> at = End(k)
      BY <1>2, <1>3, <3>1, EndsAtEnd
    <3>3. QED
      BY <1>1, <3>2
  <2>2. at' = at + 1
    BY <1>9 DEF NextLine
  <2>3. PICK m : m = at - k
    OBVIOUS
  <2>4. /\ m \in 1..n /\ at = k + m /\ k + m <= Len(text) /\ at - k - 1 = m - 1 /\ at' - k - 1 = m
        /\ at' \in (k + 1)..End(k) /\ at' \in 1..(Len(text) + 1) /\ begin <= finish /\ at' >= begin
    BY ONLY <1>4, <1>5, <2>1, <2>2, <2>3
  <2>5. PICK st : st = written.operations[m]
    OBVIOUS
  <2>6. ParseStatement(text[at]) = st
    BY <1>2, <1>4, <2>4, <2>5, StatementInText
  <2>7. st \in Statements
    <3>1. written.operations \in Seq(Statements)
      BY DEF IInv, Typed
    <3>2. QED
      BY <1>4, <2>4, <2>5, <3>1, LenProperties
  <2>8. definition' = [definition EXCEPT !.operations = Append(ops, st)]
    BY <1>6, <1>9, <2>6
  <2>9. /\ definition' = [header |-> definition.header, operations |-> Append(ops, st)]
    BY <1>7, <2>8
  <2>10. /\ Append(ops, st) \in Seq(Statements) /\ Len(ops) \in Nat /\ Len(Append(ops, st)) = Len(ops) + 1
         /\ Append(ops, st)[Len(ops) + 1] = st
         /\ \A i \in 1..Len(ops) : Append(ops, st)[i] = ops[i]
    BY <1>7, <2>7, AppendIs
  <2>11. PICK new : new = Append(ops, st)
    OBVIOUS
  <2>12. Len(ops) = m - 1 /\ Len(new) = m /\ new[m] = st /\ \A i \in 1..(m - 1) : new[i] = ops[i]
    <3>1. Len(ops) = m - 1 /\ Len(ops) + 1 = m
      BY <1>7, <2>4
    <3>2. QED
      BY <2>10, <2>11, <3>1
  <2>13. \A j \in 1..m : new[j] = written.operations[j]
    <3>1. ASSUME NEW j \in 1..m PROVE new[j] = written.operations[j]
      <4>1. j \in 1..(m - 1) \/ j = m
        BY ONLY <2>4, <3>1
      <4>2. CASE j \in 1..(m - 1)
        BY <1>7, <2>4, <2>12, <4>2
      <4>3. CASE j = m
        BY <2>5, <2>12, <4>3
      <4>4. QED
        BY <4>1, <4>2, <4>3
    <3>2. QED
      BY <3>1
  <2>14. /\ definition' = [header |-> definition'.header, operations |-> definition'.operations]
         /\ definition'.header = definition.header /\ definition'.operations = new
    BY <2>9, <2>11
  <2>15. TypeOK'
    BY <1>1, <1>9, <2>4 DEF IInv, TypeOK
  <2>16. Typed'
    BY <1>1, <2>10, <2>11, <2>14 DEF IInv, Typed
  <2>17. Read(k)'
    <3>1. /\ Len(definition'.operations) = at' - k - 1
          /\ \A j \in 1..(at' - k - 1) : definition'.operations[j] = written'.operations[j]
      BY <1>1, <2>4, <2>12, <2>13, <2>14
    <3>2. stage' # "header" /\ stage' \notin {"end", "parsed"}
      BY <1>1, <1>9
    <3>3. begin' = k /\ finish' = End(k)' /\ finish' <= Len(text') /\ at' \in (k + 1)..(End(k)')
      BY <1>1, <1>5, <1>8, <2>4
    <3>4. definition'.header = ParseHeader(Header(written'.signature))
      BY <1>1, <1>7, <2>14
    <3>5. QED
      BY <3>1, <3>2, <3>3, <3>4 DEF Read
  <2>18. Placed'
    BY <1>1, <1>8, <1>9, <2>17 DEF Placed, Searching
  <2>19. Unread' /\ SameFunction' /\ WholeRunsNeverFault'
    BY <1>1, <1>9 DEF IInv, Unread, SameFunction, WholeRunsNeverFault, Before, Tools, Reading
  <2>20. QED
    BY <2>15, <2>16, <2>18, <2>19 DEF IInv
<1>10. CASE stage' = "rejected" /\ at' = at /\ definition' = definition
  <2>1. TypeOK' /\ Typed'
    BY <1>1, <1>10 DEF IInv, TypeOK, Typed, Over
  <2>2. Unread' /\ SameFunction' /\ Placed' /\ WholeRunsNeverFault'
    BY <1>10 DEF Unread, SameFunction, Placed, WholeRunsNeverFault, Before, Tools, Searching, Reading
  <2>3. QED
    BY <2>1, <2>2 DEF IInv
<1>11. QED
  BY <1>9, <1>10 DEF ParseStatementLine

LEMMA ParseEndKeeps ==
  ASSUME IInv, ParseEndLine
  PROVE  IInv'
<1>1. /\ stage = "instructions" /\ stage' = "end" /\ EndsFunction(at)
      /\ source' = source /\ metadata' = metadata /\ output' = output /\ written' = written
      /\ text' = text /\ begin' = begin /\ finish' = finish /\ definition' = definition
  BY DEF ParseEndLine
<1>2. at' = at + 1
  BY DEF ParseEndLine, NextLine
<1>3. PICK k \in Nat \ {0} : InText(k) /\ Read(k)
  BY <1>1 DEF IInv, Placed, Reading
<1>4. PICK n : Numbers(k, n)
  BY <1>3, NumbersAre
<1>5. /\ k \in Nat \ {0} /\ n \in Nat /\ n = Len(written.operations) /\ End(k) = k + n + 1
      /\ Len(text) \in Nat
  BY <1>4 DEF Numbers
<1>6. begin = k /\ finish = End(k) /\ finish <= Len(text) /\ at \in (k + 1)..End(k)
  BY <1>1, <1>3 DEF Read
<1>7. at = End(k)
  <2>1. at \in k..End(k) /\ at <= Len(text)
    BY ONLY <1>5, <1>6
  <2>2. QED
    BY <1>1, <1>3, <1>4, <2>1, EndsAtEnd
<1>8. /\ at - k - 1 = n /\ at' \in 1..(Len(text) + 1) /\ at' = End(k) + 1
      /\ begin <= finish /\ at' >= begin
  BY ONLY <1>2, <1>5, <1>6, <1>7
<1>9. definition.operations = written.operations
  <2>1. PICK ops \in Seq(Statements) : ops = definition.operations
    BY DEF IInv, Typed
  <2>2. PICK all \in Seq(Statements) : all = written.operations
    BY DEF IInv, Typed
  <2>3. Len(ops) = at - k - 1 /\ \A j \in 1..(at - k - 1) : ops[j] = all[j]
    BY <1>1, <1>3, <2>1, <2>2 DEF Read
  <2>4. Len(ops) = Len(all) /\ \A j \in 1..Len(ops) : ops[j] = all[j]
    BY <1>5, <1>8, <2>2, <2>3
  <2>5. ops = all
    BY <2>4, SameSeq
  <2>6. QED
    BY <2>1, <2>2, <2>5
<1>10. TypeOK' /\ Typed'
  BY <1>1, <1>8 DEF IInv, TypeOK, Typed
<1>11. InText(k)' /\ End(k)' = End(k)
  BY <1>1, <1>3 DEF InText, End
<1>12. Read(k)'
  <2>1. definition.header = ParseHeader(Header(written.signature))
    BY <1>1, <1>3 DEF Read
  <2>2. QED
    BY <1>1, <1>6, <1>8, <1>9, <1>11, <2>1 DEF Read
<1>13. Placed'
  BY <1>1, <1>11, <1>12 DEF Placed, Searching
<1>14. Unread' /\ SameFunction' /\ WholeRunsNeverFault'
  BY <1>1 DEF IInv, Unread, SameFunction, WholeRunsNeverFault, Before, Tools, Reading
<1>15. QED
  BY <1>10, <1>13, <1>14 DEF IInv

(* The loop is left behind the line that ends the function, not before it. *)
LEMMA ParseEndsKeeps ==
  ASSUME IInv, ParseEnds
  PROVE  IInv'
<1>1. /\ stage \in {"instructions", "end"} /\ stage' = "parsed" /\ at > finish
      /\ source' = source /\ metadata' = metadata /\ output' = output /\ written' = written
      /\ text' = text /\ at' = at /\ begin' = begin /\ finish' = finish /\ definition' = definition
  BY DEF ParseEnds, parsing
<1>2. PICK k \in Nat \ {0} : InText(k) /\ Read(k)
  BY <1>1 DEF IInv, Placed, Reading
<1>3. PICK n : Numbers(k, n)
  BY <1>2, NumbersAre
<1>4. stage = "end"
  <2>1. SUFFICES ASSUME stage = "instructions" PROVE FALSE
    BY <1>1
  <2>2. finish = End(k) /\ at \in (k + 1)..End(k)
    BY <1>2, <2>1 DEF Read
  <2>3. at > finish /\ k \in Nat /\ n \in Nat /\ End(k) = k + n + 1
    BY <1>1, <1>3 DEF Numbers
  <2>4. QED
    BY ONLY <2>2, <2>3
<1>5. TypeOK' /\ Typed'
  BY <1>1, <1>4 DEF IInv, TypeOK, Typed, Over
<1>6. InText(k)' /\ End(k)' = End(k)
  BY <1>1, <1>2 DEF InText, End
<1>7. Read(k)'
  BY <1>1, <1>2, <1>4, <1>6 DEF Read
<1>8. Placed'
  BY <1>1, <1>6, <1>7 DEF Placed, Searching
<1>9. Unread' /\ SameFunction' /\ WholeRunsNeverFault'
  BY <1>1, <1>4 DEF IInv, Unread, SameFunction, WholeRunsNeverFault, Before, Tools, Reading
<1>10. QED
  BY <1>5, <1>8, <1>9 DEF IInv

--------------------------------------------------------------------------------
(* The theorems *)

(* The invariant holds in every state of every translation.                *)
LEMMA Invariance == Spec => []IInv
<1>1. Init => IInv
  BY InitHolds
<1>2. ASSUME IInv, [Next]_vars PROVE IInv'
  <2>1. CASE UNCHANGED vars
    BY <1>2, <2>1, StutterKeeps
  <2>2. CASE Analyze \/ AnalyzeThrows \/ AnalyzeFaults
    BY <1>2, <2>2, AnalyzeKeeps
  <2>3. CASE TranspileToIr
    BY <1>2, <2>3, TranspileKeeps
  <2>4. CASE OptimizeIr
    BY <1>2, <2>4, OptimizeKeeps
  <2>5. CASE BooleanifyIr
    BY <1>2, <2>5, BooleanifyKeeps
  <2>6. CASE SearchStart
    BY <1>2, <2>6, SearchStartKeeps
  <2>7. CASE SearchEnd
    BY <1>2, <2>7, SearchEndKeeps
  <2>8. CASE SearchFails
    BY <1>2, <2>8, SearchFailsKeeps
  <2>9. CASE ParseHeaderLine
    BY <1>2, <2>9, ParseHeaderKeeps
  <2>10. CASE ParseStatementLine
    BY <1>2, <2>10, ParseStatementKeeps
  <2>11. CASE ParseEndLine
    BY <1>2, <2>11, ParseEndKeeps
  <2>12. CASE ParseEnds
    BY <1>2, <2>12, ParseEndsKeeps
  <2>13. CASE Translated
    BY <1>2, <2>13, StutterKeeps DEF Translated
  <2>14. CASE ToolNotRun
    BY <1>2, <2>14, ToolNotRunKeeps
  <2>15. QED
    BY <1>2, <2>1, <2>2, <2>3, <2>4, <2>5, <2>6, <2>7, <2>8, <2>9, <2>10, <2>11, <2>12, <2>13, <2>14
       DEF Next
<1>3. QED
  BY <1>1, <1>2, PTL DEF Spec

(* The current line, the function's first and its last stay inside of the  *)
(* text and in this order.                                                 *)
THEOREM TypeCorrect == Spec => []TypeOK
<1>1. IInv => TypeOK
  BY DEF IInv
<1>2. QED
  BY <1>1, Invariance, PTL

(* The parser's assertion holds of what the tools wrote to its end, and    *)
(* the analyzer's fails only when a function stands on the first two lines.*)
THEOREM WholeRunsAreSafe == Spec => []WholeRunsNeverFault
<1>1. IInv => WholeRunsNeverFault
  BY DEF IInv
<1>2. QED
  BY <1>1, Invariance, PTL

(* What is parsed is the function the tools wrote: its header to the end   *)
(* and each of its statements, with its operands and its id, in order.     *)
THEOREM ParsedAsWritten == Spec => []ParsedIsWritten
<1>1. ASSUME IInv PROVE ParsedIsWritten
  <2>1. SUFFICES ASSUME stage = "parsed"
                 PROVE  /\ definition.header.state = "completed"
                        /\ definition.operations = written.operations
    BY DEF ParsedIsWritten
  <2>2. PICK k \in Nat \ {0} : InText(k) /\ Read(k)
    BY <1>1, <2>1 DEF IInv, Placed, Reading
  <2>3. /\ definition.header = ParseHeader(Header(written.signature))
        /\ definition.operations = written.operations
    BY <2>1, <2>2 DEF Read
  <2>4. written.signature \in Signatures
    BY <1>1 DEF IInv, Typed
  <2>5. QED
    BY <2>3, <2>4, HeaderLineIs DEF HeaderLineAt
<1>2. QED
  BY <1>1, Invariance, PTL

(* The header that is read is the one of the function whose metadata the   *)
(* analyzer took from the source.                                          *)
THEOREM HeaderMatchesMetadata == Spec => []MetadataMatchesHeader
<1>1. ASSUME IInv PROVE MetadataMatchesHeader
  <2>1. SUFFICES ASSUME stage = "parsed"
                 PROVE  /\ definition.header.inputs = InTuples(metadata).inputs
                        /\ definition.header.output = InTuples(metadata).output
    BY DEF MetadataMatchesHeader
  <2>2. PICK k \in Nat \ {0} : InText(k) /\ Read(k)
    BY <1>1, <2>1 DEF IInv, Placed, Reading
  <2>3. definition.header = ParseHeader(Header(written.signature))
    BY <2>1, <2>2 DEF Read
  <2>4. output # "nothing"
    <3>1. SUFFICES ASSUME output = "nothing" PROVE FALSE
      OBVIOUS
    <3>2. Len(text) = 0
      BY <2>2, <3>1 DEF InText
    <3>3. PICK n : Numbers(k, n)
      BY <1>1, <2>2, NumbersAre
    <3>4. finish <= 0 /\ finish = End(k)
      BY <2>2, <3>2 DEF Read
    <3>5. k \in Nat \ {0} /\ n \in Nat /\ End(k) = k + n + 1
      BY <3>3 DEF Numbers
    <3>6. QED
      BY ONLY <3>4, <3>5
  <2>5. written.signature = metadata /\ metadata \in Signatures
    BY <1>1, <2>1, <2>4 DEF IInv, SameFunction, Typed, Reading
  <2>6. QED
    BY <2>3, <2>5, HeaderLineIs DEF HeaderLineAt
<1>2. QED
  BY <1>1, Invariance, PTL
================================================================================
