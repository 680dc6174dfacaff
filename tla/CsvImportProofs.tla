----------------------------- MODULE CsvImportProofs ---------------------------
(***************************************************************************)
(* Proofs about the imports, for every text of every table with every list *)
(* of columns: where lines begin and end in a text, what a line's values   *)
(* are, and how the reads of one import follow the lines.                  *)
(***************************************************************************)
EXTENDS CsvImport, DataLemmas, FiniteSetTheorems

--------------------------------------------------------------------------------
(* Leaving elements out *)

Kept(x, e) == Only(x, x # e)

(* f[i] is what is left of the first i elements of s. *)
Leaves(f, S, s, e) ==
  /\ f \in [0..Len(s) -> Seq(S)] /\ f[0] = <<>>
  /\ \A i \in 1..Len(s) : f[i] = f[i - 1] \o Kept(s[i], e)

LEMMA OnlyIs ==
  ASSUME NEW S, NEW x, NEW here \in BOOLEAN, here => x \in S
  PROVE  /\ Only(x, here) \in Seq(S) /\ Len(Only(x, here)) = IF here THEN 1 ELSE 0
         /\ here => Only(x, here) = <<x>> /\ Only(x, here)[1] = x
         /\ ~here => Only(x, here) = <<>>
<1>1. CASE here
  <2>1. x \in S /\ Only(x, here) = <<x>>
    BY <1>1 DEF Only
  <2>2. <<x>> \in Seq(S) /\ Len(<<x>>) = 1 /\ <<x>>[1] = x
    BY <2>1
  <2>3. QED
    BY <1>1, <2>1, <2>2
<1>2. CASE ~here
  <2>1. Only(x, here) = <<>>
    BY <1>2 DEF Only
  <2>2. QED
    BY <1>2, <2>1, EmptySeq
<1>3. QED
  BY <1>1, <1>2

LEMMA KeptIs ==
  ASSUME NEW S, NEW x \in S, NEW e
  PROVE  /\ Kept(x, e) \in Seq(S)
         /\ x # e => Kept(x, e) = <<x>> /\ Len(Kept(x, e)) = 1 /\ Kept(x, e)[1] = x
         /\ x = e => Kept(x, e) = <<>> /\ Len(Kept(x, e)) = 0
<1>1. PICK here \in BOOLEAN : here = (x # e)
  OBVIOUS
<1>2. Kept(x, e) = Only(x, here)
  BY <1>1 DEF Kept
<1>3. QED
  BY <1>1, <1>2, OnlyIs

(* Without goes through the elements one after the other. *)
LEMMA PiecesOf ==
  ASSUME NEW S, NEW s \in Seq(S), NEW e,
         NEW ss, ss = [i \in DOMAIN s |-> Kept(s[i], e)]
  PROVE  /\ ss \in Seq(Seq(S)) /\ Len(ss) = Len(s) /\ Len(s) \in Nat /\ Without(s, e) = FlattenSeq(ss)
         /\ \A i \in 1..Len(s) : ss[i] = Kept(s[i], e) /\ s[i] \in S
<1>1. Len(s) \in Nat /\ DOMAIN s = 1..Len(s) /\ \A i \in 1..Len(s) : s[i] \in S
  BY LenProperties, ElementOfSeq
<1>2. ASSUME NEW i \in 1..Len(s) PROVE ss[i] = Kept(s[i], e) /\ ss[i] \in Seq(S)
  <2>1. s[i] \in S
    BY <1>1
  <2>2. Kept(s[i], e) \in Seq(S)
    BY <2>1, KeptIs
  <2>3. QED
    BY <1>1, <2>2
<1>3. ss \in [1..Len(s) -> Seq(S)]
  BY <1>1, <1>2
<1>4. ss \in Seq(Seq(S)) /\ Len(ss) = Len(s)
  BY <1>1, <1>3, FunctionIsSeq
<1>5. QED
  BY <1>1, <1>2, <1>4 DEF Without, Kept

LEMMA WithoutIs ==
  ASSUME NEW S, NEW s \in Seq(S), NEW e
  PROVE  \E f : Leaves(f, S, s, e) /\ f[Len(s)] = Without(s, e)
<1>1. PICK ss : ss = [i \in DOMAIN s |-> Kept(s[i], e)]
  OBVIOUS
<1>2. /\ ss \in Seq(Seq(S)) /\ Len(ss) = Len(s) /\ Without(s, e) = FlattenSeq(ss)
      /\ \A i \in 1..Len(s) : ss[i] = Kept(s[i], e)
  BY <1>1, PiecesOf
<1>3. PICK f \in [0..Len(ss) -> Seq(S)] :
             /\ f[0] = <<>> /\ f[Len(ss)] = FlattenSeq(ss)
             /\ \A i \in 1..Len(ss) : f[i] = f[i - 1] \o ss[i]
  BY <1>2, FlattenSeqIs
<1>4. Leaves(f, S, s, e)
  BY <1>2, <1>3 DEF Leaves
<1>5. QED
  BY <1>2, <1>3, <1>4

LEMMA WithoutUnique ==
  ASSUME NEW S, NEW s \in Seq(S), NEW e, NEW g, Leaves(g, S, s, e)
  PROVE  Without(s, e) = g[Len(s)]
<1>1. PICK ss : ss = [i \in DOMAIN s |-> Kept(s[i], e)]
  OBVIOUS
<1>2. /\ ss \in Seq(Seq(S)) /\ Len(ss) = Len(s) /\ Without(s, e) = FlattenSeq(ss)
      /\ \A i \in 1..Len(s) : ss[i] = Kept(s[i], e)
  BY <1>1, PiecesOf
<1>3. /\ g \in [0..Len(ss) -> Seq(S)] /\ g[0] = <<>>
      /\ \A i \in 1..Len(ss) : g[i] = g[i - 1] \o ss[i]
  BY <1>2 DEF Leaves
<1>4. FlattenSeq(ss) = g[Len(ss)]
  BY <1>2, <1>3, FlattenSeqUnique
<1>5. QED
  BY <1>2, <1>4

LEMMA WithoutShort ==
  ASSUME NEW S, NEW x \in S, NEW e, NEW here \in BOOLEAN
  PROVE  /\ Without(<<>>, e) = <<>>
         /\ here => Without(Only(x, here), e) = Kept(x, e)
         /\ ~here => Without(Only(x, here), e) = <<>>
<1>1. ASSUME NEW s \in Seq(S), Len(s) = 0 PROVE Without(s, e) = <<>>
  <2>1. PICK f : Leaves(f, S, s, e) /\ f[Len(s)] = Without(s, e)
    BY WithoutIs
  <2>2. QED
    BY <1>1, <2>1 DEF Leaves
<1>2. <<>> \in Seq(S) /\ Len(<<>>) = 0
  BY EmptySeq
<1>3. Without(<<>>, e) = <<>>
  BY <1>1, <1>2
<1>4. CASE here
  <2>1. PICK s \in Seq(S) : s = Only(x, here) /\ Len(s) = 1 /\ s[1] = x
    BY <1>4, OnlyIs
  <2>2. PICK f : Leaves(f, S, s, e) /\ f[Len(s)] = Without(s, e)
    BY WithoutIs
  <2>3. f[0] = <<>> /\ f[1] = f[0] \o Kept(x, e)
    <3>1. 1 \in 1..Len(s) /\ 1 - 1 = 0
      BY <2>1
    <3>2. QED
      BY <2>1, <2>2, <3>1 DEF Leaves
  <2>4. Kept(x, e) \in Seq(S)
    BY KeptIs
  <2>5. Without(s, e) = Kept(x, e)
    BY <2>1, <2>2, <2>3, <2>4, ConcatEmptySeq
  <2>6. QED
    BY <1>3, <1>4, <2>1, <2>5
<1>5. CASE ~here
  BY <1>3, <1>5 DEF Only
<1>6. QED
  BY <1>3, <1>4, <1>5

LEMMA WithoutConcat ==
  ASSUME NEW S, NEW a \in Seq(S), NEW b \in Seq(S), NEW e
  PROVE  /\ Without(Joined(a, b), e) = Joined(Without(a, e), Without(b, e))
         /\ Without(a, e) \in Seq(S)
<1>1. PICK f : Leaves(f, S, a, e) /\ f[Len(a)] = Without(a, e)
  BY WithoutIs
<1>2. PICK h : Leaves(h, S, b, e) /\ h[Len(b)] = Without(b, e)
  BY WithoutIs
<1> DEFINE K(x) == Kept(x, e)
<1>14. /\ f \in [0..Len(a) -> Seq(S)] /\ f[0] = <<>>
       /\ h \in [0..Len(b) -> Seq(S)] /\ h[0] = <<>>
       /\ \A i \in 1..Len(a) : f[i] = f[i - 1] \o K(a[i])
       /\ \A i \in 1..Len(b) : h[i] = h[i - 1] \o K(b[i])
  BY <1>1, <1>2 DEF Leaves
<1> HIDE DEF K
<1>3. PICK s \in Seq(S) : s = a \o b
  BY ConcatProperties
<1>4. /\ Len(s) = Len(a) + Len(b) /\ Len(a) \in Nat /\ Len(b) \in Nat
      /\ \A i \in 1..Len(s) : s[i] = IF i <= Len(a) THEN a[i] ELSE b[i - Len(a)]
  BY <1>3, ConcatProperties, LenProperties
<1>5. PICK m \in Nat, n \in Nat : m = Len(a) /\ n = Len(b) /\ Len(s) = m + n
  BY <1>4
<1>6. f[m] \in Seq(S) /\ f[m] = Without(a, e)
  BY <1>1, <1>5, <1>14
(* The first m steps leave out of a, the others out of b. *)
<1> DEFINE Joint(j) == f[m] \o h[j]
<1>7. ASSUME NEW j \in 0..n PROVE Joint(j) \in Seq(S)
  <2>1. h[j] \in Seq(S)
    BY <1>5, <1>14
  <2>2. QED
    BY <1>6, <2>1, ConcatProperties
<1>8. Joint(0) = f[m] /\ Joint(n) = Without(a, e) \o Without(b, e)
  BY <1>2, <1>5, <1>6, <1>14, ConcatEmptySeq
<1>9. ASSUME NEW j \in 1..n PROVE Joint(j) = Joint(j - 1) \o K(b[j])
  <2>1. j \in 1..Len(b) /\ j - 1 \in 0..Len(b)
    BY <1>5
  <2>2. h[j] = h[j - 1] \o K(b[j]) /\ h[j - 1] \in Seq(S)
    BY <1>14, <2>1
  <2>3. K(b[j]) \in Seq(S)
    <3>1. b[j] \in S
      BY <2>1, ElementOfSeq
    <3>2. QED
      BY <3>1, KeptIs DEF K
  <2>4. f[m] \o h[j] = (f[m] \o h[j - 1]) \o K(b[j])
    <3>1. h[j] = Joined(h[j - 1], K(b[j]))
      BY <2>2 DEF Joined
    <3>2. Joined(f[m], h[j]) = Joined(Joined(f[m], h[j - 1]), K(b[j]))
      BY <1>6, <2>2, <2>3, <3>1, JoinedLater
    <3>3. QED
      BY <3>2 DEF Joined
  <2>5. QED
    BY <2>4
<1> HIDE DEF Joint
<1>10. PICK g : g = [i \in 0..(m + n) |-> IF i <= m THEN f[i] ELSE Joint(i - m)]
  OBVIOUS
<1>11. /\ \A i \in 0..(m + n) : i <= m => g[i] = f[i]
       /\ \A i \in 0..(m + n) : i > m => g[i] = Joint(i - m)
  BY <1>10
<1>12. g \in [0..(m + n) -> Seq(S)]
  <2>1. ASSUME NEW i \in 0..(m + n)
        PROVE  (IF i <= m THEN f[i] ELSE Joint(i - m)) \in Seq(S)
    <3>1. CASE i <= m
      <4>1. i \in 0..Len(a)
        BY <1>5, <3>1
      <4>2. QED
        BY <1>14, <3>1, <4>1
    <3>2. CASE ~(i <= m)
      <4>1. i - m \in 0..n
        BY <3>2
      <4>2. QED
        BY <1>7, <3>2, <4>1
    <3>3. QED
      BY <3>1, <3>2
  <2>2. QED
    BY <1>10, <2>1
<1>13. ASSUME NEW i \in 1..(m + n) PROVE g[i] = g[i - 1] \o K(s[i])
  <2>1. i \in 0..(m + n) /\ i - 1 \in 0..(m + n) /\ i \in 1..Len(s)
    BY <1>5
  <2>2. CASE i <= m
    <3>1. g[i] = f[i] /\ g[i - 1] = f[i - 1] /\ s[i] = a[i] /\ i \in 1..Len(a)
      BY <1>4, <1>5, <1>11, <2>1, <2>2
    <3>2. QED
      BY <1>14, <3>1
  <2>3. CASE i > m
    <3>1. PICK j \in 1..n : j = i - m /\ j - 1 = (i - 1) - m
      BY <2>3
    <3>2. s[i] = b[j] /\ g[i] = Joint(j)
      BY <1>4, <1>5, <1>11, <2>1, <2>3, <3>1
    <3>3. g[i - 1] = Joint(j - 1)
      <4>1. CASE i - 1 > m
        BY <1>11, <2>1, <3>1, <4>1
      <4>2. CASE i - 1 = m
        BY <1>8, <1>11, <2>1, <3>1, <4>2
      <4>3. QED
        BY <2>3, <4>1, <4>2
    <3>4. QED
      BY <1>9, <3>2, <3>3
  <2>4. i <= m \/ i > m
    OBVIOUS
  <2>5. QED
    BY <2>2, <2>3, <2>4, Zenon
<1>15. Without(s, e) = g[m + n]
  <2>1. g[0] = <<>>
    BY <1>11, <1>14
  <2>2. Leaves(g, S, s, e)
    BY <1>5, <1>12, <1>13, <2>1 DEF Leaves, K
  <2>3. QED
    BY <1>5, <2>2, WithoutUnique
<1>16. g[m + n] = Joint(n)
  <2>1. CASE n = 0
    <3>1. m + n = m /\ m \in 0..(m + n)
      BY <2>1
    <3>2. QED
      BY <1>8, <1>11, <2>1, <3>1, m <= m
  <2>2. CASE n > 0
    <3>1. (m + n) - m = n /\ m + n > m /\ m + n \in 0..(m + n)
      BY <2>2
    <3>2. QED
      BY <1>11, <3>1
  <2>3. QED
    BY <2>1, <2>2
<1>17. Without(a \o b, e) = Without(a, e) \o Without(b, e)
  BY <1>3, <1>5, <1>8, <1>15, <1>16
<1>18. QED
  BY <1>5, <1>6, <1>17 DEF Joined

(* The first cells, if none of them is to go, stay where they are.         *)
LEMMA WithoutKeepsFirst ==
  ASSUME NEW S, NEW s \in Seq(S), NEW e, NEW c \in 0..Len(s), \A i \in 1..c : s[i] # e
  PROVE  /\ Without(s, e) \in Seq(S) /\ Len(Without(s, e)) >= c
         /\ \A i \in 1..c : Without(s, e)[i] = s[i]
         /\ c = Len(s) => Len(Without(s, e)) = c
<1>1. PICK f : Leaves(f, S, s, e) /\ f[Len(s)] = Without(s, e)
  BY WithoutIs
<1>2. /\ f \in [0..Len(s) -> Seq(S)] /\ f[0] = <<>>
      /\ \A i \in 1..Len(s) : f[i] = f[i - 1] \o Kept(s[i], e)
  BY <1>1 DEF Leaves
<1>3. PICK n \in Nat : n = Len(s)
  BY LenProperties
<1>4. c \in Nat /\ c <= n
  BY <1>3
<1> DEFINE Grown(i) == /\ Len(f[i]) >= (IF i <= c THEN i ELSE c)
                       /\ \A k \in 1..n : k <= i /\ k <= c => f[i][k] = s[k]
                       /\ i <= c => Len(f[i]) = i
<1> DEFINE T == {i \in Nat : i <= n => Grown(i)}
<1>5. 0 \in T
  <2>1. Len(f[0]) = 0
    BY <1>2
  <2>2. QED
    BY <1>4, <2>1
<1>6. ASSUME NEW i \in Nat, i \in T PROVE i + 1 \in T
  <2>1. SUFFICES ASSUME i + 1 <= n PROVE Grown(i + 1)
    <3> HIDE DEF Grown
    <3>1. QED
      OBVIOUS
  <2>2. Grown(i)
    <3> HIDE DEF Grown
    <3>1. i <= n
      BY <2>1
    <3>2. QED
      BY <1>6, <3>1
  <2>3. PICK j \in 1..n : j = i + 1 /\ j - 1 = i
    BY <2>1
  <2>4. j \in 1..Len(s) /\ s[j] \in S /\ f[i] \in Seq(S)
    BY <1>2, <1>3, <2>1, <2>3, ElementOfSeq
  <2>5. PICK u \in Seq(S), v \in Seq(S) : u = f[i] /\ v = Kept(s[j], e)
    BY <2>4, KeptIs
  <2>6. f[j] = u \o v
    BY <1>2, <2>3, <2>4, <2>5
  <2>7. j <= c => Len(v) = 1 /\ v[1] = s[j]
    <3>1. j <= c => s[j] # e
      OBVIOUS
    <3>2. QED
      BY <2>4, <2>5, <3>1, KeptIs
  <2>8. PICK p \in Nat, q \in Nat : p = Len(u) /\ q = Len(v)
    BY LenProperties
  <2>9. Len(f[j]) = p + q /\ \A k \in 1..(p + q) : f[j][k] = IF k <= p THEN u[k] ELSE v[k - p]
    BY <2>6, <2>8, ConcatProperties
  <2>10. /\ i <= c => p = i
         /\ i > c => p >= c
    BY <1>4, <2>2, <2>5, <2>8
  <2>11. Len(f[j]) >= (IF j <= c THEN j ELSE c) /\ (j <= c => Len(f[j]) = j)
    <3>1. CASE j <= c
      <4>1. p = i /\ q = 1
        BY <1>4, <2>3, <2>7, <2>8, <2>10, <3>1
      <4>2. QED
        BY <2>3, <2>9, <3>1, <4>1
    <3>2. CASE j > c
      <4>1. p >= c
        BY <1>4, <2>3, <2>10, <3>2
      <4>2. QED
        BY <1>4, <2>3, <2>9, <3>2, <4>1
    <3>3. QED
      BY <1>4, <2>3, <3>1, <3>2
  <2>12. ASSUME NEW k \in 1..n, k <= j, k <= c PROVE f[j][k] = s[k]
    <3>1. CASE k <= i
      <4>1. u[k] = s[k] /\ k <= p
        BY <1>4, <2>2, <2>5, <2>8, <2>12, <3>1
      <4>2. k \in 1..(p + q)
        BY <4>1
      <4>3. QED
        BY <2>9, <4>1, <4>2
    <3>2. CASE k = j
      <4>1. p = i /\ q = 1 /\ v[1] = s[j]
        BY <2>2, <2>3, <2>5, <2>7, <2>8, <2>12, <3>2
      <4>2. k \in 1..(p + q) /\ ~(k <= p) /\ k - p = 1
        BY <2>3, <3>2, <4>1
      <4>3. QED
        BY <2>9, <3>2, <4>1, <4>2
    <3>3. QED
      BY <2>3, <2>12, <3>1, <3>2
  <2>13. QED
    BY <2>3, <2>11, <2>12
<1>7. Nat \subseteq T
  <2> HIDE DEF T
  <2>1. QED
    BY <1>5, <1>6, SetInduction
<1>8. Grown(n)
  <2> HIDE DEF Grown
  <2>1. QED
    BY <1>7
<1>9. PICK w \in Seq(S) : w = Without(s, e) /\ w = f[n]
  BY <1>1, <1>2, <1>3
<1>10. Len(w) >= c /\ (c = n => Len(w) = c) /\ \A k \in 1..c : w[k] = s[k]
  BY <1>4, <1>8, <1>9
<1>11. QED
  BY <1>3, <1>9, <1>10

LEMMA WithoutNothing ==
  ASSUME NEW S, NEW s \in Seq(S), NEW e, \A i \in DOMAIN s : s[i] # e
  PROVE  Without(s, e) = s
<1>1. Len(s) \in Nat /\ DOMAIN s = 1..Len(s)
  BY LenProperties
<1>2. PICK c \in 0..Len(s) : c = Len(s)
  <2>1. Len(s) \in 0..Len(s)
    BY <1>1
  <2>2. QED
    BY <2>1
<1>3. \A i \in 1..c : s[i] # e
  BY <1>1, <1>2
<1>4. /\ Without(s, e) \in Seq(S) /\ Len(Without(s, e)) = Len(s)
      /\ \A i \in 1..Len(s) : Without(s, e)[i] = s[i]
  BY <1>2, <1>3, WithoutKeepsFirst
<1>5. QED
  BY <1>4, SeqEqual

--------------------------------------------------------------------------------
(* Lines *)

Cells == Int \cup {Empty}
LineTokens == Int \cup {Comma}
Tokens == Int \cup {Comma, Newline}

LEMMA MarksDiffer ==
  /\ Comma # Newline /\ Comma # Empty /\ Newline # Empty
  /\ Comma \notin Int /\ Newline \notin Int /\ Empty \notin Int
<1>1. ASSUME NEW x, NEW y PROVE Cardinality({x, y}) \in Nat /\ Cardinality({x, y}) <= 2
  <2>1. IsFiniteSet({x}) /\ Cardinality({x}) = 1
    BY FS_Singleton
  <2>2. {x} \union {y} = {x, y}
    OBVIOUS
  <2>3. Cardinality({x, y}) = IF y \in {x} THEN 1 ELSE 2
    BY <2>1, <2>2, FS_AddElement
  <2>4. QED
    BY <2>3
<1>2. Cardinality({Comma, Newline, Empty}) = 3
  BY ImportAssumption
<1>3. ASSUME NEW x, NEW y, {Comma, Newline, Empty} = {x, y} PROVE FALSE
  BY <1>1, <1>2, <1>3
<1>4. CASE Comma = Newline
  <2>1. {Comma, Newline, Empty} = {Comma, Empty}
    BY <1>4
  <2>2. QED
    BY <1>3, <2>1
<1>5. CASE Comma = Empty
  <2>1. {Comma, Newline, Empty} = {Comma, Newline}
    BY <1>5
  <2>2. QED
    BY <1>3, <2>1
<1>6. CASE Newline = Empty
  <2>1. {Comma, Newline, Empty} = {Comma, Newline}
    BY <1>6
  <2>2. QED
    BY <1>3, <2>1
<1>7. QED
  BY <1>4, <1>5, <1>6, ImportAssumption

(* What is written for a cell: a comma before it, but before the first.    *)
Piece(line, i) == Joined(Only(Comma, i # 1), Only(line[i], line[i] # Empty))

LEMMA PieceIs ==
  ASSUME NEW line \in Seq(Cells), NEW i \in 1..Len(line)
  PROVE  /\ Piece(line, i) \in Seq(LineTokens)
         /\ Without(Piece(line, i), Comma) = Kept(line[i], Empty)
         /\ line[i] # Empty \/ i # 1 => Len(Piece(line, i)) >= 1
<1>1. line[i] \in Cells /\ Comma \in LineTokens
  BY ElementOfSeq DEF LineTokens
<1>2. PICK before \in BOOLEAN, filled \in BOOLEAN : before = (i # 1) /\ filled = (line[i] # Empty)
  OBVIOUS
<1>3. filled => line[i] \in LineTokens /\ line[i] # Comma
  BY <1>1, <1>2, MarksDiffer DEF Cells, LineTokens
<1>4. PICK u \in Seq(LineTokens), v \in Seq(LineTokens) :
        /\ u = Only(Comma, before) /\ v = Only(line[i], filled)
        /\ Len(u) = (IF before THEN 1 ELSE 0) /\ Len(v) = (IF filled THEN 1 ELSE 0)
  BY <1>1, <1>3, OnlyIs
<1>5. Piece(line, i) = Joined(u, v)
  BY <1>2, <1>4 DEF Piece
<1>6. /\ Piece(line, i) \in Seq(LineTokens) /\ Len(Piece(line, i)) = Len(u) + Len(v)
      /\ Without(Piece(line, i), Comma) = Joined(Without(u, Comma), Without(v, Comma))
  BY <1>5, JoinedIs, WithoutConcat
<1>7. Without(u, Comma) = <<>>
  <2>1. before => Without(u, Comma) = Kept(Comma, Comma)
    BY <1>1, <1>4, WithoutShort
  <2>2. ~before => Without(u, Comma) = <<>>
    BY <1>1, <1>4, WithoutShort
  <2>3. Kept(Comma, Comma) = <<>>
    BY <1>1, KeptIs
  <2>4. QED
    BY <2>1, <2>2, <2>3
<1>8. Without(v, Comma) = Kept(line[i], Empty)
  <2>1. CASE filled
    <3>1. line[i] \in LineTokens /\ line[i] # Comma /\ line[i] # Empty
      BY <1>2, <1>3, <2>1
    <3>2. Without(v, Comma) = Kept(line[i], Comma)
      BY <1>4, <2>1, <3>1, WithoutShort
    <3>3. Kept(line[i], Comma) = <<line[i]>> /\ Kept(line[i], Empty) = <<line[i]>>
      BY <3>1, KeptIs
    <3>4. QED
      BY <3>2, <3>3
  <2>2. CASE ~filled
    <3>1. v = <<>> /\ Without(v, Comma) = <<>>
      BY <1>1, <1>4, <2>2, WithoutShort DEF Only
    <3>2. Kept(line[i], Empty) = <<>>
      BY <1>1, <1>2, <2>2, KeptIs
    <3>3. QED
      BY <3>1, <3>2
  <2>3. QED
    BY <2>1, <2>2
<1>9. Kept(line[i], Empty) \in Seq(Cells)
  BY <1>1, KeptIs
<1>10. Without(Piece(line, i), Comma) = Kept(line[i], Empty)
  BY <1>6, <1>7, <1>8, <1>9, JoinedNothing
<1>11. line[i] # Empty \/ i # 1 => Len(Piece(line, i)) >= 1
  <2>1. Len(Piece(line, i)) = (IF before THEN 1 ELSE 0) + (IF filled THEN 1 ELSE 0)
    BY <1>4, <1>6
  <2>2. before \/ filled => Len(Piece(line, i)) >= 1
    <3> HIDE DEF Piece
    <3>1. QED
      BY <2>1
  <2>3. line[i] # Empty \/ i # 1 => before \/ filled
    BY <1>2
  <2>4. QED
    BY <2>2, <2>3
<1>12. QED
  BY <1>6, <1>10, <1>11

(* The values of a line that was written are its cells but the empty ones. *)
LEMMA WrittenIs ==
  ASSUME NEW line \in Seq(Cells)
  PROVE  /\ Written(line) \in Seq(LineTokens)
         /\ Without(Written(line), Comma) = Without(line, Empty)
         /\ line # <<>> /\ line # <<Empty>> => Len(Written(line)) >= 1
<1>1. PICK n \in Nat : n = Len(line) /\ DOMAIN line = 1..n
  BY LenProperties
<1>2. PICK ss : ss = [i \in 1..n |-> Piece(line, i)]
  OBVIOUS
<1>3. Written(line) = FlattenSeq(ss)
  BY <1>1, <1>2 DEF Written, Piece, Joined
<1>4. ss \in [1..n -> Seq(LineTokens)] /\ \A i \in 1..n : ss[i] = Piece(line, i)
  BY <1>1, <1>2, PieceIs
<1>5. ss \in Seq(Seq(LineTokens)) /\ Len(ss) = n
  BY <1>4, FunctionIsSeq
<1>6. Written(line) \in Seq(LineTokens)
  BY <1>3, <1>5, FlattenSeqParts
<1>7. Without(Written(line), Comma) = Without(line, Empty)
  <2>1. PICK f \in [0..Len(ss) -> Seq(LineTokens)] :
          /\ f[0] = <<>> /\ f[Len(ss)] = FlattenSeq(ss)
          /\ \A i \in 1..Len(ss) : f[i] = Joined(f[i - 1], ss[i])
    BY <1>5, FlattenSeqIs DEF Joined
  <2>2. PICK g : Leaves(g, Cells, line, Empty) /\ g[Len(line)] = Without(line, Empty)
    BY WithoutIs
  <2>3. g[0] = <<>> /\ \A i \in 1..n : g[i] = Joined(g[i - 1], Kept(line[i], Empty))
    BY <1>1, <2>2 DEF Leaves, Joined
  <2> DEFINE T == {i \in Nat : i <= n => Without(f[i], Comma) = g[i]}
  <2>4. 0 \in T
    <3>1. Without(<<>>, Comma) = <<>>
      BY WithoutShort
    <3>2. QED
      BY <2>1, <2>3, <3>1
  <2>5. ASSUME NEW i \in Nat, i \in T PROVE i + 1 \in T
    <3>1. SUFFICES ASSUME i + 1 <= n PROVE Without(f[i + 1], Comma) = g[i + 1]
      OBVIOUS
    <3>2. PICK j \in 1..n : j = i + 1 /\ j - 1 = i
      BY <3>1
    <3>3. Without(f[i], Comma) = g[i]
      BY <2>5, <3>1
    <3>4. f[i] \in Seq(LineTokens) /\ ss[j] \in Seq(LineTokens) /\ f[j] = Joined(f[i], ss[j])
      <4>1. i \in 0..Len(ss) /\ j \in 1..Len(ss)
        BY <1>5, <3>1, <3>2
      <4>2. f[i] \in Seq(LineTokens)
        BY <2>1, <4>1
      <4>3. ss[j] \in Seq(LineTokens)
        BY <1>4
      <4>4. f[j] = Joined(f[j - 1], ss[j])
        BY <2>1, <4>1
      <4>5. QED
        BY <3>2, <4>2, <4>3, <4>4
    <3>5. PICK u \in Seq(LineTokens), v \in Seq(LineTokens) : u = f[i] /\ v = ss[j]
      BY <3>4
    <3>6. Without(Joined(u, v), Comma) = Joined(Without(u, Comma), Without(v, Comma))
      BY WithoutConcat
    <3>7. Without(v, Comma) = Kept(line[j], Empty)
      BY <1>1, <1>4, <3>5, PieceIs
    <3>8. g[j] = Joined(g[j - 1], Kept(line[j], Empty))
      BY <2>3
    <3>9. QED
      BY <3>2, <3>3, <3>4, <3>5, <3>6, <3>7, <3>8
  <2>6. Nat \subseteq T
    <3> HIDE DEF T
    <3>1. QED
      BY <2>4, <2>5, SetInduction
  <2>7. Without(f[n], Comma) = g[n]
    BY <2>6
  <2>8. QED
    BY <1>1, <1>3, <1>5, <2>1, <2>2, <2>7
<1>8. ASSUME line # <<>>, line # <<Empty>> PROVE Len(Written(line)) >= 1
  <2>1. n >= 1
    BY <1>1, <1>8, EmptySeq
  <2>2. PICK k \in 1..n : line[k] # Empty \/ k # 1
    <3>1. CASE n >= 2
      <4>1. 2 \in 1..n /\ 2 # 1
        BY <3>1
      <4>2. QED
        BY <4>1
    <3>2. CASE n = 1
      <4>1. <<Empty>> \in Seq(Cells) /\ Len(<<Empty>>) = 1 /\ <<Empty>>[1] = Empty
        BY DEF Cells
      <4>2. line[1] # Empty
        <5>1. SUFFICES ASSUME line[1] = Empty PROVE line = <<Empty>>
          BY <1>8
        <5>2. PICK other \in Seq(Cells) : other = <<Empty>> /\ Len(other) = 1 /\ other[1] = Empty
          BY <4>1
        <5>3. \A i \in 1..Len(line) : line[i] = other[i]
          BY <1>1, <3>2, <5>1, <5>2
        <5>4. QED
          BY <1>1, <3>2, <5>2, <5>3, SeqEqual
      <4>3. QED
        BY <3>2, <4>2
    <3>3. QED
      BY <2>1, <3>1, <3>2
  <2>3. PICK at : Parts(ss, FlattenSeq(ss), at)
    BY <1>5, FlattenSeqParts
  <2>7. /\ at \in [0..n -> Nat] /\ at[n] = Len(FlattenSeq(ss))
        /\ \A i \in 1..n : at[i] = at[i - 1] + Len(ss[i])
        /\ \A i \in 0..n : \A m \in 0..i : at[m] <= at[i]
    BY <1>5, <2>3 DEF Parts
  <2>4. Len(ss[k]) >= 1 /\ at[k - 1] \in Nat /\ Len(ss[k]) \in Nat
    <3>1. PICK piece \in Seq(LineTokens) : piece = ss[k] /\ Len(piece) >= 1
      BY <1>1, <1>4, <2>2, PieceIs
    <3>2. Len(piece) \in Nat /\ k - 1 \in 0..Len(ss)
      BY <1>5, LenProperties
    <3>3. QED
      BY <1>5, <2>7, <3>1, <3>2
  <2>5. at[k] >= 1 /\ at[k] <= at[n] /\ at[n] \in Nat /\ at[k] \in Nat
    BY <1>5, <2>7, <2>4
  <2>6. QED
    BY <1>3, <1>5, <2>7, <2>5
<1>9. QED
  BY <1>6, <1>7, <1>8

--------------------------------------------------------------------------------
(* Texts *)

(* Line k of a text of n lines has a newline behind it. *)
Ends(n, terminated, k) == k < n \/ terminated

(* Line k of the table stands behind place at[k - 1] of the text.          *)
Layout(table, terminated, written, at) ==
  LET n == Len(table) IN
  /\ n \in Nat /\ table \in Seq(Lines) /\ terminated \in BOOLEAN
  /\ written \in Seq(Tokens) /\ at \in [0..n -> Nat]
  /\ at[0] = 0 /\ at[n] = Len(written)
  /\ \A k \in 1..n : Written(table[k]) \in Seq(LineTokens)
  /\ \A k \in 1..n : at[k - 1] < at[k]
  /\ \A k \in 1..n : \A i \in 0..k : at[i] <= at[k]
  /\ \A k \in 1..n :
       at[k] = at[k - 1] + Len(Written(table[k])) + (IF Ends(n, terminated, k) THEN 1 ELSE 0)
  /\ \A k \in 1..n : \A j \in 1..Len(Written(table[k])) :
       written[at[k - 1] + j] = Written(table[k])[j]
  /\ \A k \in 1..n : Ends(n, terminated, k) => written[at[k]] = Newline
  /\ \A p \in 1..Len(written) : \E k \in 1..n : at[k - 1] < p /\ p <= at[k]

LEMMA LinesAre ==
  ASSUME NEW line \in Lines
  PROVE  /\ line \in Seq(Cells) /\ line # <<>> /\ Written(line) \in Seq(LineTokens)
         /\ line # <<Empty>> => Len(Written(line)) >= 1
<1>1. line \in Seq(Cells) /\ line # <<>>
  BY ImportAssumption DEF Cells
<1>2. QED
  BY <1>1, WrittenIs

LEMMA LastIs ==
  ASSUME NEW S, NEW s \in Seq(S), s # <<>>
  PROVE  Last(s) = s[Len(s)] /\ Len(s) \in Nat /\ Len(s) >= 1
BY LenProperties, EmptySeq DEF Last

LEMMA TextIsLaidOut ==
  ASSUME NEW table \in Seq(Lines), NEW terminated \in Endings(table)
  PROVE  \E at : Layout(table, terminated, TextOf(table, terminated), at)
<1>1. PICK n \in Nat : n = Len(table) /\ DOMAIN table = 1..n
  BY LenProperties
<1>2. \A k \in 1..n : table[k] \in Lines
  BY <1>1, ElementOfSeq
<1>3. terminated \in BOOLEAN /\ (n > 0 /\ ~terminated => table[n] # <<Empty>>)
  <2>1. CASE table = <<>>
    <3>1. n = 0
      BY <1>1, <2>1
    <3>2. QED
      BY <2>1, <3>1 DEF Endings
  <2>2. CASE table # <<>>
    <3>1. Last(table) = table[n]
      BY <1>1, <2>2, LastIs
    <3>2. QED
      BY <2>2, <3>1 DEF Endings
  <2>3. QED
    BY <2>1, <2>2
<1> DEFINE End(k) == Only(Newline, Ends(n, terminated, k))
<1>4. PICK parts : parts = [k \in 1..n |-> Joined(Written(table[k]), End(k))]
  OBVIOUS
<1>5. TextOf(table, terminated) = FlattenSeq(parts)
  BY <1>1, <1>4 DEF TextOf, Ends, Joined
<1>6. ASSUME NEW k \in 1..n
      PROVE  /\ parts[k] \in Seq(Tokens) /\ Written(table[k]) \in Seq(LineTokens)
             /\ Len(Written(table[k])) \in Nat
             /\ Len(parts[k]) = Len(Written(table[k])) + (IF Ends(n, terminated, k) THEN 1 ELSE 0)
             /\ \A j \in 1..Len(Written(table[k])) : parts[k][j] = Written(table[k])[j]
             /\ Ends(n, terminated, k) => parts[k][Len(Written(table[k])) + 1] = Newline
  <2>1. PICK u : u = Written(table[k]) /\ u \in Seq(LineTokens) /\ u \in Seq(Tokens) /\ Len(u) \in Nat
    <3>1. Written(table[k]) \in Seq(LineTokens)
      BY <1>2, LinesAre
    <3>2. LineTokens \subseteq Tokens
      BY DEF LineTokens, Tokens
    <3>3. Written(table[k]) \in Seq(Tokens)
      BY <3>1, <3>2, SeqMonotonic
    <3>4. QED
      BY <3>1, <3>3, LenProperties
  <2>2. PICK here \in BOOLEAN : here = Ends(n, terminated, k)
    BY <1>3 DEF Ends
  <2>3. PICK v \in Seq(Tokens) : /\ v = End(k) /\ Len(v) = (IF here THEN 1 ELSE 0)
                                 /\ here => v[1] = Newline
    <3>1. Newline \in Tokens
      BY DEF Tokens
    <3>2. QED
      BY <2>2, <3>1, OnlyIs
  <2>4. parts[k] = Joined(u, v)
    BY <1>4, <2>1, <2>3
  <2>5. PICK p \in Nat, q \in Nat : p = Len(u) /\ q = Len(v)
    BY <2>1, LenProperties
  <2>6. /\ Joined(u, v) \in Seq(Tokens) /\ Len(Joined(u, v)) = p + q
        /\ \A j \in 1..(p + q) : Joined(u, v)[j] = IF j <= p THEN u[j] ELSE v[j - p]
    BY <2>1, <2>5, JoinedIs
  <2>7. \A j \in 1..p : Joined(u, v)[j] = u[j]
    <3>1. \A j \in 1..p : j \in 1..(p + q) /\ j <= p
      OBVIOUS
    <3>2. QED
      BY <2>6, <3>1
  <2>8. here => Joined(u, v)[p + 1] = Newline
    <3>1. here => p + 1 \in 1..(p + q) /\ ~(p + 1 <= p) /\ (p + 1) - p = 1
      BY <2>3, <2>5
    <3>2. QED
      BY <2>3, <2>6, <3>1
  <2>9. QED
    BY <2>1, <2>2, <2>3, <2>4, <2>5, <2>6, <2>7, <2>8
<1> HIDE DEF End
<1>7. parts \in Seq(Seq(Tokens)) /\ Len(parts) = n
  <2>1. parts \in [1..n -> Seq(Tokens)]
    BY <1>4, <1>6
  <2>2. QED
    BY <2>1, FunctionIsSeq
<1>8. PICK written \in Seq(Tokens) : written = FlattenSeq(parts)
  BY <1>7, FlattenSeqParts
<1>14. PICK at : Parts(parts, written, at)
  BY <1>7, <1>8, FlattenSeqParts
<1>9. /\ at \in [0..n -> Nat] /\ at[0] = 0 /\ at[n] = Len(written)
      /\ \A i \in 1..n : at[i] = at[i - 1] + Len(parts[i])
      /\ \A i \in 1..n : \A j \in 1..Len(parts[i]) : written[at[i - 1] + j] = parts[i][j]
      /\ \A i \in 0..n : \A p \in 1..at[i] :
           \E k \in 1..i : \E j \in 1..Len(parts[k]) : p = at[k - 1] + j
      /\ \A i \in 0..n : \A k \in 0..i : at[k] <= at[i]
  BY <1>7, <1>14 DEF Parts
<1>10. ASSUME NEW k \in 1..n
       PROVE  /\ at[k - 1] \in Nat /\ at[k] \in Nat
              /\ at[k] = at[k - 1] + Len(Written(table[k])) + (IF Ends(n, terminated, k) THEN 1 ELSE 0)
              /\ at[k - 1] < at[k]
              /\ \A j \in 1..Len(Written(table[k])) : written[at[k - 1] + j] = Written(table[k])[j]
              /\ Ends(n, terminated, k) => written[at[k]] = Newline
  <2>1. k - 1 \in 0..n /\ k \in 0..n
    OBVIOUS
  <2>2. PICK a \in Nat, b \in Nat, w \in Nat, here \in BOOLEAN :
          /\ a = at[k - 1] /\ b = at[k] /\ w = Len(Written(table[k])) /\ here = Ends(n, terminated, k)
    <3>1. Ends(n, terminated, k) \in BOOLEAN
      BY <1>3 DEF Ends
    <3>2. at[k - 1] \in Nat /\ at[k] \in Nat
      BY <1>9, <2>1
    <3>3. Len(Written(table[k])) \in Nat
      BY <1>6
    <3>4. QED
      BY <3>1, <3>2, <3>3
  <2>3. Len(parts[k]) = w + (IF here THEN 1 ELSE 0) /\ b = a + Len(parts[k])
    BY <1>6, <1>9, <2>2
  <2>4. ~here => w >= 1
    <3>1. SUFFICES ASSUME ~here PROVE w >= 1
      OBVIOUS
    <3>2. ~(k < n) /\ ~terminated /\ k = n
      <4>1. ~Ends(n, terminated, k)
        BY <2>2, <3>1
      <4>2. QED
        BY <4>1 DEF Ends
    <3>3. table[k] # <<Empty>> /\ table[k] \in Lines
      BY <1>2, <1>3, <3>2
    <3>4. QED
      BY <2>2, <3>3, LinesAre
  <2>5. ASSUME NEW j \in 1..w PROVE written[a + j] = Written(table[k])[j]
    <3>1. j \in 1..Len(parts[k])
      BY <2>3
    <3>2. QED
      BY <1>6, <1>9, <2>2, <3>1
  <2>6. here => written[b] = Newline
    <3>1. SUFFICES ASSUME here PROVE written[b] = Newline
      OBVIOUS
    <3>2. w + 1 \in 1..Len(parts[k]) /\ b = a + (w + 1)
      BY <2>3, <3>1
    <3>3. parts[k][w + 1] = Newline
      BY <1>6, <2>2, <3>1
    <3>4. QED
      BY <1>9, <2>2, <3>2, <3>3
  <2>7. b = a + w + (IF here THEN 1 ELSE 0) /\ a < b
    BY <2>3, <2>4
  <2>8. QED
    BY <2>2, <2>5, <2>6, <2>7
<1>11. ASSUME NEW p \in 1..Len(written) PROVE \E k \in 1..n : at[k - 1] < p /\ p <= at[k]
  <2>1. p \in 1..at[n] /\ n \in 0..n
    BY <1>9
  <2>2. PICK k \in 1..n : \E j \in 1..Len(parts[k]) : p = at[k - 1] + j
    BY <1>9, <2>1
  <2>3. PICK j \in 1..Len(parts[k]) : p = at[k - 1] + j
    BY <2>2
  <2>4. PICK a \in Nat, b \in Nat, l \in Nat : a = at[k - 1] /\ b = at[k] /\ l = Len(parts[k])
    <3>1. parts[k] \in Seq(Tokens)
      BY <1>6
    <3>2. QED
      BY <1>10, <3>1, LenProperties
  <2>5. b = a + l /\ p = a + j /\ j \in 1..l
    BY <1>9, <2>3, <2>4
  <2>6. a < p /\ p <= b
    BY <2>5
  <2>7. QED
    BY <2>4, <2>6
<1>12. \A k \in 1..n : \A i \in 0..k : at[i] <= at[k]
  BY <1>9
<1>13. Layout(table, terminated, written, at)
  BY <1>1, <1>3, <1>6, <1>9, <1>10, <1>11, <1>12 DEF Layout
<1>15. QED
  BY <1>5, <1>8, <1>13

(* The newlines of a text are the ends of its lines. *)
LEMMA NewlinesAre ==
  ASSUME NEW table, NEW terminated, NEW tx, NEW at, Layout(table, terminated, tx, at),
         NEW p \in 1..Len(tx)
  PROVE  tx[p] = Newline <=> \E k \in 1..Len(table) : Ends(Len(table), terminated, k) /\ p = at[k]
<1>1. PICK n \in Nat : n = Len(table)
  BY DEF Layout
<1>2. ASSUME NEW k \in 1..n, Ends(n, terminated, k), p = at[k] PROVE tx[p] = Newline
  BY <1>1, <1>2 DEF Layout
<1>3. ASSUME tx[p] = Newline PROVE \E k \in 1..n : Ends(n, terminated, k) /\ p = at[k]
  <2>1. PICK k \in 1..n : at[k - 1] < p /\ p <= at[k]
    BY <1>1 DEF Layout
  <2>2. /\ at \in [0..n -> Nat] /\ k - 1 \in 0..n /\ k \in 0..n
        /\ Written(table[k]) \in Seq(LineTokens)
    BY <1>1 DEF Layout
  <2>3. PICK a \in Nat, b \in Nat, w \in Nat :
          a = at[k - 1] /\ b = at[k] /\ w = Len(Written(table[k]))
    BY <2>2, LenProperties
  <2>4. /\ b = a + w + (IF Ends(n, terminated, k) THEN 1 ELSE 0)
        /\ \A j \in 1..w : tx[a + j] = Written(table[k])[j]
    BY <1>1, <2>3 DEF Layout
  <2>5. ~(p <= a + w)
    <3>1. SUFFICES ASSUME p <= a + w PROVE FALSE
      OBVIOUS
    <3>2. PICK j \in 1..w : p = a + j
      <4>1. p - a \in 1..w /\ p = a + (p - a)
        BY <2>1, <2>3, <3>1
      <4>2. QED
        BY <4>1
    <3>3. Written(table[k])[j] \in LineTokens
      BY <2>2, <2>3, ElementOfSeq
    <3>4. Newline \in LineTokens
      BY <1>3, <2>4, <3>2, <3>3
    <3>5. QED
      BY <3>4, MarksDiffer DEF LineTokens
  <2>6. Ends(n, terminated, k) /\ p = b
    <3>1. CASE Ends(n, terminated, k)
      BY <2>1, <2>3, <2>4, <2>5, <3>1
    <3>2. CASE ~Ends(n, terminated, k)
      BY <2>1, <2>3, <2>4, <2>5, <3>2
    <3>3. QED
      BY <3>1, <3>2
  <2>7. QED
    BY <2>3, <2>6
<1>4. QED
  BY <1>1, <1>2, <1>3

LEMMA MinIs ==
  ASSUME NEW T \in SUBSET Nat, NEW m \in T, \A y \in T : m <= y
  PROVE  Min(T) = m
<1>1. \A x \in T : (\A y \in T : x <= y) => x = m
  OBVIOUS
<1>2. QED
  BY <1>1 DEF Min

LEMMA MinIn ==
  ASSUME NEW T \in SUBSET Nat, T # {}
  PROVE  Min(T) \in T
BY LeastElement, MinIs

(* Where the line behind place at[t] ends. *)
EndFrom(tx, from) == Min({i \in (from + 1)..Len(tx) : tx[i] = Newline} \cup {Len(tx) + 1})

LEMMA PlacesIncrease ==
  ASSUME NEW table, NEW terminated, NEW tx, NEW at, Layout(table, terminated, tx, at),
         NEW i \in 0..Len(table), NEW k \in 0..Len(table), i < k
  PROVE  at[i] \in Nat /\ at[k] \in Nat /\ at[i] < at[k]
<1>1. PICK n \in Nat : n = Len(table) /\ at \in [0..n -> Nat]
  BY DEF Layout
<1>2. k \in 1..n /\ i \in 0..n /\ k - 1 \in 0..n /\ i + 1 \in 1..n /\ i + 1 \in 0..k
  BY <1>1
<1>3. at[i + 1] <= at[k] /\ at[(i + 1) - 1] < at[i + 1]
  BY <1>1, <1>2 DEF Layout
<1>4. (i + 1) - 1 = i /\ at[i + 1] \in Nat
  BY <1>1, <1>2
<1>5. QED
  BY <1>1, <1>2, <1>3, <1>4

LEMMA EndOfLine ==
  ASSUME NEW table, NEW terminated, NEW tx, NEW at, Layout(table, terminated, tx, at),
         NEW t \in Nat, t < Len(table)
  PROVE  EndFrom(tx, at[t]) = IF Ends(Len(table), terminated, t + 1) THEN at[t + 1] ELSE Len(tx) + 1
<1>1. PICK n \in Nat : n = Len(table) /\ at \in [0..n -> Nat] /\ at[n] = Len(tx)
  BY DEF Layout
<1>2. t \in 0..n /\ t + 1 \in 1..n /\ t + 1 \in 0..n /\ n \in 0..n /\ n \in 1..n
  BY <1>1
<1>3. PICK a \in Nat, b \in Nat, l \in Nat : a = at[t] /\ b = at[t + 1] /\ l = Len(tx)
  BY <1>1, <1>2
<1>4. a < b /\ b <= l
  <2>1. at[t] < at[t + 1]
    BY <1>1, <1>2, PlacesIncrease
  <2>2. at[t + 1] <= at[n]
    BY <1>1, <1>2 DEF Layout
  <2>3. QED
    BY <1>1, <1>3, <2>1, <2>2
<1> DEFINE N == {i \in (a + 1)..l : tx[i] = Newline}
           T == N \cup {l + 1}
<1>5. T \in SUBSET Nat /\ EndFrom(tx, at[t]) = Min(T)
  BY <1>3 DEF EndFrom
<1>6. ASSUME NEW i \in N
      PROVE  \E k \in 1..n : Ends(n, terminated, k) /\ i = at[k] /\ t + 1 <= k /\ b <= i
  <2>1. i \in 1..Len(tx) /\ i > a /\ tx[i] = Newline
    BY <1>3
  <2>2. PICK k \in 1..n : Ends(n, terminated, k) /\ i = at[k]
    BY <1>1, <2>1, NewlinesAre
  <2>3. t + 1 <= k
    <3>1. SUFFICES ASSUME k <= t PROVE FALSE
      BY <1>2
    <3>2. t \in 1..n /\ k \in 0..t
      BY <1>2, <3>1
    <3>3. at[k] <= at[t]
      BY <1>1, <3>2 DEF Layout
    <3>4. QED
      BY <1>3, <2>1, <2>2, <3>3
  <2>4. t + 1 \in 0..k
    BY <1>2, <2>3
  <2>5. at[t + 1] <= at[k]
    BY <1>1, <2>4 DEF Layout
  <2>6. QED
    BY <1>3, <2>2, <2>3, <2>5
<1>7. CASE Ends(n, terminated, t + 1)
  <2>1. tx[b] = Newline
    BY <1>1, <1>2, <1>3, <1>7 DEF Layout
  <2>2. b \in T
    BY <1>3, <1>4, <2>1
  <2>3. \A y \in T : b <= y
    BY <1>3, <1>4, <1>6
  <2> HIDE DEF N, T
  <2>4. Min(T) = b
    BY <1>5, <2>2, <2>3, MinIs
  <2>5. QED
    BY <1>1, <1>3, <1>5, <1>7, <2>4
<1>8. CASE ~Ends(n, terminated, t + 1)
  <2>1. t + 1 = n /\ ~terminated
    <3>1. ~(t + 1 < n) /\ ~terminated
      BY <1>8 DEF Ends
    <3>2. QED
      BY <1>2, <3>1
  <2>2. N = {}
    <3>1. SUFFICES ASSUME NEW i \in N PROVE FALSE
      OBVIOUS
    <3> HIDE DEF N
    <3>2. PICK k \in 1..n : Ends(n, terminated, k) /\ t + 1 <= k
      BY <1>6
    <3>3. k < n
      BY <2>1, <3>2 DEF Ends
    <3>4. QED
      BY <1>2, <2>1, <3>2, <3>3
  <2>3. l + 1 \in T /\ \A y \in T : l + 1 <= y
    BY <1>3, <2>2
  <2> HIDE DEF N, T
  <2>4. Min(T) = l + 1
    BY <1>5, <2>3, MinIs
  <2>5. QED
    BY <1>1, <1>3, <1>5, <1>8, <2>4
<1>9. QED
  BY <1>7, <1>8

(* What getline gets is the line, whether or not a newline ends it. *)
LEMMA LineIsRead ==
  ASSUME NEW table, NEW terminated, NEW tx, NEW at, Layout(table, terminated, tx, at),
         NEW t \in Nat, t < Len(table)
  PROVE  SubSeq(tx, at[t] + 1, EndFrom(tx, at[t]) - 1) = Written(table[t + 1])
<1>1. PICK n \in Nat : n = Len(table) /\ at \in [0..n -> Nat] /\ at[n] = Len(tx) /\ tx \in Seq(Tokens)
  BY DEF Layout
<1>2. t \in 0..n /\ t + 1 \in 1..n /\ t + 1 \in 0..n /\ n \in 0..n /\ n \in 1..n
  BY <1>1
<1>3. PICK a \in Nat, b \in Nat, l \in Nat : a = at[t] /\ b = at[t + 1] /\ l = Len(tx)
  BY <1>1, <1>2
<1>4. PICK u : u = Written(table[t + 1]) /\ u \in Seq(LineTokens)
  BY <1>1, <1>2 DEF Layout
<1>5. PICK w \in Nat : w = Len(u)
  BY <1>4, LenProperties
<1>6. (t + 1) - 1 = t
  BY <1>2
<1>7. /\ b = a + w + (IF Ends(n, terminated, t + 1) THEN 1 ELSE 0)
      /\ \A j \in 1..w : tx[a + j] = u[j]
  BY <1>1, <1>2, <1>3, <1>4, <1>5, <1>6 DEF Layout
<1>8. EndFrom(tx, at[t]) - 1 = a + w
  <2>1. EndFrom(tx, at[t]) = IF Ends(n, terminated, t + 1) THEN b ELSE l + 1
    BY <1>1, <1>3, EndOfLine
  <2>2. CASE Ends(n, terminated, t + 1)
    BY <1>7, <2>1, <2>2
  <2>3. CASE ~Ends(n, terminated, t + 1)
    <3>1. ~(t + 1 < n)
      BY <2>3 DEF Ends
    <3>2. t + 1 = n
      BY <1>2, <3>1
    <3>3. b = l
      BY <1>1, <1>3, <3>2
    <3>4. QED
      BY <1>3, <1>7, <2>1, <2>3, <3>3
  <2>4. QED
    BY <2>2, <2>3
<1>9. PICK m \in Int, e \in Int : m = a + 1 /\ e = a + w
  OBVIOUS
<1>10. \A i \in m..e : tx[i] \in LineTokens
  <2>1. SUFFICES ASSUME NEW i \in m..e PROVE tx[i] \in LineTokens
    OBVIOUS
  <2>2. i - a \in 1..w /\ a + (i - a) = i
    BY <1>9
  <2>3. tx[i] = u[i - a]
    BY <1>7, <2>2
  <2>4. u[i - a] \in LineTokens
    BY <1>4, <1>5, <2>2, ElementOfSeq
  <2>5. QED
    BY <2>3, <2>4
<1>11. PICK s : s = SubSeq(tx, m, e)
  OBVIOUS
<1>12. /\ s \in Seq(LineTokens) /\ Len(s) = (IF m <= e THEN e - m + 1 ELSE 0)
       /\ \A i \in 1..(e - m + 1) : s[i] = tx[m + i - 1]
  BY <1>10, <1>11, SubSeqProperties
<1>13. Len(s) = w /\ e - m + 1 = w
  BY <1>9, <1>12
<1>14. \A i \in 1..w : s[i] = u[i]
  <2>1. SUFFICES ASSUME NEW i \in 1..w PROVE s[i] = u[i]
    OBVIOUS
  <2>2. m + i - 1 = a + i
    BY <1>9
  <2>3. QED
    BY <1>7, <1>12, <1>13, <2>2
<1>15. s = u
  BY <1>4, <1>5, <1>12, <1>13, <1>14, SeqEqual
<1>16. QED
  BY <1>3, <1>4, <1>8, <1>9, <1>11, <1>15

(***************************************************************************)
(* Counting the lines                                                      *)
(***************************************************************************)

(* The ends of lines 1 to m are as many as those lines. *)
LEMMA EndsAreMany ==
  ASSUME NEW m \in Nat, NEW at, \A k \in 1..m : at[k] \in Nat,
         \A i, k \in 1..m : i < k => at[i] < at[k]
  PROVE  Cardinality({at[k] : k \in 1..m}) = m
<1> DEFINE E == {at[k] : k \in 1..m}
           f == [k \in 1..m |-> at[k]]
<1>1. f \in Bijection(1..m, E)
  <2>1. f \in [1..m -> E]
    OBVIOUS
  <2>2. ASSUME NEW i \in 1..m, NEW k \in 1..m, f[i] = f[k] PROVE i = k
    <3>1. at[i] = at[k] /\ at[i] \in Nat
      BY <2>2
    <3>2. ~(i < k) /\ ~(k < i)
      BY <3>1
    <3>3. QED
      BY <3>2
  <2>3. f \in Injection(1..m, E)
    BY <2>1, <2>2 DEF Injection, IsInjective
  <2>4. \A e \in E : \E k \in 1..m : f[k] = e
    OBVIOUS
  <2>5. f \in Surjection(1..m, E)
    BY <2>1, <2>4 DEF Surjection
  <2>6. QED
    BY <2>3, <2>5 DEF Bijection
<1> HIDE DEF E, f
<1>2. ExistsBijection(1..m, E)
  BY <1>1 DEF ExistsBijection
<1>3. IsFiniteSet(1..m) /\ Cardinality(1..m) = m
  <2>1. Cardinality(1..m) = IF 1 > m THEN 0 ELSE m - 1 + 1
    BY FS_Interval
  <2>2. QED
    BY <2>1, FS_Interval
<1>4. QED
  BY <1>2, <1>3, FS_Bijection DEF E

LEMMA LastNewline ==
  ASSUME NEW table, NEW terminated, NEW tx, NEW at, Layout(table, terminated, tx, at),
         Len(table) > 0
  PROVE  Last(tx) = Newline <=> terminated
<1>1. PICK n \in Nat : /\ n = Len(table) /\ at \in [0..n -> Nat] /\ at[0] = 0 /\ at[n] = Len(tx)
                       /\ tx \in Seq(Tokens) /\ terminated \in BOOLEAN
  BY DEF Layout
<1>2. PICK l \in Nat : l = Len(tx)
  BY <1>1, LenProperties
<1>3. 0 \in 0..n /\ n \in 0..n /\ n \in 1..n /\ 0 < n
  BY <1>1
<1>4. l \in 1..l /\ at[n] = l
  <2>1. at[0] < at[n]
    BY <1>1, <1>3, PlacesIncrease
  <2>2. QED
    BY <1>1, <1>2, <2>1
<1>5. Last(tx) = tx[l]
  BY <1>2 DEF Last
<1>6. terminated => Last(tx) = Newline
  BY <1>1, <1>2, <1>3, <1>4, <1>5, NewlinesAre DEF Ends
<1>7. ASSUME Last(tx) = Newline PROVE terminated
  <2>3. l \in 1..Len(tx) /\ tx[l] = Newline
    BY <1>2, <1>4, <1>5, <1>7
  <2>1. PICK k \in 1..n : Ends(n, terminated, k) /\ l = at[k]
    BY <1>1, <2>3, NewlinesAre
  <2>2. ~(k < n)
    <3>1. SUFFICES ASSUME k < n PROVE FALSE
      OBVIOUS
    <3>2. k \in 0..n
      BY <2>1
    <3>3. at[k] < at[n] /\ at[k] \in Nat
      BY <1>1, <1>3, <3>1, <3>2, PlacesIncrease
    <3>4. QED
      BY <1>2, <1>4, <2>1, <3>3
  <2>4. QED
    BY <2>1, <2>2 DEF Ends
<1>8. QED
  BY <1>6, <1>7

LEMMA LinesAreCounted ==
  ASSUME NEW table, NEW terminated, NEW tx, NEW at, Layout(table, terminated, tx, at)
  PROVE  Cardinality({i \in 1..Len(tx) : tx[i] = Newline})
           + (IF tx # <<>> /\ Last(tx) # Newline THEN 1 ELSE 0) = Len(table)
<1>1. PICK n \in Nat : /\ n = Len(table) /\ at \in [0..n -> Nat] /\ at[0] = 0 /\ at[n] = Len(tx)
                       /\ tx \in Seq(Tokens) /\ terminated \in BOOLEAN
  BY DEF Layout
<1>2. PICK l \in Nat : l = Len(tx)
  BY <1>1, LenProperties
<1> DEFINE N == {i \in 1..Len(tx) : tx[i] = Newline}
<1>3. PICK m \in Nat : m = IF n > 0 /\ ~terminated THEN n - 1 ELSE n
  OBVIOUS
<1>4. \A k \in 1..n : Ends(n, terminated, k) <=> k <= m
  BY <1>1, <1>3 DEF Ends
<1>5. ASSUME NEW k \in 1..n PROVE at[k] \in 1..l
  <2>1. 0 \in 0..n /\ k \in 0..n /\ n \in 1..n /\ 0 < k
    BY <1>1
  <2>2. at[0] < at[k] /\ at[k] \in Nat
    BY <1>1, <2>1, PlacesIncrease
  <2>3. at[k] <= at[n]
    BY <1>1, <2>1 DEF Layout
  <2>4. QED
    BY <1>1, <1>2, <2>2, <2>3
<1>6. N = {at[k] : k \in 1..m}
  <2>1. ASSUME NEW i \in N PROVE \E k \in 1..m : i = at[k]
    <3>1. PICK k \in 1..n : Ends(n, terminated, k) /\ i = at[k]
      BY <1>1, NewlinesAre
    <3>2. k \in 1..m
      BY <1>4, <3>1
    <3>3. QED
      BY <3>1, <3>2
  <2>2. ASSUME NEW k \in 1..m PROVE at[k] \in N
    <3>1. k \in 1..n /\ Ends(n, terminated, k)
      BY <1>3, <1>4
    <3>2. at[k] \in 1..Len(tx)
      BY <1>2, <1>5, <3>1
    <3>3. QED
      BY <1>1, <3>1, <3>2, NewlinesAre
  <2>3. QED
    BY <2>1, <2>2
<1>7. Cardinality(N) = m
  <2>1. \A k \in 1..m : k \in 1..n /\ k \in 0..n
    BY <1>3
  <2>2. \A k \in 1..m : at[k] \in Nat
    BY <1>1, <2>1
  <2>3. ASSUME NEW i \in 1..m, NEW k \in 1..m, i < k PROVE at[i] < at[k]
    BY <1>1, <2>1, <2>3, PlacesIncrease
  <2> HIDE DEF N
  <2>4. QED
    BY <1>6, <2>2, <2>3, EndsAreMany
<1>8. tx # <<>> <=> n > 0
  <2>1. n > 0 => l \in 1..l
    <3>1. SUFFICES ASSUME n > 0 PROVE l \in 1..l
      OBVIOUS
    <3>2. n \in 1..n
      BY <3>1
    <3>3. QED
      BY <1>1, <1>2, <1>5, <3>2
  <2>2. ~(n > 0) => l = 0
    BY <1>1, <1>2
  <2>3. tx = <<>> <=> l = 0
    BY <1>1, <1>2, EmptySeq
  <2>4. QED
    BY <2>1, <2>2, <2>3
<1>9. n > 0 => (Last(tx) = Newline <=> terminated)
  BY <1>1, LastNewline
<1> HIDE DEF N
<1>10. CASE n > 0 /\ terminated
  <2>1. tx # <<>> /\ Last(tx) = Newline /\ m = n
    BY <1>3, <1>8, <1>9, <1>10
  <2>2. QED
    BY <1>1, <1>7, <2>1 DEF N
<1>11. CASE n > 0 /\ ~terminated
  <2>1. tx # <<>> /\ Last(tx) # Newline /\ m = n - 1
    BY <1>3, <1>8, <1>9, <1>11
  <2>2. QED
    BY <1>1, <1>7, <2>1 DEF N
<1>12. CASE ~(n > 0)
  <2>1. tx = <<>> /\ m = n
    BY <1>3, <1>8, <1>12
  <2>2. QED
    BY <1>1, <1>7, <2>1 DEF N
<1>13. QED
  BY <1>10, <1>11, <1>12

(***************************************************************************)
(* The invariant                                                           *)
(***************************************************************************)

Rows == {AddRow(v) : v \in Seq(Cells)} \cup {EncryptRow(v) : v \in Seq(Cells)}

RowOf(kind, values) == IF kind = "remote" THEN EncryptRow(values) ELSE AddRow(values)

Types ==
  /\ lines \in BoundedSeq(Lines, MaxLines)
  /\ stream \in [pos : Nat, eof : BOOLEAN, fail : BOOLEAN]
  /\ taken \in 0..Len(lines)
  /\ import \in [kind : {"none", "local", "remote"}, start : Nat, announced : Nat,
                 rows : Seq(Rows),
                 status : {"none", "reading", "done", "threw", "faulted"}]

(* The stream stands behind the lines that were taken.  After a last line  *)
(* that no newline ends, and only then, getline has met the end.           *)
Placed(terminated, at) ==
  /\ Layout(lines, terminated, text, at)
  /\ stream.pos = at[taken]
  /\ (Len(lines) > 0 /\ ~terminated /\ taken = Len(lines)) => stream.eof

StreamEnds ==
  /\ stream.fail => stream.eof
  /\ stream.eof => taken = Len(lines)

(* An import has taken a line for each of its rows, and one it read last.  *)
Progress ==
  /\ import.start + Len(import.rows) <= taken
  /\ import.status = "reading" => import.start + Len(import.rows) = taken
  /\ import.kind # "remote" => import.announced = 0
  /\ import.kind = "remote" =>
       \/ import.announced = Len(lines)
       \/ import.announced = 0 /\ import.start = Len(lines)
  /\ import.status = "done" =>
       /\ import.start + Len(import.rows) = Len(lines)
       /\ import.kind = "remote" => Len(import.rows) = import.announced

RowsRead ==
  \A k \in 1..Len(import.rows) :
    /\ Problem(Without(lines[import.start + k], Empty)) = <<>>
    /\ import.rows[k] = RowOf(import.kind, Without(lines[import.start + k], Empty))

IInv ==
  /\ Types /\ StreamEnds /\ Progress /\ RowsRead /\ GoodTextsNeverFault
  /\ \E terminated, at : Placed(terminated, at)

LEMMA ValuesAre ==
  ASSUME NEW line \in Lines
  PROVE  /\ Without(Written(line), Comma) = Without(line, Empty)
         /\ Without(line, Empty) \in Seq(Cells) /\ line \in Seq(Cells)
<1>1. line \in Seq(Cells)
  BY ImportAssumption DEF Cells
<1>2. \A i \in 1..0 : line[i] # Empty
  OBVIOUS
<1>3. 0 \in 0..Len(line)
  BY <1>1, LenProperties
<1>4. Without(line, Empty) \in Seq(Cells)
  BY <1>1, <1>2, <1>3, WithoutKeepsFirst
<1>5. QED
  BY <1>1, <1>4, WrittenIs

(* What a read gets, and where it leaves the stream. *)
LEMMA NextLine ==
  ASSUME Types, StreamEnds, NEW terminated, NEW at, Placed(terminated, at)
  PROVE  /\ HasLine <=> taken < Len(lines)
         /\ HasLine <=> Good /\ taken # Len(lines)
         /\ HasLine => RawValues = Without(lines[taken + 1], Empty)
         /\ ~HasLine => RawValues = <<>>
         /\ RawValues \in Seq(Cells)
         /\ HasLine => AfterLine = [stream EXCEPT !.pos = at[taken + 1],
                                    !.eof = ~Ends(Len(lines), terminated, taken + 1)]
<1>1. PICK table, tx : table = lines /\ tx = text
  OBVIOUS
<1>2. Layout(table, terminated, tx, at)
  BY <1>1 DEF Placed
<1>3. PICK n \in Nat : /\ n = Len(table) /\ at \in [0..n -> Nat] /\ at[n] = Len(tx)
                       /\ table \in Seq(Lines) /\ tx \in Seq(Tokens)
  BY <1>2 DEF Layout
<1>4. PICK t \in 0..n : t = taken
  BY <1>1, <1>3 DEF Types
<1>5. PICK a \in Nat, l \in Nat : a = at[t] /\ l = Len(tx) /\ stream.pos = a /\ at[n] = l
  <2>1. t \in 0..n /\ n \in 0..n
    OBVIOUS
  <2>2. QED
    BY <1>3, <1>4, <2>1 DEF Placed
<1>6. HasLine <=> t < n
  <2>1. CASE t < n
    <3>1. Good
      BY <1>1, <1>3, <1>4, <2>1 DEF Good, StreamEnds
    <3>2. n \in 0..Len(table) /\ t \in 0..Len(table)
      BY <1>3
    <3>3. at[t] < at[n]
      BY <1>2, <2>1, <3>2, PlacesIncrease
    <3>4. QED
      BY <1>1, <1>5, <2>1, <3>1, <3>3 DEF HasLine
  <2>2. CASE ~(t < n)
    <3>1. t = n
      BY <2>2
    <3>2. QED
      BY <1>1, <1>5, <2>2, <3>1 DEF HasLine
  <2>3. QED
    BY <2>1, <2>2
<1>7. LineEnd = EndFrom(tx, at[t])
  BY <1>1, <1>5 DEF LineEnd, EndFrom
<1>8. ASSUME HasLine
      PROVE  /\ RawValues = Without(table[t + 1], Empty) /\ RawValues \in Seq(Cells)
             /\ AfterLine = [stream EXCEPT !.pos = at[t + 1], !.eof = ~Ends(n, terminated, t + 1)]
  <2>1. t < n /\ t + 1 \in 1..n /\ t + 1 \in 0..n /\ t \in Nat
    BY <1>6, <1>8
  <2>2. table[t + 1] \in Lines
    BY <1>3, <2>1, ElementOfSeq
  <2>3. SubSeq(tx, at[t] + 1, EndFrom(tx, at[t]) - 1) = Written(table[t + 1])
    <3>1. t < Len(table)
      BY <1>3, <2>1
    <3>2. QED
      BY <1>2, <2>1, <3>1, LineIsRead
  <2>4. RawValues = Without(Written(table[t + 1]), Comma)
    <3>1. RawValues = Without(SubSeq(text, stream.pos + 1, LineEnd - 1), Comma)
      BY <1>8 DEF RawValues
    <3>2. QED
      BY <1>1, <1>5, <1>7, <2>3, <3>1
  <2>5. RawValues = Without(table[t + 1], Empty) /\ RawValues \in Seq(Cells)
    BY <2>2, <2>4, ValuesAre
  <2>6. PICK b \in Nat, here \in BOOLEAN : b = at[t + 1] /\ here = Ends(n, terminated, t + 1)
    <3>1. at[t + 1] \in Nat
      BY <1>3, <2>1
    <3>2. Ends(n, terminated, t + 1) \in BOOLEAN
      BY <1>2 DEF Layout, Ends
    <3>3. QED
      BY <3>1, <3>2
  <2>7. LineEnd = IF here THEN b ELSE l + 1
    BY <1>2, <1>3, <1>5, <1>7, <2>1, <2>6, EndOfLine
  <2>8. b <= l /\ (~here => b = l)
    <3>1. n \in 1..n
      BY <2>1
    <3>2. b <= l
      BY <1>2, <1>3, <1>5, <2>1, <2>6, <3>1 DEF Layout
    <3>3. ~here => t + 1 = n
      <4>1. ~here => ~(t + 1 < n)
        BY <2>6 DEF Ends
      <4>2. QED
        BY <2>1, <4>1
    <3>4. QED
      BY <1>5, <2>6, <3>2, <3>3
  <2>9. Min({LineEnd, l}) = b
    <3>1. PICK e \in Nat : e = LineEnd /\ (here => e = b) /\ (~here => e = l + 1)
      BY <1>5, <2>6, <2>7
    <3>2. {e, l} \in SUBSET Nat /\ b \in {e, l} /\ \A y \in {e, l} : b <= y
      BY <2>8, <3>1
    <3>3. Min({e, l}) = b
      BY <3>2, MinIs
    <3>4. QED
      BY <3>1, <3>3
  <2>10. LineEnd > l <=> ~here
    BY <2>7, <2>8
  <2>11. AfterLine = [stream EXCEPT !.pos = Min({LineEnd, l}), !.eof = LineEnd > l]
    BY <1>1, <1>5, <1>8 DEF AfterLine
  <2>12. (LineEnd > l) = ~here
    BY <2>7, <2>10
  <2>13. QED
    BY <2>5, <2>6, <2>9, <2>11, <2>12
<1>9. ASSUME ~HasLine PROVE RawValues = <<>> /\ RawValues \in Seq(Cells)
  BY <1>9, EmptySeq DEF RawValues
<1>10. (HasLine <=> taken < Len(lines)) /\ (HasLine <=> Good /\ taken # Len(lines))
  BY <1>1, <1>3, <1>4, <1>6 DEF HasLine
<1>11. QED
  BY <1>1, <1>3, <1>4, <1>8, <1>9, <1>10

(* A read keeps to the lines. *)
LEMMA ReadKeepsPlace ==
  ASSUME Types, StreamEnds, NEW terminated, NEW at, Placed(terminated, at), Read
  PROVE  /\ lines' = lines /\ text' = text
         /\ Placed(terminated, at)' /\ StreamEnds'
         /\ stream' \in [pos : Nat, eof : BOOLEAN, fail : BOOLEAN] /\ taken' \in 0..Len(lines)
         /\ HasLine => taken' = taken + 1
         /\ ~HasLine => taken' = taken
<1>10. PICK n \in Nat : n = Len(lines) /\ at \in [0..n -> Nat] /\ terminated \in BOOLEAN
  BY DEF Placed, Layout
<1>1. PICK t \in 0..n : /\ n = Len(lines) /\ t = taken /\ at \in [0..n -> Nat]
                        /\ terminated \in BOOLEAN
  BY <1>10 DEF Types
<1>2. /\ lines' = lines /\ text' = text /\ stream' = AfterLine
      /\ taken' = taken + IF HasLine THEN 1 ELSE 0
  BY DEF Read
<1>3. Layout(lines, terminated, text, at)'
  BY <1>2 DEF Placed
<1>4. HasLine <=> t < n
  BY <1>1, NextLine
<1>5. CASE HasLine
  <2>1. t < n /\ taken' = t + 1 /\ t + 1 \in 0..n
    BY <1>1, <1>2, <1>4, <1>5
  <2>2. PICK here \in BOOLEAN : here = Ends(n, terminated, t + 1)
    <3>1. Ends(n, terminated, t + 1) \in BOOLEAN
      BY <1>1 DEF Ends
    <3>2. QED
      BY <3>1
  <2>3. stream' = [stream EXCEPT !.pos = at[t + 1], !.eof = ~here]
    <3>1. stream' = [stream EXCEPT !.pos = at[t + 1], !.eof = ~Ends(n, terminated, t + 1)]
      BY <1>1, <1>2, <1>5, NextLine
    <3>2. QED
      BY <2>2, <3>1
  <2>4. at[t + 1] \in Nat
    BY <1>1, <2>1
  <2>5. /\ stream' \in [pos : Nat, eof : BOOLEAN, fail : BOOLEAN]
        /\ stream'.pos = at[t + 1] /\ stream'.eof = ~here /\ stream'.fail = stream.fail
    BY <2>3, <2>4 DEF Types
  <2>6. ~stream.fail
    BY <1>5 DEF HasLine, Good
  <2>7. ~here => t + 1 = n
    <3>1. ~here => ~(t + 1 < n)
      BY <2>2 DEF Ends
    <3>2. QED
      BY <2>1, <3>1
  <2>8. ~terminated /\ t + 1 = n => ~here
    <3>1. ~terminated /\ ~(t + 1 < n) => ~here
      BY <2>2 DEF Ends
    <3>2. QED
      BY <3>1
  <2>9. Placed(terminated, at)'
    BY <1>1, <1>2, <1>3, <2>1, <2>5, <2>8 DEF Placed
  <2>10. StreamEnds'
    BY <1>1, <1>2, <2>1, <2>5, <2>6, <2>7 DEF StreamEnds
  <2>11. QED
    BY <1>1, <1>2, <1>5, <2>1, <2>5, <2>9, <2>10
<1>6. CASE ~HasLine
  <2>1. t = n /\ taken' = taken
    BY <1>1, <1>2, <1>4, <1>6
  <2>2. PICK e \in BOOLEAN : e = (stream.eof \/ Good)
    <3>1. (stream.eof \/ Good) \in BOOLEAN
      BY DEF Good, Types
    <3>2. QED
      BY <3>1
  <2>3. stream' = [stream EXCEPT !.fail = TRUE, !.eof = e]
    <3>1. stream' = [stream EXCEPT !.fail = TRUE, !.eof = @ \/ Good]
      BY <1>2, <1>6 DEF AfterLine
    <3>2. QED
      BY <2>2, <3>1
  <2>4. /\ stream' \in [pos : Nat, eof : BOOLEAN, fail : BOOLEAN]
        /\ stream'.pos = stream.pos /\ stream'.eof = e /\ stream'.fail
    BY <2>3 DEF Types
  <2>5. e
    BY <2>2 DEF Good, StreamEnds
  <2>6. Placed(terminated, at)'
    BY <1>1, <1>2, <1>3, <2>1, <2>4, <2>5 DEF Placed
  <2>7. StreamEnds'
    BY <1>1, <1>2, <2>1, <2>4, <2>5 DEF StreamEnds
  <2>8. QED
    BY <1>1, <1>2, <1>6, <2>1, <2>4, <2>6, <2>7
<1>7. QED
  BY <1>5, <1>6

LEMMA ColumnsAre ==
  /\ Len(Columns) \in Nat /\ Len(Columns) >= 1 /\ DOMAIN Columns = 1..Len(Columns)
  /\ \A i \in DOMAIN Columns : Columns[i] \in [signed : BOOLEAN, width : Nat \ {0}]
<1>1. PICK S : S = [signed : BOOLEAN, width : Nat \ {0}]
  OBVIOUS
<1>2. Columns \in Seq(S) /\ Columns # <<>>
  BY <1>1, ImportAssumption
<1>3. Len(Columns) \in Nat \ {0}
  BY <1>2, EmptySeq
<1>4. DOMAIN Columns = 1..Len(Columns) /\ \A i \in 1..Len(Columns) : Columns[i] \in S
  BY <1>2, LenProperties, ElementOfSeq
<1>5. QED
  BY <1>1, <1>3, <1>4

LEMMA ProblemIs ==
  ASSUME NEW values \in Seq(Cells)
  PROVE  /\ Problem(values) = <<>> <=>
              \A i \in DOMAIN Columns : i <= Len(values) /\ Fits(values[i], Columns[i])
         /\ \A i \in DOMAIN Problem(values) :
              /\ i \in DOMAIN Columns
              /\ Problem(values)[i] \in {"threw", "faulted"}
              /\ Problem(values)[i] = "faulted" => i > Len(values)
         /\ Problem(values) # <<>> => Min(DOMAIN Problem(values)) \in DOMAIN Problem(values)
<1> DEFINE D == {i \in DOMAIN Columns : i > Len(values) \/ ~Fits(values[i], Columns[i])}
           P == [i \in D |-> IF i > Len(values) THEN "faulted" ELSE "threw"]
<1>1. Problem(values) = P /\ DOMAIN P = D
  BY DEF Problem
<1>2. Len(values) \in Nat /\ \A i \in DOMAIN Columns : i \in Nat
  BY ColumnsAre, LenProperties
<1>3. P = <<>> <=> D = {}
  <2>1. P = <<>> => D = {}
    <3>1. DOMAIN <<>> = {}
      OBVIOUS
    <3>2. QED
      BY <1>1, <3>1
  <2>2. ASSUME D = {} PROVE P = <<>>
    <3>1. P \in [1..0 -> Nat]
      BY <2>2
    <3>2. P \in Seq(Nat) /\ Len(P) = 0
      BY <3>1, FunctionIsSeq
    <3>3. QED
      BY <3>2, EmptySeq
  <2>3. QED
    BY <2>1, <2>2
<1>4. D = {} <=> \A i \in DOMAIN Columns : i <= Len(values) /\ Fits(values[i], Columns[i])
  BY <1>2
<1>5. \A i \in D : /\ i \in DOMAIN Columns /\ P[i] \in {"threw", "faulted"}
                   /\ P[i] = "faulted" => i > Len(values)
  OBVIOUS
<1>6. D # {} => Min(D) \in D
  <2>1. D \in SUBSET Nat
    BY <1>2
  <2> HIDE DEF D
  <2>2. QED
    BY <2>1, MinIn
<1> HIDE DEF D, P
<1>7. QED
  BY <1>1, <1>3, <1>4, <1>5, <1>6

(* Nothing is no row. *)
LEMMA NothingIsNoRow == Problem(<<>>) # <<>>
<1>1. <<>> \in Seq(Cells) /\ Len(<<>>) = 0
  BY EmptySeq
<1>2. 1 \in DOMAIN Columns /\ ~(1 <= 0)
  BY ColumnsAre
<1>3. QED
  BY <1>1, <1>2, ProblemIs

LEMMA RowCountIs ==
  ASSUME Types, StreamEnds, NEW terminated, NEW at, Placed(terminated, at)
  PROVE  RowCount = IF stream.fail THEN 0 ELSE Len(lines)
<1>1. PICK table, tx : table = lines /\ tx = text
  OBVIOUS
<1>2. Layout(table, terminated, tx, at)
  BY <1>1 DEF Placed
<1>3. Cardinality({i \in 1..Len(tx) : tx[i] = Newline})
        + (IF tx # <<>> /\ Last(tx) # Newline THEN 1 ELSE 0) = Len(table)
  BY <1>2, LinesAreCounted
<1>4. Newlines(0) = Cardinality({i \in 1..Len(tx) : tx[i] = Newline})
  BY <1>1 DEF Newlines
<1>5. RowCount = IF stream.fail THEN 0
                 ELSE Newlines(0) + (IF tx # <<>> /\ Last(tx) # Newline THEN 1 ELSE 0)
  BY <1>1 DEF RowCount
<1>6. QED
  BY <1>1, <1>3, <1>4, <1>5

LEMMA InitIsRight == Init => IInv
<1> SUFFICES ASSUME Init PROVE IInv
  OBVIOUS
<1>1. PICK terminated, table : table = lines /\ terminated \in Endings(table) /\ text = TextOf(table, terminated)
  BY DEF Init
<1>2. table \in Seq(Lines) /\ Len(table) \in Nat
  <2>1. table \in BoundedSeq(Lines, MaxLines)
    BY <1>1 DEF Init
  <2>2. PICK m \in Nat : table \in [1..m -> Lines]
    BY <2>1, ImportAssumption DEF BoundedSeq, SeqOf
  <2>3. QED
    BY <2>2, FunctionIsSeq
<1>3. PICK at : Layout(table, terminated, TextOf(table, terminated), at)
  BY <1>1, <1>2, TextIsLaidOut
<1>4. at[0] = 0
  BY <1>3 DEF Layout
<1>5. Placed(terminated, at)
  <2>1. stream.pos = 0 /\ taken = 0
    BY DEF Init
  <2>2. Layout(lines, terminated, text, at)
    BY <1>1, <1>3
  <2>3. Len(lines) \in Nat
    BY <1>1, <1>2
  <2>4. QED
    BY <1>4, <2>1, <2>2, <2>3 DEF Placed
<1>6. /\ import.kind = "none" /\ import.start = 0 /\ import.announced = 0 /\ import.rows = <<>>
      /\ import.status = "none" /\ import = None /\ Len(import.rows) = 0
  <2>1. Len(<<>>) = 0
    BY EmptySeq
  <2>2. QED
    BY <2>1 DEF Init, None
<1>7. Types
  <2>1. <<>> \in Seq(Rows)
    BY EmptySeq
  <2>2. lines \in BoundedSeq(Lines, MaxLines)
    BY DEF Init
  <2>3. taken \in 0..Len(lines)
    BY <1>1, <1>2 DEF Init
  <2>4. QED
    BY <1>6, <2>1, <2>2, <2>3 DEF Types, Init, None
<1>8. StreamEnds /\ Progress
  BY <1>6 DEF StreamEnds, Progress, Init
<1>9. RowsRead
  <2>1. 1..0 = {}
    OBVIOUS
  <2>2. QED
    BY <1>6, <2>1 DEF RowsRead
<1>10. GoodTextsNeverFault
  BY <1>6 DEF GoodTextsNeverFault
<1>11. QED
  BY <1>5, <1>7, <1>8, <1>9, <1>10 DEF IInv

(* A row more. *)
LEMMA RowIsAdded ==
  ASSUME IInv, NEW kind, Reading(kind), Read, Problem(RawValues) = <<>>,
         import' = [import EXCEPT !.rows = Append(@, RowOf(kind, RawValues))]
  PROVE  IInv'
<1>1. PICK terminated, at : Placed(terminated, at)
  BY DEF IInv
<1>2. Types /\ StreamEnds /\ Progress /\ RowsRead
  BY DEF IInv
<1>3. /\ lines' = lines /\ text' = text /\ Placed(terminated, at)' /\ StreamEnds'
      /\ stream' \in [pos : Nat, eof : BOOLEAN, fail : BOOLEAN] /\ taken' \in 0..Len(lines)
  BY <1>1, <1>2, ReadKeepsPlace
<1>4. HasLine
  <2>1. ~HasLine => RawValues = <<>>
    BY <1>1, <1>2, NextLine
  <2>2. QED
    BY <2>1, NothingIsNoRow
<1>5. RawValues = Without(lines[taken + 1], Empty) /\ RawValues \in Seq(Cells) /\ taken' = taken + 1
  BY <1>1, <1>2, <1>4, NextLine, ReadKeepsPlace
<1>6. PICK s, row : s = import.rows /\ row = RowOf(kind, RawValues) /\ s \in Seq(Rows) /\ row \in Rows
  <2>1. import.rows \in Seq(Rows)
    BY <1>2 DEF Types
  <2>2. RowOf(kind, RawValues) \in Rows
    BY <1>5 DEF RowOf, Rows
  <2>3. QED
    BY <2>1, <2>2
<1>7. /\ Append(s, row) \in Seq(Rows) /\ Len(s) \in Nat /\ Len(Append(s, row)) = Len(s) + 1
      /\ Append(s, row)[Len(s) + 1] = row
      /\ \A i \in 1..Len(s) : Append(s, row)[i] = s[i]
  BY <1>6, AppendIs
<1>8. import' = [import EXCEPT !.rows = Append(s, row)]
  BY <1>6
<1>9. /\ import'.rows = Append(s, row) /\ import'.kind = kind /\ import.kind = kind
      /\ import'.start = import.start /\ import'.announced = import.announced
      /\ import'.status = "reading" /\ import.status = "reading"
  BY <1>2, <1>8 DEF Types, Reading
<1>10. import.start \in Nat /\ taken \in Nat /\ import.start + Len(s) = taken
  BY <1>2, <1>6, <1>9 DEF Types, Progress
<1>11. Types'
  <2>1. import' \in [kind : {"none", "local", "remote"}, start : Nat, announced : Nat,
                     rows : Seq(Rows),
                     status : {"none", "reading", "done", "threw", "faulted"}]
    BY <1>2, <1>7, <1>8 DEF Types
  <2>2. QED
    BY <1>2, <1>3, <2>1 DEF Types
<1>12. Progress'
  <2>1. import'.start + Len(import'.rows) = taken'
    BY <1>5, <1>7, <1>9, <1>10
  <2>2. taken' \in Nat
    BY <1>5, <1>10
  <2>3. QED
    BY <1>2, <1>3, <1>9, <2>1, <2>2 DEF Progress
<1>13. RowsRead'
  <2>1. ASSUME NEW k \in 1..(Len(s) + 1)
        PROVE  /\ Problem(Without(lines[import.start + k], Empty)) = <<>>
               /\ Append(s, row)[k] = RowOf(kind, Without(lines[import.start + k], Empty))
    <3>1. CASE k = Len(s) + 1
      <4>1. import.start + k = taken + 1
        BY <1>7, <1>10, <3>1
      <4>2. QED
        BY <1>5, <1>6, <1>7, <3>1, <4>1
    <3>2. CASE k # Len(s) + 1
      <4>1. k \in 1..Len(s)
        BY <1>7, <3>2
      <4>2. QED
        BY <1>2, <1>6, <1>7, <1>9, <4>1 DEF RowsRead
    <3>3. QED
      BY <3>1, <3>2
  <2>2. QED
    BY <1>3, <1>7, <1>9, <2>1 DEF RowsRead
<1>14. GoodTextsNeverFault'
  BY <1>9 DEF GoodTextsNeverFault
<1>15. QED
  BY <1>3, <1>11, <1>12, <1>13, <1>14 DEF IInv

(* Only texts that are not good fault. *)
LEMMA ImportStops ==
  ASSUME IInv, NEW kind, Reading(kind), Read, NEW s \in {"threw", "faulted"},
         import' = [import EXCEPT !.status = s],
         s = "faulted" => \E i \in DOMAIN Columns : i > Len(RawValues),
         kind \in {"local", "remote"},
         kind = "local" => Good,
         kind = "remote" => Len(import.rows) < import.announced
  PROVE  IInv'
<1>1. PICK terminated, at : Placed(terminated, at)
  BY DEF IInv
<1>2. Types /\ StreamEnds /\ Progress /\ RowsRead
  BY DEF IInv
<1>3. /\ lines' = lines /\ text' = text /\ Placed(terminated, at)' /\ StreamEnds'
      /\ stream' \in [pos : Nat, eof : BOOLEAN, fail : BOOLEAN] /\ taken' \in 0..Len(lines)
      /\ taken' = taken \/ taken' = taken + 1
  BY <1>1, <1>2, ReadKeepsPlace
<1>4. /\ import'.rows = import.rows /\ import'.kind = kind /\ import.kind = kind
      /\ import'.start = import.start /\ import'.announced = import.announced
      /\ import'.status = s /\ import.status = "reading"
  BY <1>2 DEF Types, Reading
<1>5. PICK n \in Nat, c \in Nat, b \in Nat, t \in Nat :
        n = Len(lines) /\ c = Len(import.rows) /\ b = import.start /\ t = taken
  <2>1. import.rows \in Seq(Rows)
    BY <1>2 DEF Types
  <2>2. Len(import.rows) \in Nat
    BY <2>1, LenProperties
  <2>3. Len(lines) \in Nat
    BY <1>1 DEF Placed, Layout
  <2>4. QED
    BY <1>2, <2>2, <2>3 DEF Types
<1>6. b + c = t /\ t <= n
  BY <1>2, <1>4, <1>5 DEF Progress, Types
<1>7. Types'
  BY <1>2, <1>3 DEF Types
<1>8. Progress'
  <2>1. b + c <= taken'
    BY <1>3, <1>5, <1>6
  <2>2. QED
    BY <1>2, <1>3, <1>4, <1>5, <2>1 DEF Progress
<1>9. RowsRead'
  BY <1>2, <1>3, <1>4 DEF RowsRead
<1>10. GoodTextsNeverFault'
  <2>1. SUFFICES ASSUME s = "faulted", b = 0,
                        \A k \in DOMAIN lines : Filled(lines[k]),
                        kind = "local" => (lines # <<>> /\ Last(text) # Newline)
                 PROVE  FALSE
    BY <1>3, <1>4, <1>5 DEF GoodTextsNeverFault, Filled
  <2>2. t < n
    <3>1. CASE kind = "remote"
      <4>1. import.announced = n \/ (import.announced = 0 /\ b = n)
        BY <1>2, <1>4, <1>5, <3>1 DEF Progress
      <4>2. c < import.announced
        BY <1>5, <3>1
      <4>3. QED
        BY <1>5, <1>6, <2>1, <4>1, <4>2
    <3>2. CASE kind = "local"
      <4>1. PICK table, tx : table = lines /\ tx = text
        OBVIOUS
      <4>2. Layout(table, terminated, tx, at)
        BY <1>1, <4>1 DEF Placed
      <4>3. n > 0
        <5>1. table \in Seq(Lines) /\ table # <<>>
          BY <2>1, <3>2, <4>1, <4>2 DEF Layout
        <5>2. QED
          BY <1>5, <4>1, <5>1, EmptySeq
      <4>4. ~terminated
        <5>1. Len(table) > 0
          BY <1>5, <4>1, <4>3
        <5>2. QED
          BY <2>1, <3>2, <4>1, <4>2, <5>1, LastNewline
      <4>5. ~stream.eof
        BY <3>2 DEF Good
      <4>6. t # n
        BY <1>1, <1>5, <4>3, <4>4, <4>5 DEF Placed
      <4>7. QED
        BY <1>6, <4>6
    <3>3. QED
      BY <3>1, <3>2
  <2>3. RawValues = Without(lines[t + 1], Empty)
    BY <1>1, <1>2, <1>5, <2>2, NextLine
  <2>4. PICK line : line = lines[t + 1] /\ line \in Lines /\ Filled(line)
    <3>1. lines \in Seq(Lines)
      BY <1>1 DEF Placed, Layout
    <3>2. t + 1 \in 1..Len(lines)
      BY <1>5, <2>2
    <3>3. lines[t + 1] \in Lines /\ t + 1 \in DOMAIN lines
      BY <3>1, <3>2, ElementOfSeq, LenProperties
    <3>4. QED
      BY <2>1, <3>3
  <2>5. line \in Seq(Cells) /\ Len(line) \in Nat
    BY <2>4, ValuesAre, LenProperties
  <2>6. PICK m \in Nat : m = Len(Columns) /\ m >= 1 /\ DOMAIN Columns = 1..m
    BY ColumnsAre
  <2>7. \A i \in 1..m : i <= Len(line) /\ line[i] # Empty
    BY <2>4, <2>6 DEF Filled
  <2>8. m \in 0..Len(line)
    <3>1. m \in 1..m
      BY <2>6
    <3>2. QED
      BY <2>5, <2>7, <3>1
  <2>9. Len(Without(line, Empty)) >= m /\ Without(line, Empty) \in Seq(Cells)
    BY <2>5, <2>7, <2>8, WithoutKeepsFirst
  <2>10. Len(Without(line, Empty)) \in Nat
    BY <2>9, LenProperties
  <2>11. PICK i \in 1..m : i > Len(Without(line, Empty))
    BY <2>1, <2>3, <2>4, <2>6
  <2>12. QED
    BY <2>9, <2>10, <2>11
<1>11. QED
  BY <1>3, <1>7, <1>8, <1>9, <1>10 DEF IInv

LEMMA NothingHappens == IInv /\ UNCHANGED vars => IInv'
<1> SUFFICES ASSUME IInv, UNCHANGED vars PROVE IInv'
  OBVIOUS
<1>1. lines' = lines /\ text' = text /\ stream' = stream /\ taken' = taken /\ import' = import
  BY DEF vars
<1>2. PICK terminated, at : Placed(terminated, at)
  BY DEF IInv
<1>3. Placed(terminated, at)'
  BY <1>1, <1>2 DEF Placed
<1>4. Types' /\ StreamEnds' /\ Progress' /\ RowsRead' /\ GoodTextsNeverFault'
  BY <1>1 DEF IInv, Types, StreamEnds, Progress, RowsRead, GoodTextsNeverFault, Filled
<1>5. QED
  BY <1>3, <1>4 DEF IInv

LEMMA ReadRowIsRight == IInv /\ ReadRow => IInv'
<1> SUFFICES ASSUME IInv, ReadRow PROVE IInv'
  OBVIOUS
<1>1. PICK terminated, at : Placed(terminated, at)
  BY DEF IInv
<1>2. Types /\ StreamEnds /\ Progress /\ RowsRead /\ Idle /\ Read /\ import' = import
  BY DEF IInv, ReadRow
<1>3. /\ lines' = lines /\ text' = text /\ Placed(terminated, at)' /\ StreamEnds'
      /\ stream' \in [pos : Nat, eof : BOOLEAN, fail : BOOLEAN] /\ taken' \in 0..Len(lines)
      /\ taken' = taken \/ taken' = taken + 1
  BY <1>1, <1>2, ReadKeepsPlace
<1>4. Types'
  BY <1>2, <1>3 DEF Types
<1>5. Progress'
  <2>1. import.rows \in Seq(Rows) /\ import.start \in Nat
    BY <1>2 DEF Types
  <2>2. PICK c \in Nat, b \in Nat, t \in Nat : c = Len(import.rows) /\ b = import.start /\ t = taken
    BY <1>1, <1>2, <2>1, LenProperties DEF Types, Placed, Layout
  <2>3. b + c <= t
    BY <1>2, <2>2 DEF Progress
  <2>4. b + c <= taken'
    BY <1>3, <2>2, <2>3
  <2>5. import.status # "reading"
    BY <1>2 DEF Idle
  <2>6. QED
    BY <1>2, <1>3, <2>2, <2>4, <2>5 DEF Progress
<1>6. RowsRead'
  BY <1>2, <1>3 DEF RowsRead
<1>7. GoodTextsNeverFault'
  BY <1>2 DEF GoodTextsNeverFault, Idle
<1>8. QED
  BY <1>3, <1>4, <1>5, <1>6, <1>7 DEF IInv

LEMMA BeginIsRight ==
  ASSUME IInv, NEW kind \in {"local", "remote"}, NEW count \in Nat, Begin(kind, count),
         kind = "local" => count = 0,
         kind = "remote" => count = RowCount
  PROVE  IInv'
<1>1. PICK terminated, at : Placed(terminated, at)
  BY DEF IInv
<1>2. Types /\ StreamEnds
  BY DEF IInv
<1>3. /\ lines' = lines /\ text' = text /\ stream' = stream /\ taken' = taken
      /\ import' = [kind |-> kind, start |-> taken, announced |-> count, rows |-> <<>>,
                    status |-> "reading"]
  BY DEF Begin
<1>4. Placed(terminated, at)' /\ StreamEnds'
  BY <1>1, <1>2, <1>3 DEF Placed, StreamEnds
<1>5. <<>> \in Seq(Rows) /\ Len(<<>>) = 0
  BY EmptySeq
<1>6. Len(lines) \in Nat /\ taken \in Nat
  BY <1>1, <1>2 DEF Placed, Layout, Types
<1>7. Types'
  BY <1>2, <1>3, <1>5, <1>6 DEF Types
<1>8. Progress'
  <2>1. kind = "remote" => count = Len(lines) \/ (count = 0 /\ taken = Len(lines))
    BY <1>1, <1>2, RowCountIs DEF StreamEnds
  <2>2. taken + Len(<<>>) = taken
    BY <1>5, <1>6
  <2>3. QED
    BY <1>3, <1>6, <2>1, <2>2 DEF Progress
<1>9. RowsRead'
  <2>1. 1..Len(<<>>) = {}
    BY <1>5
  <2>2. QED
    BY <1>3, <2>1 DEF RowsRead
<1>10. GoodTextsNeverFault'
  BY <1>3 DEF GoodTextsNeverFault
<1>11. QED
  BY <1>4, <1>7, <1>8, <1>9, <1>10 DEF IInv

LEMMA EndIsRight ==
  ASSUME IInv, import.status = "reading", import' = [import EXCEPT !.status = "done"],
         UNCHANGED <<lines, text, stream, taken>>,
         import.kind = "remote" => Len(import.rows) = import.announced,
         import.kind # "remote" => ~Good
  PROVE  IInv'
<1>1. PICK terminated, at : Placed(terminated, at)
  BY DEF IInv
<1>2. Types /\ StreamEnds /\ Progress /\ RowsRead
  BY DEF IInv
<1>3. /\ import'.rows = import.rows /\ import'.kind = import.kind
      /\ import'.start = import.start /\ import'.announced = import.announced
      /\ import'.status = "done"
  BY <1>2 DEF Types
<1>4. Placed(terminated, at)' /\ StreamEnds' /\ RowsRead'
  BY <1>1, <1>2, <1>3 DEF Placed, StreamEnds, RowsRead
<1>5. Types'
  BY <1>2 DEF Types
<1>6. PICK n \in Nat, c \in Nat, b \in Nat, t \in Nat :
        n = Len(lines) /\ c = Len(import.rows) /\ b = import.start /\ t = taken
  <2>1. import.rows \in Seq(Rows)
    BY <1>2 DEF Types
  <2>2. Len(import.rows) \in Nat
    BY <2>1, LenProperties
  <2>3. Len(lines) \in Nat
    BY <1>1 DEF Placed, Layout
  <2>4. QED
    BY <1>2, <2>2, <2>3 DEF Types
<1>7. b + c = t /\ t <= n
  BY <1>2, <1>6 DEF Progress, Types
<1>8. b + c = n
  <2>1. CASE import.kind = "remote"
    <3>1. import.announced = n \/ (import.announced = 0 /\ b = n)
      BY <1>2, <1>6, <2>1 DEF Progress
    <3>2. QED
      BY <1>6, <1>7, <2>1, <3>1
  <2>2. CASE import.kind # "remote"
    <3>1. stream.eof
      BY <1>2, <2>2 DEF Good, StreamEnds
    <3>2. QED
      BY <1>2, <1>6, <1>7, <3>1 DEF StreamEnds
  <2>3. QED
    BY <2>1, <2>2
<1>9. Progress'
  BY <1>2, <1>3, <1>6, <1>7, <1>8 DEF Progress
<1>10. GoodTextsNeverFault'
  BY <1>3 DEF GoodTextsNeverFault
<1>11. QED
  BY <1>4, <1>5, <1>9, <1>10 DEF IInv

LEMMA NextIsRight == IInv /\ [Next]_vars => IInv'
<1> SUFFICES ASSUME IInv, [Next]_vars PROVE IInv'
  OBVIOUS
<1>0. PICK terminated, at : Placed(terminated, at)
  BY DEF IInv
<1>1. Types /\ StreamEnds /\ RawValues \in Seq(Cells)
  BY <1>0, NextLine DEF IInv
<1>2. CASE ReadRow
  BY <1>2, ReadRowIsRight
<1>3. CASE RemoteImport
  <2>1. RowCount = IF stream.fail THEN 0 ELSE Len(lines)
    BY <1>0, <1>1, RowCountIs
  <2>3. Len(lines) \in Nat /\ RowCount \in Nat
    BY <1>0, <2>1 DEF Placed, Layout
  <2>2. QED
    BY <1>3, <2>3, BeginIsRight DEF RemoteImport
<1>4. CASE UploadRow
  <2>1. Reading("remote") /\ Len(import.rows) < import.announced /\ Read
    BY <1>4 DEF UploadRow
  <2>2. CASE Problem(RawValues) = <<>>
    <3>1. import' = [import EXCEPT !.rows = Append(@, EncryptRow(RawValues))]
      BY <1>4, <2>2 DEF UploadRow
    <3>2. import' = [import EXCEPT !.rows = Append(@, RowOf("remote", RawValues))]
      BY <3>1 DEF RowOf
    <3>3. QED
      BY <2>1, <2>2, <3>2, RowIsAdded
  <2>3. CASE Problem(RawValues) # <<>>
    <3>1. PICK i : i = Min(DOMAIN Problem(RawValues))
      OBVIOUS
    <3>2. import' = [import EXCEPT !.status = Problem(RawValues)[i]]
      BY <1>4, <2>3, <3>1 DEF UploadRow
    <3>3. i \in DOMAIN Problem(RawValues)
      BY <1>1, <2>3, <3>1, ProblemIs
    <3>4. PICK s \in {"threw", "faulted"} :
            /\ s = Problem(RawValues)[i]
            /\ s = "faulted" => \E j \in DOMAIN Columns : j > Len(RawValues)
      BY <1>1, <3>3, ProblemIs
    <3>5. QED
      BY <2>1, <3>2, <3>4, ImportStops
  <2>4. QED
    BY <2>2, <2>3
<1>5. CASE UploadEnds
  BY <1>5, EndIsRight DEF UploadEnds, Reading
<1>6. CASE LocalImport
  BY <1>6, BeginIsRight DEF LocalImport
<1>7. CASE LocalRow
  <2>1. Reading("local") /\ Good /\ Read
    BY <1>7 DEF LocalRow
  <2>2. CASE /\ Problem(RawValues) = <<>>
             /\ import' = [import EXCEPT !.rows = Append(@, AddRow(RawValues))]
    <3>1. import' = [import EXCEPT !.rows = Append(@, RowOf("local", RawValues))]
      BY <2>2 DEF RowOf
    <3>2. QED
      BY <2>1, <2>2, <3>1, RowIsAdded
  <2>3. ASSUME NEW i \in DOMAIN Problem(RawValues),
               import' = [import EXCEPT !.status = Problem(RawValues)[i]]
        PROVE  IInv'
    <3>1. PICK s \in {"threw", "faulted"} :
            /\ s = Problem(RawValues)[i]
            /\ s = "faulted" => \E j \in DOMAIN Columns : j > Len(RawValues)
      BY <1>1, ProblemIs
    <3>2. QED
      BY <2>1, <2>3, <3>1, ImportStops
  <2>4. QED
    BY <1>7, <2>2, <2>3 DEF LocalRow
<1>8. CASE LocalEnds
  BY <1>8, EndIsRight DEF LocalEnds, Reading
<1>9. CASE Over \/ UNCHANGED vars
  BY <1>9, NothingHappens DEF Over
<1>10. QED
  BY <1>2, <1>3, <1>4, <1>5, <1>6, <1>7, <1>8, <1>9 DEF Next

LEMMA Invariant == Spec => []IInv
<1>1. Init => IInv
  BY InitIsRight
<1>2. IInv /\ [Next]_vars => IInv'
  BY NextIsRight
<1>3. QED
  BY <1>1, <1>2, PTL DEF Spec

(***************************************************************************)
(* Values and their bits                                                   *)
(***************************************************************************)

Powers(f, n) == f = [i \in 0..n |-> IF i = 0 THEN 1 ELSE 2 * f[i - 1]]

LEMMA PowersExist == \A n \in Nat : \E f : Powers(f, n)
<1> DEFINE T == {n \in Nat : \E f : Powers(f, n)}
<1>1. 0 \in T
  <2>1. Powers([i \in 0..0 |-> 1], 0)
    BY DEF Powers
  <2>2. QED
    BY <2>1
<1>2. ASSUME NEW n \in Nat, n \in T PROVE n + 1 \in T
  <2>1. PICK f : Powers(f, n)
    BY <1>2
  <2>2. PICK g : g = [i \in 0..(n + 1) |-> IF i <= n THEN f[i] ELSE 2 * f[n]]
    OBVIOUS
  <2>3. \A i \in 0..n : f[i] = IF i = 0 THEN 1 ELSE 2 * f[i - 1]
    BY <2>1 DEF Powers
  <2>4. ASSUME NEW i \in 0..(n + 1) PROVE g[i] = IF i = 0 THEN 1 ELSE 2 * g[i - 1]
    <3>1. CASE i = 0
      BY <2>2, <2>3, <3>1
    <3>2. CASE i \in 1..n
      <4>1. i - 1 \in 0..n /\ i \in 0..n /\ i - 1 \in 0..(n + 1)
        BY <3>2
      <4>2. g[i] = f[i] /\ g[i - 1] = f[i - 1]
        BY <2>2, <4>1
      <4>3. QED
        BY <2>3, <3>2, <4>1, <4>2
    <3>3. CASE i = n + 1
      <4>1. i - 1 = n /\ ~(i <= n) /\ n \in 0..(n + 1) /\ i # 0
        BY <3>3
      <4>2. g[i] = 2 * f[n] /\ g[n] = f[n]
        BY <2>2, <4>1
      <4>3. QED
        BY <4>1, <4>2
    <3>4. QED
      BY <3>1, <3>2, <3>3
  <2>5. g = [i \in 0..(n + 1) |-> IF i = 0 THEN 1 ELSE 2 * g[i - 1]]
    BY <2>2, <2>4
  <2>6. Powers(g, n + 1)
    BY <2>5 DEF Powers
  <2>7. QED
    BY <2>6
<1> HIDE DEF T
<1>3. Nat \subseteq T
  BY <1>1, <1>2, SetInduction
<1>4. QED
  BY <1>3 DEF T

LEMMA PowersAgree ==
  ASSUME NEW m \in Nat, NEW n \in Nat, m <= n, NEW f, Powers(f, m), NEW g, Powers(g, n)
  PROVE  \A i \in 0..m : f[i] = g[i] /\ f[i] \in Nat \ {0}
<1> DEFINE T == {i \in Nat : i <= m => f[i] = g[i] /\ f[i] \in Nat \ {0}}
<1>1. /\ \A i \in 0..m : f[i] = IF i = 0 THEN 1 ELSE 2 * f[i - 1]
      /\ \A i \in 0..m : g[i] = IF i = 0 THEN 1 ELSE 2 * g[i - 1]
  BY DEF Powers
<1>2. 0 \in T
  BY <1>1
<1>3. ASSUME NEW i \in Nat, i \in T PROVE i + 1 \in T
  <2>1. SUFFICES ASSUME i + 1 <= m PROVE f[i + 1] = g[i + 1] /\ f[i + 1] \in Nat \ {0}
    OBVIOUS
  <2>2. i + 1 \in 0..m /\ i + 1 # 0 /\ (i + 1) - 1 = i /\ i <= m
    BY <2>1
  <2>3. f[i + 1] = 2 * f[i] /\ g[i + 1] = 2 * g[i]
    BY <1>1, <2>2
  <2>4. f[i] = g[i] /\ f[i] \in Nat \ {0}
    BY <1>3, <2>2
  <2>5. QED
    BY <2>3, <2>4
<1> HIDE DEF T
<1>4. Nat \subseteq T
  BY <1>2, <1>3, SetInduction
<1>5. QED
  BY <1>4 DEF T

LEMMA PowerIs ==
  /\ Power(0) = 1
  /\ \A n \in Nat : Power(n) \in Nat \ {0} /\ Power(n + 1) = 2 * Power(n)
<1>1. ASSUME NEW n \in Nat PROVE \E f : Powers(f, n) /\ Power(n) = f[n]
  <2> DEFINE f == CHOOSE p : p = [i \in 0..n |-> IF i = 0 THEN 1 ELSE 2 * p[i - 1]]
  <2>1. \E p : p = [i \in 0..n |-> IF i = 0 THEN 1 ELSE 2 * p[i - 1]]
    BY PowersExist DEF Powers
  <2>2. f = [i \in 0..n |-> IF i = 0 THEN 1 ELSE 2 * f[i - 1]]
    BY <2>1
  <2>3. Power(n) = f[n]
    BY DEF Power
  <2> HIDE DEF f
  <2>4. QED
    BY <2>2, <2>3 DEF Powers
<1>2. Power(0) = 1
  <2>1. PICK f : Powers(f, 0) /\ Power(0) = f[0]
    BY <1>1
  <2>2. QED
    BY <2>1 DEF Powers
<1>3. ASSUME NEW n \in Nat PROVE Power(n) \in Nat \ {0} /\ Power(n + 1) = 2 * Power(n)
  <2>1. PICK f : Powers(f, n) /\ Power(n) = f[n]
    BY <1>1
  <2>2. n + 1 \in Nat
    OBVIOUS
  <2>3. PICK g : Powers(g, n + 1) /\ Power(n + 1) = g[n + 1]
    BY <1>1, <2>2
  <2>4. f[n] = g[n] /\ f[n] \in Nat \ {0}
    BY <2>1, <2>2, <2>3, PowersAgree
  <2>5. g[n + 1] = 2 * g[n]
    <3>1. n + 1 \in 0..(n + 1) /\ n + 1 # 0 /\ (n + 1) - 1 = n
      OBVIOUS
    <3>2. QED
      BY <2>3, <3>1 DEF Powers
  <2>6. QED
    BY <2>1, <2>3, <2>4, <2>5
<1>4. QED
  BY <1>2, <1>3

(* The next bit of an integer, of either sign. *)
LEMMA HalfIs ==
  ASSUME NEW v \in Int, NEW p \in Nat \ {0}, NEW d \in Nat \ {0}, d = 2 * p
  PROVE  /\ v \div p \in Int /\ v \div d \in Int /\ (v \div p) % 2 \in {0, 1}
         /\ v \div p = 2 * (v \div d) + ((v \div p) % 2)
<1>1. PICK q \in Int, x \in Int : q = v \div p /\ v = p * q + x /\ 0 <= x /\ x < p
  <2>1. v \div p \in Int /\ v % p \in 0..(p - 1) /\ v = p * (v \div p) + (v % p)
    BY DivMod
  <2>2. QED
    BY <2>1
<1>2. PICK h \in Int, e \in {0, 1} : q = 2 * h + e /\ e = q % 2
  <2>1. q \div 2 \in Int /\ q % 2 \in {0, 1} /\ q = 2 * (q \div 2) + (q % 2)
    OBVIOUS
  <2>2. QED
    BY <2>1
<1>3. d * h <= v /\ v < d * h + d
  <2>1. p * q = p * (2 * h) + p * e
    BY <1>2
  <2>2. p * (2 * h) = d * h
    OBVIOUS
  <2>3. p * e = 0 \/ p * e = p
    OBVIOUS
  <2>4. PICK y \in Int, z \in Int : y = d * h /\ z = p * e
    OBVIOUS
  <2>5. v = y + z + x
    BY <1>1, <2>1, <2>2, <2>4
  <2>6. (z = 0 \/ z = p) /\ 0 <= x /\ x < p
    BY <1>1, <2>3, <2>4
  <2>7. y <= v /\ v < y + d
    BY <2>5, <2>6
  <2>8. QED
    BY <2>4, <2>7
<1>4. v \div d = h
  BY <1>3, DivIs
<1>5. QED
  BY <1>1, <1>2, <1>4

LEMMA HalfTimes ==
  ASSUME NEW p \in Nat \ {0}, NEW d \in Nat \ {0}, d = 2 * p,
         NEW q \in Int, NEW h \in Int, NEW e \in {0, 1}, q = 2 * h + e
  PROVE  p * q = d * h + e * p
<1>1. CASE e = 0
  <2>1. q = 2 * h /\ e * p = 0
    BY <1>1
  <2>2. p * (2 * h) = (2 * p) * h
    OBVIOUS
  <2>3. QED
    BY <2>1, <2>2
<1>2. CASE e = 1
  <2>1. q = 2 * h + 1 /\ e * p = p
    BY <1>2
  <2>2. p * (2 * h + 1) = (2 * p) * h + p
    OBVIOUS
  <2>3. QED
    BY <2>1, <2>2
<1>3. QED
  BY <1>1, <1>2

SumsUp(upto, bits, w) ==
  upto = [b \in 0..w |-> IF b = 0 THEN 0 ELSE upto[b - 1] + bits[b] * Power(b - 1)]

AreBits(bits, v, w) == \A b \in 1..w : bits[b] = (v \div Power(b - 1)) % 2

(* The bits up to the b-th are what the higher ones leave of the value. *)
LEMMA BitsSumUp ==
  ASSUME NEW v \in Int, NEW w \in Nat, NEW bits,
         AreBits(bits, v, w), NEW upto, SumsUp(upto, bits, w)
  PROVE  \A b \in 0..w : upto[b] = v - Power(b) * (v \div Power(b))
<1> DEFINE T == {b \in Nat : b <= w => upto[b] = v - Power(b) * (v \div Power(b))}
<1>1. \A b \in 0..w : upto[b] = IF b = 0 THEN 0 ELSE upto[b - 1] + bits[b] * Power(b - 1)
  BY DEF SumsUp
<1>2. 0 \in T
  <2>1. upto[0] = 0 /\ Power(0) = 1
    BY <1>1, PowerIs
  <2>2. v \div 1 = v
    BY DivIs
  <2>3. QED
    BY <2>1, <2>2
<1>3. ASSUME NEW b \in Nat, b \in T PROVE b + 1 \in T
  <2>1. SUFFICES ASSUME b + 1 <= w
                 PROVE  upto[b + 1] = v - Power(b + 1) * (v \div Power(b + 1))
    OBVIOUS
  <2>2. b + 1 \in 0..w /\ b + 1 \in 1..w /\ b + 1 # 0 /\ (b + 1) - 1 = b /\ b <= w
    BY <2>1
  <2>3. PICK p \in Nat \ {0}, d \in Nat \ {0} : p = Power(b) /\ d = Power(b + 1) /\ d = 2 * p
    <3>1. Power(b) \in Nat \ {0} /\ Power(b + 1) = 2 * Power(b)
      BY PowerIs
    <3>2. QED
      BY <3>1
  <2>4. PICK q, h, e : q = v \div p /\ h = v \div d /\ e = (v \div p) % 2
    OBVIOUS
  <2>10. q \in Int /\ h \in Int /\ e \in {0, 1} /\ q = 2 * h + e
    BY <2>3, <2>4, HalfIs
  <2>5. upto[b + 1] = upto[b] + e * p
    <3>1. upto[b + 1] = upto[b] + bits[b + 1] * Power(b)
      BY <1>1, <2>2
    <3>2. bits[b + 1] = (v \div Power(b)) % 2
      BY <2>2 DEF AreBits
    <3>3. QED
      BY <2>3, <2>4, <3>1, <3>2
  <2>6. upto[b] = v - p * q
    BY <1>3, <2>2, <2>3, <2>4
  <2>7. p * q = d * h + e * p
    BY <2>3, <2>10, HalfTimes
  <2>8. upto[b + 1] = v - d * h
    <3>1. PICK x \in Int, y \in Int, z \in Int : x = p * q /\ y = d * h /\ z = e * p
      BY <2>10
    <3>2. x = y + z /\ upto[b] = v - x /\ upto[b + 1] = upto[b] + z
      BY <2>5, <2>6, <2>7, <3>1
    <3>3. upto[b + 1] = v - y
      BY <3>2
    <3>4. QED
      BY <3>1, <3>3
  <2>9. QED
    BY <2>3, <2>4, <2>8
<1> HIDE DEF T
<1>4. Nat \subseteq T
  BY <1>2, <1>3, SetInduction
<1>5. ASSUME NEW b \in 0..w PROVE upto[b] = v - Power(b) * (v \div Power(b))
  <2>1. b \in T /\ b <= w
    BY <1>4
  <2>2. QED
    BY <2>1 DEF T
<1>6. QED
  BY <1>5

(* What the server gets out of the bits of a value that fits is the value. *)
LEMMA BitsAreTheValue ==
  ASSUME NEW column \in [signed : BOOLEAN, width : Nat \ {0}], NEW v, Fits(v, column)
  PROVE  Decoded(Bits(v, column), column) = v
<1>1. PICK w \in Nat \ {0} : w = column.width
  OBVIOUS
<1>2. PICK u \in Nat : w = u + 1 /\ u = w - 1
  <2>1. w - 1 \in Nat /\ w = (w - 1) + 1
    OBVIOUS
  <2>2. QED
    BY <2>1
<1>3. PICK p \in Nat \ {0}, d \in Nat \ {0} : p = Power(u) /\ d = Power(w) /\ d = 2 * p
  BY <1>2, PowerIs
<1>4. /\ v \in Int
      /\ column.signed => -p <= v /\ v < p
      /\ ~column.signed => 0 <= v /\ v < d
  <2>1. column.signed => v \in -p..(p - 1)
    BY <1>1, <1>2, <1>3 DEF Fits
  <2>2. ~column.signed => v \in 0..(d - 1)
    BY <1>1, <1>2, <1>3 DEF Fits
  <2>3. QED
    BY <2>1, <2>2
<1>5. PICK bits : bits = Bits(v, column)
  OBVIOUS
<1>6. AreBits(bits, v, w)
  BY <1>1, <1>5 DEF Bits, AreBits
<1>7. bits[w] = (v \div p) % 2
  <2>1. w \in 1..w /\ w - 1 = u
    BY <1>2
  <2>2. QED
    BY <1>3, <1>6, <2>1 DEF AreBits
<1> DEFINE upto == CHOOSE f : f = [b \in 0..w |-> IF b = 0 THEN 0 ELSE f[b - 1] + bits[b] * Power(b - 1)]
<1>8. Decoded(bits, column)
        = upto[w] - (IF column.signed /\ bits[w] = 1 THEN d ELSE 0)
  BY <1>1, <1>3 DEF Decoded
<1>9. SumsUp(upto, bits, w)
  <2> DEFINE g == [b \in 0..w |-> v - Power(b) * (v \div Power(b))]
  <2>1. ASSUME NEW b \in 0..w PROVE g[b] = IF b = 0 THEN 0 ELSE g[b - 1] + bits[b] * Power(b - 1)
    <3>1. CASE b = 0
      <4>1. v \div 1 = v
        BY <1>4, DivIs
      <4>2. QED
        BY <1>4, <3>1, <4>1, PowerIs
    <3>2. CASE b # 0
      <4>1. PICK c \in Nat : c = b - 1 /\ b = c + 1 /\ c \in 0..w /\ b \in 1..w
        BY <3>2
      <4>2. PICK y \in Nat \ {0}, z \in Nat \ {0} : y = Power(c) /\ z = Power(b) /\ z = 2 * y
        BY <4>1, PowerIs
      <4>3. PICK q, h, e : q = v \div y /\ h = v \div z /\ e = (v \div y) % 2
        OBVIOUS
      <4>8. q \in Int /\ h \in Int /\ e \in {0, 1} /\ q = 2 * h + e
        BY <1>4, <4>2, <4>3, HalfIs
      <4>4. g[b] = v - z * h /\ g[c] = v - y * q /\ bits[b] = e
        BY <1>6, <4>1, <4>2, <4>3 DEF AreBits
      <4>5. y * q = z * h + e * y
        BY <4>2, <4>8, HalfTimes
      <4> HIDE DEF g
      <4>6. g[b] = g[c] + e * y
        <5>1. PICK i \in Int, j \in Int, k \in Int : i = y * q /\ j = z * h /\ k = e * y
          BY <4>8
        <5>2. i = j + k /\ g[b] = v - j /\ g[c] = v - i
          BY <4>4, <4>5, <5>1
        <5>3. g[b] = g[c] + k
          BY <1>4, <5>2
        <5>4. QED
          BY <5>1, <5>3
      <4>7. QED
        BY <3>2, <4>1, <4>2, <4>4, <4>6
    <3>3. QED
      BY <3>1, <3>2
  <2>2. g = [b \in 0..w |-> IF b = 0 THEN 0 ELSE g[b - 1] + bits[b] * Power(b - 1)]
    BY <2>1
  <2> HIDE DEF g
  <2>3. \E f : f = [b \in 0..w |-> IF b = 0 THEN 0 ELSE f[b - 1] + bits[b] * Power(b - 1)]
    BY <2>2
  <2>4. upto = [b \in 0..w |-> IF b = 0 THEN 0 ELSE upto[b - 1] + bits[b] * Power(b - 1)]
    BY <2>3
  <2> HIDE DEF upto
  <2>5. QED
    BY <2>4 DEF SumsUp
<1> HIDE DEF upto
<1>10. upto[w] = v - d * (v \div d)
  <2>1. w \in 0..w /\ w \in Nat
    OBVIOUS
  <2>2. \A b \in 0..w : upto[b] = v - Power(b) * (v \div Power(b))
    BY <1>4, <1>6, <1>9, <2>1, BitsSumUp
  <2>3. QED
    BY <1>3, <2>1, <2>2
<1>11. CASE 0 <= v
  <2>1. v < d /\ (column.signed => v < p)
    BY <1>3, <1>4, <1>11
  <2>2. v \div d = 0
    BY <1>4, <1>11, <2>1, DivIs
  <2>3. column.signed => v \div p = 0
    BY <1>4, <1>11, <2>1, DivIs
  <2>4. column.signed => bits[w] = 0
    BY <1>7, <2>3
  <2>5. upto[w] = v
    BY <1>4, <1>10, <2>2
  <2>6. QED
    BY <1>4, <1>5, <1>8, <2>4, <2>5
<1>12. CASE v < 0
  <2>1. column.signed /\ -p <= v
    BY <1>4, <1>12
  <2>2. -1 \in Int /\ d * (-1) <= v /\ v < d * (-1) + d /\ p * (-1) <= v /\ v < p * (-1) + p
    BY <1>3, <1>4, <1>12, <2>1
  <2>3. v \div d = -1 /\ v \div p = -1
    BY <1>4, <2>2, DivIs
  <2>4. bits[w] = 1
    BY <1>7, <2>3
  <2>5. upto[w] = v + d
    BY <1>4, <1>10, <2>3
  <2>6. QED
    BY <1>4, <1>5, <1>8, <2>1, <2>4, <2>5
<1>13. QED
  BY <1>4, <1>11, <1>12

(***************************************************************************)
(* Theorems                                                                *)
(***************************************************************************)

LEMMA TypesAreOK == IInv => TypeOK
<1> SUFFICES ASSUME IInv PROVE TypeOK
  OBVIOUS
<1>1. PICK terminated, at : Placed(terminated, at)
  BY DEF IInv
<1>2. Types /\ Progress
  BY DEF IInv
<1>3. PICK n \in Nat : /\ n = Len(lines) /\ at \in [0..n -> Nat] /\ at[n] = Len(text)
                       /\ \A k \in 1..n : \A i \in 0..k : at[i] <= at[k]
  BY <1>1 DEF Placed, Layout
<1>4. PICK t \in 0..n : t = taken /\ stream.pos = at[t]
  BY <1>1, <1>2, <1>3 DEF Types, Placed
<1>5. stream.pos \in 0..Len(text)
  <2>1. t \in 0..n /\ n \in 0..n /\ at[t] \in Nat /\ at[n] \in Nat
    BY <1>3
  <2>2. at[t] <= at[n]
    <3>1. CASE n = 0
      <4>1. t = n
        BY <3>1
      <4>2. QED
        BY <2>1, <4>1
    <3>2. CASE n # 0
      <4>1. n \in 1..n
        BY <3>2
      <4>2. QED
        BY <1>3, <4>1
    <3>3. QED
      BY <3>1, <3>2
  <2>3. QED
    BY <1>3, <1>4, <2>1, <2>2
<1>6. PICK c \in Nat, b \in Nat : c = Len(import.rows) /\ b = import.start
  <2>1. import.rows \in Seq(Rows)
    BY <1>2 DEF Types
  <2>2. Len(import.rows) \in Nat
    BY <2>1, LenProperties
  <2>3. QED
    BY <1>2, <2>2 DEF Types
<1>7. b + c <= t
  BY <1>2, <1>4, <1>6 DEF Progress
<1>8. import.start \in 0..taken /\ Len(import.rows) \in 0..(taken - import.start)
  <2>1. b \in 0..t /\ c \in 0..(t - b)
    BY <1>7
  <2>2. QED
    BY <1>4, <1>6, <2>1
<1>9. import.announced \in 0..Len(lines)
  <2>1. import.announced = n \/ import.announced = 0
    BY <1>2, <1>3 DEF Progress
  <2>2. QED
    BY <1>3, <2>1
<1>10. QED
  BY <1>2, <1>5, <1>8, <1>9 DEF TypeOK, Types

(* The state is well formed: the stream stands in the text, an import      *)
(* started where lines had been taken, and has no more rows than lines     *)
(* were taken since.                                                       *)
THEOREM TypeCorrect == Spec => []TypeOK
BY Invariant, TypesAreOK, PTL

LEMMA ImportsAreWhole == IInv => CompleteImportIsWhole
<1> SUFFICES ASSUME IInv, import.status = "done"
             PROVE  /\ import.start + Len(import.rows) = Len(lines)
                    /\ import.kind = "remote" => (import.rows = <<>> \/ import.start = 0)
  BY DEF CompleteImportIsWhole
<1>1. Types /\ Progress
  BY DEF IInv
<1>2. PICK n \in Nat : n = Len(lines)
  BY DEF IInv, Placed, Layout
<1>3. import.rows \in Seq(Rows)
  BY <1>1 DEF Types
<1>4. PICK c \in Nat, b \in Nat : c = Len(import.rows) /\ b = import.start
  BY <1>1, <1>3, LenProperties DEF Types
<1>5. b + c = n
  BY <1>1, <1>2, <1>4 DEF Progress
<1>6. ASSUME import.kind = "remote" PROVE c = 0 \/ b = 0
  <2>1. c = n \/ (c = 0 /\ b = n)
    BY <1>1, <1>2, <1>4, <1>6 DEF Progress
  <2>2. QED
    BY <1>5, <2>1
<1>7. c = 0 => import.rows = <<>>
  BY <1>3, <1>4, EmptySeq
<1>8. QED
  BY <1>2, <1>4, <1>5, <1>6, <1>7

(* Whatever other calls have read from the stream, an import that completes *)
(* has left no line, and an upload that completes with rows has them all:  *)
(* the row count is taken from the beginning of the text, the rows from    *)
(* where the stream stands.                                                *)
THEOREM CompleteIsWhole == Spec => []CompleteImportIsWhole
BY Invariant, ImportsAreWhole, PTL

(* row_count, getline and read_row agree on the lines of a text, whether   *)
(* or not a newline ends it: an import of an unread text with a cell for   *)
(* every column never asks for a value that is not there.                  *)
THEOREM GoodTextsAreSafe == Spec => []GoodTextsNeverFault
<1>1. IInv => GoodTextsNeverFault
  BY DEF IInv
<1>2. QED
  BY <1>1, Invariant, PTL

LEMMA RowsFollowLines == IInv => RowsAreLines
<1> SUFFICES ASSUME IInv, NEW k \in DOMAIN import.rows,
                    \A i \in DOMAIN lines[import.start + k] : lines[import.start + k][i] # Empty
             PROVE  /\ Filled(lines[import.start + k])
                    /\ \A i \in DOMAIN Columns : Value(k, i) = lines[import.start + k][i]
  BY DEF RowsAreLines
<1>1. Types /\ Progress /\ RowsRead
  BY DEF IInv
<1>2. lines \in Seq(Lines)
  BY DEF IInv, Placed, Layout
<1>3. PICK n \in Nat : n = Len(lines)
  BY <1>2, LenProperties
<1>4. import.rows \in Seq(Rows)
  BY <1>1 DEF Types
<1>5. PICK c \in Nat, b \in Nat : /\ c = Len(import.rows) /\ b = import.start
                                  /\ DOMAIN import.rows = 1..c
  BY <1>1, <1>4, LenProperties DEF Types
<1>6. PICK t \in 0..n : t = taken
  BY <1>1, <1>3 DEF Types
<1>7. b + k \in 1..n /\ k \in 1..c
  <2>1. b + c <= t
    BY <1>1, <1>5, <1>6 DEF Progress
  <2>2. QED
    BY <1>5, <2>1
<1>8. PICK line : line = lines[import.start + k] /\ line \in Lines
  BY <1>2, <1>3, <1>5, <1>7, ElementOfSeq
<1>9. line \in Seq(Cells) /\ DOMAIN line = 1..Len(line) /\ Len(line) \in Nat
  BY <1>8, ValuesAre, LenProperties
<1>10. \A i \in DOMAIN line : line[i] # Empty
  BY <1>8
<1>11. Without(line, Empty) = line
  BY <1>9, <1>10, WithoutNothing
<1>12. Problem(line) = <<>> /\ import.rows[k] = RowOf(import.kind, line)
  BY <1>1, <1>5, <1>7, <1>8, <1>11 DEF RowsRead
<1>13. \A i \in DOMAIN Columns : i <= Len(line) /\ Fits(line[i], Columns[i])
  BY <1>9, <1>12, ProblemIs
<1>14. Filled(line)
  <2>1. \A i \in DOMAIN Columns : i \in DOMAIN line
    BY <1>9, <1>13, ColumnsAre
  <2>2. QED
    BY <1>10, <1>13, <2>1 DEF Filled
<1>15. ASSUME NEW i \in DOMAIN Columns PROVE Value(k, i) = line[i]
  <2>1. Columns[i] \in [signed : BOOLEAN, width : Nat \ {0}] /\ Fits(line[i], Columns[i])
    BY <1>13, ColumnsAre
  <2>2. CASE import.kind = "remote"
    <3>1. import.rows[k][i] = Bits(line[i], Columns[i])
      BY <1>12, <2>2 DEF RowOf, EncryptRow
    <3>2. Value(k, i) = Decoded(Bits(line[i], Columns[i]), Columns[i])
      BY <2>2, <3>1 DEF Value
    <3>3. QED
      BY <2>1, <3>2, BitsAreTheValue
  <2>3. CASE import.kind # "remote"
    BY <1>12, <2>3 DEF Value, RowOf, AddRow
  <2>4. QED
    BY <2>2, <2>3
<1>16. QED
  BY <1>8, <1>14, <1>15

(* Row k of an import is the k-th line behind those that were read before  *)
(* it, and its values are the line's cells, also through the mappers and   *)
(* the bits of every width and sign: read_row's getline loop drops nothing *)
(* but empty cells.                                                        *)
THEOREM RowsAreRight == Spec => []RowsAreLines
BY Invariant, RowsFollowLines, PTL
================================================================================
