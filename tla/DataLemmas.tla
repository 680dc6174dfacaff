------------------------------- MODULE DataLemmas ------------------------------
(***************************************************************************)
(* Facts about numbers and sequences that several proofs need.             *)
(***************************************************************************)
EXTENDS Integers, SequencesExt, SequenceTheorems, WellFoundedInduction, TLAPS

--------------------------------------------------------------------------------
(* Induction *)

(* A set of natural numbers has a least element.                           *)
LEMMA LeastElement ==
  ASSUME NEW T \in SUBSET Nat, T # {}
  PROVE  \E x \in T : \A y \in T : x <= y
<1> DEFINE R == {ss \in Nat \X Nat : ss[1] < ss[2]}
<1>1. IsWellFoundedOn(R, Nat)
  BY NatLessThanWellFounded DEF OpToRel
<1>2. \E x \in T : \A y \in T : ~ (<<y, x>> \in R)
  <2> HIDE DEF R
  <2>1. QED
    BY <1>1, WFMin
<1>3. ASSUME NEW x \in Nat, NEW y \in Nat, y < x PROVE <<y, x>> \in R
  <2>1. <<y, x>> \in Nat \X Nat /\ <<y, x>>[1] < <<y, x>>[2]
    BY <1>3
  <2>2. QED
    BY <2>1
<1>4. QED
  <2> HIDE DEF R
  <2>1. PICK x \in T : \A y \in T : ~ (<<y, x>> \in R)
    BY <1>2
  <2>2. \A y \in T : ~ (y < x)
    BY <1>3, <2>1
  <2>3. QED
    BY <2>1, <2>2

(* Induction: SequenceTheorems and NaturalsInduction state it for an       *)
(* operator, the provers can only use it for a set.                        *)
LEMMA SetInduction ==
  ASSUME NEW S, 0 \in S, \A n \in Nat : n \in S => n + 1 \in S
  PROVE  Nat \subseteq S
<1>1. SUFFICES ASSUME Nat \ S # {} PROVE FALSE
  OBVIOUS
<1>2. PICK x \in Nat \ S : \A y \in Nat \ S : x <= y
  BY <1>1, LeastElement
<1>3. x - 1 \in Nat
  BY <1>2
<1>4. x - 1 \in S
  BY <1>2, <1>3
<1>5. QED
  BY <1>2, <1>3, <1>4

(* A recursive definition in which f[i] depends on what is before i only   *)
(* has a solution.                                                         *)
LooksBack(F, n, V) ==
  /\ F \in [[1..n -> V] \X (1..n) -> V]
  /\ \A f, g \in [1..n -> V] : \A i \in 1..n :
       (\A j \in 1..(i - 1) : f[j] = g[j]) => F[<<f, i>>] = F[<<g, i>>]

Solves(f, F, n, V) == f \in [1..n -> V] /\ \A i \in 1..n : f[i] = F[<<f, i>>]

LEMMA Recursion ==
  ASSUME NEW n \in Nat, NEW V, NEW v \in V, NEW F, LooksBack(F, n, V)
  PROVE  \E f : Solves(f, F, n, V)
<1> DEFINE Upto(k) == \E f \in [1..n -> V] : \A i \in 1..k : f[i] = F[<<f, i>>]
<1> DEFINE T == {k \in Nat : k <= n => Upto(k)}
<1>1. 0 \in T
  <2>1. PICK f \in [1..n -> V] : f = [i \in 1..n |-> v]
    OBVIOUS
  <2>2. Upto(0)
    <3>1. \A i \in 1..0 : f[i] = F[<<f, i>>]
      OBVIOUS
    <3>2. QED
      BY <3>1
  <2> HIDE DEF Upto
  <2>3. QED
    BY <2>2
<1>2. ASSUME NEW k \in Nat, k \in T PROVE k + 1 \in T
  <2>1. SUFFICES ASSUME k + 1 <= n PROVE Upto(k + 1)
    <3> HIDE DEF Upto
    <3>1. QED
      OBVIOUS
  <2>2. PICK f \in [1..n -> V] : \A i \in 1..k : f[i] = F[<<f, i>>]
    <3>1. Upto(k)
      <4> HIDE DEF Upto
      <4>1. QED
        BY <1>2, <2>1
    <3>2. QED
      BY <3>1
  <2>3. k + 1 \in 1..n
    BY <2>1
  <2>4. PICK w \in V : w = F[<<f, k + 1>>]
    BY <2>3 DEF LooksBack
  <2>5. PICK h \in [1..n -> V] : h = [f EXCEPT ![k + 1] = w]
    OBVIOUS
  <2>6. h[k + 1] = w /\ \A j \in 1..k : h[j] = f[j]
    BY <2>1, <2>3, <2>5
  <2>7. ASSUME NEW i \in 1..(k + 1) PROVE h[i] = F[<<h, i>>]
    <3>1. i \in 1..n /\ \A j \in 1..(i - 1) : f[j] = h[j]
      BY <2>1, <2>6
    <3>2. F[<<f, i>>] = F[<<h, i>>]
      BY <3>1 DEF LooksBack
    <3>3. i = k + 1 \/ i \in 1..k
      OBVIOUS
    <3>4. QED
      BY <2>2, <2>4, <2>6, <3>2, <3>3
  <2>8. QED
    BY <2>7
<1>3. Nat \subseteq T
  <2> HIDE DEF T
  <2>1. QED
    BY <1>1, <1>2, SetInduction
<1>4. Upto(n)
  <2> HIDE DEF Upto
  <2>1. QED
    BY <1>3
<1>5. PICK f \in [1..n -> V] : \A i \in 1..n : f[i] = F[<<f, i>>]
  BY <1>4
<1>6. Solves(f, F, n, V)
  BY <1>5 DEF Solves
<1>7. QED
  BY <1>6

--------------------------------------------------------------------------------
(* Division *)

LEMMA DivMod ==
  ASSUME NEW a \in Int, NEW m \in Nat \ {0}
  PROVE  /\ a \div m \in Int /\ a % m \in 0..(m - 1)
         /\ a >= 0 => a \div m \in Nat
         /\ a = m * (a \div m) + (a % m)
OBVIOUS

LEMMA DivIs ==
  ASSUME NEW a \in Int, NEW m \in Nat \ {0}, NEW k \in Int, m * k <= a, a < m * k + m
  PROVE  a \div m = k
<1> DEFINE q == a \div m
<1>1. q \in Int /\ m * q <= a /\ a < m * q + m
  BY DivMod
<1> HIDE DEF q
<1>2. CASE k < q
  <2>1. m * (k + 1) <= m * q
    BY <1>1, <1>2
  <2>2. QED
    BY <1>1, <2>1
<1>3. CASE q < k
  <2>1. m * (q + 1) <= m * k
    BY <1>1, <1>3
  <2>2. QED
    BY <1>1, <2>1
<1>4. QED
  BY <1>1, <1>2, <1>3 DEF q

(* The same two of naturals, where the provers need no sign. *)
LEMMA NatDivMod ==
  ASSUME NEW a \in Nat, NEW m \in Nat \ {0}
  PROVE  /\ a \div m \in Nat /\ a % m \in 0..(m - 1)
         /\ a = m * (a \div m) + (a % m)
OBVIOUS

LEMMA NatDivIs ==
  ASSUME NEW a \in Nat, NEW m \in Nat \ {0}, NEW k \in Nat, m * k <= a, a < m * k + m
  PROVE  a \div m = k
BY DivIs

LEMMA DivMonotone ==
  ASSUME NEW a \in Nat, NEW b \in Nat, a <= b, NEW m \in Nat \ {0}
  PROVE  a \div m <= b \div m
<1> DEFINE q == a \div m
<1> DEFINE r == b \div m
<1>1. q \in Nat /\ r \in Nat /\ m * q <= a /\ b < m * r + m
  BY DivMod
<1> HIDE DEF q, r
<1>2. CASE r < q
  <2>1. m * (r + 1) <= m * q
    BY <1>1, <1>2
  <2>2. QED
    BY <1>1, <2>1
<1>3. QED
  BY <1>1, <1>2 DEF q, r

(* A whole number of parts fits. *)
LEMMA DivAtLeast ==
  ASSUME NEW a \in Nat, NEW m \in Nat \ {0}, NEW k \in Nat, m * k <= a
  PROVE  k <= a \div m
<1> DEFINE q == a \div m
<1>1. q \in Nat /\ a < m * q + m
  BY DivMod
<1> HIDE DEF q
<1>2. CASE q < k
  <2>1. m * (q + 1) <= m * k
    BY <1>1, <1>2
  <2>2. QED
    BY <1>1, <2>1
<1>3. QED
  BY <1>1, <1>2 DEF q

--------------------------------------------------------------------------------
(* Sequences in which nothing occurs twice *)

NoRepeats(s) == \A i, j \in 1..Len(s) : s[i] = s[j] => i = j

LEMMA AppendFresh ==
  ASSUME NEW S, NEW s \in Seq(S), NEW e \in S, NoRepeats(s), e \notin Range(s)
  PROVE  /\ NoRepeats(Append(s, e)) /\ Append(s, e) \in Seq(S)
         /\ Range(Append(s, e)) = Range(s) \union {e}
<1> DEFINE t == Append(s, e)
<1>1. /\ t \in Seq(S) /\ Len(t) = Len(s) + 1 /\ t[Len(s) + 1] = e
      /\ \A i \in 1..Len(s) : t[i] = s[i]
      /\ Len(s) \in Nat /\ DOMAIN s = 1..Len(s) /\ DOMAIN t = 1..Len(t)
  BY AppendProperties, LenProperties
<1> HIDE DEF t
<1>2. \A i \in 1..Len(s) : s[i] # e
  BY <1>1 DEF Range
<1>3. QED
  BY <1>1, <1>2 DEF NoRepeats, Range, t

LEMMA TailOfNoRepeats ==
  ASSUME NEW S, NEW s \in Seq(S), s # <<>>, NoRepeats(s)
  PROVE  /\ NoRepeats(Tail(s)) /\ Tail(s) \in Seq(S)
         /\ Head(s) \in Range(s) /\ Head(s) \in S
         /\ Range(Tail(s)) = Range(s) \ {Head(s)}
<1> DEFINE t == Tail(s)
<1>1. /\ t \in Seq(S) /\ Len(s) \in Nat /\ Len(s) >= 1 /\ Len(t) = Len(s) - 1
      /\ \A i \in 1..Len(t) : t[i] = s[i + 1]
      /\ Head(s) = s[1] /\ Head(s) \in S
      /\ DOMAIN s = 1..Len(s) /\ DOMAIN t = 1..Len(t)
  BY HeadTailProperties, LenProperties, EmptySeq
<1> HIDE DEF t
<1>2. Range(s) = {s[i] : i \in 1..Len(s)} /\ Range(t) = {t[i] : i \in 1..Len(t)}
  BY <1>1 DEF Range
<1>3. ASSUME NEW j \in 1..Len(t) PROVE t[j] \in Range(s) /\ t[j] # s[1]
  BY <1>1, <1>2 DEF NoRepeats
<1>4. ASSUME NEW i \in 1..Len(s), s[i] # s[1] PROVE s[i] \in Range(t)
  <2>1. i - 1 \in 1..Len(t) /\ t[i - 1] = s[i]
    BY <1>1, <1>4
  <2>2. QED
    BY <1>2, <2>1
<1>5. s[1] \in Range(s)
  BY <1>1, <1>2
<1>6. NoRepeats(t)
  BY <1>1 DEF NoRepeats
<1>7. Range(t) = Range(s) \ {s[1]}
  BY <1>2, <1>3, <1>4
<1>8. QED
  BY <1>1, <1>5, <1>6, <1>7 DEF t

--------------------------------------------------------------------------------
(* Sequences of sequences *)

(* FlattenSeq goes through the sequences one after the other. *)
LEMMA FlattenSeqIs ==
  ASSUME NEW S, NEW ss \in Seq(Seq(S))
  PROVE  \E f \in [0..Len(ss) -> Seq(S)] :
           /\ f[0] = <<>> /\ f[Len(ss)] = FlattenSeq(ss)
           /\ \A i \in 1..Len(ss) : f[i] = f[i - 1] \o ss[i]
<1> DEFINE Step(g, i) == IF i = 1 THEN ss[i] ELSE g[i - 1] \o ss[i]
<1> DEFINE Upto(g, n) == g \in [1..n -> Seq(S)] /\ g = [i \in 1..n |-> Step(g, i)]
<1>1. Len(ss) \in Nat /\ \A i \in 1..Len(ss) : ss[i] \in Seq(S)
  BY LenProperties
<1>2. \A n \in Nat : n <= Len(ss) => \E g : Upto(g, n)
  <2> DEFINE T == {n \in Nat : n <= Len(ss) => \E g : Upto(g, n)}
  <2>1. 0 \in T
    <3> DEFINE none == [i \in 1..0 |-> <<>>]
    <3>1. none \in [1..0 -> Seq(S)] /\ none = [i \in 1..0 |-> Step(none, i)]
      OBVIOUS
    <3>2. Upto(none, 0)
      BY <3>1
    <3> HIDE DEF Upto
    <3>3. QED
      BY <3>2
  <2>2. ASSUME NEW n \in Nat, n \in T PROVE n + 1 \in T
    <3>1. SUFFICES ASSUME n + 1 <= Len(ss) PROVE \E h : Upto(h, n + 1)
      <4> HIDE DEF Upto
      <4>1. QED
        OBVIOUS
    <3>2. PICK g : Upto(g, n)
      <4> HIDE DEF Upto
      <4>1. n <= Len(ss)
        BY <1>1, <3>1
      <4>2. QED
        BY <2>2, <4>1
    <3>6. g \in [1..n -> Seq(S)] /\ \A i \in 1..n : g[i] = Step(g, i)
      <4>1. g = [i \in 1..n |-> Step(g, i)]
        BY <3>2
      <4> HIDE DEF Step
      <4>2. \A i \in 1..n : g[i] = Step(g, i)
        BY <4>1
      <4>3. QED
        BY <3>2, <4>2
    <3> DEFINE h == [i \in 1..(n + 1) |-> IF i <= n THEN g[i] ELSE Step(g, n + 1)]
    <3>3. ASSUME NEW i \in 1..(n + 1) PROVE h[i] \in Seq(S) /\ h[i] = Step(h, i)
      <4>1. CASE i <= n
        <5>1. i \in 1..n /\ h[i] = g[i] /\ g[i] = Step(g, i) /\ g[i] \in Seq(S)
          <6>1. i \in 1..n /\ h[i] = g[i]
            BY <4>1
          <6> HIDE DEF Step, h
          <6>2. QED
            BY <3>6, <6>1
        <5>2. i # 1 => h[i - 1] = g[i - 1]
          BY <4>1
        <5>3. QED
          BY <5>1, <5>2
      <4>2. CASE i = n + 1
        <5>1. h[i] = Step(g, i)
          BY <4>2
        <5>2. i # 1 => i - 1 \in 1..n /\ h[i - 1] = g[i - 1] /\ g[i - 1] \in Seq(S)
          BY <3>6, <4>2
        <5>3. ss[i] \in Seq(S)
          BY <1>1, <3>1
        <5>4. CASE i = 1
          BY <5>1, <5>3, <5>4
        <5>5. CASE i # 1
          <6>1. g[i - 1] \o ss[i] \in Seq(S)
            BY <5>2, <5>3, <5>5, ConcatProperties
          <6>2. QED
            BY <5>1, <5>2, <5>5, <6>1
        <5>6. QED
          BY <5>4, <5>5
      <4>3. QED
        BY <4>1, <4>2
    <3>4. h \in [1..(n + 1) -> Seq(S)] /\ h = [i \in 1..(n + 1) |-> Step(h, i)]
      <4>1. h = [i \in 1..(n + 1) |-> h[i]]
        OBVIOUS
      <4> HIDE DEF h
      <4>2. QED
        BY <3>3, <4>1
    <3>5. QED
      BY <3>4
  <2>3. Nat \subseteq T
    <3> HIDE DEF T
    <3>1. QED
      BY <2>1, <2>2, SetInduction
  <2>4. QED
    BY <2>3
<1>3. CASE Len(ss) = 0
  <2>1. ss = <<>> /\ FlattenSeq(ss) = <<>> /\ <<>> \in Seq(S)
    BY <1>3, EmptySeq DEF FlattenSeq
  <2>2. [i \in 0..Len(ss) |-> <<>>] \in [0..Len(ss) -> Seq(S)]
    BY <2>1
  <2> DEFINE f == [i \in 0..Len(ss) |-> <<>>]
  <2>3. f[0] = <<>> /\ f[Len(ss)] = FlattenSeq(ss) /\ \A i \in 1..Len(ss) : f[i] = f[i - 1] \o ss[i]
    BY <1>3, <2>1
  <2>4. QED
    BY <2>2, <2>3
<1>4. CASE Len(ss) # 0
  <2> DEFINE F == CHOOSE g : g = [i \in 1..Len(ss) |-> Step(g, i)]
  <2>1. \E g : Upto(g, Len(ss))
    <3> HIDE DEF Upto
    <3>1. QED
      BY <1>1, <1>2
  <2>2. \E g : g = [i \in 1..Len(ss) |-> Step(g, i)]
    BY <2>1
  <2>4. F = [i \in 1..Len(ss) |-> Step(F, i)]
    <3> HIDE DEF Step
    <3>1. QED
      BY <2>2
  <2>3. FlattenSeq(ss) = F[Len(ss)]
    BY <1>4 DEF FlattenSeq
  <2> HIDE DEF F
  <2>5. \A i \in 1..Len(ss) : F[i] \in Seq(S)
    <3> DEFINE T == {i \in Nat : i \in 1..Len(ss) => F[i] \in Seq(S)}
    <3>1. 0 \in T
      OBVIOUS
    <3>2. ASSUME NEW i \in Nat, i \in T PROVE i + 1 \in T
      <4>1. SUFFICES ASSUME i + 1 \in 1..Len(ss) PROVE F[i + 1] \in Seq(S)
        OBVIOUS
      <4>2. F[i + 1] = Step(F, i + 1) /\ ss[i + 1] \in Seq(S)
        BY <1>1, <2>4, <4>1
      <4>3. CASE i = 0
        BY <4>2, <4>3
      <4>4. CASE i # 0
        <5>1. (i + 1) - 1 = i /\ i \in 1..Len(ss) /\ i + 1 # 1
          BY <1>1, <4>1, <4>4
        <5>2. F[i] \in Seq(S)
          BY <3>2, <5>1
        <5>3. QED
          BY <4>2, <5>1, <5>2, ConcatProperties
      <4>5. QED
        BY <4>3, <4>4
    <3>3. Nat \subseteq T
      <4> HIDE DEF T
      <4>1. QED
        BY <3>1, <3>2, SetInduction
    <3>4. QED
      BY <1>1, <3>3
  <2> DEFINE f == [i \in 0..Len(ss) |-> IF i = 0 THEN <<>> ELSE F[i]]
  <2>6. f \in [0..Len(ss) -> Seq(S)] /\ f[0] = <<>> /\ f[Len(ss)] = FlattenSeq(ss)
    BY <1>1, <1>4, <2>3, <2>5, EmptySeq
  <2>7. ASSUME NEW i \in 1..Len(ss) PROVE f[i] = f[i - 1] \o ss[i]
    <3>1. f[i] = F[i] /\ F[i] = Step(F, i) /\ ss[i] \in Seq(S)
      <4>1. f[i] = F[i]
        OBVIOUS
      <4> HIDE DEF Step, f
      <4>2. QED
        BY <1>1, <2>4, <4>1
    <3>2. CASE i = 1
      <4>1. f[i - 1] = <<>> /\ f[i] = ss[i]
        BY <3>1, <3>2
      <4>2. QED
        BY <3>1, <4>1, ConcatEmptySeq
    <3>3. CASE i # 1
      <4>1. f[i - 1] = F[i - 1]
        BY <1>1, <3>3
      <4>2. QED
        BY <3>1, <3>3, <4>1
    <3>4. QED
      BY <3>2, <3>3
  <2>8. QED
    <3> HIDE DEF f
    <3>1. QED
      BY <2>6, <2>7
<1>5. QED
  BY <1>3, <1>4

(* Whoever puts the same sequences one after the other gets the same.      *)
LEMMA FlattenSeqUnique ==
  ASSUME NEW S, NEW ss \in Seq(Seq(S)), NEW g \in [0..Len(ss) -> Seq(S)], g[0] = <<>>,
         \A i \in 1..Len(ss) : g[i] = g[i - 1] \o ss[i]
  PROVE  FlattenSeq(ss) = g[Len(ss)]
<1>1. PICK f \in [0..Len(ss) -> Seq(S)] :
             /\ f[0] = <<>> /\ f[Len(ss)] = FlattenSeq(ss)
             /\ \A i \in 1..Len(ss) : f[i] = f[i - 1] \o ss[i]
  BY FlattenSeqIs
<1>2. Len(ss) \in Nat
  BY LenProperties
<1> DEFINE T == {i \in Nat : i \in 0..Len(ss) => f[i] = g[i]}
<1>3. 0 \in T
  BY <1>1
<1>4. ASSUME NEW i \in Nat, i \in T PROVE i + 1 \in T
  <2>1. SUFFICES ASSUME i + 1 \in 0..Len(ss) PROVE f[i + 1] = g[i + 1]
    OBVIOUS
  <2>2. PICK k \in 1..Len(ss) : k = i + 1 /\ k - 1 = i
    BY <2>1
  <2>3. f[i] = g[i]
    BY <1>2, <1>4, <2>1
  <2>4. f[k] = f[k - 1] \o ss[k] /\ g[k] = g[k - 1] \o ss[k]
    BY <1>1
  <2>5. QED
    BY <2>2, <2>3, <2>4
<1>5. Nat \subseteq T
  <2> HIDE DEF T
  <2>1. QED
    BY <1>3, <1>4, SetInduction
<1>6. QED
  BY <1>1, <1>2, <1>5

(* The parts of a flattened sequence: the i-th begins behind at[i - 1].    *)
Parts(ss, flat, at) ==
  LET n == Len(ss) IN
  /\ at \in [0..n -> Nat]
  /\ at[0] = 0 /\ at[n] = Len(flat)
  /\ \A i \in 1..n : at[i] = at[i - 1] + Len(ss[i])
  /\ \A i \in 1..n : \A j \in 1..Len(ss[i]) : flat[at[i - 1] + j] = ss[i][j]
  /\ \A i \in 0..n : \A p \in 1..at[i] :
       \E k \in 1..i : \E j \in 1..Len(ss[k]) : p = at[k - 1] + j
  /\ \A i \in 0..n : \A k \in 0..i : at[k] <= at[i]

LEMMA FlattenSeqParts ==
  ASSUME NEW S, NEW ss \in Seq(Seq(S))
  PROVE  FlattenSeq(ss) \in Seq(S) /\ \E at : Parts(ss, FlattenSeq(ss), at)
<1>1. Len(ss) \in Nat /\ \A i \in 1..Len(ss) : ss[i] \in Seq(S) /\ Len(ss[i]) \in Nat
  BY LenProperties
<1>2. PICK f \in [0..Len(ss) -> Seq(S)] :
             /\ f[0] = <<>> /\ f[Len(ss)] = FlattenSeq(ss)
             /\ \A i \in 1..Len(ss) : f[i] = f[i - 1] \o ss[i]
  BY FlattenSeqIs
<1> DEFINE at == [i \in 0..Len(ss) |-> Len(f[i])]
<1>3. /\ at \in [0..Len(ss) -> Nat] /\ at[0] = 0 /\ at[Len(ss)] = Len(FlattenSeq(ss))
      /\ \A i \in 0..Len(ss) : at[i] = Len(f[i])
  <2>1. \A i \in 0..Len(ss) : Len(f[i]) \in Nat
    BY <1>2, LenProperties
  <2>2. QED
    BY <1>1, <1>2, <2>1, EmptySeq
<1> HIDE DEF at
<1>4. ASSUME NEW i \in 1..Len(ss)
      PROVE  /\ i - 1 \in 0..Len(ss) /\ i \in 0..Len(ss)
             /\ at[i] = at[i - 1] + Len(ss[i])
             /\ \A p \in 1..at[i - 1] : f[i][p] = f[i - 1][p]
             /\ \A j \in 1..Len(ss[i]) : f[i][at[i - 1] + j] = ss[i][j]
  <2>1. i - 1 \in 0..Len(ss) /\ i \in 0..Len(ss)
    BY <1>1
  <2>2. f[i] = f[i - 1] \o ss[i] /\ f[i - 1] \in Seq(S) /\ ss[i] \in Seq(S)
    BY <1>1, <1>2, <2>1
  <2>3. PICK a \in Seq(S), b \in Seq(S) : a = f[i - 1] /\ b = ss[i] /\ f[i] = a \o b
    BY <2>2
  <2>4. /\ Len(a \o b) = Len(a) + Len(b) /\ Len(a) \in Nat /\ Len(b) \in Nat
        /\ \A p \in 1..(Len(a) + Len(b)) :
             (a \o b)[p] = IF p <= Len(a) THEN a[p] ELSE b[p - Len(a)]
    BY ConcatProperties, LenProperties
  <2>5. at[i] = Len(f[i]) /\ at[i - 1] = Len(a)
    BY <1>3, <2>1, <2>3
  <2>6. at[i] = at[i - 1] + Len(ss[i])
    BY <2>3, <2>4, <2>5
  <2>7. ASSUME NEW p \in 1..at[i - 1] PROVE f[i][p] = f[i - 1][p]
    <3>1. p \in 1..(Len(a) + Len(b)) /\ p <= Len(a)
      BY <2>4, <2>5
    <3>2. QED
      BY <2>3, <2>4, <3>1
  <2>8. ASSUME NEW j \in 1..Len(ss[i]) PROVE f[i][at[i - 1] + j] = ss[i][j]
    <3> DEFINE p == Len(a) + j
    <3>0. j \in 1..Len(b) /\ Len(a) \in Nat /\ Len(b) \in Nat
      BY <2>3, <2>4
    <3>1. p \in 1..(Len(a) + Len(b)) /\ ~(p <= Len(a)) /\ p - Len(a) = j
      BY <3>0
    <3>2. QED
      BY <2>3, <2>4, <2>5, <3>1
  <2>9. QED
    BY <2>1, <2>6, <2>7, <2>8
<1> DEFINE Good(i) ==
      /\ \A k \in 1..i : \A j \in 1..Len(ss[k]) : at[k - 1] + j \in 1..at[i] /\ f[i][at[k - 1] + j] = ss[k][j]
      /\ \A p \in 1..at[i] : \E k \in 1..i : \E j \in 1..Len(ss[k]) : p = at[k - 1] + j
      /\ \A k \in 0..i : at[k] <= at[i]
<1>5. \A i \in Nat : i \in 0..Len(ss) => Good(i)
  <2> DEFINE T == {i \in Nat : i \in 0..Len(ss) => Good(i)}
  <2>1. 0 \in T
    BY <1>3
  <2>2. ASSUME NEW i \in Nat, i \in T PROVE i + 1 \in T
    <3>1. SUFFICES ASSUME i + 1 \in 0..Len(ss) PROVE Good(i + 1)
      <4> HIDE DEF Good
      <4>1. QED
        OBVIOUS
    <3>2. i \in 0..Len(ss) /\ i + 1 \in 1..Len(ss) /\ (i + 1) - 1 = i
      BY <1>1, <3>1
    <3>3. Good(i)
      <4> HIDE DEF Good
      <4>1. QED
        BY <2>2, <3>2
    <3>4. /\ at[i + 1] = at[i] + Len(ss[i + 1]) /\ Len(ss[i + 1]) \in Nat
          /\ at[i] \in Nat /\ at[i + 1] \in Nat
          /\ \A p \in 1..at[i] : f[i + 1][p] = f[i][p]
          /\ \A j \in 1..Len(ss[i + 1]) : f[i + 1][at[i] + j] = ss[i + 1][j]
      <4>1. PICK k \in 1..Len(ss) : k = i + 1 /\ k - 1 = i
        BY <3>2
      <4>2. at[i] \in Nat /\ at[i + 1] \in Nat /\ Len(ss[i + 1]) \in Nat
        BY <1>1, <1>3, <3>1, <3>2
      <4>3. /\ at[k] = at[k - 1] + Len(ss[k])
            /\ \A p \in 1..at[k - 1] : f[k][p] = f[k - 1][p]
            /\ \A j \in 1..Len(ss[k]) : f[k][at[k - 1] + j] = ss[k][j]
        BY <1>4
      <4>4. QED
        BY <4>1, <4>2, <4>3
    <3>5. ASSUME NEW k \in 1..(i + 1), NEW j \in 1..Len(ss[k])
          PROVE  at[k - 1] + j \in 1..at[i + 1] /\ f[i + 1][at[k - 1] + j] = ss[k][j]
      <4>1. CASE k = i + 1
        BY <3>2, <3>4, <4>1
      <4>2. CASE k # i + 1
        <5>1. k \in 1..i
          BY <4>2
        <5>2. at[k - 1] + j \in 1..at[i] /\ f[i][at[k - 1] + j] = ss[k][j]
          BY <3>3, <5>1
        <5>3. at[i] \in Nat /\ at[i + 1] \in Nat /\ at[i] <= at[i + 1]
          BY <3>4
        <5>4. PICK p \in 1..at[i] : p = at[k - 1] + j /\ f[i][p] = ss[k][j]
          BY <5>2
        <5>5. p \in 1..at[i + 1] /\ f[i + 1][p] = f[i][p]
          BY <3>4, <5>3
        <5>6. QED
          BY <5>4, <5>5
      <4>3. QED
        BY <4>1, <4>2
    <3>6. ASSUME NEW p \in 1..at[i + 1]
          PROVE  \E k \in 1..(i + 1) : \E j \in 1..Len(ss[k]) : p = at[k - 1] + j
      <4>1. CASE p <= at[i]
        <5>1. PICK k \in 1..i : \E j \in 1..Len(ss[k]) : p = at[k - 1] + j
          <6>1. p \in 1..at[i]
            BY <3>4, <4>1
          <6>2. QED
            BY <3>3, <6>1
        <5>2. k \in 1..(i + 1)
          OBVIOUS
        <5>3. QED
          BY <5>1, <5>2
      <4>2. CASE p > at[i]
        <5>1. PICK k \in 1..(i + 1) : k = i + 1 /\ k - 1 = i
          OBVIOUS
        <5>2. PICK a \in Nat, b \in Nat : a = at[i] /\ b = Len(ss[k]) /\ at[i + 1] = a + b
          BY <3>4, <5>1
        <5>6. p \in 1..(a + b) /\ p > a
          BY <4>2, <5>2
        <5>3. p - a \in 1..b /\ p = a + (p - a)
          BY <5>6
        <5>4. PICK j \in 1..Len(ss[k]) : p = a + j
          BY <5>2, <5>3
        <5>5. p = at[k - 1] + j
          BY <5>1, <5>2, <5>4
        <5>7. QED
          BY <5>5
      <4>3. QED
        BY <3>4, <4>1, <4>2
    <3>7. \A k \in 0..(i + 1) : at[k] <= at[i + 1]
      <4>1. SUFFICES ASSUME NEW k \in 0..(i + 1) PROVE at[k] <= at[i + 1]
        OBVIOUS
      <4>2. at[k] \in Nat /\ at[i] <= at[i + 1]
        <5>1. k \in 0..Len(ss)
          BY <1>1, <3>1
        <5>2. QED
          BY <1>3, <3>4, <5>1
      <4>3. k = i + 1 \/ k \in 0..i
        OBVIOUS
      <4>4. QED
        BY <3>3, <3>4, <4>2, <4>3
    <3>8. QED
      BY <3>5, <3>6, <3>7
  <2>3. Nat \subseteq T
    <3> HIDE DEF T
    <3>1. QED
      BY <2>1, <2>2, SetInduction
  <2>4. QED
    <3> HIDE DEF Good
    <3>1. QED
      BY <2>3
<1>6. Good(Len(ss)) /\ \A i \in 0..Len(ss) : Good(i)
  <2> HIDE DEF Good
  <2>1. QED
    BY <1>1, <1>5
<1>7. FlattenSeq(ss) \in Seq(S)
  BY <1>1, <1>2
<1>8. \A i \in 1..Len(ss) : \A j \in 1..Len(ss[i]) : FlattenSeq(ss)[at[i - 1] + j] = ss[i][j]
  BY <1>2, <1>6
<1>9. \A i \in 1..Len(ss) : at[i] = at[i - 1] + Len(ss[i])
  BY <1>4
<1>10. /\ \A i \in 0..Len(ss) : \A p \in 1..at[i] :
             \E k \in 1..i : \E j \in 1..Len(ss[k]) : p = at[k - 1] + j
       /\ \A i \in 0..Len(ss) : \A k \in 0..i : at[k] <= at[i]
  BY <1>6
<1>11. QED
  <2> HIDE DEF Good
  <2>1. Parts(ss, FlattenSeq(ss), at)
    BY <1>3, <1>8, <1>9, <1>10 DEF Parts
  <2>2. QED
    BY <1>7, <2>1

--------------------------------------------------------------------------------
(* Sequences made of others *)

(* Concatenation by a name: the provers expand \o without end.             *)
Joined(a, b) == a \o b

LEMMA JoinedIs ==
  ASSUME NEW S, NEW a \in Seq(S), NEW b \in Seq(S)
  PROVE  /\ Joined(a, b) \in Seq(S) /\ Len(Joined(a, b)) = Len(a) + Len(b)
         /\ \A i \in 1..(Len(a) + Len(b)) :
              Joined(a, b)[i] = IF i <= Len(a) THEN a[i] ELSE b[i - Len(a)]
BY ConcatProperties DEF Joined

LEMMA JoinedNothing ==
  ASSUME NEW S, NEW a \in Seq(S)
  PROVE  Joined(a, <<>>) = a /\ Joined(<<>>, a) = a
BY ConcatEmptySeq DEF Joined

LEMMA JoinedLater ==
  ASSUME NEW S, NEW u \in Seq(S), NEW v \in Seq(S), NEW w \in Seq(S), NEW x, x = Joined(v, w)
  PROVE  Joined(u, x) = Joined(Joined(u, v), w)
BY ConcatAssociative DEF Joined

LEMMA FunctionIsSeq ==
  ASSUME NEW n \in Nat, NEW S, NEW f \in [1..n -> S]
  PROVE  f \in Seq(S) /\ Len(f) = n
<1>1. f \in Seq(S)
  BY SeqDef
<1>2. QED
  BY <1>1, LenProperties

LEMMA PairAnd ==
  ASSUME NEW x \in Nat, NEW y \in Nat, NEW z \in Nat
  PROVE  <<x, y>> \o <<z>> = <<x, y, z>>
<1>1. PICK s \in Seq(Nat) : s = <<x, y>>
  <2>1. <<x, y>> \in Seq(Nat)
    OBVIOUS
  <2>2. QED
    BY <2>1
<1>2. PICK t \in Seq(Nat) : t = <<z>>
  <2>1. <<z>> \in Seq(Nat)
    OBVIOUS
  <2>2. QED
    BY <2>1
<1>3. PICK u \in Seq(Nat) : u = <<x, y, z>>
  <2>1. <<x, y, z>> \in Seq(Nat)
    OBVIOUS
  <2>2. QED
    BY <2>1
<1>4. Len(s) = 2 /\ s[1] = x /\ s[2] = y /\ Len(t) = 1 /\ t[1] = z
  BY <1>1, <1>2
<1>5. Len(u) = 3 /\ u[1] = x /\ u[2] = y /\ u[3] = z
  BY <1>3
<1>6. /\ s \o t \in Seq(Nat) /\ Len(s \o t) = Len(s) + Len(t)
      /\ \A i \in 1..(Len(s) + Len(t)) : (s \o t)[i] = IF i <= Len(s) THEN s[i] ELSE t[i - Len(s)]
  BY ConcatProperties
<1>7. PICK w \in Seq(Nat) : w = s \o t
  BY <1>6
<1>8. Len(w) = 3 /\ \A i \in 1..3 : w[i] = IF i <= 2 THEN s[i] ELSE t[i - 2]
  BY <1>4, <1>6, <1>7
<1>9. w[1] = u[1] /\ w[2] = u[2] /\ w[3] = u[3]
  BY <1>4, <1>5, <1>8
<1>10. w = u
  <2>1. \A i \in 1..Len(w) : w[i] = u[i]
    BY <1>8, <1>9
  <2>2. QED
    BY ONLY <1>5, <1>8, <2>1, SeqEqual
<1>11. QED
  BY <1>1, <1>2, <1>3, <1>7, <1>10

LEMMA AppendIs ==
  ASSUME NEW S, NEW s \in Seq(S), NEW e \in S
  PROVE  /\ Append(s, e) \in Seq(S) /\ Len(s) \in Nat /\ Len(Append(s, e)) = Len(s) + 1
         /\ DOMAIN s = 1..Len(s) /\ DOMAIN Append(s, e) = 1..(Len(s) + 1)
         /\ Append(s, e)[Len(s) + 1] = e
         /\ \A i \in 1..Len(s) : Append(s, e)[i] = s[i]
BY AppendProperties, LenProperties
================================================================================
