----------------------------- MODULE UploadProofs ------------------------------
(***************************************************************************)
(* Theorems about Upload, for every set of frames and keys of every size,  *)
(* every size of block, every number of threads and every width of bar.    *)
(***************************************************************************)
EXTENDS Upload, DataLemmas, FiniteSetTheorems

--------------------------------------------------------------------------------
(* The inductive invariant *)

(* The pool takes and finishes uploads only; nobody closes it here. *)
QueueInv ==
  /\ QueueTypeOK /\ open /\ ~halted
  /\ NoRepeats(pending)
  /\ Range(pending) \intersect running = {}
  /\ (Range(pending) \union running) \intersect finished = {}

Shapes ==
  /\ future \in [Task -> {"none", "pending", "value", "error", "threw"}]
  /\ stream \in [Task -> {"none", "open", "broken", "closed"}]
  /\ sent \in [Task -> Nat] /\ block \in [Task -> Nat]
  /\ currentStep \in [Task -> Nat] /\ maxStep \in [Task -> Nat]
  /\ wire \in [Task -> Seq(Seq(Nat))]
  /\ server \in [Task -> Seq(Nat)]

(* A future is as far as its task. *)
FutureFollowsTask(u) ==
  /\ future[u] = "none" <=> stream[u] = "none"
  /\ future[u] = "pending" <=> u \in Range(pending) \union running
  /\ future[u] \in {"value", "error"} <=> u \in finished

(* The blocks written so far are whole ones, but perhaps for the last.       *)
Counting(u) ==
  /\ sent[u] <= Size[u]
  /\ sent[u] = Size[u] \/ \E k \in 0..Size[u] : sent[u] = BlockSize * k
  /\ maxStep[u] = IF u \in running \union finished THEN LastStep(u) ELSE 0
  /\ u \notin running \union finished => sent[u] = 0
  /\ future[u] = "value" => sent[u] = Size[u]
  /\ future[u] = "error" => sent[u] < Size[u]

(* A frame's task has stepped the rows in hand before they are written, a  *)
(* key's has yet to step the bytes that it has written.                    *)
InHand(u) ==
  /\ u \in Frame => currentStep[u] = sent[u] + block[u]
  /\ u \in Key => sent[u] = currentStep[u] + block[u]
  /\ block[u] # 0 => u \in running
  /\ u \in Frame /\ block[u] # 0 => sent[u] < Size[u] /\ block[u] = NextBlock(u)

(* Messages that are pieces of the upload, one after the other: the first  *)
(* begins behind `from`, the last ends at `to`.                            *)
Pieces(u, messages, from, to) ==
  \E cut \in [0..Len(messages) -> 0..to] :
    /\ cut[0] = from /\ cut[Len(messages)] = to
    /\ \A i \in 1..Len(messages) :
         cut[i - 1] <= cut[i] /\ messages[i] = SubSeq(Arrival(u), cut[i - 1] + 1, cut[i])

Streaming(u) ==
  /\ Len(server[u]) <= sent[u]
  /\ server[u] = SubSeq(Arrival(u), 1, Len(server[u]))
  /\ stream[u] = "open" => Pieces(u, wire[u], Len(server[u]), sent[u])
  /\ stream[u] # "open" => wire[u] = <<>>
  /\ stream[u] = "closed" => future[u] = "value" /\ Len(server[u]) = Size[u]

UploadInv(u) == FutureFollowsTask(u) /\ Counting(u) /\ InHand(u) /\ Streaming(u)

(* What was read of the two atomics is behind them, or what they hold when *)
(* the future was ready before the reading began.                          *)
ReadingBehind(u) ==
  /\ future[u] \notin {"none", "threw"}
  /\ reading.last => u \in finished
  /\ ~reading.begun => reading.current = Unread /\ reading.max = Unread
  /\ reading.current # Unread =>
       /\ reading.current <= currentStep[u]
       /\ reading.last => reading.current = currentStep[u]
  /\ reading.max # Unread =>
       reading.max \in {0, maxStep[u]} /\ (reading.last => reading.max = maxStep[u])

Completed == reading.last /\ ~reading.begun

(* A defined bar was drawn for a step that the upload has passed and that  *)
(* the next drawing does not fall behind.                                  *)
BarShows(u) ==
  /\ maxStep[u] > 0 /\ reading.max \in {Unread, maxStep[u]}
  /\ \E c \in 0..currentStep[u] :
       /\ bar = Drawn(c, maxStep[u], Completed)
       /\ reading.current # Unread => c <= reading.current
       /\ Completed => c = currentStep[u]

WatcherInv ==
  /\ reading \in [last : BOOLEAN, begun : BOOLEAN,
                  current : Nat \union {Unread}, max : Nat \union {Unread}]
  /\ bar = Undefined \/ {bar.full, bar.half, bar.empty} \subseteq 0..Width
  /\ watched = {} \/ \E u \in Task : watched = {u}
  /\ watched = {} => reading = Idle /\ bar = Undefined
  /\ \A u \in watched : ReadingBehind(u) /\ (Defined => BarShows(u))

UploadsInv == QueueInv /\ Shapes /\ \A u \in Task : UploadInv(u)

IInv == UploadsInv /\ WatcherInv

--------------------------------------------------------------------------------
(* The queue *)

LEMMA SubmitEffect ==
  ASSUME QueueInv, NEW u \in Task, Submit(u)
  PROVE  /\ QueueInv' /\ u \notin Known
         /\ Range(pending') = Range(pending) \union {u}
         /\ running' = running /\ finished' = finished
<1>1. pending \in Seq(Task) /\ u \notin Range(pending) /\ NoRepeats(pending)
  BY DEF Submit, Known, QueueInv, QueueTypeOK
<1>2. /\ NoRepeats(pending') /\ pending' \in Seq(Task)
      /\ Range(pending') = Range(pending) \union {u}
  BY <1>1, AppendFresh DEF Submit
<1>3. QED
  BY <1>2 DEF Submit, Known, QueueInv, QueueTypeOK

LEMMA StartEffect ==
  ASSUME QueueInv, Start
  PROVE  /\ QueueInv' /\ Head(pending) \in Task
         /\ Head(pending) \in Range(pending)
         /\ Range(pending') = Range(pending) \ {Head(pending)}
         /\ running' = running \union {Head(pending)} /\ finished' = finished
<1>1. pending \in Seq(Task) /\ pending # <<>> /\ NoRepeats(pending)
  BY DEF Start, QueueInv, QueueTypeOK
<1>2. /\ NoRepeats(pending') /\ pending' \in Seq(Task)
      /\ Head(pending) \in Range(pending) /\ Head(pending) \in Task
      /\ Range(pending') = Range(pending) \ {Head(pending)}
  BY <1>1, TailOfNoRepeats DEF Start
<1>3. QED
  BY <1>2 DEF Start, QueueInv, QueueTypeOK

LEMMA FinishEffect ==
  ASSUME QueueInv, NEW u \in Task, Finish(u)
  PROVE  /\ QueueInv' /\ u \in running
         /\ pending' = pending /\ running' = running \ {u} /\ finished' = finished \union {u}
BY DEF Finish, QueueInv, QueueTypeOK

--------------------------------------------------------------------------------
(* Blocks *)

LEMMA SizesAre ==
  ASSUME NEW u \in Task
  PROVE  /\ Size[u] \in Nat /\ BlockSize \in Nat \ {0} /\ LastStep(u) \in Nat
         /\ u \in Key => Size[u] > 0
BY UploadAssumption DEF LastStep, Key

LEMMA ArrivalIs ==
  ASSUME NEW u \in Task
  PROVE  /\ Arrival(u) \in Seq(Nat) /\ Len(Arrival(u)) = Size[u]
<1> DEFINE first(p) == BlockSize * ((p - 1) \div BlockSize) + 1
<1> DEFINE last(p) == IF first(p) + BlockSize - 1 < Size[u] THEN first(p) + BlockSize - 1 ELSE Size[u]
<1>1. ASSUME NEW p \in 1..Size[u]
      PROVE  (IF u \in Frame THEN first(p) + last(p) - p ELSE p) \in Nat
  <2>1. p - 1 \in Nat /\ p \in Nat /\ Size[u] \in Nat /\ BlockSize \in Nat \ {0}
    BY SizesAre
  <2> DEFINE q == (p - 1) \div BlockSize
  <2>2. q \in Nat /\ BlockSize * q <= p - 1 /\ p - 1 < BlockSize * q + BlockSize
    <3> DEFINE r == (p - 1) % BlockSize
    <3>1. q \in Nat /\ r \in 0..(BlockSize - 1) /\ p - 1 = BlockSize * q + r
      BY <2>1, NatDivMod
    <3> HIDE DEF q, r
    <3>2. QED
      BY <2>1, <3>1
  <2>3. BlockSize * q \in Nat
    BY <2>1, <2>2
  <2>4. first(p) = BlockSize * q + 1 /\ first(p) \in Nat /\ first(p) <= p /\ p <= first(p) + BlockSize - 1
    BY <2>1, <2>2, <2>3
  <2> HIDE DEF first, q
  <2>5. last(p) \in Nat /\ p <= last(p)
    BY <2>1, <2>4
  <2> HIDE DEF last
  <2>6. QED
    BY <2>1, <2>4, <2>5
<1>2. Arrival(u) = [p \in 1..Size[u] |-> IF u \in Frame THEN first(p) + last(p) - p ELSE p]
  BY DEF Arrival
<1> HIDE DEF first, last
<1>3. Arrival(u) \in [1..Size[u] -> Nat]
  BY <1>1, <1>2
<1>4. QED
  BY <1>3, SizesAre

(* The next block is the next piece of what arrives.                       *)
LEMMA BlockIsPiece ==
  ASSUME NEW u \in Task, Shapes, Counting(u), sent[u] < Size[u]
  PROVE  /\ NextBlock(u) \in Nat \ {0} /\ sent[u] + NextBlock(u) <= Size[u]
         /\ Block(u, NextBlock(u)) = SubSeq(Arrival(u), sent[u] + 1, sent[u] + NextBlock(u))
         /\ \/ sent[u] + NextBlock(u) = Size[u]
            \/ \E k \in 0..Size[u] : sent[u] + NextBlock(u) = BlockSize * k
<1> DEFINE n == NextBlock(u)
<1> DEFINE s == sent[u]
<1> DEFINE z == Size[u]
<1>1. /\ s \in Nat /\ z \in Nat /\ s < z /\ BlockSize \in Nat \ {0}
      /\ n = IF z - s < BlockSize THEN z - s ELSE BlockSize
  BY SizesAre DEF Shapes, NextBlock
<1>2. PICK k \in Nat : s = BlockSize * k
  BY <1>1 DEF Counting
<1>3. n \in Nat \ {0} /\ s + n <= z
  BY <1>1
<1>4. s + n = z \/ \E j \in 0..z : s + n = BlockSize * j
  <2>1. CASE z - s < BlockSize
    BY <1>1, <2>1
  <2>2. CASE ~(z - s < BlockSize)
    <3>1. s + n = BlockSize * (k + 1)
      BY <1>1, <1>2, <2>2
    <3>2. k + 1 <= BlockSize * (k + 1)
      BY <1>1
    <3>3. k + 1 \in 0..z
      BY <1>1, <1>3, <3>1, <3>2
    <3>4. QED
      BY <3>1, <3>3
  <2>3. QED
    BY <2>1, <2>2
<1> DEFINE piece == SubSeq(Arrival(u), s + 1, s + n)
<1>5. Arrival(u) \in Seq(Nat) /\ Len(Arrival(u)) = z
  BY ArrivalIs
<1>6. piece \in Seq(Nat) /\ Len(piece) = n /\ \A i \in 1..n : piece[i] = Arrival(u)[s + i]
  <2>1. \A i \in (s + 1)..(s + n) : Arrival(u)[i] \in Nat
    <3>1. \A i \in (s + 1)..(s + n) : i \in 1..z
      BY <1>1, <1>3
    <3>2. QED
      BY <1>5, <3>1, ElementOfSeq
  <2>2. /\ piece \in Seq(Nat) /\ Len(piece) = IF s + 1 <= s + n THEN (s + n) - (s + 1) + 1 ELSE 0
        /\ \A i \in 1..(s + n) - (s + 1) + 1 : piece[i] = Arrival(u)[(s + 1) + i - 1]
    <3> HIDE DEF n, s
    <3>1. s + 1 \in Int /\ s + n \in Int
      BY <1>1, <1>3
    <3>2. QED
      BY <2>1, <3>1, SubSeqProperties
  <2>3. (s + n) - (s + 1) + 1 = n /\ s + 1 <= s + n
    BY <1>1, <1>3
  <2>4. \A i \in 1..n : (s + 1) + i - 1 = s + i
    BY <1>1, <1>3
  <2> HIDE DEF piece, n, s
  <2>5. QED
    BY <2>2, <2>3, <2>4
<1>7. ASSUME NEW i \in 1..n
      PROVE  Arrival(u)[s + i] = Block(u, n)[i]
  <2>1. s + i \in 1..z /\ i \in Nat /\ (s + i) - 1 \in Nat
    BY <1>1, <1>3
  <2>2. ((s + i) - 1) \div BlockSize = k
    <3>1. i >= 1 /\ i <= BlockSize
      BY <1>1
    <3>2. BlockSize * k <= (s + i) - 1 /\ (s + i) - 1 < BlockSize * k + BlockSize
      BY <1>1, <1>2, <2>1, <3>1
    <3>3. QED
      BY <1>1, <1>2, <2>1, <3>2, NatDivIs
  <2> DEFINE first == BlockSize * (((s + i) - 1) \div BlockSize) + 1
  <2> DEFINE last == IF first + BlockSize - 1 < z THEN first + BlockSize - 1 ELSE z
  <2>3. first = s + 1
    BY <1>2, <2>2
  <2>4. Arrival(u)[s + i] = IF u \in Frame THEN first + last - (s + i) ELSE s + i
    BY <2>1 DEF Arrival
  <2> HIDE DEF first
  <2>5. last = s + n
    BY <1>1, <2>3
  <2> HIDE DEF last
  <2>6. Block(u, n)[i] = IF u \in Frame THEN s + n + 1 - i ELSE s + i
    BY DEF Block
  <2>7. QED
    <3> HIDE DEF n, s
    <3>1. s \in Nat /\ n \in Nat /\ i \in Nat
      BY <1>1, <1>3, <2>1
    <3>2. QED
      BY <2>3, <2>4, <2>5, <2>6, <3>1
<1>8. Block(u, n) = piece
  <2>1. piece = [i \in 1..n |-> piece[i]]
    <3> HIDE DEF piece, n
    <3>1. QED
      BY <1>3, <1>6, LenProperties
  <2>2. Block(u, n) = [i \in 1..n |-> Block(u, n)[i]]
    BY DEF Block
  <2>3. \A i \in 1..n : piece[i] = Block(u, n)[i]
    <3> HIDE DEF piece, n, s
    <3>1. QED
      BY <1>6, <1>7
  <2> HIDE DEF piece, n, s
  <2>4. QED
    BY <2>1, <2>2, <2>3
<1>9. QED
  BY <1>3, <1>4, <1>8
--------------------------------------------------------------------------------
(* The bar *)

LEMMA PictureIs ==
  ASSUME NEW h \in 0..(2 * Width), NEW p
  PROVE  LET b == Picture(h, p) IN
         /\ b.full \in 0..Width /\ b.half \in 0..Width /\ b.empty \in 0..Width
         /\ b.full + b.half + b.empty = Width
         /\ 2 * b.full + b.half = h /\ b.percent = p
<1> DEFINE q == h \div 2
<1> DEFINE r == h % 2
<1>1. h \in Nat /\ Width \in Nat
  BY UploadAssumption
<1>2. q \in Nat /\ r \in 0..1 /\ h = 2 * q + r
  BY <1>1, NatDivMod
<1>3. q \in 0..Width /\ r \in 0..Width /\ Width - q - r \in 0..Width
  <2> HIDE DEF q, r
  <2>1. QED
    BY <1>1, <1>2
<1>4. Picture(h, p) = [full |-> q, half |-> r, empty |-> Width - q - r, percent |-> p]
  BY DEF Picture
<1>5. QED
  <2> HIDE DEF q, r
  <2>1. QED
    BY <1>1, <1>2, <1>3, <1>4

(* How far along the bar is, and what it says, after c of m steps.         *)
Share(whole, c, m) == Least((whole * c) \div m, whole)

LEMMA ShareIs ==
  ASSUME NEW w \in Nat, NEW c \in Nat, NEW m \in Nat \ {0}
  PROVE  /\ Share(w, c, m) \in 0..w
         /\ Share(w, c, m) * m <= w * c
         /\ c >= m => Share(w, c, m) = w
<1> DEFINE q == (w * c) \div m
<1>1. w * c \in Nat
  OBVIOUS
<1>2. q \in Nat /\ m * q <= w * c
  <2> DEFINE r == (w * c) % m
  <2>1. r \in 0..(m - 1) /\ q \in Nat /\ w * c = m * q + r
    BY <1>1, NatDivMod
  <2> HIDE DEF q, r
  <2>2. QED
    BY <1>1, <2>1
<1>3. Share(w, c, m) = IF q < w THEN q ELSE w
  BY DEF Share, Least
<1>4. c >= m => w <= q
  <2>1. SUFFICES ASSUME c >= m PROVE w <= q
    OBVIOUS
  <2>2. m * w <= w * c
    BY <2>1
  <2>3. QED
    BY <1>1, <2>2, DivAtLeast
<1> HIDE DEF q
<1>5. Share(w, c, m) <= q /\ Share(w, c, m) \in 0..w
  BY <1>2, <1>3
<1>6. Share(w, c, m) * m <= q * m
  BY <1>2, <1>5
<1>7. QED
  BY <1>2, <1>3, <1>4, <1>5, <1>6

LEMMA ShareGrows ==
  ASSUME NEW w \in Nat, NEW c \in Nat, NEW d \in Nat, c <= d, NEW m \in Nat \ {0}
  PROVE  Share(w, c, m) <= Share(w, d, m)
<1> DEFINE q == (w * c) \div m
<1> DEFINE r == (w * d) \div m
<1>1. w * c \in Nat /\ w * d \in Nat /\ w * c <= w * d
  OBVIOUS
<1>2. q \in Nat /\ r \in Nat /\ q <= r
  BY <1>1, NatDivMod, DivMonotone
<1>3. /\ Share(w, c, m) = IF q < w THEN q ELSE w
      /\ Share(w, d, m) = IF r < w THEN r ELSE w
  BY DEF Share, Least
<1> HIDE DEF q, r
<1>4. QED
  BY <1>2, <1>3

HalvesOf(b) == 2 * b.full + b.half

(* What a drawing with a known max_step_ looks like.                       *)
LEMMA DrawnIs ==
  ASSUME NEW c \in Nat, NEW m \in Nat \ {0}, NEW completed \in BOOLEAN
  PROVE  LET b == Drawn(c, m, completed) IN
         /\ b.full \in 0..Width /\ b.half \in 0..Width /\ b.empty \in 0..Width
         /\ b.full + b.half + b.empty = Width
         /\ HalvesOf(b) = IF completed THEN 2 * Width ELSE Share(2 * Width, c, m)
         /\ b.percent = Share(100, c, m) /\ b.percent # Unread
<1> DEFINE h == IF completed THEN 2 * Width ELSE Share(2 * Width, c, m)
<1> DEFINE p == Share(100, c, m)
<1>1. Width \in Nat /\ 2 * Width \in Nat
  BY UploadAssumption
<1>2. h \in 0..(2 * Width) /\ p \in 0..100
  <2>1. Share(2 * Width, c, m) \in 0..(2 * Width)
    BY <1>1, ShareIs
  <2>2. 100 \in Nat /\ p \in 0..100
    BY ShareIs
  <2>3. 2 * Width \in 0..(2 * Width)
    BY <1>1
  <2>4. QED
    BY <2>1, <2>2, <2>3
<1>3. Drawn(c, m, completed) = Picture(h, p)
  BY DEF Drawn, Share
<1> HIDE DEF h
<1>4. p # Unread
  BY <1>2 DEF Unread
<1> HIDE DEF p
<1>5. LET b == Picture(h, p) IN
      /\ b.full \in 0..Width /\ b.half \in 0..Width /\ b.empty \in 0..Width
      /\ b.full + b.half + b.empty = Width
      /\ 2 * b.full + b.half = h /\ b.percent = p
  BY <1>2, PictureIs
<1>6. QED
  BY <1>3, <1>4, <1>5 DEF HalvesOf, h, p

(* The same of a bar that was drawn so.                                     *)
LEMMA DrawnParts ==
  ASSUME NEW c \in Nat, NEW m \in Nat \ {0}, NEW completed \in BOOLEAN,
         NEW b, b = Drawn(c, m, completed)
  PROVE  /\ b.full + b.half + b.empty = Width /\ b.percent = Share(100, c, m)
         /\ ~completed => 2 * b.full + b.half = Share(2 * Width, c, m)
BY DrawnIs DEF HalvesOf

LEMMA DrawnNumbers ==
  ASSUME NEW c \in Nat, NEW m \in Nat \ {0}, NEW completed \in BOOLEAN
  PROVE  HalvesOf(Drawn(c, m, completed)) \in Nat /\ Drawn(c, m, completed).percent \in Nat
<1>1. 2 * Width \in Nat /\ 100 \in Nat
  BY UploadAssumption
<1>2. Share(2 * Width, c, m) \in Nat /\ Share(100, c, m) \in Nat
  <2>1. ASSUME NEW w \in Nat PROVE Share(w, c, m) \in Nat
    <3>1. Share(w, c, m) \in 0..w
      BY ShareIs
    <3>2. QED
      BY <3>1
  <2>2. QED
    BY <1>1, <2>1
<1>3. /\ HalvesOf(Drawn(c, m, completed)) = IF completed THEN 2 * Width ELSE Share(2 * Width, c, m)
      /\ Drawn(c, m, completed).percent = Share(100, c, m)
  BY DrawnIs
<1>4. CASE completed
  BY <1>1, <1>2, <1>3, <1>4
<1>5. CASE ~completed
  BY <1>1, <1>2, <1>3, <1>5
<1>6. QED
  BY <1>4, <1>5

(* Without one there is nothing to tell.                                   *)
LEMMA DrawnWithoutMax ==
  ASSUME NEW c, NEW completed \in BOOLEAN
  PROVE  LET b == Drawn(c, 0, completed) IN
         /\ b = Undefined \/ {b.full, b.half, b.empty} \subseteq 0..Width
         /\ b.percent = Unread
<1>1. Width \in Nat /\ 2 * Width \in 0..(2 * Width)
  BY UploadAssumption
<1>2. CASE completed
  <2>1. Drawn(c, 0, completed) = Picture(2 * Width, Unread)
    BY <1>2 DEF Drawn
  <2>2. QED
    BY <1>1, <2>1, PictureIs
<1>3. CASE ~completed
  BY <1>3 DEF Drawn, Undefined
<1>4. QED
  BY <1>2, <1>3

(* A later drawing is ahead of an earlier one, and the completed bar of    *)
(* both.                                                                   *)
LEMMA DrawnGrows ==
  ASSUME NEW c \in Nat, NEW d \in Nat, c <= d, NEW m \in Nat \ {0},
         NEW completed \in BOOLEAN, NEW still \in BOOLEAN, completed => still
  PROVE  /\ HalvesOf(Drawn(c, m, completed)) <= HalvesOf(Drawn(d, m, still))
         /\ Drawn(c, m, completed).percent <= Drawn(d, m, still).percent
<1>1. 2 * Width \in Nat /\ 100 \in Nat
  BY UploadAssumption
<1>2. /\ Share(2 * Width, c, m) \in 0..(2 * Width) /\ Share(2 * Width, d, m) \in 0..(2 * Width)
      /\ Share(2 * Width, c, m) <= Share(2 * Width, d, m)
      /\ Share(100, c, m) <= Share(100, d, m)
  <2>1. ASSUME NEW w \in Nat
        PROVE  /\ Share(w, c, m) \in 0..w /\ Share(w, d, m) \in 0..w
               /\ Share(w, c, m) <= Share(w, d, m)
    <3>1. Share(w, c, m) \in 0..w /\ Share(w, d, m) \in 0..w
      BY ShareIs
    <3>2. QED
      BY <3>1, ShareGrows
  <2>2. QED
    BY <1>1, <2>1
<1>3. /\ HalvesOf(Drawn(c, m, completed)) = IF completed THEN 2 * Width ELSE Share(2 * Width, c, m)
      /\ HalvesOf(Drawn(d, m, still)) = IF still THEN 2 * Width ELSE Share(2 * Width, d, m)
      /\ Drawn(c, m, completed).percent = Share(100, c, m)
      /\ Drawn(d, m, still).percent = Share(100, d, m)
  BY DrawnIs
<1>4. QED
  BY <1>1, <1>2, <1>3
--------------------------------------------------------------------------------
(* Messages *)

LEMMA NoPieces ==
  ASSUME NEW u \in Task, NEW at \in Nat
  PROVE  Pieces(u, <<>>, at, at)
<1> DEFINE cut == [i \in {0} |-> at]
<1>1. Len(<<>>) = 0 /\ 0..0 = {0} /\ 1..0 = {}
  OBVIOUS
<1>2. cut \in [0..Len(<<>>) -> 0..at] /\ cut[0] = at
  BY <1>1
<1> HIDE DEF cut
<1>3. QED
  BY <1>1, <1>2 DEF Pieces

LEMMA NoPiecesLeft ==
  ASSUME NEW u \in Task, NEW from, NEW to, Pieces(u, <<>>, from, to)
  PROVE  from = to
BY EmptySeq DEF Pieces

LEMMA PiecesOrder ==
  ASSUME NEW u \in Task, NEW w \in Seq(Seq(Nat)), NEW from, NEW to \in Nat,
         Pieces(u, w, from, to)
  PROVE  from \in 0..to
BY LenProperties DEF Pieces

LEMMA OnePieceMore ==
  ASSUME NEW u \in Task, NEW w \in Seq(Seq(Nat)), NEW from, NEW to \in Nat, Pieces(u, w, from, to),
         NEW end \in to..Size[u]
  PROVE  LET piece == SubSeq(Arrival(u), to + 1, end) IN
         piece \in Seq(Nat) /\ Pieces(u, Append(w, piece), from, end)
<1> DEFINE piece == SubSeq(Arrival(u), to + 1, end)
<1> DEFINE ww == Append(w, piece)
<1>1. /\ Size[u] \in Nat /\ end \in Nat /\ to <= end
      /\ Arrival(u) \in Seq(Nat) /\ Len(Arrival(u)) = Size[u]
  BY SizesAre, ArrivalIs
<1>2. piece \in Seq(Nat)
  <2>1. \A i \in (to + 1)..end : i \in 1..Size[u]
    BY <1>1
  <2>2. \A i \in (to + 1)..end : Arrival(u)[i] \in Nat
    BY <1>1, <2>1, ElementOfSeq
  <2>3. QED
    BY <1>1, <2>2, SubSeqProperties
<1> HIDE DEF piece
<1>3. /\ Len(ww) = Len(w) + 1 /\ Len(w) \in Nat /\ ww[Len(w) + 1] = piece
      /\ \A i \in 1..Len(w) : ww[i] = w[i]
  BY <1>2, AppendProperties, LenProperties
<1> HIDE DEF ww
<1>4. PICK cut \in [0..Len(w) -> 0..to] :
        /\ cut[0] = from /\ cut[Len(w)] = to
        /\ \A i \in 1..Len(w) :
             cut[i - 1] <= cut[i] /\ w[i] = SubSeq(Arrival(u), cut[i - 1] + 1, cut[i])
  BY DEF Pieces
<1> DEFINE more == [i \in 0..Len(ww) |-> IF i = Len(ww) THEN end ELSE cut[i]]
<1>5. more \in [0..Len(ww) -> 0..end]
  BY <1>1, <1>3, <1>4
<1>6. /\ more[0] = from /\ more[Len(ww)] = end /\ more[Len(w)] = to
      /\ \A i \in 0..Len(w) : more[i] = cut[i]
  BY <1>3, <1>4
<1> HIDE DEF more
<1>7. ASSUME NEW i \in 1..Len(ww)
      PROVE  more[i - 1] <= more[i] /\ ww[i] = SubSeq(Arrival(u), more[i - 1] + 1, more[i])
  <2>1. CASE i = Len(ww)
    <3>1. i - 1 = Len(w) /\ i = Len(w) + 1
      BY <1>3, <2>1
    <3>2. more[i - 1] = to /\ more[i] = end /\ ww[i] = piece
      BY <1>3, <1>6, <2>1, <3>1
    <3>3. QED
      BY <1>1, <3>2 DEF piece
  <2>2. CASE i # Len(ww)
    <3>1. i \in 1..Len(w) /\ i - 1 \in 0..Len(w) /\ i \in 0..Len(w)
      BY <1>3, <2>2
    <3>2. QED
      BY <1>3, <1>4, <1>6, <3>1
  <2>3. QED
    BY <2>1, <2>2
<1>8. Pieces(u, ww, from, end)
  BY <1>5, <1>6, <1>7 DEF Pieces
<1>9. QED
  BY <1>2, <1>8 DEF ww, piece

(* The options of a key.                                                   *)
LEMMA NothingMore ==
  ASSUME NEW u \in Task, NEW w \in Seq(Seq(Nat)), NEW from, NEW to \in 0..Size[u],
         Pieces(u, w, from, to)
  PROVE  Pieces(u, Append(w, <<>>), from, to)
<1>1. to \in Nat /\ to \in to..Size[u] /\ Size[u] \in Nat
  BY SizesAre
<1>2. SubSeq(Arrival(u), to + 1, to) = <<>>
  BY <1>1, SubSeqEmpty
<1>3. QED
  BY <1>1, <1>2, OnePieceMore

LEMMA FirstPiece ==
  ASSUME NEW u \in Task, NEW w \in Seq(Seq(Nat)), w # <<>>, NEW from \in Nat, NEW to \in Nat,
         Pieces(u, w, from, to)
  PROVE  \E mid \in from..to :
           Head(w) = SubSeq(Arrival(u), from + 1, mid) /\ Pieces(u, Tail(w), mid, to)
<1> DEFINE ww == Tail(w)
<1>1. /\ ww \in Seq(Seq(Nat)) /\ Len(w) \in Nat /\ Len(w) >= 1 /\ Len(ww) = Len(w) - 1
      /\ \A i \in 1..Len(ww) : ww[i] = w[i + 1]
      /\ Head(w) = w[1]
  BY HeadTailProperties, LenProperties, EmptySeq
<1> HIDE DEF ww
<1>2. PICK cut \in [0..Len(w) -> 0..to] :
        /\ cut[0] = from /\ cut[Len(w)] = to
        /\ \A i \in 1..Len(w) :
             cut[i - 1] <= cut[i] /\ w[i] = SubSeq(Arrival(u), cut[i - 1] + 1, cut[i])
  BY DEF Pieces
<1> DEFINE rest == [i \in 0..Len(ww) |-> cut[i + 1]]
<1>3. rest \in [0..Len(ww) -> 0..to] /\ rest[0] = cut[1] /\ rest[Len(ww)] = to
  <2>1. \A i \in 0..Len(ww) : i + 1 \in 0..Len(w)
    BY <1>1
  <2>2. \A i \in 0..Len(ww) : cut[i + 1] \in 0..to
    BY <1>2, <2>1
  <2>3. 0 \in 0..Len(ww) /\ Len(ww) \in 0..Len(ww) /\ Len(ww) + 1 = Len(w) /\ 0 + 1 = 1
    BY <1>1
  <2>4. QED
    BY <1>2, <2>2, <2>3
<1>4. \A i \in 0..Len(ww) : rest[i] = cut[i + 1]
  OBVIOUS
<1> HIDE DEF rest
<1>5. ASSUME NEW i \in 1..Len(ww)
      PROVE  rest[i - 1] <= rest[i] /\ ww[i] = SubSeq(Arrival(u), rest[i - 1] + 1, rest[i])
  <2>1. i + 1 \in 1..Len(w) /\ i - 1 \in 0..Len(ww) /\ i \in 0..Len(ww) /\ (i - 1) + 1 = i /\ (i + 1) - 1 = i
    BY <1>1
  <2>2. cut[(i + 1) - 1] <= cut[i + 1] /\ w[i + 1] = SubSeq(Arrival(u), cut[(i + 1) - 1] + 1, cut[i + 1])
    BY <1>2, <2>1
  <2>3. QED
    BY <1>1, <1>4, <2>1, <2>2
<1>6. Pieces(u, ww, cut[1], to)
  BY <1>3, <1>5 DEF Pieces
<1>7. 1 \in 1..Len(w) /\ 1 - 1 = 0 /\ 1 \in 0..Len(w)
  BY <1>1
<1>8. cut[1] \in from..to /\ w[1] = SubSeq(Arrival(u), from + 1, cut[1])
  <2>1. cut[1 - 1] <= cut[1] /\ w[1] = SubSeq(Arrival(u), cut[1 - 1] + 1, cut[1])
    BY <1>2, <1>7
  <2>2. cut[1 - 1] = from /\ cut[1] \in 0..to
    BY <1>2, <1>7
  <2>3. QED
    BY <2>1, <2>2
<1>9. QED
  BY <1>1, <1>6, <1>8 DEF ww
--------------------------------------------------------------------------------
(* The uploads' steps *)

(* What the watcher needs to know of a step: nothing it has seen of an     *)
(* upload goes back, and nothing of one whose future is ready changes.     *)
Moves(u) ==
  /\ currentStep[u] <= currentStep'[u] /\ maxStep[u] \in {0, maxStep'[u]}
  /\ u \in finished => u \in finished' /\ currentStep'[u] = currentStep[u] /\ maxStep'[u] = maxStep[u]
  /\ future[u] \notin {"none", "threw"} => future'[u] \notin {"none", "threw"}

UploadsMove == UploadsInv' /\ \A u \in Task : Moves(u)

(* An upload that a step is not about.                                     *)
LEMMA OthersStay ==
  ASSUME NEW u \in Task, Shapes, UploadInv(u),
         future'[u] = future[u], stream'[u] = stream[u], sent'[u] = sent[u],
         block'[u] = block[u], currentStep'[u] = currentStep[u],
         maxStep'[u] = maxStep[u], wire'[u] = wire[u], server'[u] = server[u],
         u \in Range(pending') <=> u \in Range(pending),
         u \in running' <=> u \in running, u \in finished' <=> u \in finished
  PROVE  UploadInv(u)' /\ Moves(u)
<1>1. FutureFollowsTask(u)'
  BY DEF UploadInv, FutureFollowsTask
<1>2. Counting(u)'
  BY DEF UploadInv, Counting, LastStep
<1>3. Streaming(u)'
  BY DEF UploadInv, Streaming
<1>4. InHand(u)' /\ Moves(u)
  BY DEF UploadInv, InHand, NextBlock, Moves, Shapes
<1>5. QED
  BY <1>1, <1>2, <1>3, <1>4 DEF UploadInv

(* One that the pool has not heard of has sent nothing, and the server has *)
(* nothing of it.                                                          *)
LEMMA NotBegun ==
  ASSUME UploadsInv, NEW u \in Task, u \notin running \union finished
  PROVE  /\ sent[u] = 0 /\ block[u] = 0 /\ currentStep[u] = 0
         /\ maxStep[u] = 0 /\ Len(server[u]) = 0
         /\ server[u] = SubSeq(Arrival(u), 1, 0)
<1>1. sent[u] = 0 /\ maxStep[u] = 0 /\ block[u] = 0
  BY DEF UploadsInv, UploadInv, Counting, InHand
<1>2. currentStep[u] = 0
  <2>1. u \in Frame \/ u \in Key
    BY DEF Key
  <2>2. QED
    BY <1>1, <2>1 DEF UploadsInv, UploadInv, Shapes, InHand
<1>3. server[u] \in Seq(Nat) /\ Len(server[u]) \in Nat
  BY LenProperties DEF UploadsInv, Shapes
<1>4. QED
  BY <1>1, <1>2, <1>3 DEF UploadsInv, UploadInv, Streaming

(* Between two blocks nothing is in hand, whatever else happens.           *)
LEMMA HandStays ==
  ASSUME NEW u \in Task, InHand(u), UNCHANGED <<sent, block, currentStep>>,
         block[u] = 0 \/ (u \in running => u \in running')
  PROVE  InHand(u)'
BY DEF InHand, NextBlock

LEMMA KeyOrFrameOpens ==
  ASSUME UploadsInv, NEW u \in Task, AddKey(u) \/ CreateFrame(u)
  PROVE  UploadsMove
<1>1. /\ future[u] = "none" /\ stream' = [stream EXCEPT ![u] = "open"] /\ Submit(u)
      /\ future' = [future EXCEPT ![u] = "pending"]
      /\ UNCHANGED <<wire, server, sent, block, currentStep, maxStep>>
  BY DEF AddKey, CreateFrame, Enqueue, progress
<1>2. /\ QueueInv' /\ u \notin Known
      /\ Range(pending') = Range(pending) \union {u}
      /\ running' = running /\ finished' = finished
  BY <1>1, SubmitEffect DEF UploadsInv
<1>3. Shapes'
  BY <1>1 DEF UploadsInv, Shapes
<1>4. /\ sent[u] = 0 /\ maxStep[u] = 0 /\ Len(server[u]) = 0
      /\ server[u] = SubSeq(Arrival(u), 1, 0) /\ wire[u] = <<>>
      /\ u \notin running \union finished /\ block[u] = 0 /\ currentStep[u] \in Nat
  BY <1>1, <1>2, NotBegun DEF UploadsInv, UploadInv, FutureFollowsTask, Streaming, Known
<1>5. /\ future'[u] = "pending" /\ stream'[u] = "open"
      /\ sent'[u] = 0 /\ maxStep'[u] = 0 /\ wire'[u] = <<>> /\ server'[u] = server[u]
  BY <1>1, <1>4 DEF UploadsInv, Shapes
<1>6. UploadInv(u)'
  <2>1. FutureFollowsTask(u)'
    BY <1>2, <1>4, <1>5 DEF FutureFollowsTask
  <2>2. Counting(u)'
    <3>1. 0 <= Size[u] /\ 0 \in 0..Size[u] /\ 0 = BlockSize * 0
      BY SizesAre
    <3>2. QED
      BY <1>2, <1>4, <1>5, <3>1 DEF Counting
  <2>3. Streaming(u)'
    <3>1. Pieces(u, <<>>, 0, 0)
      BY NoPieces
    <3>2. QED
      BY <1>4, <1>5, <3>1 DEF Streaming
  <2>4. InHand(u)'
    BY <1>1, <1>4, HandStays DEF UploadsInv, UploadInv
  <2>5. QED
    BY <2>1, <2>2, <2>3, <2>4 DEF UploadInv
<1>7. Moves(u)
  BY <1>1, <1>2, <1>4, <1>5 DEF Moves
<1>8. ASSUME NEW v \in Task, v # u PROVE UploadInv(v)' /\ Moves(v)
  BY <1>1, <1>2, <1>8, OthersStay DEF UploadsInv, Shapes
<1>9. QED
  BY <1>2, <1>3, <1>6, <1>7, <1>8 DEF UploadsMove, UploadsInv

LEMMA FrameUnanswered ==
  ASSUME UploadsInv, NEW u \in Task, CreateFrameUnanswered(u)
  PROVE  UploadsMove
<1>1. /\ future[u] = "none" /\ stream' = [stream EXCEPT ![u] = "broken"]
      /\ UNCHANGED <<wire, server, sent, block, currentStep, maxStep>>
  BY DEF CreateFrameUnanswered, progress
<1>2. /\ sent[u] = 0 /\ maxStep[u] = 0 /\ Len(server[u]) = 0
      /\ server[u] = SubSeq(Arrival(u), 1, 0) /\ wire[u] = <<>>
      /\ u \notin Range(pending) \union running \union finished
      /\ currentStep[u] \in Nat /\ InHand(u)'
  <2>1. /\ u \notin Range(pending) \union running \union finished /\ wire[u] = <<>>
    BY <1>1 DEF UploadsInv, UploadInv, FutureFollowsTask, Streaming
  <2>2. /\ sent[u] = 0 /\ block[u] = 0 /\ currentStep[u] = 0 /\ maxStep[u] = 0
        /\ Len(server[u]) = 0 /\ server[u] = SubSeq(Arrival(u), 1, 0)
    BY <2>1, NotBegun
  <2>3. InHand(u)'
    BY <1>1, <2>2, HandStays DEF UploadsInv, UploadInv
  <2>4. QED
    BY <2>1, <2>2, <2>3
<1>3. 0 <= Size[u] /\ 0 \in 0..Size[u] /\ 0 = BlockSize * 0
  BY SizesAre
<1>4. CASE Enqueue(u)
  <2>1. future' = [future EXCEPT ![u] = "pending"] /\ Submit(u)
    BY <1>4 DEF Enqueue
  <2>2. /\ QueueInv'
        /\ Range(pending') = Range(pending) \union {u}
        /\ running' = running /\ finished' = finished
    BY <2>1, SubmitEffect DEF UploadsInv
  <2>3. Shapes'
    BY <1>1, <2>1 DEF UploadsInv, Shapes
  <2>4. /\ future'[u] = "pending" /\ stream'[u] = "broken"
        /\ sent'[u] = 0 /\ maxStep'[u] = 0 /\ wire'[u] = <<>> /\ server'[u] = server[u]
    BY <1>1, <1>2, <2>1 DEF UploadsInv, Shapes
  <2>5. UploadInv(u)' /\ Moves(u)
    BY <1>1, <1>2, <1>3, <2>2, <2>4 DEF UploadInv, FutureFollowsTask, Counting, Streaming, Moves
  <2>6. ASSUME NEW v \in Task, v # u PROVE UploadInv(v)' /\ Moves(v)
    BY <1>1, <2>1, <2>2, <2>6, OthersStay DEF UploadsInv, Shapes
  <2>7. QED
    BY <2>2, <2>3, <2>5, <2>6 DEF UploadsMove, UploadsInv
<1>5. CASE future' = [future EXCEPT ![u] = "threw"] /\ UNCHANGED queueVars
  <2>1. QueueInv' /\ pending' = pending /\ running' = running /\ finished' = finished
    BY <1>5 DEF UploadsInv, queueVars, QueueInv, QueueTypeOK
  <2>2. Shapes'
    BY <1>1, <1>5 DEF UploadsInv, Shapes
  <2>3. /\ future'[u] = "threw" /\ stream'[u] = "broken"
        /\ sent'[u] = 0 /\ maxStep'[u] = 0 /\ wire'[u] = <<>> /\ server'[u] = server[u]
    BY <1>1, <1>2, <1>5 DEF UploadsInv, Shapes
  <2>4. UploadInv(u)' /\ Moves(u)
    BY <1>1, <1>2, <1>3, <2>1, <2>3 DEF UploadInv, FutureFollowsTask, Counting, Streaming, Moves
  <2>5. ASSUME NEW v \in Task, v # u PROVE UploadInv(v)' /\ Moves(v)
    BY <1>1, <1>5, <2>1, <2>5, OthersStay DEF UploadsInv, Shapes
  <2>6. QED
    BY <2>1, <2>2, <2>4, <2>5 DEF UploadsMove, UploadsInv
<1>6. QED
  BY <1>4, <1>5 DEF CreateFrameUnanswered

LEMMA TaskBegins ==
  ASSUME UploadsInv, Begin
  PROVE  UploadsMove
<1>0. Head(pending) \in Task
  BY StartEffect DEF UploadsInv, Begin
<1> PICK u \in Task : u = Head(pending)
  BY <1>0
<1>1. /\ QueueInv' /\ u \in Range(pending)
      /\ Range(pending') = Range(pending) \ {u}
      /\ running' = running \union {u} /\ finished' = finished
  BY StartEffect DEF UploadsInv, Begin
<1>2. /\ maxStep' = [maxStep EXCEPT ![u] = LastStep(u)]
      /\ UNCHANGED <<future, stream, server, sent, block, currentStep>>
  BY DEF Begin
<1>3. \/ wire' = wire
      \/ wire' = [wire EXCEPT ![u] = Append(@, <<>>)] /\ stream[u] = "open"
  BY DEF Begin, Write
<1>4. u \notin running \union finished /\ future[u] = "pending"
  BY <1>1 DEF UploadsInv, QueueInv, UploadInv, FutureFollowsTask
<1>5. /\ sent[u] = 0 /\ maxStep[u] = 0 /\ Len(server[u]) = 0
      /\ wire[u] \in Seq(Seq(Nat)) /\ <<>> \in Seq(Nat)
  BY <1>1, <1>4, NotBegun, EmptySeq DEF UploadsInv, Shapes
<1>6. Append(wire[u], <<>>) \in Seq(Seq(Nat))
  BY <1>5, AppendProperties
<1>7. LastStep(u) \in Nat /\ 0 \in 0..Size[u] /\ 0 \in Nat
  BY <1>1, SizesAre
<1>8. Shapes'
  <2>1. wire' \in [Task -> Seq(Seq(Nat))]
    BY <1>3, <1>6 DEF UploadsInv, Shapes
  <2>2. QED
    BY <1>2, <1>7, <2>1 DEF UploadsInv, Shapes
<1>9. /\ maxStep'[u] = LastStep(u) /\ sent'[u] = 0 /\ future'[u] = future[u]
      /\ stream'[u] = stream[u] /\ server'[u] = server[u]
      /\ \/ wire'[u] = wire[u]
         \/ wire'[u] = Append(wire[u], <<>>) /\ stream[u] = "open"
  BY <1>1, <1>2, <1>3, <1>5 DEF UploadsInv, Shapes
<1>10. UploadInv(u)'
  <2>1. FutureFollowsTask(u) /\ Counting(u) /\ Streaming(u)
    BY <1>1 DEF UploadsInv, UploadInv
  <2>2. FutureFollowsTask(u)'
    BY <1>1, <1>4, <1>9, <2>1 DEF FutureFollowsTask
  <2>3. Counting(u)'
    BY <1>1, <1>4, <1>5, <1>9, <2>1 DEF Counting, LastStep
  <2>4. Streaming(u)'
    <3>1. CASE stream[u] = "open"
      <4>1. Pieces(u, wire[u], 0, 0)
        BY <1>5, <2>1, <3>1 DEF Streaming
      <4>2. Pieces(u, Append(wire[u], <<>>), 0, 0)
        BY <1>1, <1>5, <1>7, <4>1, NothingMore
      <4>3. QED
        BY <1>5, <1>9, <2>1, <3>1, <4>1, <4>2 DEF Streaming
    <3>2. CASE stream[u] # "open"
      BY <1>5, <1>9, <2>1, <3>2 DEF Streaming
    <3>3. QED
      BY <3>1, <3>2
  <2>5. InHand(u)'
    BY <1>1, <1>2, HandStays DEF UploadsInv, UploadInv
  <2>6. QED
    BY <2>2, <2>3, <2>4, <2>5 DEF UploadInv
<1>11. Moves(u)
  BY <1>1, <1>2, <1>4, <1>5, <1>9 DEF Moves, UploadsInv, Shapes
<1>12. ASSUME NEW v \in Task, v # u PROVE UploadInv(v)' /\ Moves(v)
  <2>1. /\ maxStep'[v] = maxStep[v] /\ wire'[v] = wire[v]
    BY <1>2, <1>3, <1>12 DEF UploadsInv, Shapes
  <2>2. QED
    BY <1>1, <1>2, <1>12, <2>1, OthersStay DEF UploadsInv
<1>13. QED
  BY <1>1, <1>8, <1>10, <1>11, <1>12 DEF UploadsMove, UploadsInv

(* A Write of the next block, and the loop's counter behind it.            *)
BlockWritten(u) ==
  /\ Write(u, Block(u, NextBlock(u)))
  /\ sent' = [sent EXCEPT ![u] = @ + NextBlock(u)]
  /\ UNCHANGED <<queueVars, future, stream, server, maxStep>>

LEMMA WrittenEffect ==
  ASSUME UploadsInv, NEW u \in Task, u \in running, sent[u] < Size[u], BlockWritten(u)
  PROVE  /\ NextBlock(u) \in Nat \ {0} /\ sent'[u] = sent[u] + NextBlock(u)
         /\ sent' \in [Task -> Nat] /\ wire' \in [Task -> Seq(Seq(Nat))]
         /\ \A v \in Task : v # u => sent'[v] = sent[v] /\ wire'[v] = wire[v]
         /\ FutureFollowsTask(u)' /\ Counting(u)' /\ Streaming(u)'
<1> DEFINE n == NextBlock(u)
<1> DEFINE to == sent[u] + n
<1>1. /\ u \in running /\ sent[u] < Size[u] /\ Write(u, Block(u, n))
      /\ sent' = [sent EXCEPT ![u] = @ + n]
      /\ UNCHANGED <<queueVars, future, stream, server, maxStep>>
  BY DEF BlockWritten
<1>2. pending' = pending /\ running' = running /\ finished' = finished
  BY <1>1 DEF queueVars
<1>3. /\ FutureFollowsTask(u) /\ Counting(u) /\ Streaming(u)
      /\ Shapes /\ sent[u] \in Nat /\ wire[u] \in Seq(Seq(Nat))
  BY DEF UploadsInv, UploadInv, Shapes
<1>4. /\ n \in Nat \ {0} /\ to <= Size[u] /\ Size[u] \in Nat
      /\ Block(u, n) = SubSeq(Arrival(u), sent[u] + 1, to)
      /\ to = Size[u] \/ \E k \in 0..Size[u] : to = BlockSize * k
  BY <1>1, <1>3, BlockIsPiece, SizesAre
<1>5. to \in sent[u]..Size[u] /\ to \in Nat
  BY <1>3, <1>4
<1>6. PICK end, message : end = to /\ message = Block(u, n) /\ end \in Nat
  BY <1>5
<1>7. /\ \/ stream[u] = "open" /\ wire' = [wire EXCEPT ![u] = Append(@, message)]
         \/ stream[u] # "open" /\ wire' = wire
  BY <1>1, <1>6 DEF Write
<1>8. stream[u] = "open" =>
        message \in Seq(Nat) /\ Pieces(u, Append(wire[u], message), Len(server[u]), end)
  <2>1. SUFFICES ASSUME stream[u] = "open"
                 PROVE  message \in Seq(Nat) /\ Pieces(u, Append(wire[u], message), Len(server[u]), end)
    OBVIOUS
  <2>2. Pieces(u, wire[u], Len(server[u]), sent[u])
    BY <1>3, <2>1 DEF Streaming
  <2>3. message = SubSeq(Arrival(u), sent[u] + 1, end) /\ end \in sent[u]..Size[u]
    BY <1>4, <1>5, <1>6
  <2> HIDE DEF n, to
  <2>4. QED
    BY <1>3, <2>2, <2>3, OnePieceMore
<1>9. stream[u] = "open" => Append(wire[u], message) \in Seq(Seq(Nat))
  BY <1>3, <1>8, AppendProperties
<1> HIDE DEF n, to
<1>10. sent' = [sent EXCEPT ![u] = end]
  BY <1>1, <1>3, <1>6 DEF to, Shapes
<1>11. wire' \in [Task -> Seq(Seq(Nat))] /\ sent' \in [Task -> Nat]
  BY <1>3, <1>6, <1>7, <1>9, <1>10 DEF Shapes
<1>12. /\ sent'[u] = end /\ sent[u] <= end
       /\ \/ stream[u] = "open" /\ wire'[u] = Append(wire[u], message)
          \/ stream[u] # "open" /\ wire'[u] = wire[u]
  BY <1>3, <1>5, <1>6, <1>7, <1>10 DEF Shapes
<1>13. FutureFollowsTask(u)' /\ Counting(u)' /\ Streaming(u)'
  <2>1. FutureFollowsTask(u)'
    BY <1>1, <1>2, <1>3 DEF FutureFollowsTask
  <2>2. future[u] = "pending"
    BY <1>1, <1>3 DEF FutureFollowsTask
  <2>3. Counting(u)'
    <3>1. maxStep'[u] = maxStep[u] /\ future'[u] = "pending"
      BY <1>1, <2>2
    <3>2. end <= Size[u] /\ (end = Size[u] \/ \E k \in 0..Size[u] : end = BlockSize * k)
      BY <1>4, <1>6
    <3>3. QED
      BY <1>1, <1>2, <1>3, <1>12, <3>1, <3>2 DEF Counting, LastStep
  <2>4. Streaming(u)'
    <3>1. stream'[u] = stream[u] /\ server'[u] = server[u] /\ future'[u] = future[u]
      BY <1>1
    <3>2. Len(server[u]) \in Nat
      BY <1>3, LenProperties DEF Shapes
    <3>3. Len(server[u]) <= end
      BY <1>3, <1>6, <1>12, <3>2 DEF Streaming
    <3>4. QED
      BY <1>3, <1>8, <1>12, <2>2, <3>1, <3>3 DEF Streaming
  <2>5. QED
    BY <2>1, <2>3, <2>4
<1>14. \A v \in Task : v # u => sent'[v] = sent[v] /\ wire'[v] = wire[v]
  BY <1>3, <1>7, <1>10 DEF Shapes
<1>15. QED
  BY <1>4, <1>6, <1>11, <1>12, <1>13, <1>14 DEF n, to

(* Encrypted and stepped, not yet written.                                 *)
LEMMA RowsTaken ==
  ASSUME UploadsInv, NEW u \in Task, TakeRows(u)
  PROVE  UploadsMove
<1>1. /\ u \in running /\ u \in Frame /\ block[u] = 0 /\ sent[u] < Size[u]
      /\ block' = [block EXCEPT ![u] = NextBlock(u)]
      /\ currentStep' = [currentStep EXCEPT ![u] = currentStep[u] + NextBlock(u)]
      /\ UNCHANGED <<queueVars, future, stream, wire, server, sent, maxStep>>
  BY DEF TakeRows, More, Stepped, streams
<1>2. QueueInv' /\ pending' = pending /\ running' = running /\ finished' = finished
  BY <1>1 DEF UploadsInv, queueVars, QueueInv, QueueTypeOK
<1>3. /\ FutureFollowsTask(u) /\ Counting(u) /\ InHand(u) /\ Streaming(u) /\ Shapes
      /\ sent[u] \in Nat /\ currentStep[u] \in Nat
  BY DEF UploadsInv, UploadInv, Shapes
<1>4. NextBlock(u) \in Nat \ {0}
  BY <1>1, <1>3, BlockIsPiece
<1>5. /\ block'[u] = NextBlock(u) /\ currentStep'[u] = currentStep[u] + NextBlock(u)
      /\ sent'[u] = sent[u] /\ NextBlock(u)' = NextBlock(u)
  BY <1>1, <1>3 DEF Shapes, NextBlock
<1>6. Shapes'
  BY <1>1, <1>3, <1>4 DEF Shapes
<1>7. FutureFollowsTask(u)' /\ Counting(u)' /\ Streaming(u)'
  BY <1>1, <1>2, <1>3 DEF FutureFollowsTask, Counting, LastStep, Streaming
<1>8. InHand(u)'
  BY <1>1, <1>2, <1>3, <1>5 DEF InHand, Key
<1>9. Moves(u)
  BY <1>1, <1>2, <1>3, <1>4, <1>5 DEF Moves, UploadsInv, QueueInv
<1>10. ASSUME NEW v \in Task, v # u PROVE UploadInv(v)' /\ Moves(v)
  BY <1>1, <1>2, <1>10, OthersStay DEF UploadsInv, Shapes
<1>11. QED
  BY <1>2, <1>6, <1>7, <1>8, <1>9, <1>10 DEF UploadsMove, UploadsInv, UploadInv

LEMMA RowsWritten ==
  ASSUME UploadsInv, NEW u \in Task, WriteRows(u)
  PROVE  UploadsMove
<1>1. /\ u \in running /\ u \in Frame /\ block[u] # 0
      /\ block' = [block EXCEPT ![u] = 0] /\ currentStep' = currentStep
      /\ Write(u, Block(u, block[u])) /\ sent' = [sent EXCEPT ![u] = @ + block[u]]
      /\ UNCHANGED <<queueVars, future, stream, server, maxStep>>
  BY DEF WriteRows
<1>2. QueueInv' /\ pending' = pending /\ running' = running /\ finished' = finished
  BY <1>1 DEF UploadsInv, queueVars, QueueInv, QueueTypeOK
<1>3. InHand(u) /\ Shapes /\ sent[u] \in Nat /\ currentStep[u] \in Nat
  BY DEF UploadsInv, UploadInv, Shapes
<1>4. sent[u] < Size[u] /\ block[u] = NextBlock(u) /\ currentStep[u] = sent[u] + NextBlock(u)
  BY <1>1, <1>3 DEF InHand
<1>5. BlockWritten(u)
  BY <1>1, <1>4 DEF BlockWritten
<1>6. /\ sent'[u] = sent[u] + NextBlock(u)
      /\ sent' \in [Task -> Nat] /\ wire' \in [Task -> Seq(Seq(Nat))]
      /\ \A v \in Task : v # u => sent'[v] = sent[v] /\ wire'[v] = wire[v]
      /\ FutureFollowsTask(u)' /\ Counting(u)' /\ Streaming(u)'
  BY <1>1, <1>4, <1>5, WrittenEffect
<1>7. block'[u] = 0 /\ Shapes'
  BY <1>1, <1>3, <1>6 DEF Shapes
<1>8. InHand(u)'
  BY <1>1, <1>3, <1>4, <1>6, <1>7 DEF InHand, Key, Shapes
<1>9. Moves(u)
  BY <1>1, <1>2, <1>3 DEF Moves
<1>10. ASSUME NEW v \in Task, v # u PROVE UploadInv(v)' /\ Moves(v)
  BY <1>1, <1>2, <1>6, <1>10, OthersStay DEF UploadsInv, Shapes
<1>11. QED
  BY <1>2, <1>6, <1>7, <1>8, <1>9, <1>10 DEF UploadsMove, UploadsInv, UploadInv

LEMMA BytesWritten ==
  ASSUME UploadsInv, NEW u \in Task, WriteBytes(u)
  PROVE  UploadsMove
<1>1. /\ u \in running /\ u \in Key /\ block[u] = 0 /\ sent[u] < Size[u]
      /\ block' = [block EXCEPT ![u] = NextBlock(u)] /\ currentStep' = currentStep
      /\ BlockWritten(u)
      /\ UNCHANGED <<queueVars, future, stream, server, maxStep>>
  BY DEF WriteBytes, More, BlockWritten
<1>2. QueueInv' /\ pending' = pending /\ running' = running /\ finished' = finished
  BY <1>1 DEF UploadsInv, queueVars, QueueInv, QueueTypeOK
<1>3. InHand(u) /\ Shapes /\ sent[u] \in Nat /\ currentStep[u] \in Nat
  BY DEF UploadsInv, UploadInv, Shapes
<1>4. /\ NextBlock(u) \in Nat \ {0} /\ sent'[u] = sent[u] + NextBlock(u)
      /\ sent' \in [Task -> Nat] /\ wire' \in [Task -> Seq(Seq(Nat))]
      /\ \A v \in Task : v # u => sent'[v] = sent[v] /\ wire'[v] = wire[v]
      /\ FutureFollowsTask(u)' /\ Counting(u)' /\ Streaming(u)'
  BY <1>1, WrittenEffect
<1>5. block'[u] = NextBlock(u) /\ Shapes'
  BY <1>1, <1>3, <1>4 DEF Shapes
<1>6. sent[u] = currentStep[u] /\ u \notin Frame
  BY <1>1, <1>3 DEF InHand, Key
<1>7. InHand(u)'
  BY <1>1, <1>2, <1>4, <1>5, <1>6 DEF InHand
<1>8. Moves(u)
  BY <1>1, <1>2, <1>3 DEF Moves
<1>9. ASSUME NEW v \in Task, v # u PROVE UploadInv(v)' /\ Moves(v)
  BY <1>1, <1>2, <1>4, <1>9, OthersStay DEF UploadsInv, Shapes
<1>10. QED
  BY <1>2, <1>4, <1>5, <1>7, <1>8, <1>9 DEF UploadsMove, UploadsInv, UploadInv

LEMMA BytesStepped ==
  ASSUME UploadsInv, NEW u \in Task, StepBytes(u)
  PROVE  UploadsMove
<1>1. /\ u \in running /\ u \in Key
      /\ block' = [block EXCEPT ![u] = 0]
      /\ currentStep' = [currentStep EXCEPT ![u] = currentStep[u] + block[u]]
      /\ UNCHANGED <<queueVars, future, stream, wire, server, sent, maxStep>>
  BY DEF StepBytes, Stepped, streams
<1>2. QueueInv' /\ pending' = pending /\ running' = running /\ finished' = finished
  BY <1>1 DEF UploadsInv, queueVars, QueueInv, QueueTypeOK
<1>3. /\ FutureFollowsTask(u) /\ Counting(u) /\ InHand(u) /\ Streaming(u) /\ Shapes
      /\ sent[u] \in Nat /\ block[u] \in Nat /\ currentStep[u] \in Nat
  BY DEF UploadsInv, UploadInv, Shapes
<1>4. block'[u] = 0 /\ currentStep'[u] = currentStep[u] + block[u] /\ sent'[u] = sent[u]
  BY <1>1, <1>3 DEF Shapes
<1>5. Shapes'
  BY <1>1, <1>3 DEF Shapes
<1>6. FutureFollowsTask(u)' /\ Counting(u)' /\ Streaming(u)'
  BY <1>1, <1>2, <1>3 DEF FutureFollowsTask, Counting, LastStep, Streaming
<1>7. InHand(u)'
  BY <1>1, <1>3, <1>4 DEF InHand, Key
<1>8. Moves(u)
  BY <1>1, <1>2, <1>3, <1>4 DEF Moves, UploadsInv, QueueInv
<1>9. ASSUME NEW v \in Task, v # u PROVE UploadInv(v)' /\ Moves(v)
  BY <1>1, <1>2, <1>9, OthersStay DEF UploadsInv, Shapes
<1>10. QED
  BY <1>2, <1>5, <1>6, <1>7, <1>8, <1>9 DEF UploadsMove, UploadsInv, UploadInv

LEMMA RowFailed ==
  ASSUME UploadsInv, NEW u \in Task, RowFails(u)
  PROVE  UploadsMove
<1>1. /\ More(u) /\ Finish(u) /\ future' = [future EXCEPT ![u] = "error"]
      /\ UNCHANGED <<stream, wire, server, sent, block, currentStep, maxStep>>
  BY DEF RowFails, streams, progress
<1>2. /\ QueueInv' /\ u \in running
      /\ pending' = pending /\ running' = running \ {u} /\ finished' = finished \union {u}
  BY <1>1, FinishEffect DEF UploadsInv
<1>3. Shapes'
  BY <1>1 DEF UploadsInv, Shapes
<1>4. /\ FutureFollowsTask(u) /\ Counting(u) /\ Streaming(u) /\ future'[u] = "error"
      /\ u \notin Range(pending) /\ u \notin finished /\ future[u] = "pending"
  BY <1>1, <1>2 DEF UploadsInv, UploadInv, Shapes, QueueInv, FutureFollowsTask
<1>5. FutureFollowsTask(u)'
  BY <1>1, <1>2, <1>4 DEF FutureFollowsTask
<1>6. Counting(u)'
  BY <1>1, <1>2, <1>4 DEF Counting, More, LastStep
<1>7. Streaming(u)' /\ InHand(u)' /\ Moves(u)
  <2>1. block[u] = 0
    BY <1>1 DEF More
  <2>2. InHand(u)'
    BY <1>1, <2>1, HandStays DEF UploadsInv, UploadInv
  <2>3. QED
    BY <1>1, <1>2, <1>4, <2>2 DEF Streaming, Moves, UploadsInv, Shapes
<1>8. ASSUME NEW v \in Task, v # u PROVE UploadInv(v)' /\ Moves(v)
  BY <1>1, <1>2, <1>8, OthersStay DEF UploadsInv, Shapes
<1>9. QED
  BY <1>2, <1>3, <1>5, <1>6, <1>7, <1>8 DEF UploadsMove, UploadsInv, UploadInv

LEMMA TaskEnded ==
  ASSUME UploadsInv, NEW u \in Task, End(u)
  PROVE  UploadsMove
<1>1. /\ block[u] = 0 /\ sent[u] = Size[u] /\ FinishReturns(u) /\ Finish(u)
      /\ future' = [future EXCEPT ![u] = "value"]
      /\ stream' = [stream EXCEPT ![u] = IF @ = "open" THEN "closed" ELSE @]
      /\ UNCHANGED <<wire, server, sent, block, currentStep, maxStep>>
  BY DEF End, progress
<1>2. /\ QueueInv' /\ u \in running
      /\ pending' = pending /\ running' = running \ {u} /\ finished' = finished \union {u}
  BY <1>1, FinishEffect DEF UploadsInv
<1>3. Shapes'
  BY <1>1 DEF UploadsInv, Shapes
<1>4. /\ FutureFollowsTask(u) /\ Counting(u) /\ Streaming(u) /\ future'[u] = "value"
      /\ u \notin Range(pending) /\ u \notin finished /\ future[u] = "pending"
      /\ stream'[u] = IF stream[u] = "open" THEN "closed" ELSE stream[u]
  BY <1>1, <1>2 DEF UploadsInv, UploadInv, Shapes, QueueInv, FutureFollowsTask
<1>5. FutureFollowsTask(u)'
  BY <1>1, <1>2, <1>4 DEF FutureFollowsTask
<1>6. Counting(u)'
  BY <1>1, <1>2, <1>4 DEF Counting, LastStep
<1>7. Streaming(u)'
  <2>1. stream[u] = "open" => wire[u] = <<>> /\ Len(server[u]) = Size[u]
    BY <1>1, <1>4, NoPiecesLeft DEF FinishReturns, Streaming
  <2>2. QED
    BY <1>1, <1>4, <2>1 DEF Streaming
<1>8. InHand(u)' /\ Moves(u)
  <2>1. InHand(u)'
    BY <1>1, HandStays DEF UploadsInv, UploadInv
  <2>2. QED
    BY <1>1, <1>2, <1>4, <2>1 DEF Moves, UploadsInv, Shapes
<1>9. ASSUME NEW v \in Task, v # u PROVE UploadInv(v)' /\ Moves(v)
  BY <1>1, <1>2, <1>9, OthersStay DEF UploadsInv, Shapes
<1>10. QED
  BY <1>2, <1>3, <1>5, <1>6, <1>7, <1>8, <1>9 DEF UploadsMove, UploadsInv, UploadInv

(* The server puts the oldest piece behind what it has.                    *)
LEMMA MessageDelivered ==
  ASSUME UploadsInv, NEW u \in Task, Deliver(u)
  PROVE  UploadsMove
<1>1. /\ wire[u] # <<>>
      /\ server' = [server EXCEPT ![u] = @ \o Head(wire[u])]
      /\ wire' = [wire EXCEPT ![u] = Tail(@)]
      /\ UNCHANGED <<queueVars, future, stream, sent, block, currentStep, maxStep>>
  BY DEF Deliver, progress
<1>2. QueueInv' /\ pending' = pending /\ running' = running /\ finished' = finished
  BY <1>1 DEF UploadsInv, queueVars, QueueInv, QueueTypeOK
<1>3. /\ FutureFollowsTask(u) /\ Counting(u) /\ Streaming(u) /\ Shapes
      /\ wire[u] \in Seq(Seq(Nat)) /\ server[u] \in Seq(Nat) /\ sent[u] \in Nat
      /\ Len(server[u]) \in Nat /\ Size[u] \in Nat
  BY LenProperties, SizesAre DEF UploadsInv, UploadInv, Shapes
<1>4. /\ Head(wire[u]) \in Seq(Nat) /\ Tail(wire[u]) \in Seq(Seq(Nat))
  BY <1>1, <1>3, HeadTailProperties
<1>5. server[u] \o Head(wire[u]) \in Seq(Nat)
  BY <1>3, <1>4, ConcatProperties
<1>6. Shapes'
  BY <1>1, <1>3, <1>4, <1>5 DEF Shapes
<1>7. stream[u] = "open" /\ Pieces(u, wire[u], Len(server[u]), sent[u])
  BY <1>1, <1>3 DEF Streaming
<1>8. PICK mid \in Len(server[u])..sent[u] :
        /\ Head(wire[u]) = SubSeq(Arrival(u), Len(server[u]) + 1, mid)
        /\ Pieces(u, Tail(wire[u]), mid, sent[u])
  BY <1>1, <1>3, <1>7, FirstPiece
<1>9. server'[u] = SubSeq(Arrival(u), 1, mid) /\ Len(server'[u]) = mid /\ mid <= sent[u]
  <2>1. /\ Arrival(u) \in Seq(Nat) /\ Len(Arrival(u)) = Size[u] /\ sent[u] <= Size[u]
        /\ mid \in Nat /\ Len(server[u]) <= mid /\ mid <= Size[u]
    BY <1>3, ArrivalIs DEF Counting
  <2>2. server[u] = SubSeq(Arrival(u), 1, Len(server[u]))
    BY <1>3 DEF Streaming
  <2>3. SubSeq(Arrival(u), 1, Len(server[u])) \o SubSeq(Arrival(u), Len(server[u]) + 1, mid)
          = SubSeq(Arrival(u), 1, mid)
    <3>1. /\ 1 \in 1..Len(Arrival(u)) + 1 /\ Len(server[u]) \in (1 - 1)..Len(Arrival(u))
          /\ mid \in Len(server[u])..Len(Arrival(u))
      BY <1>3, <2>1
    <3>2. QED
      BY <2>1, <3>1, ConcatAdjacentSubSeq
  <2>4. server'[u] = server[u] \o Head(wire[u])
    BY <1>1, <1>3 DEF Shapes
  <2>5. Len(SubSeq(Arrival(u), 1, mid)) = mid
    <3>1. \A i \in 1..mid : i \in 1..Len(Arrival(u))
      BY <2>1
    <3>2. \A i \in 1..mid : Arrival(u)[i] \in Nat
      BY <2>1, <3>1, ElementOfSeq
    <3>3. Len(SubSeq(Arrival(u), 1, mid)) = IF 1 <= mid THEN mid - 1 + 1 ELSE 0
      BY <2>1, <3>2, SubSeqProperties
    <3>4. QED
      BY <2>1, <3>3
  <2>6. server'[u] = SubSeq(Arrival(u), 1, mid)
    BY <1>8, <2>2, <2>3, <2>4
  <2>7. QED
    BY <1>8, <2>5, <2>6, <1>3
<1>10. wire'[u] = Tail(wire[u]) /\ stream'[u] = "open"
  BY <1>1, <1>3, <1>7 DEF Shapes
<1>11. FutureFollowsTask(u)' /\ Counting(u)' /\ InHand(u)' /\ Moves(u)
  <2>1. InHand(u)'
    BY <1>1, <1>2, HandStays DEF UploadsInv, UploadInv
  <2>2. QED
    BY <1>1, <1>2, <1>3, <2>1 DEF FutureFollowsTask, Counting, LastStep, Moves, Shapes
<1>12. Streaming(u)'
  BY <1>1, <1>8, <1>9, <1>10 DEF Streaming
<1>13. ASSUME NEW v \in Task, v # u PROVE UploadInv(v)' /\ Moves(v)
  BY <1>1, <1>2, <1>13, OthersStay DEF UploadsInv, Shapes
<1>14. QED
  BY <1>2, <1>6, <1>11, <1>12, <1>13 DEF UploadsMove, UploadsInv, UploadInv

LEMMA StreamBroken ==
  ASSUME UploadsInv, NEW u \in Task, Break(u)
  PROVE  UploadsMove
<1>1. /\ stream[u] = "open" /\ stream' = [stream EXCEPT ![u] = "broken"]
      /\ wire' = [wire EXCEPT ![u] = <<>>]
      /\ UNCHANGED <<queueVars, future, server, sent, block, currentStep, maxStep>>
  BY DEF Break, progress
<1>2. QueueInv' /\ pending' = pending /\ running' = running /\ finished' = finished
  BY <1>1 DEF UploadsInv, queueVars, QueueInv, QueueTypeOK
<1>3. <<>> \in Seq(Seq(Nat))
  BY EmptySeq
<1>4. Shapes'
  BY <1>1, <1>3 DEF UploadsInv, Shapes
<1>5. /\ FutureFollowsTask(u) /\ Counting(u) /\ Streaming(u)
      /\ wire'[u] = <<>> /\ stream'[u] = "broken"
  BY <1>1 DEF UploadsInv, UploadInv, Shapes
<1>6. FutureFollowsTask(u)' /\ Counting(u)' /\ InHand(u)' /\ Moves(u)
  <2>1. InHand(u)'
    BY <1>1, <1>2, HandStays DEF UploadsInv, UploadInv
  <2>2. QED
    BY <1>1, <1>2, <1>5, <2>1 DEF FutureFollowsTask, Counting, LastStep, Moves, UploadsInv, Shapes
<1>7. Streaming(u)'
  BY <1>1, <1>5 DEF Streaming
<1>8. ASSUME NEW v \in Task, v # u PROVE UploadInv(v)' /\ Moves(v)
  BY <1>1, <1>2, <1>8, OthersStay DEF UploadsInv, Shapes
<1>9. QED
  BY <1>2, <1>4, <1>6, <1>7, <1>8 DEF UploadsMove, UploadsInv, UploadInv

LEMMA UploadsStay ==
  ASSUME UploadsInv, UNCHANGED <<queueVars, future, streams, progress>>
  PROVE  UploadsMove
<1>1. /\ UNCHANGED <<queueVars, future, stream, wire, server, sent, block, currentStep, maxStep>>
      /\ pending' = pending /\ running' = running /\ finished' = finished
  BY DEF streams, progress, queueVars
<1>2. QueueInv' /\ Shapes'
  BY <1>1 DEF UploadsInv, queueVars, QueueInv, QueueTypeOK, Shapes
<1>3. ASSUME NEW v \in Task PROVE UploadInv(v)' /\ Moves(v)
  BY <1>1, OthersStay DEF UploadsInv, Shapes
<1>4. QED
  BY <1>2, <1>3 DEF UploadsMove, UploadsInv

LEMMA UploadsStep ==
  ASSUME UploadsInv, [Next]_vars
  PROVE  UploadsMove
<1>1. ASSUME NEW u \in Task, WatcherStep(u) PROVE UploadsMove
  <2>1. UNCHANGED <<queueVars, future, streams, progress>>
    BY <1>1 DEF WatcherStep, Watch, LookUp, ReadCurrent, ReadMax
  <2>2. QED
    BY <2>1, UploadsStay
<1>2. CASE Settled \/ UNCHANGED vars
  <2>1. UNCHANGED <<queueVars, future, streams, progress>>
    BY <1>2 DEF Settled, vars
  <2>2. QED
    BY <2>1, UploadsStay
<1>3. QED
  BY <1>1, <1>2, KeyOrFrameOpens, FrameUnanswered, TaskBegins, RowsTaken, RowsWritten, BytesWritten,
     BytesStepped, RowFailed, TaskEnded, MessageDelivered, StreamBroken DEF Next, TaskStep
--------------------------------------------------------------------------------
(* The watcher's steps *)

BarAhead ==
  Defined => Defined' /\ Halves' >= Halves /\ bar'.percent >= bar.percent

(* What BarShows says of the numbers it was drawn from.                    *)
LEMMA BarShowsNumbers ==
  ASSUME UploadsInv, WatcherInv, NEW u \in watched, Defined
  PROVE  /\ maxStep[u] \in Nat \ {0} /\ Completed \in BOOLEAN
         /\ reading.max \in {Unread, maxStep[u]}
         /\ \E c \in Nat :
              /\ c <= currentStep[u] /\ bar = Drawn(c, maxStep[u], Completed)
              /\ reading.current # Unread => c <= reading.current
              /\ Completed => c = currentStep[u]
<1>1. u \in Task /\ BarShows(u)
  BY DEF WatcherInv
<1>2. maxStep[u] \in Nat /\ currentStep[u] \in Nat
  BY <1>1 DEF UploadsInv, Shapes
<1>3. QED
  BY <1>1, <1>2 DEF BarShows, Completed, WatcherInv

LEMMA BarStays ==
  ASSUME UploadsInv, WatcherInv, bar' = bar
  PROVE  BarAhead
<1>1. SUFFICES ASSUME Defined PROVE Halves' >= Halves /\ bar'.percent >= bar.percent
  BY DEF BarAhead, Defined
<1>2. watched # {}
  BY <1>1 DEF WatcherInv, Defined, Undefined
<1>3. PICK u \in watched : TRUE
  BY <1>2
<1>4. u \in Task /\ currentStep[u] \in Nat
  BY DEF WatcherInv, UploadsInv, Shapes
<1>5. PICK c \in Nat, m \in Nat \ {0}, completed \in BOOLEAN : bar = Drawn(c, m, completed)
  BY <1>1, BarShowsNumbers
<1>6. HalvesOf(bar) \in Nat /\ bar.percent \in Nat
  BY <1>5, DrawnNumbers
<1>7. QED
  BY <1>6 DEF Halves, HalvesOf

LEMMA WatcherStays ==
  ASSUME UploadsInv, WatcherInv, UploadsMove, UNCHANGED watcher
  PROVE  WatcherInv' /\ BarAhead
<1>1. watched' = watched /\ reading' = reading /\ bar' = bar
  BY DEF watcher
<1>2. Completed' = Completed /\ Defined' = Defined
  BY <1>1 DEF Completed, Defined
<1>3. ASSUME NEW u \in watched PROVE ReadingBehind(u)'
  <2>1. u \in Task /\ Moves(u) /\ ReadingBehind(u)
    BY DEF WatcherInv, UploadsMove
  <2>2. /\ currentStep[u] \in Nat /\ currentStep'[u] \in Nat
        /\ reading.current \in Nat \union {Unread}
    BY <2>1 DEF WatcherInv, UploadsMove, UploadsInv, Shapes
  <2>3. QED
    BY <1>1, <2>1, <2>2 DEF ReadingBehind, Moves
<1>4. ASSUME NEW u \in watched, Defined PROVE BarShows(u)'
  <2>1. u \in Task /\ Moves(u) /\ ReadingBehind(u)
    BY DEF WatcherInv, UploadsMove
  <2>2. currentStep[u] \in Nat /\ currentStep'[u] \in Nat
    BY <2>1 DEF UploadsMove, UploadsInv, Shapes
  <2>3. /\ maxStep[u] \in Nat \ {0} /\ reading.max \in {Unread, maxStep[u]}
    BY <1>4, BarShowsNumbers
  <2>4. PICK c \in Nat :
          /\ c <= currentStep[u] /\ bar = Drawn(c, maxStep[u], Completed)
          /\ reading.current # Unread => c <= reading.current
          /\ Completed => c = currentStep[u]
    BY <1>4, BarShowsNumbers
  <2>5. maxStep'[u] = maxStep[u] /\ currentStep[u] <= currentStep'[u]
    BY <2>1, <2>3 DEF Moves
  <2>6. Completed => currentStep'[u] = currentStep[u]
    BY <2>1 DEF Completed, ReadingBehind, Moves
  <2>7. c \in 0..currentStep'[u]
    BY <2>2, <2>4, <2>5
  <2>8. bar' = Drawn(c, maxStep'[u], Completed')
    BY <1>1, <1>2, <2>4, <2>5
  <2>9. QED
    BY <1>1, <1>2, <2>3, <2>4, <2>5, <2>6, <2>7, <2>8 DEF BarShows
<1>5. WatcherInv'
  BY <1>1, <1>2, <1>3, <1>4 DEF WatcherInv
<1>6. QED
  BY <1>1, <1>5, BarStays

(* progress() was read, one of its two atomics perhaps long before the     *)
(* other, and the bar is written.                                          *)
LEMMA BarDrawn ==
  ASSUME UploadsInv, WatcherInv, UNCHANGED <<queueVars, future, streams, progress, watched>>,
         NEW u \in watched, reading.begun, NEW current \in Nat, NEW max \in {0, maxStep[u]},
         current <= currentStep[u], reading.last => current = currentStep[u],
         reading.current # Unread => current = reading.current,
         reading.current = Unread => current = currentStep[u],
         reading.max # Unread => max = reading.max,
         reading.max = Unread => max = maxStep[u],
         bar' = Drawn(current, max, reading.last),
         reading' = [Idle EXCEPT !.last = reading.last]
  PROVE  WatcherInv' /\ BarAhead
<1>1. /\ u \in Task /\ watched = {u} /\ watched' = watched /\ ReadingBehind(u)
      /\ currentStep[u] \in Nat /\ maxStep[u] \in Nat
      /\ reading.last \in BOOLEAN
      /\ currentStep' = currentStep /\ maxStep' = maxStep /\ finished' = finished /\ future' = future
  BY DEF WatcherInv, UploadsInv, Shapes, progress, queueVars
<1>2. /\ reading'.last = reading.last /\ reading'.begun = FALSE
      /\ reading'.current = Unread /\ reading'.max = Unread
      /\ Completed' = reading.last
      /\ reading' \in [last : BOOLEAN, begun : BOOLEAN,
                       current : Nat \union {Unread}, max : Nat \union {Unread}]
  BY <1>1 DEF Idle, Completed
<1>3. ReadingBehind(u)'
  BY <1>1, <1>2 DEF ReadingBehind
<1>4. Completed = FALSE
  BY DEF Completed
<1>5. CASE max = 0
  <2>1. bar' = Undefined \/ {bar'.full, bar'.half, bar'.empty} \subseteq 0..Width
    BY <1>1, <1>5, DrawnWithoutMax
  <2>2. bar'.percent = Unread
    BY <1>1, <1>5, DrawnWithoutMax
  <2>3. ~Defined
    <3>1. SUFFICES ASSUME Defined PROVE FALSE
      OBVIOUS
    <3>2. maxStep[u] # 0 /\ reading.max \in {Unread, maxStep[u]}
      BY <3>1, BarShowsNumbers
    <3>3. QED
      BY <1>5, <3>2
  <2>4. ~Defined'
    BY <2>2 DEF Defined
  <2>5. WatcherInv'
    BY <1>1, <1>2, <1>3, <2>1, <2>4 DEF WatcherInv
  <2>6. QED
    BY <2>3, <2>5 DEF BarAhead
<1>6. CASE max # 0
  <2> DEFINE drawn == Drawn(current, max, reading.last)
  <2>1. max = maxStep[u] /\ max \in Nat \ {0}
    BY <1>1, <1>6
  <2>2. /\ drawn.full \in 0..Width /\ drawn.half \in 0..Width /\ drawn.empty \in 0..Width
        /\ drawn.percent # Unread
    BY <1>1, <2>1, DrawnIs
  <2>3. bar' = drawn
    OBVIOUS
  <2>4. BarShows(u)'
    <3>1. current \in 0..currentStep'[u] /\ maxStep'[u] > 0 /\ maxStep'[u] = max
      BY <1>1, <2>1
    <3>2. bar' = Drawn(current, maxStep'[u], Completed')
      BY <1>2, <3>1
    <3>3. QED
      BY <1>1, <1>2, <3>1, <3>2 DEF BarShows
  <2> HIDE DEF drawn
  <2>5. WatcherInv'
    BY <1>1, <1>2, <1>3, <2>2, <2>3, <2>4 DEF WatcherInv
  <2>6. BarAhead
    <3>1. SUFFICES ASSUME Defined PROVE Defined' /\ Halves' >= Halves /\ bar'.percent >= bar.percent
      BY DEF BarAhead
    <3>2. PICK c \in Nat :
            /\ c <= currentStep[u] /\ bar = Drawn(c, maxStep[u], FALSE)
            /\ reading.current # Unread => c <= reading.current
      BY <1>4, <3>1, BarShowsNumbers
    <3>3. c <= current
      BY <3>2
    <3>4. /\ HalvesOf(Drawn(c, max, FALSE)) <= HalvesOf(drawn)
          /\ Drawn(c, max, FALSE).percent <= drawn.percent
      BY <1>1, <2>1, <3>3, DrawnGrows DEF drawn
    <3>5. /\ HalvesOf(bar) <= HalvesOf(bar') /\ bar.percent <= bar'.percent
      BY <2>1, <2>3, <3>2, <3>4
    <3>6. HalvesOf(bar) \in Int /\ HalvesOf(bar') \in Int /\ bar.percent \in Int /\ bar'.percent \in Int
      <4>1. HalvesOf(bar) \in Nat /\ bar.percent \in Nat
        BY <2>1, <3>2, DrawnNumbers
      <4>2. HalvesOf(drawn) \in Nat /\ drawn.percent \in Nat
        BY <1>1, <2>1, DrawnNumbers DEF drawn
      <4>3. QED
        BY <2>3, <4>1, <4>2
    <3>7. Defined'
      BY <2>2, <2>3 DEF Defined
    <3>8. QED
      BY <3>5, <3>6, <3>7 DEF Halves, HalvesOf
  <2>7. QED
    BY <2>5, <2>6
<1>7. QED
  BY <1>5, <1>6

LEMMA WatcherStepGood ==
  ASSUME UploadsInv, WatcherInv, NEW u \in Task, WatcherStep(u)
  PROVE  WatcherInv' /\ BarAhead
<1>1. CASE Watch(u)
  <2>1. /\ watched = {} /\ future[u] = "pending" /\ watched' = {u}
        /\ reading' = reading /\ bar' = bar /\ future' = future
    BY <1>1 DEF Watch
  <2>2. reading = Idle /\ bar = Undefined
    BY <2>1 DEF WatcherInv
  <2>3. ReadingBehind(u)'
    BY <2>1, <2>2 DEF ReadingBehind, Idle
  <2>4. ~Defined'
    BY <2>1, <2>2 DEF Defined, Undefined
  <2>5. WatcherInv'
    BY <2>1, <2>2, <2>3, <2>4 DEF WatcherInv
  <2>6. QED
    BY <2>1, <2>5, BarStays
<1>2. CASE LookUp(u)
  <2>1. /\ u \in watched /\ reading = Idle /\ bar' = bar /\ watched' = watched
        /\ reading' = [Idle EXCEPT !.begun = TRUE, !.last = future[u] # "pending"]
        /\ UNCHANGED <<future, finished, currentStep, maxStep>>
    BY <1>2 DEF LookUp, queueVars, progress
  <2>2. /\ reading'.begun = TRUE /\ reading'.last = (future[u] # "pending")
        /\ reading'.current = Unread /\ reading'.max = Unread
        /\ reading' \in [last : BOOLEAN, begun : BOOLEAN,
                         current : Nat \union {Unread}, max : Nat \union {Unread}]
    BY <2>1 DEF Idle
  <2>3. watched = {u} /\ ReadingBehind(u)
    BY <2>1 DEF WatcherInv
  <2>4. future[u] # "pending" => u \in finished
    BY <2>3 DEF ReadingBehind, UploadsInv, Shapes, UploadInv, FutureFollowsTask
  <2>5. ReadingBehind(u)'
    BY <2>1, <2>2, <2>3, <2>4 DEF ReadingBehind
  <2>6. Completed = FALSE /\ Completed' = FALSE /\ Defined' = Defined
    BY <2>1, <2>2 DEF Completed, Defined, Idle
  <2>7. ASSUME Defined PROVE BarShows(u)'
    <3>1. BarShows(u)
      BY <2>1, <2>7 DEF WatcherInv
    <3>2. QED
      BY <2>1, <2>2, <2>6, <3>1 DEF BarShows
  <2>8. WatcherInv'
    BY <2>1, <2>2, <2>3, <2>5, <2>6, <2>7 DEF WatcherInv
  <2>9. QED
    BY <2>1, <2>8, BarStays
<1>3. CASE ReadCurrent(u)
  <2> DEFINE now == [reading EXCEPT !.current = currentStep[u]]
  <2>1. /\ u \in watched /\ reading.begun /\ reading.current = Unread /\ GoOn(now)
        /\ UNCHANGED <<queueVars, future, streams, progress, watched>>
    BY <1>3 DEF ReadCurrent
  <2>2. /\ watched = {u} /\ ReadingBehind(u)
        /\ currentStep[u] \in Nat /\ maxStep[u] \in Nat
        /\ reading \in [last : BOOLEAN, begun : BOOLEAN,
                        current : Nat \union {Unread}, max : Nat \union {Unread}]
    BY <2>1 DEF WatcherInv, UploadsInv, Shapes
  <2>3. /\ now.current = currentStep[u] /\ now.max = reading.max /\ now.last = reading.last
        /\ now.begun = reading.begun
        /\ now \in [last : BOOLEAN, begun : BOOLEAN,
                    current : Nat \union {Unread}, max : Nat \union {Unread}]
    BY <2>2
  <2> HIDE DEF now
  <2>4. CASE reading.max = Unread
    <3>1. reading' = now /\ bar' = bar
      BY <2>1, <2>3, <2>4 DEF GoOn
    <3>2. UNCHANGED <<finished, future, currentStep, maxStep, watched>>
      BY <2>1 DEF queueVars, progress
    <3>3. ReadingBehind(u)'
      <4>1. /\ future[u] \notin {"none", "threw"} /\ reading.begun
            /\ reading.last => u \in finished
        BY <2>1, <2>2 DEF ReadingBehind
      <4>2. /\ reading'.current = currentStep[u] /\ reading'.max = Unread
            /\ reading'.begun /\ reading'.last = reading.last
        BY <2>1, <2>3, <2>4, <3>1
      <4>3. future' = future /\ finished' = finished /\ currentStep' = currentStep /\ maxStep' = maxStep
        BY <2>1, <3>2
      <4>4. currentStep[u] <= currentStep[u]
        BY <2>2
      <4>5. QED
        BY <4>1, <4>2, <4>3, <4>4 DEF ReadingBehind
    <3>4. Completed = FALSE /\ Completed' = FALSE /\ Defined' = Defined
      BY <2>1, <2>3, <3>1 DEF Completed, Defined
    <3>5. ASSUME Defined PROVE BarShows(u)'
      <4>1. PICK c \in Nat : c <= currentStep[u] /\ bar = Drawn(c, maxStep[u], Completed)
        BY <2>1, <3>5, BarShowsNumbers
      <4>2. maxStep[u] > 0
        BY <2>1, <3>5, BarShowsNumbers
      <4>3. c \in 0..currentStep'[u] /\ c <= reading'.current /\ reading'.max = Unread
        BY <2>2, <2>3, <2>4, <3>1, <3>2, <4>1
      <4>4. QED
        BY <3>1, <3>2, <3>4, <4>1, <4>2, <4>3 DEF BarShows
    <3>6. WatcherInv'
      BY <2>1, <2>2, <2>3, <3>1, <3>2, <3>3, <3>4, <3>5 DEF WatcherInv
    <3>7. QED
      BY <3>1, <3>6, BarStays
  <2>5. CASE reading.max # Unread
    <3>1. reading.max \in {0, maxStep[u]}
      BY <2>2, <2>5 DEF ReadingBehind
    <3>2. currentStep[u] # Unread
      BY <2>2 DEF Unread
    <3>3. /\ bar' = Drawn(currentStep[u], reading.max, reading.last)
          /\ reading' = [Idle EXCEPT !.last = reading.last]
      BY <2>1, <2>3, <2>5, <3>2 DEF GoOn
    <3>4. QED
      BY <2>1, <2>2, <2>5, <3>1, <3>3, BarDrawn
  <2>6. QED
    BY <2>4, <2>5
<1>4. CASE ReadMax(u)
  <2> DEFINE now == [reading EXCEPT !.max = maxStep[u]]
  <2>1. /\ u \in watched /\ reading.begun /\ reading.max = Unread /\ GoOn(now)
        /\ UNCHANGED <<queueVars, future, streams, progress, watched>>
    BY <1>4 DEF ReadMax
  <2>2. /\ watched = {u} /\ ReadingBehind(u)
        /\ currentStep[u] \in Nat /\ maxStep[u] \in Nat
        /\ reading \in [last : BOOLEAN, begun : BOOLEAN,
                        current : Nat \union {Unread}, max : Nat \union {Unread}]
    BY <2>1 DEF WatcherInv, UploadsInv, Shapes
  <2>3. /\ now.current = reading.current /\ now.max = maxStep[u] /\ now.last = reading.last
        /\ now.begun = reading.begun
        /\ now \in [last : BOOLEAN, begun : BOOLEAN,
                    current : Nat \union {Unread}, max : Nat \union {Unread}]
    BY <2>2
  <2> HIDE DEF now
  <2>4. CASE reading.current = Unread
    <3>1. reading' = now /\ bar' = bar
      BY <2>1, <2>3, <2>4 DEF GoOn
    <3>2. UNCHANGED <<finished, future, currentStep, maxStep, watched>>
      BY <2>1 DEF queueVars, progress
    <3>3. ReadingBehind(u)'
      BY <2>1, <2>2, <2>3, <2>4, <3>1, <3>2 DEF ReadingBehind
    <3>4. Completed = FALSE /\ Completed' = FALSE /\ Defined' = Defined
      BY <2>1, <2>3, <3>1 DEF Completed, Defined
    <3>5. ASSUME Defined PROVE BarShows(u)'
      <4>1. PICK c \in Nat : c <= currentStep[u] /\ bar = Drawn(c, maxStep[u], Completed)
        BY <2>1, <3>5, BarShowsNumbers
      <4>2. maxStep[u] > 0
        BY <2>1, <3>5, BarShowsNumbers
      <4>3. c \in 0..currentStep'[u] /\ reading'.current = Unread /\ reading'.max = maxStep'[u]
        BY <2>2, <2>3, <2>4, <3>1, <3>2, <4>1
      <4>4. QED
        BY <3>1, <3>2, <3>4, <4>1, <4>2, <4>3 DEF BarShows
    <3>6. WatcherInv'
      BY <2>1, <2>2, <2>3, <3>1, <3>2, <3>3, <3>4, <3>5 DEF WatcherInv
    <3>7. QED
      BY <3>1, <3>6, BarStays
  <2>5. CASE reading.current # Unread
    <3>1. /\ reading.current \in Nat /\ reading.current <= currentStep[u]
          /\ reading.last => reading.current = currentStep[u]
      BY <2>2, <2>5 DEF ReadingBehind
    <3>2. maxStep[u] # Unread
      BY <2>2 DEF Unread
    <3>3. /\ bar' = Drawn(reading.current, maxStep[u], reading.last)
          /\ reading' = [Idle EXCEPT !.last = reading.last]
      BY <2>1, <2>3, <2>5, <3>2 DEF GoOn
    <3>4. QED
      BY <2>1, <2>2, <2>5, <3>1, <3>3, BarDrawn
  <2>6. QED
    BY <2>4, <2>5
<1>5. QED
  BY <1>1, <1>2, <1>3, <1>4 DEF WatcherStep

--------------------------------------------------------------------------------
(* The theorems *)

LEMMA InitIsGood == Init => IInv
<1>1. SUFFICES ASSUME Init PROVE IInv
  OBVIOUS
<1>2. <<>> \in Seq(Task) /\ Len(<<>>) = 0 /\ Range(<<>>) = {}
  BY EmptySeq DEF Range
<1>3. QueueInv
  <2>1. pending = <<>> /\ running = {} /\ finished = {} /\ open = TRUE /\ halted = FALSE
    BY <1>1 DEF Init, QueueInit
  <2>2. NoRepeats(pending)
    BY <2>1, <1>2 DEF NoRepeats
  <2>3. QED
    BY <1>2, <2>1, <2>2 DEF QueueInv, QueueTypeOK
<1>4. <<>> \in Seq(Seq(Nat)) /\ <<>> \in Seq(Nat)
  BY EmptySeq
<1>5. Shapes
  BY <1>1, <1>4 DEF Init, Shapes
<1>6. ASSUME NEW u \in Task PROVE UploadInv(u)
  <2>1. /\ pending = <<>> /\ running = {} /\ finished = {}
        /\ future[u] = "none" /\ stream[u] = "none"
        /\ sent[u] = 0 /\ block[u] = 0 /\ currentStep[u] = 0 /\ maxStep[u] = 0
        /\ wire[u] = <<>> /\ server[u] = <<>>
    BY <1>1 DEF Init, QueueInit
  <2>2. 0 <= Size[u] /\ 0 \in 0..Size[u] /\ 0 = BlockSize * 0
    BY SizesAre
  <2>3. SubSeq(Arrival(u), 1, 0) = <<>>
    BY SubSeqEmpty
  <2>4. QED
    BY <1>2, <2>1, <2>2, <2>3 DEF UploadInv, FutureFollowsTask, Counting, InHand, Streaming
<1>7. WatcherInv
  <2>1. watched = {} /\ reading = Idle /\ bar = Undefined
    BY <1>1 DEF Init
  <2>2. QED
    BY <2>1 DEF WatcherInv, Idle
<1>8. QED
  BY <1>3, <1>5, <1>6, <1>7 DEF IInv, UploadsInv

LEMMA StepIsGood ==
  ASSUME IInv, [Next]_vars
  PROVE  IInv' /\ BarAhead
<1>1. UploadsInv /\ WatcherInv /\ UploadsMove
  BY UploadsStep DEF IInv
<1>2. ASSUME NEW u \in Task, WatcherStep(u) PROVE WatcherInv' /\ BarAhead
  BY <1>1, <1>2, WatcherStepGood
<1>3. ASSUME UNCHANGED watcher PROVE WatcherInv' /\ BarAhead
  BY <1>1, <1>3, WatcherStays
<1>4. (\E u \in Task : WatcherStep(u)) \/ UNCHANGED watcher
  BY DEF Next, vars, Settled, AddKey, CreateFrame, CreateFrameUnanswered, Begin, TaskStep, TakeRows,
         WriteRows, WriteBytes, StepBytes, RowFails, End, Deliver, Break, watcher
<1>5. QED
  BY <1>1, <1>2, <1>3, <1>4 DEF IInv, UploadsMove

LEMMA Invariance == Spec => []IInv
<1>1. IInv /\ [Next]_vars => IInv'
  BY StepIsGood
<1>2. QED
  BY InitIsGood, <1>1, PTL DEF Spec

(* Every variable has its type: in particular, no more rows or bytes are   *)
(* counted than the upload has, and every bar that is drawn has a defined  *)
(* length or is the outcome of an undefined conversion.                    *)
THEOREM TypeCorrect == Spec => []TypeOK
<1>1. IInv => TypeOK
  <2>1. SUFFICES ASSUME IInv PROVE TypeOK
    OBVIOUS
  <2>2. QueueTypeOK
    BY <2>1 DEF IInv, UploadsInv, QueueInv
  <2>3. ASSUME NEW u \in Task
        PROVE  /\ {sent[u], block[u], currentStep[u]} \subseteq 0..Size[u]
               /\ maxStep[u] \in {0, IF u \in Frame THEN Size[u] ELSE Size[u] - 1}
    <3>1. /\ Size[u] \in Nat /\ sent[u] \in Nat /\ block[u] \in Nat /\ currentStep[u] \in Nat
          /\ sent[u] <= Size[u] /\ InHand(u)
          /\ maxStep[u] = IF u \in running \union finished THEN LastStep(u) ELSE 0
      BY <2>1, SizesAre DEF IInv, UploadsInv, UploadInv, Shapes, Counting
    <3>2. sent[u] + block[u] <= Size[u] \/ sent[u] = currentStep[u] + block[u]
      <4>1. u \in Frame \/ u \in Key
        BY DEF Key
      <4>2. sent[u] < Size[u] => sent[u] + NextBlock(u) <= Size[u]
        BY <2>1, BlockIsPiece DEF IInv, UploadsInv, UploadInv
      <4>3. QED
        BY <3>1, <4>1, <4>2 DEF InHand
    <3>3. block[u] <= Size[u] /\ currentStep[u] <= Size[u]
      BY <3>1, <3>2 DEF InHand, Key
    <3>4. QED
      BY <3>1, <3>3 DEF LastStep
  <2>4. watched \subseteq Task /\ Cardinality(watched) <= 1
    <3>1. CASE watched = {}
      BY <3>1, FS_EmptySet
    <3>2. CASE \E u \in Task : watched = {u}
      BY <3>2, FS_Singleton
    <3>3. QED
      BY <2>1, <3>1, <3>2 DEF IInv, WatcherInv
  <2>5. reading.begun => watched # {}
    BY <2>1 DEF IInv, WatcherInv, Idle
  <2>6. QED
    BY <2>1, <2>2, <2>3, <2>4, <2>5 DEF TypeOK, IInv, UploadsInv, Shapes, WatcherInv
<1>2. QED
  BY Invariance, <1>1, PTL

(* However the sending, the delivery and the breaking of the streams       *)
(* interleave, the server holds a prefix of each upload, for every size of *)
(* the upload and of the blocks it is cut into.                            *)
THEOREM PrefixHeld == Spec => []ServerHoldsPrefix
<1>1. IInv => ServerHoldsPrefix
  BY DEF IInv, UploadsInv, UploadInv, Streaming, ServerHoldsPrefix
<1>2. QED
  BY Invariance, <1>1, PTL

(* A stream that was closed has brought the whole upload to the server,    *)
(* and of an upload that ended in an error something is always missing.    *)
THEOREM OutcomeSeen == Spec => []ServerSeesOutcome
<1>1. ASSUME IInv, NEW u \in Task, stream[u] = "closed" PROVE server[u] = Arrival(u)
  <2>1. server[u] = SubSeq(Arrival(u), 1, Size[u])
    BY <1>1 DEF IInv, UploadsInv, UploadInv, Streaming
  <2>2. Arrival(u) \in Seq(Nat) /\ Len(Arrival(u)) = Size[u]
    BY ArrivalIs
  <2>3. QED
    BY <2>1, <2>2, SubSeqFull
<1>2. ASSUME IInv, NEW u \in Task, future[u] = "error" PROVE Len(server[u]) < Size[u]
  <2>1. sent[u] < Size[u] /\ Len(server[u]) <= sent[u]
    BY <1>2 DEF IInv, UploadsInv, UploadInv, Counting, Streaming
  <2>2. sent[u] \in Nat /\ Size[u] \in Nat /\ Len(server[u]) \in Nat
    BY <1>2, SizesAre, LenProperties DEF IInv, UploadsInv, Shapes
  <2>3. QED
    BY <2>1, <2>2
<1>3. IInv => ServerSeesOutcome
  BY <1>1, <1>2 DEF ServerSeesOutcome
<1>4. QED
  BY Invariance, <1>3, PTL

(* Whatever lies between the two reads of progress() and between a task's  *)
(* Write and its step: a bar drawn with a known max_step_ is as wide as it *)
(* should be, is never ahead of what was written of a key, nor of what was *)
(* written or taken in hand of a frame, and is full when the upload ended  *)
(* well.                                                                   *)
THEOREM BarIsHonest == Spec => []ProgressIsHonest
<1>1. ASSUME IInv, NEW u \in watched, Defined
      PROVE  /\ bar.full + bar.half + bar.empty = Width
             /\ ~reading.last =>
                  IF u \in Frame THEN ShowsAtMost(sent[u] + block[u], Size[u])
                                 ELSE ShowsAtMost(sent[u], Size[u] - 1)
             /\ reading.last /\ ~reading.begun /\ future[u] = "value" => bar.percent = 100
  <2>1. UploadsInv /\ WatcherInv /\ u \in Task
    BY <1>1 DEF IInv, WatcherInv
  <2>2. maxStep[u] \in Nat \ {0} /\ Completed \in BOOLEAN
    BY <1>1, <2>1, BarShowsNumbers
  <2>3. PICK c \in Nat : /\ c <= currentStep[u] /\ bar = Drawn(c, maxStep[u], Completed)
                         /\ Completed => c = currentStep[u]
    BY <1>1, <2>1, BarShowsNumbers
  <2>4. /\ maxStep[u] = LastStep(u) /\ Size[u] \in Nat
        /\ sent[u] \in Nat /\ block[u] \in Nat /\ currentStep[u] \in Nat
        /\ future[u] = "value" => sent[u] = Size[u]
    BY <2>1, <2>2, SizesAre DEF UploadsInv, UploadInv, Counting, Shapes
  <2>5. /\ u \in Frame => currentStep[u] = sent[u] + block[u]
        /\ u \notin Frame => currentStep[u] <= sent[u]
        /\ future[u] = "value" => currentStep[u] = Size[u]
    <3>1. InHand(u) /\ (u \in Frame \/ u \in Key)
      BY <2>1 DEF UploadsInv, UploadInv, Key
    <3>2. future[u] = "value" => block[u] = 0
      <4>1. FutureFollowsTask(u) /\ (Range(pending) \union running) \intersect finished = {}
        BY <2>1 DEF UploadsInv, QueueInv, UploadInv
      <4>2. future[u] = "value" => u \notin running
        BY <4>1 DEF FutureFollowsTask
      <4>3. QED
        BY <3>1, <4>2 DEF InHand
    <3>3. CASE u \in Frame
      BY <2>4, <3>1, <3>2, <3>3 DEF InHand
    <3>4. CASE u \in Key
      BY <2>4, <3>1, <3>2, <3>4 DEF InHand, Key
    <3>5. QED
      BY <3>1, <3>3, <3>4
  <2>6. bar.full + bar.half + bar.empty = Width /\ bar.percent = Share(100, c, maxStep[u])
    BY <2>2, <2>3, DrawnParts
  <2>7. ASSUME ~reading.last, NEW done \in Nat, currentStep[u] <= done
        PROVE  ShowsAtMost(done, maxStep[u])
    <3>1. Completed = FALSE
      BY <2>7 DEF Completed
    <3>2. Halves = Share(2 * Width, c, maxStep[u])
      <4>1. 2 * bar.full + bar.half = Share(2 * Width, c, maxStep[u])
        BY <2>2, <2>3, <3>1, DrawnParts
      <4>2. QED
        BY <4>1 DEF Halves
    <3>3. 2 * Width \in Nat /\ 100 \in Nat
      BY UploadAssumption
    <3>4. ASSUME NEW w \in Nat PROVE Share(w, c, maxStep[u]) * maxStep[u] <= w * done
      <4>1. Share(w, c, maxStep[u]) * maxStep[u] <= w * c /\ Share(w, c, maxStep[u]) \in 0..w
        BY <2>2, ShareIs
      <4>2. w * c <= w * done
        BY <2>3, <2>4, <2>7
      <4>3. QED
        BY <2>2, <2>4, <4>1, <4>2
    <3>5. QED
      BY <2>6, <3>2, <3>3, <3>4 DEF ShowsAtMost
  <2>8. ASSUME ~reading.last
        PROVE  IF u \in Frame THEN ShowsAtMost(sent[u] + block[u], Size[u])
                              ELSE ShowsAtMost(sent[u], Size[u] - 1)
    <3>1. CASE u \in Frame
      <4>1. maxStep[u] = Size[u] /\ sent[u] + block[u] \in Nat
            /\ currentStep[u] <= sent[u] + block[u]
        BY <2>4, <2>5, <3>1 DEF LastStep
      <4>2. QED
        BY <2>7, <2>8, <3>1, <4>1
    <3>2. CASE u \notin Frame
      <4>1. maxStep[u] = Size[u] - 1 /\ currentStep[u] <= sent[u]
        BY <2>4, <2>5, <3>2 DEF LastStep
      <4>2. QED
        BY <2>4, <2>7, <2>8, <3>2, <4>1
    <3>3. QED
      BY <3>1, <3>2
  <2>9. ASSUME reading.last, ~reading.begun, future[u] = "value" PROVE bar.percent = 100
    <3>1. c = Size[u]
      BY <2>3, <2>5, <2>9 DEF Completed
    <3>2. c >= maxStep[u]
      <4>1. u \in Frame \/ u \notin Frame
        OBVIOUS
      <4>2. QED
        BY <2>4, <3>1, <4>1 DEF LastStep
    <3>3. 100 \in Nat /\ Share(100, c, maxStep[u]) = 100
      <4>1. 100 \in Nat /\ c \in Nat /\ maxStep[u] \in Nat \ {0}
        BY <2>2
      <4>2. PICK m \in Nat \ {0} : m = maxStep[u]
        BY <4>1
      <4>3. ASSUME NEW w \in Nat PROVE Share(w, c, m) = w
        <5>1. c >= m
          BY <3>2, <4>2
        <5>2. QED
          BY <5>1, <4>1, ShareIs
      <4>4. QED
        BY <4>1, <4>2, <4>3
    <3>4. QED
      BY <2>6, <3>3
  <2>10. QED
    BY <2>6, <2>8, <2>9
<1>2. IInv => ProgressIsHonest
  BY <1>1 DEF ProgressIsHonest
<1>3. QED
  BY Invariance, <1>2, PTL

(* No step takes the bar back: each drawing is for a step at or after the  *)
(* one before, because no atomic that is read goes back and max_step_ is   *)
(* set once.                                                               *)
THEOREM BarKeepsGoing == Spec => BarNeverGoesBack
<1>1. IInv /\ [Next]_vars => [Defined => Defined' /\ Halves' >= Halves /\ bar'.percent >= bar.percent]_vars
  BY StepIsGood DEF BarAhead
<1>2. QED
  BY Invariance, <1>1, PTL DEF Spec, BarNeverGoesBack
================================================================================
