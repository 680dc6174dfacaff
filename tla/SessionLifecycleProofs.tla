------------------------ MODULE SessionLifecycleProofs -------------------------
(***************************************************************************)
(* Theorems about SessionLifecycle, for every set of sessions, keysets and *)
(* uploads and every number of threads.                                    *)
(***************************************************************************)
EXTENDS SessionLifecycle, SequenceTheorems, TLAPS

--------------------------------------------------------------------------------
(* The queue: a task is in one place at a time. *)

InPool == Range(pending) \union running

QueueInv ==
  /\ QueueTypeOK
  /\ \A i, j \in 1..Len(pending) : pending[i] = pending[j] => i = j
  /\ Range(pending) \intersect running = {}
  /\ InPool \intersect finished = {}

LEMMA QueueStarts == QueueInit => QueueInv /\ InPool = {} /\ Known = {}
<1>1. <<>> \in Seq(Task) /\ Len(<<>>) = 0 /\ Range(<<>>) = {}
  BY EmptySeq DEF Range
<1>2. SUFFICES ASSUME QueueInit PROVE QueueInv /\ InPool = {} /\ Known = {}
  OBVIOUS
<1>3. pending \in Seq(Task) /\ Len(pending) = 0 /\ Range(pending) = {}
  BY <1>1, <1>2 DEF QueueInit
<1>4. \A i, j \in 1..Len(pending) : pending[i] = pending[j] => i = j
  BY <1>3
<1>5. QED
  BY <1>2, <1>3, <1>4 DEF QueueInit, QueueInv, QueueTypeOK, InPool, Known

LEMMA SubmitEffect ==
  ASSUME QueueInv, NEW t \in Task, Submit(t)
  PROVE  /\ QueueInv' /\ t \notin Known
         /\ Known' = Known \union {t} /\ InPool' = InPool \union {t}
<1>1. /\ pending \in Seq(Task) /\ Len(pending) \in Nat /\ pending' \in Seq(Task)
      /\ Len(pending') = Len(pending) + 1
      /\ \A i \in 1..Len(pending) : pending'[i] = pending[i]
      /\ pending'[Len(pending) + 1] = t
  BY AppendProperties, LenProperties DEF Submit, QueueInv, QueueTypeOK
<1>2. Range(pending') = Range(pending) \union {t}
  BY <1>1, LenProperties DEF Range
<1>3. t \notin Known
  BY DEF Submit
<1>4. \A i \in 1..Len(pending) : pending[i] # t
  BY <1>1, <1>3, LenProperties DEF Known, Range
<1>5. \A i, j \in 1..Len(pending') : pending'[i] = pending'[j] => i = j
  BY <1>1, <1>4 DEF QueueInv
<1>6. QED
  BY <1>1, <1>2, <1>3, <1>5 DEF Submit, QueueInv, QueueTypeOK, InPool, Known

LEMMA StartEffect ==
  ASSUME QueueInv, Start
  PROVE  QueueInv' /\ Known' = Known /\ InPool' = InPool
<1>1. /\ pending \in Seq(Task) /\ Len(pending) \in Nat /\ Len(pending) >= 1
      /\ pending' \in Seq(Task) /\ Len(pending') = Len(pending) - 1
      /\ \A i \in 1..Len(pending') : pending'[i] = pending[i + 1]
      /\ Head(pending) = pending[1] /\ Head(pending) \in Task
  BY HeadTailProperties, LenProperties, EmptySeq DEF Start, QueueInv, QueueTypeOK
<1>2. Range(pending) = Range(pending') \union {Head(pending)}
  <2>1. \A i \in 1..Len(pending) : pending[i] = Head(pending) \/ \E j \in 1..Len(pending') :
          pending[i] = pending'[j]
    <3>1. TAKE i \in 1..Len(pending)
    <3>2. CASE i = 1
      BY <1>1, <3>2
    <3>3. CASE i # 1
      <4>1. i - 1 \in 1..Len(pending')
        BY <1>1, <3>3
      <4>2. pending[i] = pending'[i - 1]
        BY <1>1, <4>1
      <4>3. QED
        BY <4>1, <4>2
    <3>4. QED
      BY <3>2, <3>3
  <2>2. \A j \in 1..Len(pending') : j + 1 \in 1..Len(pending)
    BY <1>1
  <2>3. DOMAIN pending = 1..Len(pending) /\ DOMAIN pending' = 1..Len(pending')
    BY <1>1, LenProperties
  <2>4. Range(pending') \union {Head(pending)} \subseteq Range(pending)
    <3>1. Head(pending) \in Range(pending)
      BY <1>1, <2>3 DEF Range
    <3>2. ASSUME NEW j \in 1..Len(pending') PROVE pending'[j] \in Range(pending)
      BY <1>1, <2>2, <2>3 DEF Range
    <3>3. QED
      BY <2>3, <3>1, <3>2 DEF Range
  <2>5. Range(pending) \subseteq Range(pending') \union {Head(pending)}
    BY <2>1, <2>3 DEF Range
  <2>6. QED
    BY <2>4, <2>5
<1>3. Head(pending) \notin Range(pending')
  BY <1>1, LenProperties DEF Range, QueueInv
<1>4. \A i, j \in 1..Len(pending') : pending'[i] = pending'[j] => i = j
  BY <1>1 DEF QueueInv
<1>5. running' = running \union {Head(pending)} /\ UNCHANGED <<finished, open, halted>>
  BY DEF Start
<1>6. QED
  BY <1>1, <1>2, <1>3, <1>4, <1>5 DEF QueueInv, QueueTypeOK, InPool, Known

LEMMA FinishEffect ==
  ASSUME QueueInv, NEW t \in Task, Finish(t)
  PROVE  /\ QueueInv' /\ Known' = Known /\ InPool' = InPool \ {t}
         /\ t \in InPool /\ finished' = finished \union {t}
BY DEF Finish, QueueInv, QueueTypeOK, InPool, Known

LEMMA QueueStays ==
  ASSUME QueueInv, UNCHANGED <<pending, running, finished>>, open' \in BOOLEAN, halted' \in BOOLEAN
  PROVE  QueueInv' /\ Known' = Known /\ InPool' = InPool
BY DEF QueueInv, QueueTypeOK, InPool, Known

(* What a step of the program and the pool does to the queue.              *)
LEMMA QueueStep ==
  ASSUME QueueInv, [Next]_vars
  PROVE  QueueInv'
<1>1. \/ \E t \in Task : Submit(t) \/ Finish(t)
      \/ Start \/ Close \/ Halt \/ UNCHANGED queueVars
  BY DEF Next, vars, CreateSession, Destroy, DropSession, DropTerminates, AddKey, UseCrypto,
         ImportFrame, Enqueue, Connect, Release, BackendEnds, Begin, Step, UploadKey,
         UploadFrame, UploadDangles, Over
<1>2. open \in BOOLEAN /\ halted \in BOOLEAN
  BY DEF QueueInv, QueueTypeOK
<1>3. CASE Close \/ Halt \/ UNCHANGED queueVars
  BY <1>2, <1>3, QueueStays DEF Close, Halt, queueVars
<1>4. QED
  BY <1>1, <1>3, SubmitEffect, StartEffect, FinishEffect

--------------------------------------------------------------------------------
(* The inductive invariant *)

(* The pool is open exactly while somebody holds the Context; a session    *)
(* that lost its handle waits for the pool's end.                          *)
Handles ==
  /\ open <=> holders # {}
  /\ \A s \in Session : phase[s] = "live" => s \in holders
  /\ \A s \in Session : phase[s] = "keyless" /\ s \notin holders => ~open
  /\ backend = "gone" =>
       ~open /\ InPool = {} /\ \A s \in Session : phase[s] \in {"none", "gone"}

(* A task is known to the pool when and only when it is some upload. *)
UploadsKnown == \A t \in Task : upload[t] # None <=> t \in Known

(* A session that is not live has no crypto, one that never was has        *)
(* nothing; everything of a live one is of the keysets of its keyring.     *)
KeysOf(s) ==
  /\ \A c \in Schema : keyring[s][c] # None => SchemaOf[keyring[s][c]] = c
  /\ phase[s] # "live" => cryptos[s] = NoKeys
  /\ phase[s] = "none" =>
       serverKey[s] = NoKeys /\ \A t \in Task : upload[t] # None => upload[t].session # s
  /\ phase[s] = "live" =>
       /\ \A c \in Schema : /\ cryptos[s][c] \in {None, keyring[s][c]}
                            /\ serverKey[s][c] \in {None, keyring[s][c]}
       /\ \A t \in Task : upload[t] # None /\ upload[t].session = s =>
            LET k == upload[t].keyset
            IN  /\ keyring[s][SchemaOf[k]] = k
                /\ upload[t].kind = "frame" => cryptos[s][SchemaOf[k]] = k

KeysAgree == \A s \in Session : KeysOf(s)

(* The program keeps a careful session while the pool has its uploads. *)
CarefulStay ==
  ~halted => \A t \in InPool : upload[t].session \in Careful => phase[upload[t].session] = "live"

IInv ==
  /\ QueueInv /\ TypeOK /\ Handles /\ UploadsKnown /\ KeysAgree /\ CarefulStay

LEMMA IInvInit == Init => IInv
<1> SUFFICES ASSUME Init PROVE IInv
  OBVIOUS
<1>1. QueueInv /\ InPool = {} /\ Known = {}
  BY QueueStarts DEF Init
<1>2. TypeOK
  BY <1>1, SessionAssumption DEF Init, TypeOK, QueueInv, NoKeys
<1>3. Handles /\ UploadsKnown /\ KeysAgree /\ CarefulStay
  BY <1>1 DEF Init, QueueInit, Handles, UploadsKnown, KeysAgree, KeysOf, CarefulStay, NoKeys
<1>4. QED
  BY <1>1, <1>2, <1>3 DEF IInv

(* The pool's steps, and what they leave alone. *)
LEMMA PoolStep ==
  ASSUME IInv, Begin
  PROVE  IInv'
<1>1. QueueInv' /\ Known' = Known /\ InPool' = InPool
  BY StartEffect DEF Begin, IInv
<1>2. UNCHANGED <<sessionVars, keyVars, open, halted, finished>>
  BY DEF Begin, Start
<1>3. QED
  BY <1>1, <1>2 DEF IInv, QueueInv, TypeOK, Handles, UploadsKnown, KeysAgree, KeysOf, CarefulStay,
     sessionVars, keyVars

(* Steps that leave the queue alone. *)
LEMMA QueueKept ==
  ASSUME IInv, UNCHANGED queueVars
  PROVE  QueueInv' /\ Known' = Known /\ InPool' = InPool
<1>1. open \in BOOLEAN /\ halted \in BOOLEAN
  BY DEF IInv, QueueInv, QueueTypeOK
<1>2. QED
  BY <1>1, QueueStays DEF queueVars, IInv

LEMMA ConnectStep ==
  ASSUME IInv, Connect
  PROVE  IInv'
<1>1. QueueInv' /\ Known' = Known /\ InPool' = InPool
  BY QueueKept DEF Connect
<1>2. QED
  BY <1>1 DEF Connect, IInv, QueueInv, TypeOK, Handles, UploadsKnown, KeysAgree, KeysOf, CarefulStay,
     queueVars, keyVars

LEMMA CreateSessionStep ==
  ASSUME IInv, NEW s \in Session, NEW auto \in BOOLEAN, CreateSession(s, auto)
  PROVE  IInv'
<1> USE DEF IInv, CreateSession
<1>1. QueueInv' /\ Known' = Known /\ InPool' = InPool
  BY QueueKept
<1>2. /\ phase[s] = "none" /\ remote[s] = "none" /\ remote' = [remote EXCEPT ![s] = "live"]
      /\ phase' \in {phase, [phase EXCEPT ![s] = "live"]} /\ holders \subseteq holders'
      /\ UNCHANGED <<keyVars, queueVars, backend>> /\ User \in holders /\ Connected
  BY DEF ServerCreates
<1>3. TypeOK'
  <2>1. QueueTypeOK' /\ UNCHANGED <<keyring, cryptos, upload, serverKey, finished>>
    BY <1>1, <1>2 DEF QueueInv, keyVars, queueVars
  <2>2. phase' \in [Session -> {"none", "live", "keyless", "gone"}]
        /\ remote' \in [Session -> {"none", "live", "destroyed"}]
        /\ autoDestroy' \in [Session -> BOOLEAN]
    <3>1. autoDestroy' \in {autoDestroy, [autoDestroy EXCEPT ![s] = auto]}
      BY DEF CreateSession
    <3>2. /\ phase \in [Session -> {"none", "live", "keyless", "gone"}]
          /\ remote \in [Session -> {"none", "live", "destroyed"}]
          /\ autoDestroy \in [Session -> BOOLEAN]
      BY DEF TypeOK
    <3>3. QED
      BY <1>2, <3>1, <3>2
  <2>3. holders' \subseteq Session \union {User}
        /\ \A z \in Session : z \in holders' => phase'[z] \in {"live", "keyless"}
    <3>1. \/ phase' = [phase EXCEPT ![s] = "live"] /\ holders' = holders \union {s}
          \/ phase' = phase /\ holders' = holders
      BY DEF CreateSession
    <3>2. /\ phase \in [Session -> {"none", "live", "keyless", "gone"}]
          /\ holders \subseteq Session \union {User}
          /\ \A z \in Session : z \in holders => phase[z] \in {"live", "keyless"}
      BY DEF TypeOK
    <3>3. QED
      BY <3>1, <3>2
  <2>4. QED
    BY <1>2, <2>1, <2>2, <2>3 DEF TypeOK, Connected
<1>4. Handles'
  BY <1>1, <1>2, SessionAssumption DEF Handles, TypeOK, Connected, queueVars
<1>5. UploadsKnown'
  BY <1>1, <1>2 DEF UploadsKnown, keyVars
<1>6. KeysAgree'
  BY <1>2 DEF KeysAgree, KeysOf, TypeOK, NoKeys, keyVars
<1>7. CarefulStay'
  BY <1>1, <1>2, SessionAssumption DEF CarefulStay, TypeOK, queueVars, keyVars
<1>8. QED
  BY <1>1, <1>3, <1>4, <1>5, <1>6, <1>7

LEMMA DestroyStep ==
  ASSUME IInv, NEW s \in Session, Destroy(s)
  PROVE  IInv'
<1> USE DEF IInv, Destroy
<1>1. QueueInv' /\ Known' = Known /\ InPool' = InPool
  BY QueueKept
<1>2. TypeOK'
  BY <1>1 DEF TypeOK, QueueInv, keyVars, queueVars
<1>3. Handles' /\ UploadsKnown' /\ KeysAgree' /\ CarefulStay'
  BY <1>1 DEF Handles, UploadsKnown, KeysAgree, KeysOf, CarefulStay, keyVars, queueVars
<1>4. QED
  BY <1>1, <1>2, <1>3

LEMMA UseCryptoStep ==
  ASSUME IInv, NEW s \in Session, NEW c \in Schema, UseCrypto(s, c)
  PROVE  IInv'
<1> USE DEF IInv, UseCrypto
<1>1. QueueInv' /\ Known' = Known /\ InPool' = InPool
  BY QueueKept
<1>2. TypeOK'
  BY <1>1 DEF TypeOK, QueueInv, sessionVars, queueVars, WithCrypto
<1>3. Handles' /\ UploadsKnown' /\ CarefulStay'
  BY <1>1 DEF Handles, UploadsKnown, CarefulStay, sessionVars, queueVars
<1>4. KeysAgree'
  BY SessionAssumption DEF KeysAgree, KeysOf, WithCrypto, TypeOK, Upload, sessionVars
<1>5. QED
  BY <1>1, <1>2, <1>3, <1>4

(* A task the pool did not know becomes an upload of a live session. *)
LEMMA EnqueueEffect ==
  ASSUME IInv, NEW s \in Session, NEW t \in Task, NEW kind \in {"key", "frame"},
         NEW k \in Keyset, phase[s] = "live", Enqueue(t, s, kind, k),
         UNCHANGED <<sessionVars>>
  PROVE  /\ QueueInv' /\ Handles' /\ UploadsKnown' /\ CarefulStay'
         /\ upload[t] = None /\ backend = "up"
         /\ upload'[t] = [session |-> s, kind |-> kind, keyset |-> k] /\ upload'[t] \in Upload
         /\ \A u \in Task : u # t => upload'[u] = upload[u]
<1> USE DEF IInv, Enqueue
<1>1. /\ QueueInv' /\ t \notin Known
      /\ Known' = Known \union {t} /\ InPool' = InPool \union {t}
  BY SubmitEffect
<1>2. UNCHANGED <<finished, open, halted, phase, holders, backend>>
      /\ open /\ ~halted
  BY DEF Submit, sessionVars
<1>3. upload[t] = None
  BY <1>1 DEF UploadsKnown
<1>4. /\ upload'[t] = [session |-> s, kind |-> kind, keyset |-> k] /\ upload'[t] \in Upload
      /\ \A u \in Task : u # t => upload'[u] = upload[u]
  BY DEF TypeOK, Upload
<1>5. upload'[t] # None
  BY <1>4, SessionAssumption
<1>6. backend = "up"
  <2>1. s \in holders /\ s # User
    BY SessionAssumption DEF Handles
  <2>2. QED
    BY <1>2, <2>1 DEF TypeOK, Handles
<1>7. Handles'
  BY <1>2, <1>6 DEF Handles
<1>8. UploadsKnown'
  BY <1>1, <1>4, <1>5 DEF UploadsKnown
<1>9. CarefulStay'
  <2>1. InPool \subseteq Task
    BY LenProperties DEF InPool, QueueInv, QueueTypeOK, Range
  <2>2. QED
    BY <1>1, <1>2, <1>4, <2>1 DEF CarefulStay
<1>10. QED
  BY <1>1, <1>3, <1>4, <1>6, <1>7, <1>8, <1>9

LEMMA AddKeyStep ==
  ASSUME IInv, NEW s \in Session, NEW k \in Keyset, NEW t \in Task, AddKey(s, k, t)
  PROVE  IInv'
<1> DEFINE kept == Kept(s, k)
<1>1. /\ phase[s] = "live" /\ Enqueue(t, s, "key", kept)
      /\ keyring' = AddKeyset(s, k)
      /\ UNCHANGED <<sessionVars, cryptos, serverKey>>
  BY DEF AddKey
<1>2. SchemaOf[k] \in Schema
  BY SessionAssumption
<1>3. /\ keyring' \in [Session -> [Schema -> Keyset \union {None}]]
      /\ keyring'[s][SchemaOf[k]] = kept
      /\ \A z \in Session, c \in Schema : keyring[z][c] # None => keyring'[z][c] = keyring[z][c]
      /\ \A z \in Session : z # s => keyring'[z] = keyring[z]
  BY <1>1, <1>2 DEF AddKeyset, Kept, IInv, TypeOK
<1>4. kept \in Keyset /\ SchemaOf[kept] = SchemaOf[k]
  BY <1>2 DEF AddKeyset, Kept, IInv, TypeOK, KeysAgree, KeysOf
<1>5. /\ QueueInv' /\ Handles' /\ UploadsKnown' /\ CarefulStay'
      /\ upload[t] = None /\ backend = "up"
      /\ upload'[t] = [session |-> s, kind |-> "key", keyset |-> kept] /\ upload'[t] \in Upload
      /\ \A u \in Task : u # t => upload'[u] = upload[u]
  <2>1. "key" \in {"key", "frame"}
    OBVIOUS
  <2>2. QED
    BY <1>1, <1>4, <2>1, EnqueueEffect
<1>6. TypeOK'
  BY <1>1, <1>3, <1>5 DEF IInv, TypeOK, QueueInv, Enqueue, Submit, sessionVars
<1>7. KeysAgree'
  <2>1. \A z \in Session : KeysOf(z)
    BY DEF IInv, KeysAgree
  <2>2. \A z \in Session, c \in Schema :
          keyring'[z][c] # None => SchemaOf[keyring'[z][c]] = c
    <3>1. TAKE z \in Session, c \in Schema
    <3>2. CASE keyring[z][c] # None
      BY <1>3, <2>1, <3>2 DEF KeysOf
    <3>3. CASE z = s /\ c = SchemaOf[k]
      BY <1>3, <1>4, <3>3
    <3>4. CASE keyring[z][c] = None /\ ~(z = s /\ c = SchemaOf[k])
      BY <1>1, <1>2, <3>4 DEF AddKeyset, IInv, TypeOK
    <3>5. QED
      BY <3>2, <3>3, <3>4
  <2>3. phase' = phase /\ cryptos' = cryptos /\ serverKey' = serverKey
    BY <1>1 DEF sessionVars
  <2>4. ASSUME NEW z \in Session, phase[z] = "live", NEW u \in Task,
               upload'[u] # None, upload'[u].session = z
        PROVE  LET j == upload'[u].keyset
               IN  /\ keyring'[z][SchemaOf[j]] = j
                   /\ upload'[u].kind = "frame" => cryptos'[z][SchemaOf[j]] = j
    <3>1. CASE u = t
      BY <1>3, <1>4, <1>5, <2>4, <3>1
    <3>2. CASE u # t
      <4>1. upload[u] = upload'[u] /\ upload[u] \in Upload
        BY <1>5, <2>4, <3>2 DEF IInv, TypeOK
      <4>2. upload[u].keyset \in Keyset /\ SchemaOf[upload[u].keyset] \in Schema
        BY <4>1, SessionAssumption DEF Upload
      <4>3. keyring[z][SchemaOf[upload[u].keyset]] = upload[u].keyset
        BY <2>1, <2>4, <4>1 DEF KeysOf
      <4>4. keyring'[z][SchemaOf[upload[u].keyset]] = upload[u].keyset
        BY <1>3, <4>2, <4>3, SessionAssumption
      <4>5. QED
        BY <2>1, <2>3, <2>4, <4>1, <4>4 DEF KeysOf
    <3>3. QED
      BY <3>1, <3>2
  <2>5. ASSUME NEW z \in Session, phase[z] = "live", NEW c \in Schema
        PROVE  cryptos[z][c] \in {None, keyring'[z][c]} /\ serverKey[z][c] \in {None, keyring'[z][c]}
    BY <1>3, <2>1, <2>5 DEF KeysOf
  <2>6. ASSUME NEW z \in Session, phase[z] = "none"
        PROVE  \A u \in Task : upload'[u] # None => upload'[u].session # z
    <3>1. phase[s] # "none" /\ z # s
      BY <1>1, <2>6
    <3>2. \A u \in Task : upload[u] # None => upload[u].session # z
      BY <2>1, <2>6 DEF KeysOf
    <3>3. QED
      BY <1>5, <3>1, <3>2
  <2>7. QED
    BY <2>1, <2>2, <2>3, <2>4, <2>5, <2>6 DEF KeysAgree, KeysOf
<1>8. QED
  BY <1>5, <1>6, <1>7 DEF IInv

LEMMA ImportFrameStep ==
  ASSUME IInv, NEW s \in Session, NEW c \in Schema, NEW t \in Task, ImportFrame(s, c, t)
  PROVE  IInv'
<1> DEFINE used == WithCrypto(s, c)[s][c]
<1>1. /\ phase[s] = "live" /\ keyring[s][c] # None /\ Enqueue(t, s, "frame", used)
      /\ cryptos' = WithCrypto(s, c)
      /\ UNCHANGED <<sessionVars, keyring, serverKey>>
  BY DEF ImportFrame
<1>2. \A z \in Session : KeysOf(z)
  BY DEF IInv, KeysAgree
<1>3. /\ cryptos' \in [Session -> [Schema -> Keyset \union {None}]]
      /\ cryptos'[s][c] = keyring[s][c] /\ used = keyring[s][c]
      /\ \A z \in Session, d \in Schema : ~(z = s /\ d = c) => cryptos'[z][d] = cryptos[z][d]
      /\ \A z \in Session : z # s => cryptos'[z] = cryptos[z]
  BY <1>1, <1>2 DEF WithCrypto, IInv, TypeOK, KeysOf
<1>4. used \in Keyset /\ SchemaOf[used] = c
  BY <1>1, <1>2, <1>3 DEF IInv, TypeOK, KeysOf
<1>5. /\ QueueInv' /\ Handles' /\ UploadsKnown' /\ CarefulStay'
      /\ upload[t] = None /\ backend = "up"
      /\ upload'[t] = [session |-> s, kind |-> "frame", keyset |-> used] /\ upload'[t] \in Upload
      /\ \A u \in Task : u # t => upload'[u] = upload[u]
  <2>1. "frame" \in {"key", "frame"}
    OBVIOUS
  <2>2. QED
    BY <1>1, <1>4, <2>1, EnqueueEffect
<1>6. TypeOK'
  BY <1>1, <1>3, <1>5 DEF IInv, TypeOK, QueueInv, Enqueue, Submit, sessionVars
<1>7. KeysAgree'
  <2>1. phase' = phase /\ keyring' = keyring /\ serverKey' = serverKey
    BY <1>1 DEF sessionVars
  <2>2. ASSUME NEW z \in Session, phase[z] = "live", NEW u \in Task,
               upload'[u] # None, upload'[u].session = z
        PROVE  LET j == upload'[u].keyset
               IN  /\ keyring'[z][SchemaOf[j]] = j
                   /\ upload'[u].kind = "frame" => cryptos'[z][SchemaOf[j]] = j
    <3>1. CASE u = t
      BY <1>3, <1>4, <1>5, <2>1, <2>2, <3>1
    <3>2. CASE u # t
      <4>1. upload[u] = upload'[u] /\ upload[u] \in Upload
        BY <1>5, <2>2, <3>2 DEF IInv, TypeOK
      <4>2. SchemaOf[upload[u].keyset] \in Schema
        BY <4>1, SessionAssumption DEF Upload
      <4>3. /\ keyring[z][SchemaOf[upload[u].keyset]] = upload[u].keyset
            /\ upload[u].kind = "frame" =>
                 cryptos[z][SchemaOf[upload[u].keyset]] = upload[u].keyset
        BY <1>2, <2>2, <4>1 DEF KeysOf
      <4>4. upload[u].kind = "frame" =>
              cryptos'[z][SchemaOf[upload[u].keyset]] = upload[u].keyset
        BY <1>3, <4>2, <4>3
      <4>5. QED
        BY <2>1, <4>1, <4>3, <4>4
    <3>3. QED
      BY <3>1, <3>2
  <2>3. ASSUME NEW z \in Session, phase[z] = "live", NEW d \in Schema
        PROVE  cryptos'[z][d] \in {None, keyring[z][d]} /\ serverKey[z][d] \in {None, keyring[z][d]}
    BY <1>2, <1>3, <2>3 DEF KeysOf
  <2>4. ASSUME NEW z \in Session, phase[z] = "none"
        PROVE  \A u \in Task : upload'[u] # None => upload'[u].session # z
    <3>1. phase[s] # "none" /\ z # s
      BY <1>1, <2>4
    <3>2. \A u \in Task : upload[u] # None => upload[u].session # z
      BY <1>2, <2>4 DEF KeysOf
    <3>3. QED
      BY <1>5, <3>1, <3>2
  <2>5. ASSUME NEW z \in Session, phase[z] # "live"
        PROVE  cryptos'[z] = NoKeys
    BY <1>1, <1>2, <1>3, <2>5 DEF KeysOf
  <2>6. QED
    BY <1>2, <2>1, <2>2, <2>3, <2>4, <2>5 DEF KeysAgree, KeysOf
<1>8. QED
  BY <1>5, <1>6, <1>7 DEF IInv

LEMMA DropSessionStep ==
  ASSUME IInv, NEW s \in Session, DropSession(s)
  PROVE  IInv'
<1> USE DEF IInv, DropSession
<1>1. QueueInv' /\ Known' = Known /\ InPool' = InPool
  BY QueueKept
<1>2. TypeOK'
  BY <1>1 DEF TypeOK, QueueInv, queueVars, NoKeys
<1>3. Handles'
  BY <1>1 DEF Handles, TypeOK, queueVars
<1>4. UploadsKnown'
  BY <1>1 DEF UploadsKnown
<1>5. KeysAgree'
  BY DEF KeysAgree, KeysOf, TypeOK, NoKeys
<1>6. CarefulStay'
  <2>1. ASSUME NEW t \in InPool, upload[t].session = s, s \in Careful PROVE FALSE
    <3>1. t \in Task /\ t \in Known /\ t \notin finished
      BY LenProperties DEF InPool, Known, QueueInv, QueueTypeOK, Range
    <3>2. t \in Of(s)
      BY <2>1, <3>1 DEF Of, UploadsKnown
    <3>3. QED
      BY <2>1, <3>1, <3>2 DEF MayDrop
  <2>2. QED
    BY <1>1, <2>1, SessionAssumption DEF CarefulStay, TypeOK, queueVars
<1>7. QED
  BY <1>1, <1>2, <1>3, <1>4, <1>5, <1>6

(* The process ends where it is. *)
LEMMA HaltStep ==
  ASSUME IInv, Halt, UNCHANGED <<sessionVars, keyVars>>
  PROVE  IInv'
<1>1. QueueInv' /\ Known' = Known /\ InPool' = InPool
  BY QueueStays DEF Halt, IInv, QueueInv, QueueTypeOK
<1>2. UNCHANGED <<finished, open>> /\ halted'
  BY DEF Halt
<1>3. QED
  BY <1>1, <1>2 DEF IInv, QueueInv, TypeOK, Handles, UploadsKnown, KeysAgree, KeysOf,
     CarefulStay, sessionVars, keyVars

LEMMA ReleaseStep ==
  ASSUME IInv, NEW h \in Session \union {User}, Release(h)
  PROVE  IInv'
<1> USE DEF IInv
<1>1. /\ h \in holders /\ (h # User => phase[h] = "keyless") /\ holders' = holders \ {h}
      /\ phase' = IF h \in Session /\ ~LastHolder(h) THEN [phase EXCEPT ![h] = "gone"] ELSE phase
      /\ UNCHANGED <<keyVars, autoDestroy, remote, backend>>
      /\ UNCHANGED <<pending, running, finished, halted>>
  BY DEF Release, Close, queueVars
<1>2. QueueInv' /\ Known' = Known /\ InPool' = InPool
  BY <1>1, QueueStays DEF Release, Close, queueVars, QueueInv, QueueTypeOK
<1>3. open' <=> holders' # {}
  BY <1>1 DEF Release, LastHolder, Close, queueVars, Handles
<1>4. TypeOK'
  BY <1>1, <1>2, SessionAssumption DEF TypeOK, QueueInv, keyVars
<1>5. Handles'
  <2>1. ASSUME NEW z \in Session, phase'[z] = "live" PROVE z \in holders'
    BY <1>1, <2>1, SessionAssumption DEF Handles, TypeOK
  <2>2. ASSUME NEW z \in Session, phase'[z] = "keyless", z \notin holders' PROVE ~open'
    <3>1. CASE z = h
      BY <1>1, <1>3, <2>2, <3>1 DEF LastHolder, TypeOK
    <3>2. CASE z # h
      BY <1>1, <1>3, <2>2, <3>2 DEF Handles, TypeOK
    <3>3. QED
      BY <3>1, <3>2
  <2>3. backend # "gone"
    BY <1>1 DEF Handles
  <2>4. QED
    BY <1>1, <1>3, <2>1, <2>2, <2>3 DEF Handles
<1>6. UploadsKnown'
  BY <1>1, <1>2 DEF UploadsKnown, keyVars
<1>7. \A z \in Session : /\ phase'[z] = "live" <=> phase[z] = "live"
                         /\ phase'[z] = "none" <=> phase[z] = "none"
  BY <1>1, SessionAssumption DEF TypeOK
<1>8. KeysAgree'
  <2>1. ASSUME NEW z \in Session PROVE KeysOf(z)'
    <3>1. KeysOf(z) /\ UNCHANGED <<keyring, cryptos, upload, serverKey>>
      BY <1>1 DEF KeysAgree, keyVars
    <3>2. (phase'[z] = "live" <=> phase[z] = "live") /\ (phase'[z] = "none" <=> phase[z] = "none")
      BY <1>7
    <3>3. QED
      BY <3>1, <3>2 DEF KeysOf
  <2>2. QED
    BY <2>1 DEF KeysAgree
<1>9. CarefulStay'
  BY <1>1, <1>2, <1>7, SessionAssumption DEF CarefulStay, keyVars
<1>10. QED
  BY <1>2, <1>4, <1>5, <1>6, <1>8, <1>9

LEMMA BackendEndsStep ==
  ASSUME IInv, BackendEnds
  PROVE  IInv'
<1> USE DEF IInv, BackendEnds
<1>1. QueueInv' /\ Known' = Known /\ InPool' = InPool
  BY QueueKept
<1>2. holders = {} /\ ~open /\ UNCHANGED open
  BY DEF Handles, queueVars
<1>3. InPool = {}
  BY EmptySeq DEF InPool, Drained, Range
<1>4. \A z \in Session : /\ phase'[z] = (IF phase[z] = "keyless" THEN "gone" ELSE phase[z])
                         /\ phase[z] # "live"
  BY <1>2 DEF Handles
<1>5. TypeOK'
  BY <1>1, <1>2, <1>4 DEF TypeOK, QueueInv, keyVars, queueVars
<1>6. Handles'
  BY <1>1, <1>2, <1>3, <1>4 DEF Handles, TypeOK
<1>7. UploadsKnown' /\ CarefulStay'
  BY <1>1, <1>3 DEF UploadsKnown, CarefulStay, keyVars
<1>8. KeysAgree'
  BY <1>4 DEF KeysAgree, KeysOf, keyVars
<1>9. QED
  BY <1>1, <1>5, <1>6, <1>7, <1>8

(* An upload ends: its session is live if it is a careful one. *)
LEMMA UploadStep ==
  ASSUME IInv, NEW t \in Task, UploadKey(t) \/ UploadFrame(t)
  PROVE  IInv'
<1> USE DEF IInv
<1>1. /\ Finish(t) /\ ~halted
      /\ UNCHANGED <<sessionVars, keyring, cryptos, upload, open, halted>>
  BY DEF UploadKey, UploadFrame, Finish, keyVars
<1>2. /\ QueueInv' /\ Known' = Known /\ InPool' = InPool \ {t} /\ t \in InPool
      /\ finished' = finished \union {t}
  BY <1>1, FinishEffect
<1>3. /\ t \in Known /\ upload[t] # None /\ upload[t] \in Upload
      /\ upload[t].session \in Session /\ upload[t].keyset \in Keyset
      /\ SchemaOf[upload[t].keyset] \in Schema
  <2>1. t \in Known
    BY <1>2 DEF InPool, Known
  <2>2. upload[t] # None /\ upload[t] \in Upload
    BY <2>1 DEF UploadsKnown, TypeOK
  <2>3. QED
    BY <2>1, <2>2, SessionAssumption DEF Upload
<1>4. serverKey' \in {serverKey,
        [serverKey EXCEPT ![upload[t].session][SchemaOf[upload[t].keyset]] = upload[t].keyset]}
  BY DEF UploadKey, UploadFrame, keyVars
<1>5. TypeOK'
  <2>1. serverKey' \in [Session -> [Schema -> Keyset \union {None}]]
    <3>1. /\ serverKey \in [Session -> [Schema -> Keyset \union {None}]]
          /\ upload[t].session \in Session /\ upload[t].keyset \in Keyset
      BY <1>3 DEF TypeOK
    <3>2. QED
      BY <1>4, <3>1
  <2>2. QED
    BY <1>1, <1>2, <2>1 DEF TypeOK, QueueInv, sessionVars
<1>6. Handles' /\ UploadsKnown' /\ CarefulStay'
  BY <1>1, <1>2 DEF Handles, UploadsKnown, CarefulStay, sessionVars
<1>7. KeysAgree'
  <2>1. ASSUME NEW z \in Session PROVE KeysOf(z)'
    <3>1. KeysOf(z)
      BY DEF KeysAgree
    <3>2. CASE phase[z] = "live"
      <4>1. ASSUME NEW c \in Schema PROVE serverKey'[z][c] \in {None, keyring[z][c]}
        <5>1. CASE serverKey'[z][c] = serverKey[z][c]
          BY <3>1, <3>2, <5>1 DEF KeysOf
        <5>2. CASE serverKey'[z][c] # serverKey[z][c]
          <6>1. /\ z = upload[t].session /\ c = SchemaOf[upload[t].keyset]
                /\ serverKey'[z][c] = upload[t].keyset
            BY <1>3, <1>4, <5>2 DEF TypeOK
          <6>2. keyring[z][c] = upload[t].keyset
            BY <1>3, <3>1, <3>2, <6>1 DEF KeysOf
          <6>3. QED
            BY <6>1, <6>2
        <5>3. QED
          BY <5>1, <5>2
      <4>2. QED
        BY <1>1, <3>1, <3>2, <4>1 DEF KeysOf, sessionVars
    <3>3. CASE phase[z] # "live"
      <4>1. phase[z] = "none" => serverKey'[z] = serverKey[z]
        <5>1. phase[z] = "none" => upload[t].session # z
          BY <1>3, <3>1 DEF KeysOf
        <5>2. QED
          BY <1>3, <1>4, <5>1 DEF TypeOK
      <4>2. QED
        BY <1>1, <3>1, <3>3, <4>1 DEF KeysOf, sessionVars
    <3>4. QED
      BY <3>2, <3>3
  <2>2. QED
    BY <2>1 DEF KeysAgree
<1>8. QED
  BY <1>2, <1>5, <1>6, <1>7

LEMMA Inductive == Spec => []IInv
<1>1. IInv /\ [Next]_vars => IInv'
  <2> SUFFICES ASSUME IInv, [Next]_vars PROVE IInv'
    OBVIOUS
  <2>1. CASE UNCHANGED vars
    <3>1. QueueInv' /\ Known' = Known /\ InPool' = InPool
      BY <2>1, QueueKept DEF vars
    <3>2. QED
      BY <2>1, <3>1 DEF IInv, QueueInv, TypeOK, Handles, UploadsKnown, KeysAgree, KeysOf,
         CarefulStay, vars, queueVars, sessionVars, keyVars
  <2>2. ASSUME NEW s \in Session,
               \/ DropTerminates(s) \/ Destroy(s) \/ DropSession(s)
               \/ \E b \in BOOLEAN : CreateSession(s, b)
               \/ \E k \in Keyset, t \in Task : AddKey(s, k, t)
               \/ \E c \in Schema : UseCrypto(s, c) \/ \E t \in Task : ImportFrame(s, c, t)
        PROVE  IInv'
    <3>1. CASE DropTerminates(s)
      BY <3>1, HaltStep DEF DropTerminates
    <3>2. QED
      BY <2>2, <3>1, DestroyStep, DropSessionStep, CreateSessionStep, AddKeyStep,
         UseCryptoStep, ImportFrameStep
  <2>3. ASSUME NEW t \in Task, Step(t)
        PROVE  IInv'
    <3>1. CASE UploadDangles(t)
      BY <3>1, HaltStep DEF UploadDangles
    <3>2. QED
      BY <2>3, <3>1, UploadStep DEF Step
  <2>4. QED
    BY <2>1, <2>2, <2>3, ConnectStep, ReleaseStep, BackendEndsStep, PoolStep DEF Next, Over
<1>2. QED
  BY <1>1, IInvInit, PTL DEF Spec

--------------------------------------------------------------------------------
(* The order of the uploads *)

KeyFor(t) == [upload[t] EXCEPT !.kind = "key"]

(* k has begun, or is before t in the queue and begins before it. *)
NoLater(k, t) ==
  /\ t \in Begun => k \in Begun
  /\ \A j \in 1..Len(pending) :
       pending[j] = t => k \in Begun \/ \E i \in 1..(j - 1) : pending[i] = k

(* Whatever a keyring holds was sent off to the server when it came in. *)
KeysSent ==
  \A s \in Session, c \in Schema : keyring[s][c] # None =>
    \E k \in Known : upload[k] = [session |-> s, kind |-> "key", keyset |-> keyring[s][c]]

FramesFollow ==
  \A t \in Known : upload[t].kind = "frame" =>
    \E k \in Known : upload[k] = KeyFor(t) /\ NoLater(k, t)

KeysInOrder == KeysSent /\ FramesFollow

LEMMA SubmitOrder ==
  ASSUME QueueInv, NEW t \in Task, Submit(t), NEW k \in Known
  PROVE  /\ NoLater(k, t)'
         /\ \A u \in Known : NoLater(k, u) => NoLater(k, u)'
<1>1. /\ pending \in Seq(Task) /\ Len(pending) \in Nat /\ pending' \in Seq(Task)
      /\ Len(pending') = Len(pending) + 1
      /\ \A i \in 1..Len(pending) : pending'[i] = pending[i]
      /\ pending'[Len(pending) + 1] = t
  BY AppendProperties, LenProperties DEF Submit, QueueInv, QueueTypeOK
<1>2. t \notin Known /\ Begun' = Begun
  BY DEF Submit, Begun
<1>3. k \in Begun \/ \E i \in 1..Len(pending) : pending[i] = k
  BY <1>1, LenProperties DEF Known, Begun, Range
<1>4. NoLater(k, t)'
  <2>1. t \notin Begun
    BY <1>2 DEF Begun, Known
  <2>2. \A i \in 1..Len(pending) : pending[i] # t
    BY <1>1, <1>2, LenProperties DEF Known, Range
  <2>3. ASSUME NEW j \in 1..Len(pending'), pending'[j] = t
        PROVE  k \in Begun \/ \E i \in 1..(j - 1) : pending'[i] = k
    <3>1. j = Len(pending) + 1
      BY <1>1, <2>2, <2>3
    <3>2. QED
      BY <1>1, <1>3, <3>1
  <2>4. QED
    BY <1>2, <2>1, <2>3 DEF NoLater
<1>5. ASSUME NEW u \in Known, NoLater(k, u) PROVE NoLater(k, u)'
  <2>1. ASSUME NEW j \in 1..Len(pending'), pending'[j] = u
        PROVE  k \in Begun \/ \E i \in 1..(j - 1) : pending'[i] = k
    <3>1. j \in 1..Len(pending) /\ pending[j] = u
      BY <1>1, <1>2, <2>1
    <3>2. k \in Begun \/ \E i \in 1..(j - 1) : pending[i] = k
      BY <1>5, <3>1 DEF NoLater
    <3>3. \A i \in 1..(j - 1) : pending'[i] = pending[i]
      BY <1>1, <3>1
    <3>4. QED
      BY <3>2, <3>3
  <2>2. QED
    BY <1>2, <1>5, <2>1 DEF NoLater
<1>6. QED
  BY <1>4, <1>5

LEMMA StartOrder ==
  ASSUME QueueInv, Start, NEW k, NEW u, NoLater(k, u)
  PROVE  NoLater(k, u)'
<1>1. /\ pending \in Seq(Task) /\ Len(pending) \in Nat /\ Len(pending) >= 1
      /\ Len(pending') = Len(pending) - 1
      /\ \A i \in 1..Len(pending') : pending'[i] = pending[i + 1]
      /\ Head(pending) = pending[1]
  BY HeadTailProperties, LenProperties, EmptySeq DEF Start, QueueInv, QueueTypeOK
<1>2. Begun' = Begun \union {pending[1]}
  BY <1>1 DEF Start, Begun
<1>3. ASSUME NEW j \in 1..Len(pending), pending[j] = u
      PROVE  k \in Begun \/ \E i \in 1..(j - 1) : pending[i] = k
  BY <1>3 DEF NoLater
<1>4. u \in Begun' => k \in Begun'
  <2>1. CASE u \in Begun
    BY <1>2, <2>1 DEF NoLater
  <2>2. CASE u = pending[1]
    <3>1. 1 \in 1..Len(pending) /\ 1..(1 - 1) = {}
      BY <1>1
    <3>2. QED
      BY <1>2, <1>3, <2>2, <3>1
  <2>3. QED
    BY <1>2, <2>1, <2>2
<1>5. ASSUME NEW j \in 1..Len(pending'), pending'[j] = u
      PROVE  k \in Begun' \/ \E i \in 1..(j - 1) : pending'[i] = k
  <2>1. j + 1 \in 1..Len(pending) /\ pending[j + 1] = u /\ (j + 1) - 1 = j
    BY <1>1, <1>5
  <2>2. k \in Begun \/ \E i \in 1..j : pending[i] = k
    BY <1>3, <2>1
  <2>3. ASSUME NEW i \in 1..j, pending[i] = k, i # 1
        PROVE  \E n \in 1..(j - 1) : pending'[n] = k
    <3>1. i - 1 \in 1..(j - 1) /\ i - 1 \in 1..Len(pending') /\ (i - 1) + 1 = i
      BY <1>1, <2>3
    <3>2. QED
      BY <1>1, <2>3, <3>1
  <2>4. QED
    BY <1>2, <2>2, <2>3
<1>6. QED
  BY <1>4, <1>5 DEF NoLater

LEMMA OrderStays ==
  ASSUME NEW k, NEW u, NoLater(k, u), pending' = pending, Begun' = Begun
  PROVE  NoLater(k, u)'
BY DEF NoLater

LEMMA OrderInit == Init => KeysInOrder
<1>1. SUFFICES ASSUME Init PROVE KeysInOrder
  OBVIOUS
<1>2. Known = {} /\ \A s \in Session, c \in Schema : keyring[s][c] = None
  BY <1>1, QueueStarts DEF Init, NoKeys
<1>3. QED
  BY <1>2 DEF KeysInOrder, KeysSent, FramesFollow

(* Steps that queue nothing and start nothing. *)
LEMMA OrderKept ==
  ASSUME KeysInOrder, upload' = upload, pending' = pending, Begun' = Begun,
         \A s \in Session, c \in Schema : keyring'[s][c] \in {None, keyring[s][c]}
  PROVE  KeysInOrder'
<1>1. Known' = Known
  BY DEF Known, Begun
<1>2. KeysSent'
  BY <1>1 DEF KeysInOrder, KeysSent
<1>3. FramesFollow'
  BY <1>1, OrderStays DEF KeysInOrder, FramesFollow, KeyFor
<1>4. QED
  BY <1>2, <1>3 DEF KeysInOrder

LEMMA OrderStarts ==
  ASSUME IInv, KeysInOrder, Begin
  PROVE  KeysInOrder'
<1>1. Known' = Known /\ Start /\ QueueInv /\ upload' = upload /\ keyring' = keyring
  BY StartEffect DEF Begin, IInv, keyVars
<1>2. KeysSent'
  BY <1>1 DEF KeysInOrder, KeysSent
<1>3. FramesFollow'
  BY <1>1, StartOrder DEF KeysInOrder, FramesFollow, KeyFor
<1>4. QED
  BY <1>2, <1>3 DEF KeysInOrder

(* What was queued before stays where it is, and goes before the new one. *)
LEMMA OrderGrows ==
  ASSUME IInv, KeysInOrder, NEW t \in Task, Submit(t), upload[t] = None,
         \A u \in Task : u # t => upload'[u] = upload[u],
         upload'[t].kind = "frame" => \E k \in Known : upload[k] = KeyFor(t)'
  PROVE  FramesFollow'
<1>1. QueueInv /\ t \notin Known /\ Known' = Known \union {t} /\ Known \subseteq Task
  BY SubmitEffect, LenProperties DEF IInv, QueueInv, QueueTypeOK, Known, Range
<1>2. \A u \in Known : upload'[u] = upload[u]
  BY <1>1
<1>3. ASSUME NEW u \in Known, upload'[u].kind = "frame"
      PROVE  \E k \in Known' : upload'[k] = KeyFor(u)' /\ NoLater(k, u)'
  <2>1. PICK k \in Known : upload[k] = KeyFor(u) /\ NoLater(k, u)
    BY <1>2, <1>3 DEF KeysInOrder, FramesFollow
  <2>2. NoLater(k, u)'
    BY <1>1, <2>1, SubmitOrder
  <2>3. upload'[k] = KeyFor(u)'
    BY <1>2, <2>1 DEF KeyFor
  <2>4. QED
    BY <1>1, <2>2, <2>3
<1>4. ASSUME upload'[t].kind = "frame"
      PROVE  \E k \in Known' : upload'[k] = KeyFor(t)' /\ NoLater(k, t)'
  <2>1. PICK k \in Known : upload[k] = KeyFor(t)'
    BY <1>4
  <2>2. NoLater(k, t)'
    BY <1>1, SubmitOrder
  <2>3. upload'[k] = KeyFor(t)'
    BY <1>2, <2>1
  <2>4. QED
    BY <1>1, <2>2, <2>3
<1>5. QED
  BY <1>1, <1>3, <1>4 DEF FramesFollow

LEMMA KeyOrder ==
  ASSUME IInv, KeysInOrder, NEW s \in Session, NEW k \in Keyset, NEW t \in Task, AddKey(s, k, t)
  PROVE  KeysInOrder'
<1> DEFINE kept == Kept(s, k)
<1>1. /\ Submit(t) /\ upload' = [upload EXCEPT ![t] = [session |-> s, kind |-> "key", keyset |-> kept]]
      /\ keyring' = AddKeyset(s, k)
  BY DEF AddKey, Enqueue
<1>2. t \notin Known /\ Known' = Known \union {t} /\ Known \subseteq Task
  BY <1>1, SubmitEffect, LenProperties DEF IInv, QueueInv, QueueTypeOK, Known, Range
<1>3. upload[t] = None /\ upload \in [Task -> Upload \union {None}]
  BY <1>2 DEF IInv, UploadsKnown, TypeOK
<1> HIDE DEF kept
<1>4. /\ upload'[t] = [session |-> s, kind |-> "key", keyset |-> kept] /\ upload'[t].kind # "frame"
      /\ \A u \in Task : u # t => upload'[u] = upload[u]
  BY <1>1, <1>3
<1>5. FramesFollow'
  BY <1>1, <1>3, <1>4, OrderGrows
<1>6. KeysSent'
  <2>1. ASSUME NEW z \in Session, NEW c \in Schema, keyring'[z][c] # None
        PROVE  \E u \in Known' :
                 upload'[u] = [session |-> z, kind |-> "key", keyset |-> keyring'[z][c]]
    <3>1. CASE z = s /\ c = SchemaOf[k]
      <4>1. keyring'[z][c] = kept
        BY <1>1, <3>1 DEF kept, Kept
      <4>2. QED
        BY <1>2, <1>4, <3>1, <4>1
    <3>2. CASE ~(z = s /\ c = SchemaOf[k])
      <4>1. keyring'[z][c] = keyring[z][c]
        BY <1>1, <3>2, SessionAssumption DEF AddKeyset, IInv, TypeOK
      <4>2. PICK u \in Known : upload[u] = [session |-> z, kind |-> "key", keyset |-> keyring[z][c]]
        BY <2>1, <4>1 DEF KeysInOrder, KeysSent
      <4>3. QED
        BY <1>2, <1>4, <4>1, <4>2
    <3>3. QED
      BY <3>1, <3>2
  <2>2. QED
    BY <2>1 DEF KeysSent
<1>7. QED
  BY <1>5, <1>6 DEF KeysInOrder

LEMMA FrameOrder ==
  ASSUME IInv, KeysInOrder, NEW s \in Session, NEW c \in Schema, NEW t \in Task, ImportFrame(s, c, t)
  PROVE  KeysInOrder'
<1> DEFINE used == WithCrypto(s, c)[s][c]
<1>1. /\ Submit(t) /\ upload' = [upload EXCEPT ![t] = [session |-> s, kind |-> "frame", keyset |-> used]]
      /\ phase[s] = "live" /\ keyring[s][c] # None /\ keyring' = keyring
  BY DEF ImportFrame, Enqueue
<1>2. t \notin Known /\ Known' = Known \union {t} /\ Known \subseteq Task
  BY <1>1, SubmitEffect, LenProperties DEF IInv, QueueInv, QueueTypeOK, Known, Range
<1>3. upload[t] = None /\ upload \in [Task -> Upload \union {None}]
  BY <1>2 DEF IInv, UploadsKnown, TypeOK
<1>4. used = keyring[s][c]
  <2>1. cryptos[s][c] \in {None, keyring[s][c]}
    BY <1>1 DEF IInv, KeysAgree, KeysOf
  <2>2. QED
    BY <1>1, <2>1 DEF WithCrypto, IInv, TypeOK
<1> HIDE DEF used
<1>5. /\ upload'[t] = [session |-> s, kind |-> "frame", keyset |-> used]
      /\ \A u \in Task : u # t => upload'[u] = upload[u]
  BY <1>1, <1>3
<1>6. KeysSent'
  <2>1. ASSUME NEW z \in Session, NEW d \in Schema, keyring[z][d] # None
        PROVE  \E u \in Known' :
                 upload'[u] = [session |-> z, kind |-> "key", keyset |-> keyring[z][d]]
    <3>1. PICK u \in Known : upload[u] = [session |-> z, kind |-> "key", keyset |-> keyring[z][d]]
      BY <2>1 DEF KeysInOrder, KeysSent
    <3>2. QED
      BY <1>2, <1>5, <3>1
  <2>2. QED
    BY <1>1, <2>1 DEF KeysSent
<1>7. \E k \in Known : upload[k] = KeyFor(t)'
  <2>1. PICK k \in Known : upload[k] = [session |-> s, kind |-> "key", keyset |-> keyring[s][c]]
    BY <1>1 DEF KeysInOrder, KeysSent
  <2>2. KeyFor(t)' = [session |-> s, kind |-> "key", keyset |-> used]
    BY <1>5 DEF KeyFor
  <2>3. QED
    BY <1>4, <2>1, <2>2
<1>8. FramesFollow'
  BY <1>1, <1>3, <1>5, <1>7, OrderGrows
<1>9. QED
  BY <1>6, <1>8 DEF KeysInOrder

LEMMA OrderStep ==
  ASSUME IInv, KeysInOrder, [Next]_vars
  PROVE  KeysInOrder'
<1>1. ASSUME upload' = upload, pending' = pending, running' \union finished' = running \union finished,
             keyring' = keyring
      PROVE  KeysInOrder'
  BY <1>1, OrderKept DEF Begun
<1>2. ASSUME NEW s \in Session, DropSession(s) PROVE KeysInOrder'
  <2>1. upload' = upload /\ pending' = pending /\ Begun' = Begun
        /\ keyring' = [keyring EXCEPT ![s] = NoKeys]
    BY <1>2 DEF DropSession, queueVars, Begun
  <2>2. \A z \in Session, c \in Schema : keyring'[z][c] \in {None, keyring[z][c]}
    BY <2>1 DEF IInv, TypeOK, NoKeys
  <2>3. QED
    BY <2>1, <2>2, OrderKept
<1>3. ASSUME NEW t \in Task, Step(t) PROVE KeysInOrder'
  <2>1. \/ Finish(t) \/ Halt
    BY <1>3 DEF Step, UploadKey, UploadFrame, UploadDangles
  <2>2. pending' = pending /\ running' \union finished' = running \union finished
    BY <2>1 DEF Finish, Halt
  <2>3. upload' = upload /\ keyring' = keyring
    BY <1>3 DEF Step, UploadKey, UploadFrame, UploadDangles, keyVars
  <2>4. QED
    BY <1>1, <2>2, <2>3
<1>4. ASSUME NEW s \in Session,
             \/ \E b \in BOOLEAN : CreateSession(s, b)
             \/ Destroy(s) \/ DropTerminates(s) \/ \E c \in Schema : UseCrypto(s, c)
      PROVE  KeysInOrder'
  BY <1>1, <1>4 DEF CreateSession, Destroy, DropTerminates, UseCrypto, Halt, keyVars, queueVars
<1>5. ASSUME \/ Connect \/ BackendEnds \/ Over \/ UNCHANGED vars
             \/ \E h \in Session \union {User} : Release(h)
      PROVE  KeysInOrder'
  BY <1>1, <1>5 DEF Connect, BackendEnds, Over, Release, Close, vars, keyVars, queueVars
<1>6. QED
  BY <1>2, <1>3, <1>4, <1>5, KeyOrder, FrameOrder, OrderStarts DEF Next

LEMMA InOrder == Spec => []KeysInOrder
<1>1. KeysInOrder /\ IInv /\ [Next]_vars => KeysInOrder'
  BY OrderStep
<1>2. QED
  BY <1>1, OrderInit, Inductive, PTL DEF Spec

--------------------------------------------------------------------------------
(* What follows *)

(* Every variable keeps its type, and only live or dying sessions hold the *)
(* Context.                                                                *)
THEOREM TypeCorrect == Spec => []TypeOK
BY Inductive, PTL DEF IInv

(* Whatever keysets are added and however uploads end, frames are          *)
(* encrypted with the keyset whose cloud key the server has.               *)
THEOREM CryptosMatch == Spec => []CryptoMatchesServer
<1>1. IInv => CryptoMatchesServer
  BY DEF IInv, KeysAgree, KeysOf, CryptoMatchesServer, NoKeys
<1>2. QED
  BY <1>1, Inductive, PTL

(* A crypto lives as long as the pool holds an upload of a session that is *)
(* kept until its futures are ready.                                       *)
THEOREM BorrowedCryptosLive == Spec => []BorrowedCryptoLives
<1>1. IInv => BorrowedCryptoLives
  <2> SUFFICES ASSUME IInv, ~halted, NEW t \in Task, t \in Range(pending) \union running,
                      upload[t].kind = "frame", upload[t].session \in Careful
               PROVE  cryptos[upload[t].session][SchemaOf[upload[t].keyset]] = upload[t].keyset
    BY DEF BorrowedCryptoLives
  <2>1. t \in InPool /\ t \in Known
    BY DEF InPool, Known
  <2>2. phase[upload[t].session] = "live" /\ upload[t].session \in Session /\ upload[t] # None
    BY <2>1, SessionAssumption DEF IInv, CarefulStay, UploadsKnown
  <2>3. KeysOf(upload[t].session)
    BY <2>2 DEF IInv, KeysAgree
  <2>4. QED
    BY <2>2, <2>3 DEF KeysOf
<1>2. QED
  BY <1>1, Inductive, PTL

(* The pool is there for whoever can reach it, and empty when it is gone.  *)
THEOREM PoolOutlives == Spec => []PoolOutlivesUsers
<1>1. IInv => PoolOutlivesUsers
  <2>1. ASSUME IInv, backend = "gone", NEW t \in Task, upload[t] # None
        PROVE  t \in finished
    BY <2>1 DEF IInv, UploadsKnown, Handles, Known, InPool
  <2>2. QED
    BY <2>1 DEF IInv, Handles, PoolOutlivesUsers
<1>2. QED
  BY <1>1, Inductive, PTL

(* No frame's upload begins before that of the key it is encrypted with.   *)
THEOREM KeysGoFirst == Spec => []KeyGoesFirst
<1>1. KeysInOrder => KeyGoesFirst
  <2>1. Begun \subseteq Known
    BY DEF Begun, Known
  <2>2. QED
    BY <2>1 DEF KeysInOrder, FramesFollow, NoLater, KeyGoesFirst, KeyFor
<1>2. QED
  BY <1>1, InOrder, PTL
================================================================================
