----------------------------- MODULE RemoteProofs ------------------------------
(***************************************************************************)
(* The two maps a remote connection keeps beside the server's: the frames  *)
(* of RemoteStorage, and after them the jobs of RemoteExecutor.  What the  *)
(* runs check with three frames, for any set of frames and names, whether  *)
(* or not the server keeps names apart.  The invariant relates the answer  *)
(* in use to the server and to the map, which have both gone on since the  *)
(* server gave it.                                                         *)
(***************************************************************************)
EXTENDS RemoteStorage, RemoteExecutor, DataLemmas

(* A cached frame that is at the server is in the answer, and the frame of *)
(* a dead entry is not.                                                    *)
AnswerKept ==
  call.op = "sync" =>
    /\ \A n \in Name : cache[n] \in remote => cache[n] \in call.answer
    /\ \A n \in dead : cache[n] \notin call.answer

(* The name an import was given automatically is still free.               *)
NameFree ==
  call.op \in {"import", "created"} => (call.auto => cache[call.name] = None)

IInv == TypeOK /\ DeadMeansGone /\ AutoNamedStays /\ AnswerKept /\ NameFree

(* The fields of the calls that have any.                                  *)
LEMMA CallFields ==
  ASSUME NEW c \in Call
  PROVE  /\ c.op \in {"idle", "import", "created", "sync"}
         /\ c.op \in {"import", "created"} => c.name \in Name /\ c.auto \in BOOLEAN
         /\ c.op = "created" => c.frame \in Frame
         /\ c.op = "sync" => c.answer \subseteq Frame
BY DEF Call, Idle

(* The automatic name exists, is a name, and has no entry.                 *)
LEMMA FreeNameIsFree ==
  ASSUME TypeOK, ~(Range(AutoNames) \subseteq Bound)
  PROVE  FreeName \in Name /\ cache[FreeName] = None
<1> DEFINE S == {i \in 1..Len(AutoNames) : cache[AutoNames[i]] = None}
<1>1. Len(AutoNames) \in Nat /\ \A i \in 1..Len(AutoNames) : AutoNames[i] \in Name
  BY StorageAssumption
<1>2. S # {} /\ S \subseteq Nat
  BY <1>1, StorageAssumption DEF Range, Bound
<1>3. PICK m \in S : \A k \in S : m <= k
  <2>1. S \in SUBSET Nat /\ S # {}
    BY <1>2
  <2> HIDE DEF S
  <2>2. QED
    BY <2>1, LeastElement
<1>4. m \in 1..Len(AutoNames) /\ cache[AutoNames[m]] = None
      /\ \A j \in 1..m-1 : cache[AutoNames[j]] # None
  BY <1>1, <1>3
<1> QED
  BY <1>1, <1>4 DEF FreeName

--------------------------------------------------------------------------------
(* What no step takes back, used by every other proof. *)

LEMMA SyncBinds ==
  ASSUME TypeOK, SyncCache
  PROVE  /\ cache' \in [Name -> Frame \union {Nil, None}]
         /\ \A n \in Name : cache[n] # None => cache'[n] = cache[n]
         /\ \A n \in Name : cache[n] = None /\ cache'[n] # None =>
              cache'[n] \in NewFrames(call.answer) /\ called[cache'[n]] = n
         /\ \A n \in Name : cache[n] = None /\ cache'[n] = None =>
              ~ \E f \in NewFrames(call.answer) : called[f] = n
<1>1. NewFrames(call.answer) \subseteq Frame
  BY CallFields DEF SyncCache, TypeOK, NewFrames
<1>2. \A n \in Name : cache'[n] \in MayHold(n, NewFrames(call.answer))
  BY DEF SyncCache
<1>3. \A n \in Name :
        \/ cache'[n] = cache[n]
           /\ (cache[n] = None => ~ \E f \in NewFrames(call.answer) : called[f] = n)
        \/ cache[n] = None /\ cache'[n] \in NewFrames(call.answer) /\ called[cache'[n]] = n
  BY <1>2 DEF MayHold
<1> QED
  BY <1>1, <1>3, StorageAssumption DEF SyncCache

(* A bound name stays bound to its frame, by either way into the map.      *)
LEMMA BindingStep ==
  TypeOK /\ [Next]_vars => \A n \in Name : cache[n] # None => cache'[n] = cache[n]
<1> SUFFICES ASSUME TypeOK, [Next]_vars
             PROVE  \A n \in Name : cache[n] # None => cache'[n] = cache[n]
  OBVIOUS
<1>1. ASSUME NEW f, Imported(f)
      PROVE  \A n \in Name : cache[n] # None => cache'[n] = cache[n]
  BY <1>1 DEF Imported, TryEmplace, TypeOK
<1>2. CASE ImportReturns
  BY <1>1, <1>2 DEF ImportReturns
<1>3. CASE ImportUnanswered
  BY <1>1, <1>3 DEF ImportUnanswered
<1>4. CASE SyncCache
  BY <1>4, SyncBinds
<1>5. CASE Import \/ ListFrames
  BY <1>5 DEF Import, ListFrames
<1>6. ASSUME NEW f \in Frame,
             ServerCreates(f) \/ ServerDrops(f) \/ \E n \in Name : OtherCreates(f, n)
      PROVE  UNCHANGED cache
  BY <1>6 DEF ServerCreates, ServerDrops, OtherCreates
<1>7. CASE UNCHANGED vars
  BY <1>7 DEF vars
<1> QED
  BY <1>2, <1>3, <1>4, <1>5, <1>6, <1>7 DEF Next

(* A frame keeps the name it was created with, and a new one had none.     *)
LEMMA CreationStep ==
  TypeOK /\ [Next]_vars =>
    \/ UNCHANGED called /\ remote' \subseteq remote
    \/ \E f \in Frame, n \in Name :
         /\ called[f] = None
         /\ called' = [called EXCEPT ![f] = n]
         /\ remote' = remote \union {f}
         /\ UNCHANGED <<cache, dead, auto>>
         /\ \/ UNCHANGED call
            \/ call.op = "import" /\ n = call.name
               /\ call' = [op |-> "created", name |-> n, auto |-> call.auto, frame |-> f]
<1> SUFFICES ASSUME TypeOK, [Next]_vars
             PROVE  \/ UNCHANGED called /\ remote' \subseteq remote
                    \/ \E f \in Frame, n \in Name :
                         /\ called[f] = None
                         /\ called' = [called EXCEPT ![f] = n]
                         /\ remote' = remote \union {f}
                         /\ UNCHANGED <<cache, dead, auto>>
                         /\ \/ UNCHANGED call
                            \/ call.op = "import" /\ n = call.name
                               /\ call' = [op |-> "created", name |-> n,
                                           auto |-> call.auto, frame |-> f]
  OBVIOUS
<1>1. ASSUME NEW f \in Frame, ServerCreates(f)
      PROVE  /\ called[f] = None /\ call.name \in Name
             /\ called' = [called EXCEPT ![f] = call.name]
             /\ remote' = remote \union {f}
             /\ UNCHANGED <<cache, dead, auto>>
             /\ call.op = "import"
             /\ call' = [op |-> "created", name |-> call.name,
                         auto |-> call.auto, frame |-> f]
  BY <1>1, CallFields DEF ServerCreates, Accepts, TypeOK
<1>2. ASSUME NEW f \in Frame, NEW n \in Name, OtherCreates(f, n)
      PROVE  /\ called[f] = None
             /\ called' = [called EXCEPT ![f] = n]
             /\ remote' = remote \union {f}
             /\ UNCHANGED <<cache, dead, auto, call>>
  BY <1>2 DEF OtherCreates, Accepts
<1>3. ASSUME NEW f \in Frame, ServerDrops(f)
      PROVE  UNCHANGED called /\ remote' \subseteq remote
  BY <1>3 DEF ServerDrops
<1>4. CASE Import \/ ImportReturns \/ ImportUnanswered \/ ListFrames \/ SyncCache
  BY <1>4 DEF Import, ImportReturns, ImportUnanswered, Imported, ListFrames, SyncCache
<1>5. CASE UNCHANGED vars
  BY <1>5 DEF vars
<1> QED
  BY <1>1, <1>2, <1>3, <1>4, <1>5, Zenon DEF Next

--------------------------------------------------------------------------------
(* The types, and what holds of the call in progress. *)

(* What a call holds is one of the shapes of Call.                         *)
LEMMA CallShapes ==
  /\ Idle \in Call /\ Idle.op = "idle"
  /\ \A n \in Name, a \in BOOLEAN : [op |-> "import", name |-> n, auto |-> a] \in Call
  /\ \A n \in Name, a \in BOOLEAN, f \in Frame :
       [op |-> "created", name |-> n, auto |-> a, frame |-> f] \in Call
  /\ \A s \in SUBSET Frame : [op |-> "sync", answer |-> s] \in Call
BY DEF Call, Idle

LEMMA ImportedType ==
  ASSUME TypeOK, NEW f \in Frame \union {Nil}, f # None, call.op \in {"import", "created"},
         f \in Frame => called[f] = call.name, Imported(f)
  PROVE  TypeOK'
<1>1. call.name \in Name
  BY CallFields DEF TypeOK
<1>2. /\ cache' \in [Name -> Frame \union {Nil, None}]
      /\ \A n \in Name : cache[n] # None => cache'[n] = cache[n]
      /\ \A n \in Name : cache'[n] # cache[n] => n = call.name /\ cache'[n] = f
  BY <1>1 DEF TypeOK, Imported, TryEmplace
<1>3. \A n \in Name : cache'[n] \in Frame => called[cache'[n]] = n
  BY <1>2 DEF TypeOK
<1>4. dead \subseteq Bound'
  BY <1>2 DEF TypeOK, Bound
<1>5. auto' \subseteq Name \X ((Frame \union {Nil}) \ {None})
  BY <1>1 DEF TypeOK, Imported
<1> QED
  BY <1>2, <1>3, <1>4, <1>5, CallShapes DEF TypeOK, Imported

LEMMA TypeStep == TypeOK /\ [Next]_vars => TypeOK'
<1> SUFFICES ASSUME TypeOK, [Next]_vars PROVE TypeOK'
  OBVIOUS
<1> USE DEF TypeOK
<1>1. CASE Import
  <2>1. \E n \in Name, a \in BOOLEAN : call' = [op |-> "import", name |-> n, auto |-> a]
    BY <1>1, FreeNameIsFree DEF Import
  <2> QED
    BY <1>1, <2>1, CallShapes DEF Import, Bound
<1>2. CASE ImportReturns
  BY <1>2, ImportedType, CallFields, StorageAssumption DEF ImportReturns
<1>3. CASE ImportUnanswered
  <2>1. CASE Nil # None /\ Imported(Nil)
    BY <1>3, <2>1, ImportedType, StorageAssumption DEF ImportUnanswered
  <2>2. CASE call' = Idle /\ UNCHANGED <<called, remote, cache, dead, auto>>
    BY <2>2, CallShapes DEF Bound
  <2> QED
    BY <1>3, <2>1, <2>2 DEF ImportUnanswered
<1>4. CASE ListFrames
  BY <1>4, CallShapes DEF ListFrames, Bound
<1>5. CASE SyncCache
  <2>1. \A n \in Name : cache'[n] \in Frame => called[cache'[n]] = n
    BY <1>5, SyncBinds, StorageAssumption
  <2>2. dead' \subseteq Bound'
    BY <1>5, SyncBinds DEF SyncCache, Missing, Bound
  <2> QED
    BY <1>5, <2>1, <2>2, SyncBinds, CallShapes DEF SyncCache
<1>6. ASSUME NEW f \in Frame, NEW n \in Name, called[f] = None,
             called' = [called EXCEPT ![f] = n], remote' = remote \union {f},
             UNCHANGED <<cache, dead, auto>>,
             \/ UNCHANGED call
             \/ call.op = "import" /\ n = call.name
                /\ call' = [op |-> "created", name |-> n, auto |-> call.auto, frame |-> f]
      PROVE  TypeOK'
  <2>1. \A g \in Frame : called[g] # None => g # f /\ called'[g] = called[g]
    BY <1>6
  <2>2. /\ called' \in [Frame -> Name \union {None}]
        /\ remote' \subseteq {g \in Frame : called'[g] # None}
        /\ called'[f] = n
    BY <1>6, StorageAssumption
  <2>3. \A m \in Name : cache[m] \in Frame => called'[cache[m]] = m
    BY <2>1, StorageAssumption
  <2>4. /\ call' \in Call
        /\ call'.op = "created" => called'[call'.frame] = call'.name
        /\ call'.op = "sync" => \A g \in call'.answer : called'[g] # None
    <3>1. CASE UNCHANGED call
      BY <3>1, <2>1, CallFields, StorageAssumption
    <3>2. CASE call.op = "import" /\ n = call.name
               /\ call' = [op |-> "created", name |-> n, auto |-> call.auto, frame |-> f]
      BY <3>2, <2>2, CallFields, CallShapes
    <3> QED
      BY <1>6, <3>1, <3>2
  <2> QED
    BY <1>6, <2>2, <2>3, <2>4 DEF Bound
<1>7. CASE UNCHANGED vars
  BY <1>7 DEF vars, Bound
<1>8. ASSUME NEW f \in Frame, ServerDrops(f)
      PROVE  TypeOK'
  BY <1>8 DEF ServerDrops, Bound
<1>9. ASSUME NEW f \in Frame, ServerCreates(f) \/ \E n \in Name : OtherCreates(f, n)
      PROVE  TypeOK'
  BY <1>6, <1>9, CallFields DEF ServerCreates, OtherCreates, Accepts
<1> QED
  BY <1>1, <1>2, <1>3, <1>4, <1>5, <1>7, <1>8, <1>9 DEF Next

--------------------------------------------------------------------------------
(* The invariant. *)

(* Who comes into the map or to the server is not shown as dead.           *)
LEMMA DeadStep == TypeOK /\ DeadMeansGone /\ AnswerKept /\ [Next]_vars => DeadMeansGone'
<1> SUFFICES ASSUME TypeOK, DeadMeansGone, AnswerKept, [Next]_vars, NEW n \in dead'
             PROVE  cache'[n] \notin remote'
  BY DEF DeadMeansGone
<1>1. dead \subseteq Name /\ \A m \in dead : cache[m] # None /\ cache'[m] = cache[m]
  BY BindingStep DEF TypeOK, Bound
<1>2. CASE SyncCache
  <2>1. n \in Name /\ cache[n] # None /\ UNCHANGED remote /\ cache'[n] = cache[n]
    BY <1>1, <1>2, SyncBinds DEF SyncCache, Missing, Bound
  <2>2. cache[n] \notin remote
    BY <1>2, <2>1 DEF SyncCache, Missing, AnswerKept, DeadMeansGone
  <2> QED
    BY <2>1, <2>2
<1>3. CASE n \in dead
  <2>1. n \in Name /\ cache'[n] = cache[n] /\ cache[n] \notin remote
    BY <1>1, <1>3 DEF DeadMeansGone
  <2>2. cache[n] \in Frame => called[cache[n]] # None
    BY <2>1, StorageAssumption DEF TypeOK
  <2> QED
    BY <2>1, <2>2, CreationStep
<1>4. CASE ~SyncCache
  <2>1. UNCHANGED dead
    BY <1>4 DEF Next, vars, Import, ImportReturns, ImportUnanswered, Imported, ListFrames,
                ServerCreates, ServerDrops, OtherCreates
  <2> QED
    BY <1>3, <2>1
<1> QED
  BY <1>2, <1>4

LEMMA NameFreeStep == TypeOK /\ NameFree /\ [Next]_vars => NameFree'
<1> SUFFICES ASSUME TypeOK, NameFree, [Next]_vars,
                    call'.op \in {"import", "created"}, call'.auto
             PROVE  cache'[call'.name] = None
  BY DEF NameFree
<1>1. CASE Import
  BY <1>1, FreeNameIsFree DEF Import
<1>2. CASE ImportReturns \/ ImportUnanswered \/ ListFrames \/ SyncCache
  BY <1>2 DEF ImportReturns, ImportUnanswered, Imported, ListFrames, SyncCache, Idle
<1>3. ASSUME NEW f \in Frame,
             ServerCreates(f) \/ ServerDrops(f) \/ \E n \in Name : OtherCreates(f, n)
      PROVE  cache'[call'.name] = None
  BY <1>3 DEF ServerCreates, ServerDrops, OtherCreates, NameFree
<1>4. CASE UNCHANGED vars
  BY <1>4 DEF vars, NameFree
<1> QED
  BY <1>1, <1>2, <1>3, <1>4 DEF Next

LEMMA AutoStep == TypeOK /\ AutoNamedStays /\ NameFree /\ [Next]_vars => AutoNamedStays'
<1> SUFFICES ASSUME TypeOK, AutoNamedStays, NameFree, [Next]_vars, NEW p \in auto'
             PROVE  cache'[p[1]] = p[2]
  BY DEF AutoNamedStays
<1>1. CASE p \in auto
  <2>1. p[1] \in Name /\ p[2] # None
    BY <1>1 DEF TypeOK
  <2> QED
    BY <1>1, <2>1, BindingStep DEF AutoNamedStays, TypeOK
<1>2. ASSUME NEW f, Imported(f), p \notin auto, call.op \in {"import", "created"}
      PROVE  cache'[p[1]] = p[2]
  BY <1>2, CallFields DEF Imported, TryEmplace, NameFree, TypeOK
<1>3. CASE ImportReturns \/ ImportUnanswered
  BY <1>1, <1>2, <1>3 DEF ImportReturns, ImportUnanswered
<1>4. CASE ~(ImportReturns \/ ImportUnanswered)
  BY <1>1, <1>4 DEF Next, vars, Import, ListFrames, SyncCache,
                    ServerCreates, ServerDrops, OtherCreates
<1> QED
  BY <1>3, <1>4

(* Between the answer and its use, the map only changes by imports, which  *)
(* the one calling thread cannot make, and the server's new frames are     *)
(* nobody's in the map.                                                    *)
LEMMA AnswerStep ==
  TypeOK /\ DeadMeansGone /\ AnswerKept /\ [Next]_vars => AnswerKept'
<1> SUFFICES ASSUME TypeOK, DeadMeansGone, AnswerKept, [Next]_vars, call'.op = "sync"
             PROVE  /\ \A n \in Name : cache'[n] \in remote' => cache'[n] \in call'.answer
                    /\ \A n \in dead' : cache'[n] \notin call'.answer
  BY DEF AnswerKept
<1>1. CASE ListFrames
  BY <1>1 DEF ListFrames, DeadMeansGone
<1>2. CASE Import \/ ImportReturns \/ ImportUnanswered \/ SyncCache
  BY <1>2 DEF Import, ImportReturns, ImportUnanswered, Imported, SyncCache, Idle
<1>3. ASSUME NEW f \in Frame, ServerCreates(f)
      PROVE  FALSE
  BY <1>3 DEF ServerCreates
<1>4. ASSUME NEW f \in Frame, ServerDrops(f) \/ \E n \in Name : OtherCreates(f, n)
      PROVE  /\ UNCHANGED <<cache, dead, call>>
             /\ \A n \in Name : cache[n] \in remote' => cache[n] \in remote
  BY <1>4, StorageAssumption DEF ServerDrops, OtherCreates, Accepts, TypeOK
<1>5. CASE UNCHANGED vars
  BY <1>5 DEF vars, AnswerKept
<1>6. CASE \E f \in Frame : ServerDrops(f) \/ \E n \in Name : OtherCreates(f, n)
  BY <1>4, <1>6 DEF AnswerKept
<1> QED
  BY <1>1, <1>2, <1>3, <1>5, <1>6 DEF Next

LEMMA InitHolds == Init => IInv
<1> SUFFICES ASSUME Init PROVE IInv
  OBVIOUS
<1>1. TypeOK
  BY CallShapes, StorageAssumption DEF Init, TypeOK, Bound
<1>2. DeadMeansGone /\ AutoNamedStays
  BY DEF Init, DeadMeansGone, AutoNamedStays
<1>3. AnswerKept /\ NameFree
  BY DEF Init, AnswerKept, NameFree, Idle
<1> QED
  BY <1>1, <1>2, <1>3 DEF IInv

LEMMA Invariance == Spec => []IInv
<1>1. IInv /\ [Next]_vars => IInv'
  BY TypeStep, DeadStep, NameFreeStep, AutoStep, AnswerStep DEF IInv
<1> QED
  BY <1>1, InitHolds, PTL DEF Spec

--------------------------------------------------------------------------------
(* The theorems. *)

(* The map, the dead names and the call in progress keep their types, and  *)
(* a name is only ever bound to a frame created with it.                   *)
THEOREM TypeCorrect == Spec => []TypeOK
BY Invariance, PTL DEF IInv

(* A frame shown as not alive is gone, however late the answer was used    *)
(* and whatever other clients did since.                                   *)
THEOREM DeadFramesAreGone == Spec => []DeadMeansGone
BY Invariance, PTL DEF IInv

(* A frame imported without a name stays reachable by the one it was given.*)
THEOREM AutomaticNamesStay == Spec => []AutoNamedStays
BY Invariance, PTL DEF IInv

(* A name is never bound to another frame.                                 *)
THEOREM NamesAreFinal == Spec => BindingsAreFinal
<1>1. IInv /\ [Next]_vars => [\A n \in Name : cache[n] # None => cache'[n] = cache[n]]_vars
  BY BindingStep DEF IInv
<1> QED
  BY <1>1, Invariance, PTL DEF Spec, BindingsAreFinal

(* The step that ends a synchronisation is sync_cache()'s.                 *)
LEMMA SyncedStep ==
  IInv /\ [Next]_vars /\ Synced =>
    /\ \A n \in Name : cache'[n] # None => (n \in dead' <=> cache'[n] \notin call.answer)
    /\ \A f \in call.answer : cache'[called[f]] # None
<1> SUFFICES ASSUME IInv, [Next]_vars, Synced
             PROVE  /\ \A n \in Name :
                         cache'[n] # None => (n \in dead' <=> cache'[n] \notin call.answer)
                    /\ \A f \in call.answer : cache'[called[f]] # None
  OBVIOUS
<1>1. SyncCache
  BY DEF Synced, Next, vars, Import, ImportReturns, ImportUnanswered, ListFrames,
         ServerCreates, ServerDrops, OtherCreates, Idle
<1>2. TypeOK /\ AnswerKept /\ call.op = "sync" /\ call.answer \subseteq Frame
  BY <1>1, CallFields DEF IInv, TypeOK, SyncCache
<1>3. ASSUME NEW n \in Name, cache'[n] # None
      PROVE  n \in dead' <=> cache'[n] \notin call.answer
  <2>1. CASE cache[n] # None
    <3>1. cache'[n] = cache[n]
      BY <1>1, <1>2, <2>1, SyncBinds
    <3> QED
      BY <1>1, <1>2, <2>1, <3>1 DEF SyncCache, Missing, Bound, AnswerKept
  <2>2. CASE cache[n] = None
    <3>1. cache'[n] \in call.answer
      BY <1>1, <1>2, <1>3, <2>2, SyncBinds DEF NewFrames
    <3> QED
      BY <1>1, <1>2, <2>2, <3>1 DEF SyncCache, Missing, Bound, TypeOK
  <2> QED
    BY <2>1, <2>2
<1>4. ASSUME NEW f \in call.answer
      PROVE  cache'[called[f]] # None
  <2>1. f \in Frame /\ called[f] \in Name
    BY <1>2 DEF TypeOK
  <2>2. CASE f \in Cached
    <3>1. PICK n \in Name : cache[n] = f
      BY <1>2, <2>2 DEF Cached, Range, TypeOK
    <3>2. called[f] = n
      BY <1>2, <2>1, <3>1 DEF TypeOK
    <3> QED
      BY <1>1, <1>2, <2>1, <3>1, <3>2, SyncBinds, StorageAssumption
  <2>3. CASE f \notin Cached
    BY <1>1, <1>2, <2>1, <2>3, SyncBinds DEF NewFrames
  <2> QED
    BY <2>2, <2>3
<1> QED
  BY <1>3, <1>4

(* After a synchronisation alive() says for every entry whether the answer *)
(* had it, and the name of every frame of the answer is bound.             *)
THEOREM SyncIsTrue == Spec => SyncShowsAnswer
<1>1. IInv /\ [Next]_vars =>
        [Synced =>
           /\ \A n \in Name :
                cache'[n] # None => (n \in dead' <=> cache'[n] \notin call.answer)
           /\ \A f \in call.answer : cache'[called[f]] # None]_vars
  BY SyncedStep
<1> QED
  BY <1>1, Invariance, PTL DEF Spec, SyncShowsAnswer

(***************************************************************************)
(* The executor of the same connection.  What RemoteExecutor's run checks  *)
(* with three jobs, for any set of jobs.  Its invariant says how the answer*)
(* in use, jobs_ and the server stand: jobs_ is at or behind the answer,   *)
(* the answer at or behind the server, and what was taken out of todo is as*)
(* the answer says.                                                        *)
(***************************************************************************)

AtMost(s, t) == s = t \/ Rank(s) < Rank(t)

AnswerHeld ==
  running.op \in {"sync", "listed"} =>
    \A j \in Job : running.infos[j] # Absent =>
      atServer[j] # Absent /\ AtMost(running.infos[j], atServer[j])

SyncKept ==
  running.op = "sync" =>
    /\ \A j \in CacheJobs : running.infos[j] # Absent /\ AtMost(jobs[j], running.infos[j])
    /\ \A j \in running.todo : running.infos[j] # Absent
    /\ \A j \in running.known : jobs[j] # Absent
    /\ \A j \in running.todo : j \notin running.known => jobs[j] = Absent
    /\ \A j \in Job \ running.todo : jobs[j] = running.infos[j]
    /\ \A j \in lost : running.infos[j] # Absent

ScheduledKept == running.op = "scheduled" => atServer[running.job] # Absent

LostKept == \A j \in lost : atServer[j] # Absent

ExecutorIInv ==
  /\ ExecutorTypeOK /\ NeverAhead /\ AnswerHeld /\ SyncKept
  /\ ScheduledKept /\ LostKept /\ ListingIsAnswer /\ LostJobsSurface

(* The order on statuses, which the code has only in the server.           *)
LEMMA RankValues ==
  /\ Rank("waiting") = 0 /\ Rank("executing") = 1
  /\ Rank("completed") = 2 /\ Rank("failed") = 2
  /\ \A s \in Status : Rank(s) \in 0..2
  /\ \A s \in Status : Rank(s) = 2 <=> s \in {"completed", "failed"}
BY DEF Rank, Status

LEMMA AtMostTransitive ==
  ASSUME NEW r \in Status, NEW s \in Status, NEW t \in Status,
         AtMost(r, s), AtMost(s, t)
  PROVE  AtMost(r, t)
BY RankValues DEF AtMost

(* The fields of the two kinds of call that hold an answer.                *)
LEMMA AnswerFields ==
  ASSUME NEW c \in ExecutorCall, c.op \in {"sync", "listed"}
  PROVE  c.infos \in Answer /\ c.pendingOnly \in BOOLEAN
BY DEF ExecutorCall, ExecutorIdle

LEMMA SyncFields ==
  ASSUME NEW c \in ExecutorCall, c.op = "sync"
  PROVE  /\ c \in [op : {"sync"}, pendingOnly : BOOLEAN, known : SUBSET Job,
                   infos : Answer, todo : SUBSET Job]
         /\ c.known \subseteq Job /\ c.todo \subseteq Job
BY DEF ExecutorCall, ExecutorIdle

(* Taking a job out of todo leaves the rest of the call.                   *)
LEMMA TodoFields ==
  ASSUME NEW c \in ExecutorCall, c.op = "sync", NEW j \in Job, NEW d,
         d = [c EXCEPT !.todo = @ \ {j}]
  PROVE  /\ d \in ExecutorCall /\ d.op = "sync"
         /\ d.known = c.known /\ d.infos = c.infos /\ d.pendingOnly = c.pendingOnly
         /\ d.todo = c.todo \ {j}
BY SyncFields DEF ExecutorCall
--------------------------------------------------------------------------------

LEMMA ExecutorInitHolds == ExecutorInit => ExecutorIInv
<1> SUFFICES ASSUME ExecutorInit PROVE ExecutorIInv
  OBVIOUS
<1>1. ExecutorTypeOK
  BY ExecutorAssumption DEF ExecutorInit, ExecutorTypeOK, Answer, ExecutorCall, ExecutorIdle
<1>2. CacheJobs = {} /\ running.op = "idle" /\ lost = {}
  BY DEF ExecutorInit, CacheJobs, ExecutorIdle
<1> QED
  BY <1>1, <1>2 DEF ExecutorIInv, NeverAhead, AnswerHeld, SyncKept, ScheduledKept, LostKept,
     ListingIsAnswer, LostJobsSurface

(* The server only moves up: what was at or behind it still is.            *)
LEMMA RemoteOnlyMovesUp ==
  ASSUME ExecutorTypeOK, ExecutorNext
  PROVE  \A j \in Job : atServer[j] # Absent =>
           /\ atServer'[j] \in Status /\ atServer'[j] # Absent
           /\ AtMost(atServer[j], atServer'[j])
<1> SUFFICES ASSUME NEW j \in Job, atServer[j] # Absent
             PROVE  /\ atServer'[j] \in Status /\ atServer'[j] # Absent
                    /\ AtMost(atServer[j], atServer'[j])
  OBVIOUS
<1>1. atServer[j] \in Status
  BY DEF ExecutorTypeOK, Answer
<1>2. CASE \E i \in Job : ServerSchedules(i) \/ OtherSchedules(i)
  <2>1. atServer'[j] = atServer[j]
    BY <1>2 DEF ServerSchedules, OtherSchedules, ExecutorTypeOK, Answer
  <2> QED
    BY <1>1, <2>1, ExecutorAssumption DEF AtMost
<1>3. CASE \E i \in Job : ServerAdvances(i)
  <2>1. /\ atServer'[j] \in Status
        /\ atServer'[j] = atServer[j] \/ Rank(atServer[j]) < Rank(atServer'[j])
    BY <1>1, <1>3, RankValues DEF ServerAdvances, ExecutorTypeOK, Answer
  <2> QED
    BY <2>1, ExecutorAssumption DEF AtMost
<1>4. CASE UNCHANGED atServer
  BY <1>1, <1>4, ExecutorAssumption DEF AtMost
<1> QED
  BY <1>2, <1>3, <1>4 DEF ExecutorNext, Schedule, ScheduleReturns, ScheduleThrows, ListReturns,
     ListJobs, SetStatus, Describe, DescribeThrows

LEMMA ExecutorTypeStep ==
  ASSUME ExecutorTypeOK, ExecutorNext
  PROVE  ExecutorTypeOK'
<1> USE ExecutorAssumption
<1>1. CASE Schedule
  BY <1>1 DEF Schedule, ExecutorTypeOK, ExecutorCall
<1>2. ASSUME NEW j \in Job, ServerSchedules(j) PROVE ExecutorTypeOK'
  BY <1>2 DEF ServerSchedules, ExecutorTypeOK, ExecutorCall, Answer, Status
<1>3. CASE ScheduleReturns
  <2>1. running.job \in Job /\ ExecutorIdle \in ExecutorCall
    BY <1>3 DEF ScheduleReturns, ExecutorTypeOK, ExecutorCall, ExecutorIdle
  <2> QED
    BY <1>3, <2>1 DEF ScheduleReturns, ExecutorTypeOK, Answer, FirstStatus, Status
<1>4. CASE ScheduleThrows
  <2>1. ExecutorIdle \in ExecutorCall /\ (running.op = "scheduled" => running.job \in Job)
    BY DEF ExecutorTypeOK, ExecutorCall, ExecutorIdle
  <2> QED
    BY <1>4, <2>1 DEF ScheduleThrows, ExecutorTypeOK
<1>5. ASSUME NEW b \in BOOLEAN, ListJobs(b) PROVE ExecutorTypeOK'
  <2>1. CacheJobs \subseteq Job
    BY DEF CacheJobs
  <2> QED
    BY <1>5, <2>1 DEF ListJobs, ExecutorTypeOK, ExecutorCall
<1>6. ASSUME NEW j \in Job, SetStatus(j) PROVE ExecutorTypeOK'
  <2>1. running' \in ExecutorCall
    BY <1>6, TodoFields DEF SetStatus, ExecutorTypeOK
  <2>2. running.infos \in Answer
    BY <1>6, AnswerFields DEF SetStatus, ExecutorTypeOK
  <2> QED
    BY <1>6, <2>1, <2>2 DEF SetStatus, ExecutorTypeOK, Answer, StatusOf
<1>7. ASSUME NEW j \in Job, Describe(j) PROVE ExecutorTypeOK'
  <2>1. running' \in ExecutorCall
    BY <1>7, TodoFields DEF Describe, ExecutorTypeOK
  <2>2. running.infos \in Answer
    BY <1>7, AnswerFields DEF Describe, ExecutorTypeOK
  <2> QED
    BY <1>7, <2>1, <2>2 DEF Describe, ExecutorTypeOK, Answer
<1>8. ASSUME NEW j \in Job, DescribeThrows(j) PROVE ExecutorTypeOK'
  BY <1>8 DEF DescribeThrows, ExecutorTypeOK, ExecutorCall, ExecutorIdle
<1>9. CASE ListReturns
  <2>1. running.infos \in Answer /\ running.pendingOnly \in BOOLEAN
    BY <1>9, AnswerFields DEF ListReturns, ExecutorTypeOK
  <2>2. {j \in Listed : running.pendingOnly => Pending(j)} \in SUBSET Job
    BY DEF Listed, CacheJobs
  <2>3. running' \in ExecutorCall
    BY <1>9, <2>1, <2>2 DEF ListReturns, ExecutorCall
  <2> QED
    BY <1>9, <2>3 DEF ListReturns, ExecutorTypeOK
<1>10. ASSUME NEW j \in Job, OtherSchedules(j) PROVE ExecutorTypeOK'
  BY <1>10 DEF OtherSchedules, ExecutorTypeOK, Answer, Status
<1>11. ASSUME NEW j \in Job, ServerAdvances(j) PROVE ExecutorTypeOK'
  BY <1>11 DEF ServerAdvances, ExecutorTypeOK, Answer
<1> QED
  BY <1>1, <1>2, <1>3, <1>4, <1>5, <1>6, <1>7, <1>8, <1>9, <1>10, <1>11 DEF ExecutorNext

(* jobs_ changes in three steps, each writing at or behind the server.     *)
LEMMA NeverAheadStep ==
  ASSUME ExecutorIInv, ExecutorNext
  PROVE  NeverAhead'
<1> USE DEF ExecutorIInv
<1> SUFFICES ASSUME NEW j \in Job, jobs'[j] # Absent
             PROVE  atServer'[j] # Absent /\ AtMost(jobs'[j], atServer'[j])
  BY DEF NeverAhead, CacheJobs, AtMost
<1>1. ExecutorTypeOK /\ ExecutorTypeOK'
  BY ExecutorTypeStep
<1>2. ASSUME atServer[j] # Absent, AtMost(jobs'[j], atServer[j])
      PROVE  atServer'[j] # Absent /\ AtMost(jobs'[j], atServer'[j])
  BY <1>1, <1>2, RemoteOnlyMovesUp, AtMostTransitive DEF ExecutorTypeOK, Answer
<1>3. CASE jobs'[j] = jobs[j]
  BY <1>2, <1>3 DEF NeverAhead, CacheJobs, AtMost
<1>4. CASE ScheduleReturns /\ jobs'[j] # jobs[j]
  <2>1. running.op = "scheduled" /\ j = running.job /\ jobs'[j] = "waiting"
    BY <1>1, <1>4 DEF ScheduleReturns, ExecutorTypeOK, Answer, FirstStatus
  <2>2. atServer[j] # Absent /\ atServer[j] \in Status
    BY <1>1, <2>1 DEF ScheduledKept, ExecutorTypeOK, Answer
  <2> QED
    BY <1>2, <2>1, <2>2, RankValues DEF AtMost, Status
<1>5. ASSUME NEW i \in Job, SetStatus(i) \/ Describe(i), jobs'[j] # jobs[j]
      PROVE  atServer'[j] # Absent /\ AtMost(jobs'[j], atServer'[j])
  <2>1. running.op = "sync" /\ jobs'[j] = running.infos[j]
    BY <1>1, <1>5 DEF SetStatus, Describe, StatusOf, ExecutorTypeOK, Answer
  <2> QED
    BY <1>2, <2>1 DEF AnswerHeld
<1> QED
  BY <1>3, <1>4, <1>5 DEF ExecutorNext, Schedule, ServerSchedules, ScheduleThrows, ListReturns,
     ListJobs, DescribeThrows, OtherSchedules, ServerAdvances

(* An answer stays at or behind the server while it is used.               *)
LEMMA AnswerHeldStep ==
  ASSUME ExecutorIInv, ExecutorNext
  PROVE  AnswerHeld'
<1> USE DEF ExecutorIInv
<1> SUFFICES ASSUME running'.op \in {"sync", "listed"}, NEW j \in Job, running'.infos[j] # Absent
             PROVE  atServer'[j] # Absent /\ AtMost(running'.infos[j], atServer'[j])
  BY DEF AnswerHeld
<1>1. ExecutorTypeOK /\ ExecutorTypeOK'
  BY ExecutorTypeStep
<1>2. CASE \E b \in BOOLEAN : ListJobs(b)
  <2>1. running'.infos = atServer /\ atServer' = atServer
    BY <1>2 DEF ListJobs
  <2> QED
    BY <2>1 DEF AtMost
<1>3. CASE running.op \in {"sync", "listed"} /\ running'.infos = running.infos
  <2>1. running.infos \in Answer
    BY <1>1, <1>3, AnswerFields DEF ExecutorTypeOK
  <2>2. atServer[j] # Absent /\ AtMost(running.infos[j], atServer[j])
    BY <1>3 DEF AnswerHeld
  <2> QED
    BY <1>1, <1>3, <2>1, <2>2, RemoteOnlyMovesUp, AtMostTransitive DEF ExecutorTypeOK, Answer
<1>4. ASSUME NEW i \in Job, SetStatus(i) \/ Describe(i)
      PROVE  running.op \in {"sync", "listed"} /\ running'.infos = running.infos
  BY <1>1, <1>4, TodoFields DEF SetStatus, Describe, ExecutorTypeOK
<1>5. ASSUME ListReturns
      PROVE  running.op \in {"sync", "listed"} /\ running'.infos = running.infos
  BY <1>5 DEF ListReturns
<1>6. ASSUME NEW i \in Job, DescribeThrows(i) \/ ServerSchedules(i)
      PROVE  FALSE
  BY <1>6 DEF DescribeThrows, ServerSchedules, ExecutorIdle
<1>7. ASSUME Schedule \/ ScheduleReturns \/ ScheduleThrows
      PROVE  FALSE
  BY <1>7 DEF Schedule, ScheduleReturns, ScheduleThrows, ExecutorIdle
<1>8. ASSUME NEW i \in Job, OtherSchedules(i) \/ ServerAdvances(i)
      PROVE  running.op \in {"sync", "listed"} /\ running'.infos = running.infos
  BY <1>8 DEF OtherSchedules, ServerAdvances
<1> QED
  BY <1>2, <1>3, <1>4, <1>5, <1>6, <1>7, <1>8 DEF ExecutorNext

(* While an answer is applied, jobs_ holds nothing the answer lacks or is  *)
(* behind; what has left todo is as the answer says.                       *)
LEMMA SyncKeptStep ==
  ASSUME ExecutorIInv, ExecutorNext
  PROVE  SyncKept'
<1> USE DEF ExecutorIInv
<1> SUFFICES ASSUME running'.op = "sync" PROVE SyncKept'
  BY DEF SyncKept
<1>1. ExecutorTypeOK /\ ExecutorTypeOK'
  BY ExecutorTypeStep
<1>2. ASSUME NEW b \in BOOLEAN, ListJobs(b) PROVE SyncKept'
  <2>1. /\ running'.infos = atServer /\ running'.known = CacheJobs
        /\ running'.todo = {j \in Job : atServer[j] # Absent}
        /\ jobs' = jobs /\ lost' = lost /\ CacheJobs' = CacheJobs
    BY <1>2 DEF ListJobs, CacheJobs
  <2>2. \A j \in CacheJobs : atServer[j] # Absent /\ AtMost(jobs[j], atServer[j])
    BY DEF NeverAhead, AtMost
  <2>3. \A j \in Job : atServer[j] = Absent => jobs[j] = atServer[j]
    BY <2>2 DEF CacheJobs
  <2> QED
    BY <2>1, <2>2, <2>3 DEF SyncKept, LostKept, CacheJobs
<1>3. ASSUME NEW j \in Job, SetStatus(j) \/ Describe(j) PROVE SyncKept'
  <2>1. /\ running.op = "sync" /\ j \in running.todo /\ lost' = lost
        /\ running'.infos = running.infos /\ running'.known = running.known
        /\ running'.todo = running.todo \ {j}
    BY <1>1, <1>3, TodoFields DEF SetStatus, Describe, ExecutorTypeOK
  <2>2. running.infos[j] # Absent /\ jobs' = [jobs EXCEPT ![j] = running.infos[j]]
    BY <1>1, <1>3, <2>1 DEF SetStatus, Describe, StatusOf, SyncKept, ExecutorTypeOK, Answer
  <2>3. /\ jobs'[j] = running.infos[j]
        /\ \A i \in Job : i # j => jobs'[i] = jobs[i]
    BY <1>1, <2>2 DEF ExecutorTypeOK, Answer
  <2>4. running.known \subseteq Job /\ running.todo \subseteq Job
    BY <1>1, <2>1, SyncFields DEF ExecutorTypeOK
  <2>5. \A i \in CacheJobs' : running.infos[i] # Absent /\ AtMost(jobs'[i], running.infos[i])
    BY <2>1, <2>2, <2>3 DEF SyncKept, CacheJobs, AtMost
  <2>6. \A i \in running'.todo :
          running.infos[i] # Absent /\ (i \notin running.known => jobs'[i] = Absent)
    BY <2>1, <2>3, <2>4 DEF SyncKept
  <2>7. \A i \in running.known : jobs'[i] # Absent
    BY <2>1, <2>2, <2>3, <2>4 DEF SyncKept
  <2>8. \A i \in Job \ running'.todo : jobs'[i] = running.infos[i]
    BY <2>1, <2>3 DEF SyncKept
  <2>9. \A i \in lost' : running.infos[i] # Absent
    BY <2>1 DEF SyncKept
  <2> QED
    BY <2>1, <2>5, <2>6, <2>7, <2>8, <2>9 DEF SyncKept
<1>4. ASSUME NEW j \in Job, OtherSchedules(j) \/ ServerAdvances(j) PROVE SyncKept'
  <2>1. UNCHANGED <<jobs, running, lost>>
    BY <1>4 DEF OtherSchedules, ServerAdvances
  <2> QED
    BY <2>1 DEF SyncKept, CacheJobs
<1>5. ASSUME NEW i \in Job, DescribeThrows(i) \/ ServerSchedules(i)
      PROVE  FALSE
  BY <1>5 DEF DescribeThrows, ServerSchedules, ExecutorIdle
<1>6. ASSUME Schedule \/ ScheduleReturns \/ ScheduleThrows \/ ListReturns
      PROVE  FALSE
  BY <1>6 DEF Schedule, ScheduleReturns, ScheduleThrows, ListReturns, ExecutorIdle
<1> QED
  BY <1>2, <1>3, <1>4, <1>5, <1>6 DEF ExecutorNext

(* What schedule() has put at the server stays there.                      *)
LEMMA LostKeptStep ==
  ASSUME ExecutorIInv, ExecutorNext
  PROVE  ScheduledKept' /\ LostKept'
<1> USE DEF ExecutorIInv
<1>1. ExecutorTypeOK /\ ExecutorTypeOK'
  BY ExecutorTypeStep
<1>2. ScheduledKept'
  <2> SUFFICES ASSUME running'.op = "scheduled" PROVE atServer'[running'.job] # Absent
    BY DEF ScheduledKept
  <2>1. running'.job \in Job
    BY <1>1 DEF ExecutorTypeOK, ExecutorCall, ExecutorIdle
  <2>2. CASE running' = running
    BY <1>1, <2>1, <2>2, RemoteOnlyMovesUp DEF ScheduledKept, ExecutorTypeOK
  <2>3. ASSUME NEW j \in Job, ServerSchedules(j) PROVE atServer'[running'.job] # Absent
    BY <1>1, <2>3, ExecutorAssumption DEF ServerSchedules, ExecutorTypeOK, Answer, Status
  <2>4. ASSUME NEW j \in Job, SetStatus(j) \/ Describe(j) PROVE FALSE
    BY <1>1, <2>4, TodoFields DEF SetStatus, Describe, ExecutorTypeOK
  <2>5. ASSUME NEW j \in Job, DescribeThrows(j) PROVE FALSE
    BY <2>5 DEF DescribeThrows, ExecutorIdle
  <2>6. ASSUME NEW b \in BOOLEAN, ListJobs(b) PROVE FALSE
    BY <2>6 DEF ListJobs
  <2>7. ASSUME Schedule \/ ScheduleReturns \/ ScheduleThrows \/ ListReturns PROVE FALSE
    BY <2>7 DEF Schedule, ScheduleReturns, ScheduleThrows, ListReturns, ExecutorIdle
  <2> QED
    BY <2>2, <2>3, <2>4, <2>5, <2>6, <2>7 DEF ExecutorNext, OtherSchedules, ServerAdvances
<1>3. \A j \in lost' : atServer[j] # Absent
  <2>1. CASE ScheduleThrows
    BY <2>1 DEF ScheduleThrows, LostKept, ScheduledKept
  <2>2. CASE UNCHANGED lost
    BY <2>2 DEF LostKept
  <2> QED
    BY <2>1, <2>2 DEF ExecutorNext, Schedule, ServerSchedules, ScheduleReturns, ListReturns,
       ListJobs, SetStatus, Describe, DescribeThrows, OtherSchedules, ServerAdvances
<1> QED
  BY <1>1, <1>2, <1>3, RemoteOnlyMovesUp DEF LostKept, ExecutorTypeOK

(* list_jobs returns when todo is empty, so jobs_ is then the answer.      *)
LEMMA ListingStep ==
  ASSUME ExecutorIInv, ExecutorNext
  PROVE  ListingIsAnswer' /\ LostJobsSurface'
<1> USE DEF ExecutorIInv
<1> SUFFICES ASSUME running'.op = "listed" PROVE ListingIsAnswer' /\ LostJobsSurface'
  BY DEF ListingIsAnswer, LostJobsSurface
<1>1. ExecutorTypeOK /\ ExecutorTypeOK'
  BY ExecutorTypeStep
<1>2. CASE ListReturns
  <2>1. /\ running.op = "sync" /\ running.infos \in Answer /\ running.pendingOnly \in BOOLEAN
        /\ \A j \in Job : jobs[j] = running.infos[j]
        /\ \A j \in lost : j \in Job /\ running.infos[j] # Absent
    BY <1>1, <1>2, AnswerFields DEF ListReturns, SyncKept, ExecutorTypeOK
  <2>2. /\ running'.infos = running.infos /\ running'.pendingOnly = running.pendingOnly
        /\ running'.output = {j \in Listed : running.pendingOnly => Pending(j)}
        /\ jobs' = jobs /\ lost' = lost
    BY <1>2 DEF ListReturns
  <2>3. ASSUME NEW j \in Job, running.infos[j] # Absent
        PROVE  Pending(j) <=> Rank(running.infos[j]) < 2
    <3>1. running.infos[j] \in Status /\ jobs[j] = running.infos[j]
      BY <2>1, <2>3 DEF Answer
    <3>2. \A s \in Status : s \notin {"completed", "failed"} <=> Rank(s) < 2
      BY RankValues
    <3> QED
      BY <3>1, <3>2 DEF Pending
  <2> QED
    BY <2>1, <2>2, <2>3 DEF ListingIsAnswer, LostJobsSurface, Listed, CacheJobs
<1>3. ASSUME NEW j \in Job, OtherSchedules(j) \/ ServerAdvances(j)
      PROVE  ListingIsAnswer' /\ LostJobsSurface'
  <2>1. UNCHANGED <<jobs, running, lost>>
    BY <1>3 DEF OtherSchedules, ServerAdvances
  <2> QED
    BY <2>1 DEF ListingIsAnswer, LostJobsSurface
<1>4. ASSUME NEW j \in Job, SetStatus(j) \/ Describe(j) PROVE FALSE
  BY <1>1, <1>4, TodoFields DEF SetStatus, Describe, ExecutorTypeOK
<1>5. ASSUME NEW j \in Job, DescribeThrows(j) \/ ServerSchedules(j) PROVE FALSE
  BY <1>5 DEF DescribeThrows, ServerSchedules, ExecutorIdle
<1>6. ASSUME NEW b \in BOOLEAN, ListJobs(b) PROVE FALSE
  BY <1>6 DEF ListJobs
<1>7. ASSUME Schedule \/ ScheduleReturns \/ ScheduleThrows PROVE FALSE
  BY <1>7 DEF Schedule, ScheduleReturns, ScheduleThrows, ExecutorIdle
<1> QED
  BY <1>2, <1>3, <1>4, <1>5, <1>6, <1>7 DEF ExecutorNext

LEMMA ExecutorStutters ==
  ASSUME ExecutorIInv, UNCHANGED executorVars
  PROVE  ExecutorIInv'
BY DEF ExecutorIInv, executorVars, ExecutorTypeOK, NeverAhead, AnswerHeld, SyncKept,
   ScheduledKept, LostKept, ListingIsAnswer, LostJobsSurface, CacheJobs

(* The inductive invariant.                                                *)
LEMMA ExecutorInvariance == ExecutorSpec => []ExecutorIInv
<1>1. ExecutorIInv /\ [ExecutorNext]_executorVars => ExecutorIInv'
  BY ExecutorTypeStep, NeverAheadStep, AnswerHeldStep, SyncKeptStep, LostKeptStep, ListingStep,
     ExecutorStutters DEF ExecutorIInv
<1> QED
  BY ExecutorInitHolds, <1>1, PTL DEF ExecutorSpec

--------------------------------------------------------------------------------

(* Every variable keeps its type, for any set of jobs.                     *)
THEOREM ExecutorTypeCorrect == ExecutorSpec => []ExecutorTypeOK
<1>1. ExecutorIInv => ExecutorTypeOK
  BY DEF ExecutorIInv
<1> QED
  BY ExecutorInvariance, <1>1, PTL

(* jobs_ is never ahead of the server, however calls, failures and the     *)
(* server's own steps interleave.                                          *)
THEOREM JobsNeverAhead == ExecutorSpec => []NeverAhead
<1>1. ExecutorIInv => NeverAhead
  BY DEF ExecutorIInv
<1> QED
  BY ExecutorInvariance, <1>1, PTL

(* A listing that returns is the server's answer, and holds the jobs whose *)
(* schedule() threw.                                                       *)
THEOREM ListingsAreAnswers == ExecutorSpec => []ListingIsComplete
<1>1. ExecutorIInv => ListingIsComplete
  BY DEF ExecutorIInv, ListingIsComplete
<1> QED
  BY ExecutorInvariance, <1>1, PTL

(* No status in jobs_ goes back: SetStatus writes the answer's, which is   *)
(* at or past what jobs_ held when the answer came.                        *)
THEOREM StatusesNeverGoBack == ExecutorSpec => NeverBack
<1> DEFINE Forward == \A j \in CacheJobs :
             /\ jobs'[j] # Absent
             /\ jobs'[j] = jobs[j] \/ Rank(jobs[j]) < Rank(jobs'[j])
<1>1. ExecutorIInv /\ ExecutorNext => Forward
  <2> SUFFICES ASSUME ExecutorIInv, ExecutorNext, NEW j \in CacheJobs
               PROVE  jobs'[j] # Absent /\ (jobs'[j] = jobs[j] \/ Rank(jobs[j]) < Rank(jobs'[j]))
    OBVIOUS
  <2>1. ExecutorTypeOK /\ j \in Job /\ jobs[j] # Absent
    BY DEF ExecutorIInv, CacheJobs
  <2>2. CASE jobs'[j] = jobs[j]
    BY <2>1, <2>2
  <2>3. ASSUME NEW i \in Job, SetStatus(i) \/ Describe(i), jobs'[j] # jobs[j]
        PROVE  jobs'[j] # Absent /\ Rank(jobs[j]) < Rank(jobs'[j])
    <3>1. running.op = "sync" /\ jobs'[j] = running.infos[j]
      BY <2>1, <2>3 DEF SetStatus, Describe, StatusOf, ExecutorTypeOK, Answer
    <3> QED
      BY <2>3, <3>1 DEF ExecutorIInv, SyncKept, AtMost
  <2>4. CASE ScheduleReturns
    BY <2>1, <2>4 DEF ScheduleReturns, ExecutorTypeOK, Answer
  <2> QED
    BY <2>2, <2>3, <2>4 DEF ExecutorNext, Schedule, ServerSchedules, ScheduleThrows, ListReturns,
       ListJobs, DescribeThrows, OtherSchedules, ServerAdvances
<1>2. ExecutorIInv /\ [ExecutorNext]_executorVars => [Forward]_executorVars
  BY <1>1
<1> QED
  BY ExecutorInvariance, <1>2, PTL DEF ExecutorSpec, NeverBack
================================================================================
