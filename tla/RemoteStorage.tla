----------------------------- MODULE RemoteStorage -----------------------------
(***************************************************************************)
(* DataStorageImpl of the remote backend: data_frames_, a map from names   *)
(* to frames, kept beside the frames the server stores for the session.    *)
(* One thread calls it.  The server, and other clients of the session,     *)
(* move between a call's request and the use of its answer.                *)
(***************************************************************************)
EXTENDS Naturals, Sequences, FiniteSets, Functions

CONSTANTS
  Frame,      \* the UUIDs the server may give to frames
  Nil,        \* the UUID made of an empty answer, which no frame has, or
              \* None when making it throws
  Name,       \* names of frames
  AutoNames,  \* the automatic names, frame_0 first: a bound, the code's go on
  Namesakes,  \* whether the server stores two frames under one name
  None        \* "nothing"

ASSUME StorageAssumption ==
  /\ None \notin Frame \union Name
  /\ Nil \notin Frame
  /\ AutoNames \in Seq(Name)
  /\ IsInjective(AutoNames)
  /\ Namesakes \in BOOLEAN

VARIABLES
  called,    \* the name each frame was created with, or None
  remote,    \* the frames the server lists
  cache,     \* data_frames_
  dead,      \* the names whose frame in the map has alive_ = false
  call,      \* the call the program is in
  auto       \* history: what imports under an automatic name returned

vars == <<called, remote, cache, dead, call, auto>>

Idle == [op |-> "idle"]

Call ==
  {Idle}
    \union [op : {"import"}, name : Name, auto : BOOLEAN]
    \union [op : {"created"}, name : Name, auto : BOOLEAN, frame : Frame]
    \union [op : {"sync"}, answer : SUBSET Frame]

Bound == {n \in Name : cache[n] # None}
Cached == Range(cache) \ {None}

TypeOK ==
  /\ called \in [Frame -> Name \union {None}]
  /\ remote \subseteq {f \in Frame : called[f] # None}
  /\ cache \in [Name -> Frame \union {Nil, None}]
  /\ \A n \in Name : cache[n] \in Frame => called[cache[n]] = n
  /\ dead \subseteq Bound
  /\ call \in Call
  /\ call.op = "created" => called[call.frame] = call.name
  /\ call.op = "sync" => \A f \in call.answer : called[f] # None
  /\ auto \subseteq Name \X ((Frame \union {Nil}) \ {None})

Init ==
  /\ called = [f \in Frame |-> None]
  /\ remote = {}
  /\ cache = [n \in Name |-> None]
  /\ dead = {}
  /\ call = Idle
  /\ auto = {}

(***************************************************************************)
(* import_from_csv                                                         *)
(***************************************************************************)

(* Mutant: the automatic name counts the cached frames. *)
CountedName ==
  LET n == Cardinality(Bound) + 1
  IN  AutoNames[IF n < Len(AutoNames) THEN n ELSE Len(AutoNames)]

(* The first automatic name the cache has no entry for.  Nothing is        *)
(* synchronised first.                                                     *)
FreeName ==
  AutoNames[CHOOSE i \in 1..Len(AutoNames) :
         cache[AutoNames[i]] = None /\ \A j \in 1..i-1 : cache[AutoNames[j]] # None]

Import ==
  /\ call = Idle
  /\ \/ \E n \in Name : call' = [op |-> "import", name |-> n, auto |-> FALSE]
     \/ /\ ~(Range(AutoNames) \subseteq Bound)
        /\ call' = [op |-> "import", name |-> FreeName, auto |-> TRUE]
  /\ UNCHANGED <<called, remote, cache, dead, auto>>

(* Whether the server takes a new frame f with the name n. *)
Accepts(f, n) ==
  /\ called[f] = None
  /\ Namesakes \/ \A g \in remote : called[g] # n

(* add_data_frame's first message reaches the server. *)
ServerCreates(f) ==
  /\ call.op = "import" /\ Accepts(f, call.name)
  /\ called' = [called EXCEPT ![f] = call.name]
  /\ remote' = remote \union {f}
  /\ call' = [op |-> "created", name |-> call.name, auto |-> call.auto, frame |-> f]
  /\ UNCHANGED <<cache, dead, auto>>

(* data_frames_.try_emplace: a name that is taken keeps its frame, and the *)
(* new one is only in the future that import_from_csv returns.             *)
TryEmplace(n, f) == IF cache[n] = None THEN [cache EXCEPT ![n] = f] ELSE cache

Imported(f) ==
  /\ cache' = TryEmplace(call.name, f)
  /\ auto' = IF call.auto THEN auto \union {<<call.name, f>>} ELSE auto
  /\ call' = Idle
  /\ UNCHANGED <<called, remote, dead>>

ImportReturns == call.op = "created" /\ Imported(call.frame)

(* The answer is lost, whether the server created the frame or not, and    *)
(* the status of the stream is not looked at.  The UUID made of an empty   *)
(* string is herd-common's: it throws, or goes into the map as it is.  The *)
(* call also throws when there is no key of the schema.                    *)
ImportUnanswered ==
  /\ call.op \in {"import", "created"}
  /\ \/ Nil # None /\ Imported(Nil)
     \/ call' = Idle /\ UNCHANGED <<called, remote, cache, dead, auto>>

(***************************************************************************)
(* data_frames and data_frame_by_name: sync_cache()                        *)
(***************************************************************************)

(* What list_data_frames answers is the server's set at one instant.  A    *)
(* call whose RPC fails throws and changes nothing: no action.             *)
ListFrames ==
  /\ call = Idle
  /\ call' = [op |-> "sync", answer |-> remote]
  /\ UNCHANGED <<called, remote, cache, dead, auto>>

(* Mutant: the frames missing from the set of the new ones are marked. *)
MissingFromNew(answer) == {n \in Bound : cache[n] \notin answer \ Cached}

(* The entries whose frame the answer lacks. *)
Missing(answer) == {n \in Bound : cache[n] \notin answer}

(* Mutant: the frames both sets hold are added, not the new ones. *)
KnownFrames(answer) == answer \intersect Cached

NewFrames(answer) == answer \ Cached

(* Mutants: the frame's name is not looked at; insert_or_assign. *)
AnyNew(n, new) == IF cache[n] = None /\ new # {} THEN new ELSE {cache[n]}

MayReplace(n, new) ==
  LET found == {f \in new : called[f] = n}
  IN  IF found # {} THEN found ELSE {cache[n]}

(* What name n may be bound to afterwards: a new frame gets its name when  *)
(* it is free, and of two with one name the first in the answer wins.      *)
MayHold(n, new) ==
  LET found == {f \in new : called[f] = n}
  IN  IF cache[n] = None /\ found # {} THEN found ELSE {cache[n]}

(* Both sets are computed before either loop; no entry is ever removed and *)
(* nothing sets alive_ again.                                              *)
SyncCache ==
  /\ call.op = "sync"
  /\ dead' = dead \union Missing(call.answer)
  /\ cache' \in [Name -> Frame \union {Nil, None}]
  /\ \A n \in Name : cache'[n] \in MayHold(n, NewFrames(call.answer))
  /\ call' = Idle
  /\ UNCHANGED <<called, remote, auto>>

(***************************************************************************)
(* The server and the session's other clients                              *)
(***************************************************************************)

OtherCreates(f, n) ==
  /\ Accepts(f, n)
  /\ called' = [called EXCEPT ![f] = n]
  /\ remote' = remote \union {f}
  /\ UNCHANGED <<cache, dead, call, auto>>

ServerDrops(f) ==
  /\ f \in remote
  /\ remote' = remote \ {f}
  /\ UNCHANGED <<called, cache, dead, call, auto>>

--------------------------------------------------------------------------------

Next ==
  \/ Import \/ ImportReturns \/ ImportUnanswered
  \/ ListFrames \/ SyncCache
  \/ \E f \in Frame :
       \/ ServerCreates(f) \/ ServerDrops(f)
       \/ \E n \in Name : OtherCreates(f, n)

Spec == Init /\ [][Next]_vars

--------------------------------------------------------------------------------

Synced == call.op = "sync" /\ call' = Idle

(* A frame shown as not alive is gone: sync_cache() acts on an answer that *)
(* is old by then, beside frames imported since, and never marks a frame   *)
(* the server still has.                                                   *)
DeadMeansGone == \A n \in dead : cache[n] \notin remote

(* Once sync_cache() is over, alive() of every frame in the map says       *)
(* whether the answer had it, dead entries included, and the name of every *)
(* frame in the answer is bound (to it or to another).                     *)
SyncShowsAnswer ==
  [][Synced =>
       /\ \A n \in Name :
            cache'[n] # None => (n \in dead' <=> cache'[n] \notin call.answer)
       /\ \A f \in call.answer : cache'[called[f]] # None]_vars

(* A frame imported without a name stays reachable by the name it was      *)
(* given, whatever imports, synchronisations and other clients do.         *)
AutoNamedStays == \A p \in auto : cache[p[1]] = p[2]

(* A name that was bound is never bound to another frame: who looks a      *)
(* frame up by name twice gets the same one, however often the cache was   *)
(* synchronised with a server that dropped it and has a namesake.          *)
BindingsAreFinal ==
  [][\A n \in Name : cache[n] # None => cache'[n] = cache[n]]_vars

(* What the upload example says of data_frames(): it synchronises with the *)
(* remote state and gives the available frames.                            *)
ListsRemoteFrames == [][Synced => call.answer \subseteq Range(cache')]_vars
================================================================================
