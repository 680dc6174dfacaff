---------------------------- MODULE SessionLifecycle ---------------------------
(***************************************************************************)
(* Session and Context: who owns what, what an upload in the pool borrows  *)
(* from its session, and the order in which it all goes.  A session owns   *)
(* its keyring and its cryptos and shares the Context; the Context owns    *)
(* the backend, and the backend the pool, which is WorkQueue.  The program *)
(* that calls the API has one thread, the pool has its own.                *)
(***************************************************************************)
EXTENDS WorkQueue

CONSTANTS
  Session,     \* the sessions the program may create
  Careful,     \* those it keeps until the futures of their uploads are ready
  Keyset,      \* the keysets it may add
  Schema,      \* their schema types
  SchemaOf,    \* the schema of each keyset
  User,        \* the program's own handle on the Context
  None         \* "nothing"

Upload == [session : Session, kind : {"key", "frame"}, keyset : Keyset]

ASSUME SessionAssumption ==
  /\ Careful \subseteq Session
  /\ SchemaOf \in [Keyset -> Schema]
  /\ User \notin Session
  /\ None \notin Keyset \union Upload
  /\ MaxRunning \in Nat \ {0}

VARIABLES
  phase,        \* where each Session object is
  autoDestroy,  \* auto_destroy_
  remote,       \* each session at the server
  holders,      \* the owners of context_, which is a shared_ptr
  backend,      \* the Context with the backend and its pool: "built", then
                \* "up" with a connection, and "gone"
  keyring,      \* keyring_ of each session
  cryptos,      \* cryptos_: the keyset each cached crypto was made of
  upload,       \* what each task of the pool uploads
  serverKey     \* the cloud key the server has of each session and schema

sessionVars == <<phase, autoDestroy, remote, holders, backend>>
keyVars == <<keyring, cryptos, upload, serverKey>>
vars == <<queueVars, sessionVars, keyVars>>

NoKeys == [k \in Schema |-> None]

TypeOK ==
  /\ QueueTypeOK
  /\ phase \in [Session -> {"none", "live", "keyless", "gone"}]
  /\ autoDestroy \in [Session -> BOOLEAN]
  /\ remote \in [Session -> {"none", "live", "destroyed"}]
  /\ holders \subseteq Session \union {User}
  /\ \A s \in Session : s \in holders => phase[s] \in {"live", "keyless"}
  /\ backend \in {"built", "up", "gone"}
  /\ backend = "built" => holders \subseteq {User} /\ \A t \in Task : upload[t] = None
  /\ keyring \in [Session -> [Schema -> Keyset \union {None}]]
  /\ cryptos \in [Session -> [Schema -> Keyset \union {None}]]
  /\ upload \in [Task -> Upload \union {None}]
  /\ serverKey \in [Session -> [Schema -> Keyset \union {None}]]

Init ==
  /\ QueueInit
  /\ phase = [s \in Session |-> "none"]
  /\ autoDestroy = [s \in Session |-> FALSE]
  /\ remote = [s \in Session |-> "none"]
  /\ holders = {User}
  /\ backend = "built"
  /\ keyring = [s \in Session |-> NoKeys]
  /\ cryptos = [s \in Session |-> NoKeys]
  /\ upload = [t \in Task |-> None]
  /\ serverKey = [s \in Session |-> NoKeys]

Of(s) == {t \in Task : upload[t] # None /\ upload[t].session = s}

(***************************************************************************)
(* ContextBuilder::build_and_connect, Context::create_session,             *)
(* Session::destroy                                                        *)
(***************************************************************************)

(* The program's handle is the builder until the connection is authorized  *)
(* and the Context handed over.  When that fails the call throws, and the  *)
(* builder keeps the Context for another try: no action.                   *)
Connect ==
  /\ ~halted /\ User \in holders /\ backend = "built"
  /\ backend' = "up"
  /\ UNCHANGED <<queueVars, keyVars, phase, autoDestroy, remote, holders>>

(* Every RPC carries the token of the connection. *)
Connected == backend = "up"

ServerCreates(s) == remote[s] = "none" /\ remote' = [remote EXCEPT ![s] = "live"]

(* When the answer is lost the server has a session the program does not.  *)
CreateSession(s, auto) ==
  /\ ~halted /\ User \in holders /\ Connected /\ phase[s] = "none"
  /\ ServerCreates(s)
  /\ \/ /\ phase' = [phase EXCEPT ![s] = "live"]
        /\ autoDestroy' = [autoDestroy EXCEPT ![s] = auto]
        /\ holders' = holders \union {s}
     \/ UNCHANGED <<phase, autoDestroy, holders>>
  /\ UNCHANGED <<queueVars, keyVars, backend>>

(* Mutant: the keys go with the session at the server. *)
DestroyAndForget(s) ==
  /\ ~halted /\ phase[s] = "live"
  /\ cryptos' = [cryptos EXCEPT ![s] = NoKeys]
  /\ remote' = [remote EXCEPT ![s] = "destroyed"]
  /\ UNCHANGED <<queueVars, phase, autoDestroy, holders, backend,
                 keyring, upload, serverKey>>

(* destroyed_ is set and never read.  When the RPC fails the call throws,  *)
(* whether the server destroyed the session or not.                        *)
Destroy(s) ==
  /\ ~halted /\ phase[s] = "live"
  /\ remote' \in {remote, [remote EXCEPT ![s] = "destroyed"]}
  /\ UNCHANGED <<queueVars, keyVars, phase, autoDestroy, holders, backend>>

(***************************************************************************)
(* Session::add_key, Session::crypto, uploads                              *)
(***************************************************************************)

(* Mutant: insert_or_assign, the later keyset of a schema wins. *)
ReplaceKeyset(s, k) == [keyring EXCEPT ![s][SchemaOf[k]] = k]

(* insert(): the first keyset of a schema stays, a later one is dropped.   *)
AddKeyset(s, k) ==
  [keyring EXCEPT ![s][SchemaOf[k]] = IF @ = None THEN k ELSE @]

(* Mutant: the cloud key is asked for before the keyset is added. *)
KeptBefore(s, k) == keyring[s][SchemaOf[k]]

(* The cloud key uploaded is the one the keyring has kept.                 *)
Kept(s, k) == AddKeyset(s, k)[s][SchemaOf[k]]

(* Mutant: the pool runs what came last first. *)
EnqueueFirst(t, s, kind, k) ==
  /\ ~halted /\ open /\ t \notin Known
  /\ pending' = <<t>> \o pending
  /\ UNCHANGED <<running, finished, open, halted>>
  /\ upload' = [upload EXCEPT ![t] = [session |-> s, kind |-> kind, keyset |-> k]]

Enqueue(t, s, kind, k) ==
  /\ Submit(t)
  /\ upload' = [upload EXCEPT ![t] = [session |-> s, kind |-> kind, keyset |-> k]]

AddKey(s, k, t) ==
  /\ phase[s] = "live"
  /\ keyring' = AddKeyset(s, k)
  /\ Enqueue(t, s, "key", Kept(s, k))
  /\ UNCHANGED <<sessionVars, cryptos, serverKey>>

(* crypto(): made of the keyring's keyset once, and cached.  Without a key *)
(* it throws and changes nothing: no action.                               *)
WithCrypto(s, c) ==
  [cryptos EXCEPT ![s][c] = IF @ = None THEN keyring[s][c] ELSE @]

(* import_from_csv takes a reference to the crypto into the task.          *)
ImportFrame(s, c, t) ==
  /\ phase[s] = "live" /\ keyring[s][c] # None
  /\ cryptos' = WithCrypto(s, c)
  /\ Enqueue(t, s, "frame", WithCrypto(s, c)[s][c])
  /\ UNCHANGED <<sessionVars, keyring, serverKey>>

(* The same when the frame's stream cannot be opened, or crypto() alone.   *)
UseCrypto(s, c) ==
  /\ ~halted /\ phase[s] = "live" /\ keyring[s][c] # None
  /\ cryptos' = WithCrypto(s, c)
  /\ UNCHANGED <<queueVars, sessionVars, keyring, upload, serverKey>>

(***************************************************************************)
(* ~Session, ~Context                                                      *)
(***************************************************************************)

(* What the examples do: the session outlives the futures.  A program that *)
(* does not is the sessions outside Careful.                               *)
MayDrop(s) == s \in Careful => Of(s) \subseteq finished

(* destroy() when asked to, then the members from the last to the first:   *)
(* cryptos_ and keyring_ go before context_.                               *)
DropSession(s) ==
  /\ ~halted /\ phase[s] = "live" /\ MayDrop(s)
  /\ remote' = IF autoDestroy[s] THEN [remote EXCEPT ![s] = "destroyed"] ELSE remote
  /\ phase' = [phase EXCEPT ![s] = "keyless"]
  /\ cryptos' = [cryptos EXCEPT ![s] = NoKeys]
  /\ keyring' = [keyring EXCEPT ![s] = NoKeys]
  /\ UNCHANGED <<queueVars, autoDestroy, holders, backend, upload, serverKey>>

(* That destroy() throws, because the connection is lost or because the    *)
(* program destroyed the session before: a destructor is noexcept.         *)
DropTerminates(s) ==
  /\ phase[s] = "live" /\ MayDrop(s) /\ autoDestroy[s]
  /\ Halt
  /\ UNCHANGED <<sessionVars, keyVars>>

(* Mutant: the program's handle is the one that counts. *)
UserReleases(h) == h = User

LastHolder(h) == holders = {h}

(* context_ is released, or the program's handle: the last one runs        *)
(* ~ThreadPool, which closes the pool.                                     *)
Release(h) ==
  /\ ~halted /\ h \in holders
  /\ h # User => phase[h] = "keyless"
  /\ holders' = holders \ {h}
  /\ phase' = IF h \in Session /\ ~LastHolder(h) THEN [phase EXCEPT ![h] = "gone"] ELSE phase
  /\ IF LastHolder(h) THEN Close ELSE UNCHANGED queueVars
  /\ UNCHANGED <<keyVars, autoDestroy, remote, backend>>

Drained == pending = <<>> /\ running = {}

(* ~ThreadPool has drained and joined (ThreadPool proves that it does);    *)
(* the backend and the Context are gone, and the session that was last.    *)
BackendEnds ==
  /\ ~halted /\ ~open /\ backend # "gone" /\ Drained
  /\ backend' = "gone"
  /\ phase' = [s \in Session |-> IF phase[s] = "keyless" THEN "gone" ELSE phase[s]]
  /\ UNCHANGED <<queueVars, keyVars, autoDestroy, remote, holders>>

(***************************************************************************)
(* The pool's threads                                                      *)
(***************************************************************************)

Begin == Start /\ UNCHANGED <<sessionVars, keyVars>>

(* The server takes a key for a session it has, unless the stream broke.   *)
UploadKey(t) ==
  /\ t \in running /\ upload[t].kind = "key"
  /\ Finish(t)
  /\ LET u == upload[t] IN
       \/ /\ remote[u.session] = "live"
          /\ serverKey' = [serverKey EXCEPT ![u.session][SchemaOf[u.keyset]] = u.keyset]
       \/ UNCHANGED serverKey
  /\ UNCHANGED <<sessionVars, keyring, cryptos, upload>>

(* A frame's rows are encrypted with the borrowed crypto; a task that has  *)
(* none left to encrypt does not touch it.                                 *)
UploadFrame(t) ==
  /\ t \in running /\ upload[t].kind = "frame"
  /\ Finish(t)
  /\ UNCHANGED <<sessionVars, keyVars>>

(* The crypto is gone when a row is encrypted: anything may happen; what   *)
(* follows is left out.                                                    *)
UploadDangles(t) ==
  /\ t \in running /\ upload[t].kind = "frame"
  /\ phase[upload[t].session] # "live"
  /\ Halt
  /\ UNCHANGED <<sessionVars, keyVars>>

--------------------------------------------------------------------------------

Step(t) == UploadKey(t) \/ UploadFrame(t) \/ UploadDangles(t)

Over == (halted \/ backend = "gone") /\ UNCHANGED vars

Next ==
  \/ \E s \in Session :
       \/ \E b \in BOOLEAN : CreateSession(s, b)
       \/ Destroy(s) \/ DropSession(s) \/ DropTerminates(s)
       \/ \E k \in Keyset, t \in Task : AddKey(s, k, t)
       \/ \E c \in Schema : UseCrypto(s, c) \/ \E t \in Task : ImportFrame(s, c, t)
  \/ Connect
  \/ \E h \in Session \union {User} : Release(h)
  \/ BackendEnds \/ Begin
  \/ \E t \in Task : Step(t)
  \/ Over

Spec == Init /\ [][Next]_vars

--------------------------------------------------------------------------------

(* What encrypts the frames and the cloud key the server computes with are *)
(* of one keyset, whatever keysets of a schema are added, before or after  *)
(* the crypto was cached, and in whatever order the pool ends the uploads. *)
CryptoMatchesServer ==
  \A s \in Session, c \in Schema :
    cryptos[s][c] # None /\ serverKey[s][c] # None => cryptos[s][c] = serverKey[s][c]

(* The crypto a queued or running frame upload borrows exists and is the   *)
(* one it was given, as long as its session is dropped only after the      *)
(* future is ready: no other call replaces or frees it.                    *)
BorrowedCryptoLives ==
  ~halted =>
    \A t \in Task :
      /\ t \in Range(pending) \union running
      /\ upload[t].kind = "frame"
      /\ upload[t].session \in Careful
      => cryptos[upload[t].session][SchemaOf[upload[t].keyset]] = upload[t].keyset

(* The pool accepts work and the backend exists while any session or the   *)
(* program can reach them, whichever handle goes first; when they are gone *)
(* every upload that was queued has ended.                                 *)
PoolOutlivesUsers ==
  /\ User \in holders \/ (\E s \in Session : phase[s] = "live") => open /\ backend # "gone"
  /\ backend = "gone" => /\ \A s \in Session : phase[s] \in {"none", "gone"}
                         /\ \A t \in Task : upload[t] # None => t \in finished

(* The upload of a frame never begins before that of the key it is         *)
(* encrypted with: keyring, cached crypto and queue agree on the key and   *)
(* on the order, whichever keysets were dropped and whatever was cached.   *)
Begun == running \union finished

KeyGoesFirst ==
  \A t \in Begun : upload[t].kind = "frame" =>
    \E k \in Begun : upload[k] = [upload[t] EXCEPT !.kind = "key"]
================================================================================
