---------------------------- MODULE ThreadPoolProofs ---------------------------
(***************************************************************************)
(* Theorems about ThreadPool, for every set of tasks and clients, every    *)
(* MaxThreads, and whether or not a thread may fail to start.              *)
(***************************************************************************)
EXTENDS ThreadPool, SequenceTheorems, FiniteSetTheorems, TLAPS

--------------------------------------------------------------------------------
(* Facts about the sequences the model builds.                             *)

(* housekeeping() keeps a prefix of the vector. *)
LEMMA PrefixProperties ==
  ASSUME NEW S, NEW s \in Seq(S), NEW k \in 0..Len(s)
  PROVE  /\ SubSeq(s, 1, k) \in Seq(S)
         /\ Len(SubSeq(s, 1, k)) = k
         /\ \A i \in 1..k : SubSeq(s, 1, k)[i] = s[i]
<1>1. Len(s) \in Nat /\ \A i \in 1..Len(s) : s[i] \in S
  BY LenProperties, ElementOfSeq
<1>2. k \in Int /\ 1 \in Int /\ \A i \in 1..k : s[i] \in S
  BY <1>1
<1>3. QED
  BY <1>1, <1>2, SubSeqProperties

(* Taking the head of a queue and appending it elsewhere keeps the whole.  *)
LEMMA MoveHead ==
  ASSUME NEW S, NEW s \in Seq(S), NEW q \in Seq(S), q # <<>>
  PROVE  Append(s, Head(q)) \o Tail(q) = s \o q
<1>1. Head(q) \in S /\ Tail(q) \in Seq(S) /\ <<Head(q)>> \in Seq(S)
  BY HeadTailProperties
<1>2. <<Head(q)>> \o Tail(q) = q
  BY <1>1, HeadTailProperties, ConcatProperties, LenProperties, SeqEqual
<1>3. Append(s, Head(q)) = s \o <<Head(q)>>
  BY <1>1, AppendIsConcat
<1>4. QED
  BY <1>1, <1>2, <1>3, ConcatAssociative

LEMMA AppendToConcat ==
  ASSUME NEW S, NEW s \in Seq(S), NEW q \in Seq(S), NEW t \in S
  PROVE  s \o Append(q, t) = Append(s \o q, t)
<1>1. <<t>> \in Seq(S) /\ s \o q \in Seq(S)
  BY ConcatProperties
<1>2. QED
  BY <1>1, AppendIsConcat, ConcatAssociative

LEMMA RangeAppend ==
  ASSUME NEW S, NEW s \in Seq(S), NEW t \in S
  PROVE  Range(Append(s, t)) = Range(s) \union {t}
<1>1. <<t>> \in Seq(S) /\ Range(<<t>>) = {t}
  BY DEF Range
<1>2. Append(s, t) = s \o <<t>>
  BY AppendIsConcat
<1>3. Range(s \o <<t>>) = Range(s) \union Range(<<t>>)
  BY <1>1, RangeConcatenation
<1>4. QED
  BY <1>1, <1>2, <1>3

(* What housekeeping() and a spawn leave in the vector.                    *)
LEMMA GrownVector ==
  ASSUME NEW S, NEW s \in Seq(S), NEW k \in 0..Len(s), NEW t \in S
  PROVE  LET r == Append(SubSeq(s, 1, k), t)
         IN  /\ r \in Seq(S)
             /\ Len(r) = k + 1
             /\ r[k + 1] = t
             /\ \A i \in 1..k : r[i] = s[i]
<1>1. SubSeq(s, 1, k) \in Seq(S) /\ Len(SubSeq(s, 1, k)) = k
  BY PrefixProperties
<1>2. QED
  BY <1>1, PrefixProperties, AppendProperties

--------------------------------------------------------------------------------
(* Where the workers are: one that exists was created by an accepted call, *)
(* and stays in the vector until it can be joined.                         *)

WorkersAccepted == \A w \in Thread : worker[w] # "none" => w \in Range(accepted)

WorkersKept ==
  \A w \in Thread :
    \/ worker[w] \in {"none", "exited"}
    \/ \E i \in 1..Len(threads) : threads[i] = w

(* The variables keep their types and the vector its bound.                *)
LEMMA TypeStep == TypeOK /\ WorkersAccepted /\ [Next]_vars => TypeOK'
<1> SUFFICES ASSUME TypeOK, WorkersAccepted, [Next]_vars PROVE TypeOK'
  OBVIOUS
<1> USE PoolAssumption DEF TypeOK, Thread, WorkerState
<1>1. ASSUME NEW c \in Client, NEW t \in Task, ExecuteSpawn(c, t)
      PROVE  TypeOK'
  <2>1. PICK k \in 0..Len(threads) :
          MustSpawn(k) /\ threads' = Append(SubSeq(threads, 1, k), t)
    BY <1>1 DEF ExecuteSpawn
  <2>2. threads' \in Seq(Thread) /\ Len(threads') = k + 1 /\ k \in Nat
    BY <2>1, GrownVector, LenProperties
  <2>3. k < MaxThreads
    BY <2>1 DEF MustSpawn
  <2>4. queue' \in Seq(Task) /\ accepted' \in Seq(Task)
    BY <1>1, AppendProperties DEF ExecuteSpawn, Push
  <2>5. worker' \in [Thread -> WorkerState]
    BY <1>1 DEF ExecuteSpawn
  <2>6. \A w \in Thread : worker'[w] = "running" <=> fun'[w] # None
    BY <1>1 DEF ExecuteSpawn, CanExecute, IsNext, WorkersAccepted
  <2>7. QED
    BY <1>1, <2>2, <2>3, <2>4, <2>5, <2>6 DEF ExecuteSpawn
<1>2. ASSUME NEW c \in Client, NEW t \in Task, ExecuteEnqueue(c, t)
      PROVE  TypeOK'
  <2>1. PICK k \in 0..Len(threads) : threads' = SubSeq(threads, 1, k)
    BY <1>2 DEF ExecuteEnqueue
  <2>2. threads' \in Seq(Thread) /\ Len(threads') <= Len(threads)
    BY <2>1, PrefixProperties, LenProperties
  <2>3. Len(threads) \in Nat /\ Len(threads') \in Nat
    BY <2>2, LenProperties
  <2>4. queue' \in Seq(Task) /\ accepted' \in Seq(Task)
    BY <1>2, AppendProperties DEF ExecuteEnqueue, Push
  <2>5. QED
    BY <1>2, <2>2, <2>3, <2>4 DEF ExecuteEnqueue, WillNotify
<1>3. ASSUME NEW c \in Client, NEW t \in Task, ExecuteFaults(c, t)
      PROVE  TypeOK'
  BY <1>3 DEF ExecuteFaults, history
<1>4. ASSUME NEW c \in Client, NotifyOne(c)
      PROVE  TypeOK'
  BY <1>4 DEF NotifyOne, Waiting, history
<1>5. ASSUME NEW w \in Thread, Wait(w) \/ SpuriousWakeup(w) \/ Timeout(w)
                                \/ End(w) \/ Exit(w)
      PROVE  TypeOK'
  BY <1>5 DEF Wait, SpuriousWakeup, Timeout, End, Exit, Move, history
<1>6. ASSUME NEW w \in Thread, Take(w)
      PROVE  TypeOK'
  <2>1. Head(queue) \in Task /\ queue' \in Seq(Task)
    BY <1>6, HeadTailProperties DEF Take
  <2>2. started' \in Seq(Task)
    BY <1>6, <2>1, AppendProperties DEF Take
  <2>3. QED
    BY <1>6, <2>1, <2>2 DEF Take
<1>7. ASSUME NEW w \in Thread, Complete(w)
      PROVE  TypeOK'
  BY <1>7 DEF Complete
<1>8. ASSUME DtorClose \/ DtorNotifyAll \/ DtorEnd \/ DtorJoinThrows
      PROVE  TypeOK'
  BY <1>8 DEF DtorClose, DtorNotifyAll, WokenByAll, DtorEnd, DtorJoinThrows, history
<1>9. CASE UNCHANGED vars
  BY <1>9 DEF vars, history
<1>10. QED
  BY <1>1, <1>2, <1>3, <1>4, <1>5, <1>6, <1>7, <1>8, <1>9
     DEF Next, Execute, WorkerStep, DtorStep, Stopped

LEMMA WorkersAcceptedStep ==
  TypeOK /\ WorkersAccepted /\ [Next]_vars => WorkersAccepted'
<1> SUFFICES ASSUME TypeOK, WorkersAccepted, [Next]_vars PROVE WorkersAccepted'
  OBVIOUS
<1> USE DEF WorkersAccepted
<1>1. ASSUME NEW c \in Client, NEW t \in Task, ExecuteSpawn(c, t)
      PROVE  WorkersAccepted'
  <2>1. Range(accepted') = Range(accepted) \union {t}
    BY <1>1, RangeAppend DEF ExecuteSpawn, Push, TypeOK
  <2>2. \A w \in Thread : w # t => worker'[w] = worker[w]
    BY <1>1 DEF ExecuteSpawn, TypeOK
  <2>3. QED
    BY <2>1, <2>2
<1>2. ASSUME NEW c \in Client, NEW t \in Task, ExecuteEnqueue(c, t)
      PROVE  WorkersAccepted'
  <2>1. Range(accepted') = Range(accepted) \union {t}
    BY <1>2, RangeAppend DEF ExecuteEnqueue, Push, TypeOK
  <2>2. QED
    BY <1>2, <2>1 DEF ExecuteEnqueue
<1>3. ASSUME \/ \E c \in Client, t \in Task : ExecuteFaults(c, t)
             \/ DtorClose \/ DtorEnd \/ DtorJoinThrows
             \/ UNCHANGED vars
      PROVE  WorkersAccepted'
  BY <1>3 DEF ExecuteFaults, DtorClose, DtorEnd, DtorJoinThrows, vars, history
<1>4. ASSUME NEW c \in Client, NotifyOne(c)
      PROVE  WorkersAccepted'
  BY <1>4 DEF NotifyOne, Waiting, TypeOK, history
<1>5. ASSUME NEW w \in Thread, \/ Wait(w) \/ SpuriousWakeup(w) \/ Timeout(w)
                               \/ End(w) \/ Exit(w) \/ Take(w) \/ Complete(w)
      PROVE  WorkersAccepted'
  <2>1. UNCHANGED accepted /\ worker[w] # "none"
    BY <1>5 DEF Wait, SpuriousWakeup, Timeout, End, Exit, Move, Take, Checking,
                Complete, history
  <2>2. \A v \in Thread : v # w => worker'[v] = worker[v]
    BY <1>5 DEF Wait, SpuriousWakeup, Timeout, End, Exit, Move, Take, Complete, TypeOK
  <2>3. QED
    BY <2>1, <2>2
<1>6. ASSUME DtorNotifyAll
      PROVE  WorkersAccepted'
  BY <1>6 DEF DtorNotifyAll, WokenByAll, history
<1>7. QED
  BY <1>1, <1>2, <1>3, <1>4, <1>5, <1>6
     DEF Next, Execute, WorkerStep, DtorStep, Stopped

(* Type correctness of the pool. *)
THEOREM TypeCorrect == Spec => [](TypeOK /\ WorkersAccepted)
<1>1. Init => TypeOK /\ WorkersAccepted
  BY PoolAssumption, EmptySeq
     DEF Init, TypeOK, WorkersAccepted, Thread, WorkerState
<1>2. TypeOK /\ WorkersAccepted /\ [Next]_vars => (TypeOK /\ WorkersAccepted)'
  BY TypeStep, WorkersAcceptedStep
<1>3. QED
  BY <1>1, <1>2, PTL DEF Spec

--------------------------------------------------------------------------------
(* First in, first out, nothing lost. *)

(* For every number of threads and clients, tasks start in the order in    *)
(* which execute() accepted them and none is lost or started twice.        *)
THEOREM FirstInFirstOut == Spec => []TasksInOrder
<1>1. Init => TasksInOrder
  <2>1. <<>> \in Seq(Task) /\ <<>> \o <<>> = <<>>
    BY EmptySeq, ConcatEmptySeq
  <2>2. QED
    BY <2>1 DEF Init, TasksInOrder
<1>2. TypeOK /\ TasksInOrder /\ [Next]_vars => TasksInOrder'
  <2> SUFFICES ASSUME TypeOK, TasksInOrder, [Next]_vars PROVE TasksInOrder'
    OBVIOUS
  <2> USE DEF TasksInOrder
  <2>1. ASSUME NEW t \in Task, Push(t), UNCHANGED started
        PROVE  TasksInOrder'
    <3>1. queue \in Seq(Task) /\ started \in Seq(Task)
      BY DEF TypeOK
    <3>2. started \o Append(queue, t) = Append(started \o queue, t)
      BY <3>1, AppendToConcat
    <3>3. QED
      BY <2>1, <3>2 DEF Push
  <2>2. ASSUME NEW w \in Thread, Take(w)
        PROVE  TasksInOrder'
    <3>1. queue \in Seq(Task) /\ started \in Seq(Task) /\ queue # <<>>
      BY <2>2 DEF TypeOK, Take
    <3>2. Append(started, Head(queue)) \o Tail(queue) = started \o queue
      BY <3>1, MoveHead
    <3>3. QED
      BY <2>2, <3>2 DEF Take
  <2>3. CASE UNCHANGED <<queue, accepted, started>>
    BY <2>3
  <2>4. \/ UNCHANGED <<queue, accepted, started>>
        \/ \E w \in Thread : Take(w)
        \/ \E t \in Task : Push(t) /\ UNCHANGED started
    BY DEF Next, Execute, WorkerStep, DtorStep, Stopped, ExecuteSpawn,
           ExecuteEnqueue, ExecuteFaults, NotifyOne, Wait, SpuriousWakeup, Timeout,
           End, Exit, Move, Complete, DtorClose, DtorNotifyAll, DtorEnd,
           DtorJoinThrows, vars, history
  <2>5. QED
    BY <2>1, <2>2, <2>3, <2>4
<1>3. QED
  BY <1>1, <1>2, TypeCorrect, PTL DEF Spec

--------------------------------------------------------------------------------
(* No queued task without a thread. *)

KeptInv == TypeOK /\ WorkersKept /\ QueuedTaskHasThread

LEMMA WorkersKeptStep == TypeOK /\ WorkersKept /\ [Next]_vars => WorkersKept'
<1> SUFFICES ASSUME TypeOK, WorkersKept, [Next]_vars PROVE WorkersKept'
  OBVIOUS
<1> USE DEF WorkersKept
<1>1. ASSUME NEW c \in Client, NEW t \in Task, ExecuteSpawn(c, t)
      PROVE  WorkersKept'
  <2>1. PICK k \in 0..Len(threads) :
          HousekeepingKeeps(k) /\ threads' = Append(SubSeq(threads, 1, k), t)
    BY <1>1 DEF ExecuteSpawn
  <2>2. /\ k \in Nat /\ Len(threads) \in Nat /\ Len(threads') = k + 1
        /\ threads'[k + 1] = t
        /\ \A i \in 1..k : threads'[i] = threads[i]
    BY <2>1, GrownVector, LenProperties DEF TypeOK, Thread
  <2>3. ASSUME NEW w \in Thread, w # t, worker[w] \notin {"none", "exited"}
        PROVE  \E i \in 1..Len(threads') : threads'[i] = w
    <3>1. PICK i \in 1..Len(threads) : threads[i] = w
      BY <2>3
    <3>2. i \in 1..k
      BY <2>1, <2>2, <2>3, <3>1 DEF HousekeepingKeeps
    <3>3. QED
      BY <2>2, <3>1, <3>2
  <2>4. \A w \in Thread : w # t => worker'[w] = worker[w]
    BY <1>1 DEF ExecuteSpawn, TypeOK
  <2>5. \E i \in 1..Len(threads') : threads'[i] = t
    BY <2>2
  <2>6. QED
    BY <2>3, <2>4, <2>5
<1>2. ASSUME NEW c \in Client, NEW t \in Task, ExecuteEnqueue(c, t)
      PROVE  WorkersKept'
  <2>1. PICK k \in 0..Len(threads) :
          HousekeepingKeeps(k) /\ threads' = SubSeq(threads, 1, k)
    BY <1>2 DEF ExecuteEnqueue
  <2>2. /\ k \in Nat /\ Len(threads) \in Nat /\ Len(threads') = k
        /\ \A i \in 1..k : threads'[i] = threads[i]
    BY <2>1, PrefixProperties, LenProperties DEF TypeOK
  <2>3. ASSUME NEW w \in Thread, worker[w] \notin {"none", "exited"}
        PROVE  \E i \in 1..Len(threads') : threads'[i] = w
    <3>1. PICK i \in 1..Len(threads) : threads[i] = w
      BY <2>3
    <3>2. i \in 1..k
      BY <2>1, <2>2, <2>3, <3>1 DEF HousekeepingKeeps
    <3>3. QED
      BY <2>2, <3>1, <3>2
  <2>4. QED
    BY <1>2, <2>3 DEF ExecuteEnqueue
<1>3. ASSUME \/ \E c \in Client, t \in Task : ExecuteFaults(c, t)
             \/ DtorClose \/ DtorEnd \/ DtorJoinThrows
             \/ UNCHANGED vars
      PROVE  WorkersKept'
  BY <1>3 DEF ExecuteFaults, DtorClose, DtorEnd, DtorJoinThrows, vars, history
<1>4. ASSUME NEW c \in Client, NotifyOne(c)
      PROVE  WorkersKept'
  BY <1>4 DEF NotifyOne, Waiting, TypeOK, history
<1>5. ASSUME NEW w \in Thread, \/ Wait(w) \/ SpuriousWakeup(w) \/ Timeout(w)
                               \/ End(w) \/ Exit(w) \/ Take(w) \/ Complete(w)
      PROVE  WorkersKept'
  <2>1. UNCHANGED threads /\ worker[w] \notin {"none", "exited"}
    BY <1>5 DEF Wait, SpuriousWakeup, Timeout, End, Exit, Move, Take, Checking,
                Complete, history
  <2>2. \A v \in Thread : v # w => worker'[v] = worker[v]
    BY <1>5 DEF Wait, SpuriousWakeup, Timeout, End, Exit, Move, Take, Complete, TypeOK
  <2>3. QED
    BY <2>1, <2>2
<1>6. ASSUME DtorNotifyAll
      PROVE  WorkersKept'
  BY <1>6 DEF DtorNotifyAll, WokenByAll, history
<1>7. QED
  BY <1>1, <1>2, <1>3, <1>4, <1>5, <1>6
     DEF Next, Execute, WorkerStep, DtorStep, Stopped

LEMMA QueuedStep ==
  TypeOK /\ QueuedTaskHasThread /\ [Next]_vars => QueuedTaskHasThread'
<1> SUFFICES ASSUME TypeOK, QueuedTaskHasThread, [Next]_vars
             PROVE  QueuedTaskHasThread'
  OBVIOUS
<1> USE DEF QueuedTaskHasThread, Ended
<1>0. \A i \in 1..Len(threads) : threads[i] \in Thread
  BY ElementOfSeq DEF TypeOK
<1>1. ASSUME NEW c \in Client, NEW t \in Task, ExecuteSpawn(c, t)
      PROVE  QueuedTaskHasThread'
  <2>1. PICK k \in 0..Len(threads) :
          HousekeepingKeeps(k) /\ threads' = Append(SubSeq(threads, 1, k), t)
    BY <1>1 DEF ExecuteSpawn
  <2>2. /\ k \in Nat /\ Len(threads) \in Nat /\ Len(threads') = k + 1
        /\ threads'[k + 1] = t
        /\ \A i \in 1..k : threads'[i] = threads[i]
    BY <2>1, GrownVector, LenProperties DEF TypeOK, Thread
  <2>3. threads' # <<>>
    BY <2>2, EmptySeq
  <2>4. \A w \in Thread :
          worker'[w] \in {"exiting", "exited"} => w # t /\ worker'[w] = worker[w]
    BY <1>1 DEF ExecuteSpawn, TypeOK, Thread
  <2>5. \A i \in 1..k : ~Ended(threads[i])
    BY <2>1 DEF HousekeepingKeeps
  <2>6. ASSUME NEW i \in 1..Len(threads')
        PROVE  worker'[threads'[i]] \notin {"exiting", "exited"}
    <3>1. CASE i = k + 1
      BY <2>2, <2>4, <3>1 DEF Thread
    <3>2. CASE i \in 1..k
      <4>1. threads[i] \in Thread
        BY <1>0, <2>2, <3>2
      <4>2. QED
        BY <2>2, <2>4, <2>5, <3>2, <4>1
    <3>3. QED
      BY <2>2, <3>1, <3>2
  <2>7. QED
    BY <2>3, <2>6
<1>2. ASSUME NEW c \in Client, NEW t \in Task, ExecuteEnqueue(c, t)
      PROVE  QueuedTaskHasThread'
  <2>1. PICK k \in 0..Len(threads) :
          /\ HousekeepingKeeps(k) /\ ~MustSpawn(k)
          /\ threads' = SubSeq(threads, 1, k)
    BY <1>2 DEF ExecuteEnqueue
  <2>2. /\ k \in Nat /\ Len(threads) \in Nat /\ Len(threads') = k
        /\ \A i \in 1..k : threads'[i] = threads[i]
    BY <2>1, PrefixProperties, LenProperties DEF TypeOK
  <2>3. k # 0
    BY <2>1, <2>2, PoolAssumption, LenProperties DEF MustSpawn, TypeOK
  <2>4. threads' # <<>>
    BY <2>2, <2>3, EmptySeq
  <2>5. UNCHANGED worker
    BY <1>2 DEF ExecuteEnqueue
  <2>6. \A i \in 1..Len(threads') :
          worker'[threads'[i]] \notin {"exiting", "exited"}
    BY <2>1, <2>2, <2>5 DEF HousekeepingKeeps
  <2>7. QED
    BY <2>4, <2>6
<1>3. ASSUME \/ \E c \in Client, t \in Task : ExecuteFaults(c, t)
             \/ DtorClose \/ DtorEnd \/ DtorJoinThrows
             \/ UNCHANGED vars
      PROVE  QueuedTaskHasThread'
  BY <1>3 DEF ExecuteFaults, DtorClose, DtorEnd, DtorJoinThrows, vars, history
<1>4. ASSUME UNCHANGED <<queue, threads>>,
             \A w \in Thread : worker'[w] \in {"exiting", "exited"}
                               => Ended(w) \/ queue = <<>>
      PROVE  QueuedTaskHasThread'
  BY <1>0, <1>4
<1>5. ASSUME NEW c \in Client, NotifyOne(c)
      PROVE  QueuedTaskHasThread'
  BY <1>4, <1>5 DEF NotifyOne, Waiting, TypeOK, history
<1>6. ASSUME NEW w \in Thread, \/ Wait(w) \/ SpuriousWakeup(w) \/ Timeout(w)
                               \/ End(w) \/ Exit(w) \/ Complete(w)
      PROVE  QueuedTaskHasThread'
  BY <1>4, <1>6 DEF Wait, SpuriousWakeup, Timeout, End, FindsNothing, Exit, Move,
                    Complete, TypeOK, history
<1>7. ASSUME NEW w \in Thread, Take(w)
      PROVE  QueuedTaskHasThread'
  <2>1. queue # <<>> /\ UNCHANGED threads
    BY <1>7 DEF Take
  <2>2. \A v \in Thread : worker'[v] \in {"exiting", "exited"} => Ended(v)
    BY <1>7 DEF Take, TypeOK
  <2>3. QED
    BY <1>0, <2>1, <2>2
<1>8. ASSUME DtorNotifyAll
      PROVE  QueuedTaskHasThread'
  BY <1>4, <1>8 DEF DtorNotifyAll, WokenByAll, history
<1>9. QED
  BY <1>1, <1>2, <1>3, <1>5, <1>6, <1>7, <1>8
     DEF Next, Execute, WorkerStep, DtorStep, Stopped

(* The two conjuncts are inductive together with the types.                *)
LEMMA KeptInvariant == Spec => []KeptInv
<1>1. Init => WorkersKept /\ QueuedTaskHasThread
  BY DEF Init, WorkersKept, QueuedTaskHasThread
<1>2. TypeOK /\ WorkersKept /\ QueuedTaskHasThread /\ [Next]_vars
        => (WorkersKept /\ QueuedTaskHasThread)'
  BY WorkersKeptStep, QueuedStep
<1>3. QED
  BY <1>1, <1>2, TypeCorrect, PTL DEF Spec, KeptInv

(* While a task is queued, the vector holds threads and none has ended.    *)
THEOREM QueuedTasksAreServed == Spec => []QueuedTaskHasThread
BY KeptInvariant, PTL DEF KeptInv

--------------------------------------------------------------------------------
(* No lost wake-up, and a bounded backlog. *)

(* Tasks are never left queued with every thread asleep and nobody about   *)
(* to notify: a push and the wait it must end are ordered by the mutex.    *)
THEOREM NoWakeupIsLost == Spec => []NoLostWakeup
<1>1. Init => NoLostWakeup
  BY DEF Init, NoLostWakeup
<1>2. /\ TypeOK /\ WorkersAccepted /\ WorkersKept /\ NoLostWakeup
      /\ [Next]_vars
      => NoLostWakeup'
  <2> SUFFICES ASSUME TypeOK, WorkersAccepted, WorkersKept, NoLostWakeup, [Next]_vars
               PROVE  NoLostWakeup'
    OBVIOUS
  <2> USE DEF NoLostWakeup, Live
  <2>1. ASSUME NEW c \in Client, NEW t \in Task, ExecuteSpawn(c, t)
        PROVE  NoLostWakeup'
    <3>1. PICK k \in 0..Len(threads) : HousekeepingKeeps(k) /\ MustSpawn(k)
      BY <2>1 DEF ExecuteSpawn
    <3>2. /\ UNCHANGED notifying
          /\ worker'[t] \in {"awake", "unstarted"}
          /\ \A w \in Thread : w # t => worker'[w] = worker[w]
      BY <2>1 DEF ExecuteSpawn, TypeOK, Thread
    <3>3. CASE worker'[t] = "awake"
      BY <3>3 DEF Thread
    <3>4. CASE worker'[t] = "unstarted" /\ queue # <<>>
      <4>1. worker[t] = "none"
        BY <2>1 DEF ExecuteSpawn, CanExecute, IsNext, WorkersAccepted, Thread
      <4>2. \A w \in Thread : Live(w) => w # t
        BY <4>1
      <4>3. QED
        BY <3>2, <3>4, <4>2
    <3>5. CASE worker'[t] = "unstarted" /\ queue = <<>>
      <4>1. k = 0
        BY <3>1, <3>5, EmptySeq, LenProperties DEF MustSpawn, TypeOK
      <4>2. \A i \in 1..Len(threads) : worker[threads[i]] = "exited"
        BY <3>1, <4>1, LenProperties DEF HousekeepingKeeps, TypeOK
      <4>3. \A w \in Thread : ~Live(w)
        BY <4>2 DEF WorkersKept
      <4>4. \A w \in Thread : ~Live(w)'
        BY <3>2, <3>5, <4>3
      <4>5. QED
        BY <4>4
    <3>6. QED
      BY <3>2, <3>3, <3>4, <3>5
  <2>2. ASSUME NEW c \in Client, NEW t \in Task, ExecuteEnqueue(c, t)
        PROVE  NoLostWakeup'
    BY <2>2 DEF ExecuteEnqueue, WillNotify
  <2>3. ASSUME \/ \E c \in Client, t \in Task : ExecuteFaults(c, t)
               \/ DtorClose \/ DtorEnd \/ DtorJoinThrows
               \/ UNCHANGED vars
        PROVE  NoLostWakeup'
    BY <2>3 DEF ExecuteFaults, DtorClose, DtorEnd, DtorJoinThrows, vars, history
  <2>4. ASSUME NEW c \in Client, NotifyOne(c)
        PROVE  NoLostWakeup'
    BY <2>4 DEF NotifyOne, Waiting, TypeOK, history
  <2>5. ASSUME NEW w \in Thread, Wait(w) \/ SpuriousWakeup(w) \/ Timeout(w)
                                 \/ End(w) \/ Exit(w)
        PROVE  NoLostWakeup'
    BY <2>5 DEF Wait, HasWork, SpuriousWakeup, Timeout, End, FindsNothing, Exit,
                Move, TypeOK, history
  <2>6. ASSUME NEW w \in Thread, Take(w) \/ Complete(w)
        PROVE  NoLostWakeup'
    BY <2>6 DEF Take, Complete, TypeOK
  <2>7. ASSUME DtorNotifyAll
        PROVE  NoLostWakeup'
    BY <2>7 DEF DtorNotifyAll, WokenByAll, TypeOK, history
  <2>8. QED
    BY <2>1, <2>2, <2>3, <2>4, <2>5, <2>6, <2>7
       DEF Next, Execute, WorkerStep, DtorStep, Stopped
<1>3. QED
  BY <1>1, <1>2, TypeCorrect, KeptInvariant, PTL DEF Spec, KeptInv

(* execute()'s growth rule bounds the backlog while the pool can grow.     *)
THEOREM BacklogIsBounded == Spec => []BacklogBound
<1>1. Init => BacklogBound
  BY EmptySeq DEF Init, BacklogBound
<1>2. KeptInv /\ BacklogBound /\ [Next]_vars => BacklogBound'
  <2> SUFFICES ASSUME KeptInv, BacklogBound, [Next]_vars PROVE BacklogBound'
    OBVIOUS
  <2> USE DEF BacklogBound
  <2>0. /\ queue \in Seq(Task) /\ threads \in Seq(Thread)
        /\ Len(queue) \in Nat /\ Len(threads) \in Nat /\ MaxThreads \in Nat
    BY LenProperties, PoolAssumption DEF KeptInv, TypeOK
  <2>1. ASSUME NEW k \in 0..Len(threads), HousekeepingKeeps(k), queue # <<>>
        PROVE  k = Len(threads)
    BY <2>0, <2>1 DEF HousekeepingKeeps, KeptInv, QueuedTaskHasThread, Ended
  <2>2. queue = <<>> => Len(queue) = 0
    BY EmptySeq
  <2>3. ASSUME NEW c \in Client, NEW t \in Task, ExecuteSpawn(c, t)
        PROVE  BacklogBound'
    <3>1. PICK k \in 0..Len(threads) :
            /\ HousekeepingKeeps(k) /\ MustSpawn(k)
            /\ threads' = Append(SubSeq(threads, 1, k), t)
      BY <2>3 DEF ExecuteSpawn
    <3>2. Len(threads') = k + 1
      BY <2>0, <3>1, GrownVector DEF Thread
    <3>3. Len(queue') = Len(queue) + 1
      BY <2>0, <2>3, AppendProperties DEF ExecuteSpawn, Push
    <3>4. QED
      BY <2>0, <2>1, <2>2, <3>1, <3>2, <3>3 DEF MustSpawn
  <2>4. ASSUME NEW c \in Client, NEW t \in Task, ExecuteEnqueue(c, t)
        PROVE  BacklogBound'
    <3>1. PICK k \in 0..Len(threads) :
            ~MustSpawn(k) /\ threads' = SubSeq(threads, 1, k)
      BY <2>4 DEF ExecuteEnqueue
    <3>2. Len(threads') = k
      BY <2>0, <3>1, PrefixProperties
    <3>3. Len(queue') = Len(queue) + 1
      BY <2>0, <2>4, AppendProperties DEF ExecuteEnqueue, Push
    <3>4. QED
      BY <2>0, <3>1, <3>2, <3>3 DEF MustSpawn
  <2>5. ASSUME NEW w \in Thread, Take(w)
        PROVE  BacklogBound'
    BY <2>0, <2>5, HeadTailProperties DEF Take
  <2>6. CASE UNCHANGED <<queue, threads>>
    BY <2>6
  <2>7. \/ UNCHANGED <<queue, threads>>
        \/ \E w \in Thread : Take(w)
        \/ \E c \in Client, t \in Task : ExecuteSpawn(c, t) \/ ExecuteEnqueue(c, t)
    BY DEF Next, Execute, WorkerStep, DtorStep, Stopped, ExecuteFaults, NotifyOne,
           Wait, SpuriousWakeup, Timeout, End, Exit, Move, Complete, DtorClose,
           DtorNotifyAll, DtorEnd, DtorJoinThrows, vars, history
  <2>8. QED
    BY <2>3, <2>4, <2>5, <2>6, <2>7
<1>3. QED
  BY <1>1, <1>2, KeptInvariant, PTL DEF Spec

(* From the moment closed_ is set, no step changes the vector that the     *)
(* destructor walks without the mutex, nor adds a task.                    *)
THEOREM ClosedPoolIsFinal == Spec => ClosedIsFinal
<1>1. [Next]_vars => [Closed => UNCHANGED <<threads, accepted>>]_vars
  BY DEF Next, Execute, WorkerStep, DtorStep, Stopped, CanExecute, IsNext, ExecuteSpawn,
         ExecuteEnqueue, ExecuteFaults, NotifyOne, Wait, SpuriousWakeup, Timeout,
         Take, End, Exit, Move, Complete, DtorClose, DtorNotifyAll, DtorEnd,
         DtorJoinThrows, vars, history
<1>2. QED
  BY <1>1, PTL DEF Spec, ClosedIsFinal

--------------------------------------------------------------------------------
(* The destructor leaves nothing behind. *)

(* A task that was started is being run by a worker or has been run.       *)
StartedAccounted == Range(started) = done \union {fun[w] : w \in Running}

LEMMA StartedAccountedStep ==
  TypeOK /\ WorkersAccepted /\ StartedAccounted /\ [Next]_vars => StartedAccounted'
<1> SUFFICES ASSUME TypeOK, WorkersAccepted, StartedAccounted, [Next]_vars
             PROVE  StartedAccounted'
  OBVIOUS
<1> USE DEF StartedAccounted
<1>1. ASSUME UNCHANGED <<started, done, fun>>, UNCHANGED Running
      PROVE  StartedAccounted'
  BY <1>1
<1>2. ASSUME NEW c \in Client, NEW t \in Task, ExecuteSpawn(c, t)
      PROVE  StartedAccounted'
  <2>1. worker[t] = "none"
    BY <1>2 DEF ExecuteSpawn, CanExecute, IsNext, WorkersAccepted, Thread
  <2>2. UNCHANGED Running
    BY <1>2, <2>1 DEF ExecuteSpawn, Running, TypeOK, Thread
  <2>3. QED
    BY <1>1, <1>2, <2>2 DEF ExecuteSpawn
<1>3. ASSUME UNCHANGED <<started, done, fun, worker>>
      PROVE  StartedAccounted'
  BY <1>1, <1>3 DEF Running
<1>4. ASSUME NEW c \in Client, NotifyOne(c)
      PROVE  StartedAccounted'
  <2>1. UNCHANGED Running
    BY <1>4 DEF NotifyOne, Waiting, Running, TypeOK
  <2>2. QED
    BY <1>1, <1>4, <2>1 DEF NotifyOne, history
<1>5. ASSUME NEW w \in Thread, Wait(w) \/ SpuriousWakeup(w) \/ Timeout(w)
                               \/ End(w) \/ Exit(w)
      PROVE  StartedAccounted'
  <2>1. UNCHANGED Running
    BY <1>5 DEF Wait, SpuriousWakeup, Timeout, End, Exit, Move, Running, TypeOK
  <2>2. QED
    BY <1>1, <1>5, <2>1 DEF Wait, SpuriousWakeup, Timeout, End, Exit, Move, history
<1>6. ASSUME NEW w \in Thread, Take(w)
      PROVE  StartedAccounted'
  <2>1. Head(queue) \in Task
    BY <1>6, HeadTailProperties DEF Take, TypeOK
  <2>2. Range(started') = Range(started) \union {Head(queue)}
    BY <1>6, <2>1, RangeAppend DEF Take, TypeOK
  <2>3. w \notin Running /\ Running' = Running \union {w}
    BY <1>6 DEF Take, Running, Checking, TypeOK
  <2>4. fun'[w] = Head(queue) /\ \A v \in Running : fun'[v] = fun[v]
    BY <1>6, <2>3 DEF Take, TypeOK, Running
  <2>5. {fun'[v] : v \in Running'} = {fun[v] : v \in Running} \union {Head(queue)}
    BY <2>3, <2>4
  <2>6. done' = done
    BY <1>6 DEF Take
  <2>7. QED
    BY <2>2, <2>5, <2>6
<1>7. ASSUME NEW w \in Thread, Complete(w)
      PROVE  StartedAccounted'
  <2>1. w \in Running /\ Running' = Running \ {w}
    BY <1>7 DEF Complete, Running, TypeOK
  <2>2. \A v \in Running' : fun'[v] = fun[v]
    BY <1>7, <2>1 DEF Complete, TypeOK, Running
  <2>3. {fun[v] : v \in Running} = {fun'[v] : v \in Running'} \union {fun[w]}
    BY <2>1, <2>2
  <2>4. done' = done \union {fun[w]} /\ started' = started
    BY <1>7 DEF Complete
  <2>5. QED
    BY <2>3, <2>4
<1>8. ASSUME DtorNotifyAll
      PROVE  StartedAccounted'
  <2>1. UNCHANGED Running
    BY <1>8 DEF DtorNotifyAll, WokenByAll, Running
  <2>2. QED
    BY <1>1, <1>8, <2>1 DEF DtorNotifyAll, history
<1>9. QED
  BY <1>2, <1>3, <1>4, <1>5, <1>6, <1>7, <1>8
     DEF Next, Execute, WorkerStep, DtorStep, Stopped, ExecuteEnqueue, ExecuteFaults,
         DtorClose, DtorEnd, DtorJoinThrows, vars, history

LEMMA StartedAreAccounted == Spec => []StartedAccounted
<1>1. Init => StartedAccounted
  BY DEF Init, StartedAccounted, Running, Range
<1>2. QED
  BY <1>1, StartedAccountedStep, TypeCorrect, PTL DEF Spec

(* Everything the destructor waits for, before it has waited.              *)
QuietWhenGone ==
  dtor = "gone" =>
    queue = <<>> /\ \A w \in Thread : worker[w] \in {"none", "exited"}

(* Whatever raced with the destructor, when the members are destroyed the  *)
(* queue is empty, every accepted task has run and every thread is gone.   *)
THEOREM DestructorDrains == Spec => []DrainedWhenGone
<1>1. Init => QuietWhenGone
  BY DEF Init, QuietWhenGone
<1>2. KeptInv /\ QuietWhenGone /\ [Next]_vars => QuietWhenGone'
  <2> SUFFICES ASSUME KeptInv, QuietWhenGone, [Next]_vars, dtor' = "gone"
               PROVE  queue' = <<>> /\ \A w \in Thread : worker'[w] \in {"none", "exited"}
    BY DEF QuietWhenGone
  <2>1. CASE dtor = "gone"
    <3>1. UNCHANGED vars
      BY <2>1 DEF Next, Execute, WorkerStep, DtorStep, Stopped, CanExecute, IsNext,
                  ExecuteSpawn, ExecuteEnqueue, ExecuteFaults, NotifyOne, Wait,
                  SpuriousWakeup, Timeout, Take, End, Exit, Move, Complete, DtorClose,
                  DtorNotifyAll, DtorEnd, DtorJoinThrows, Up
    <3>2. QED
      BY <2>1, <3>1 DEF vars, QuietWhenGone
  <2>2. CASE dtor # "gone"
    <3>1. DtorEnd
      BY <2>2 DEF Next, Execute, WorkerStep, DtorStep, Stopped, ExecuteSpawn,
                  ExecuteEnqueue, ExecuteFaults, NotifyOne, Wait, SpuriousWakeup,
                  Timeout, Take, End, Exit, Move, Complete, DtorClose, DtorNotifyAll,
                  DtorJoinThrows, vars
    <3>2. \A i \in 1..Len(threads) : worker[threads[i]] = "exited"
      BY <3>1 DEF DtorEnd
    <3>3. \A w \in Thread : worker[w] \in {"none", "exited"}
      BY <3>2 DEF KeptInv, WorkersKept
    <3>4. queue = <<>>
      <4>1. SUFFICES ASSUME queue # <<>> PROVE FALSE
        OBVIOUS
      <4>2. threads # <<>> /\ \A i \in 1..Len(threads) : worker[threads[i]] # "exited"
        BY <4>1 DEF KeptInv, QueuedTaskHasThread, Ended
      <4>3. 1 \in 1..Len(threads)
        BY <4>2, EmptySeq DEF KeptInv, TypeOK
      <4>4. QED
        BY <3>2, <4>2, <4>3
    <3>5. QED
      BY <3>1, <3>3, <3>4 DEF DtorEnd
  <2>3. QED
    BY <2>1, <2>2
<1>3. TypeOK /\ TasksInOrder /\ StartedAccounted /\ QuietWhenGone => DrainedWhenGone
  <2> SUFFICES ASSUME TypeOK, TasksInOrder, StartedAccounted, QuietWhenGone,
                      dtor = "gone"
               PROVE  done = Range(accepted)
    BY DEF DrainedWhenGone, QuietWhenGone
  <2>1. Running = {}
    BY DEF QuietWhenGone, Running
  <2>2. done = Range(started)
    BY <2>1 DEF StartedAccounted
  <2>3. started \in Seq(Task) /\ queue = <<>>
    BY DEF TypeOK, QuietWhenGone
  <2>4. started \o <<>> = started
    BY <2>3, ConcatEmptySeq
  <2>5. QED
    BY <2>2, <2>3, <2>4 DEF TasksInOrder
<1>4. QED
  BY <1>1, <1>2, <1>3, TypeCorrect, KeptInvariant, FirstInFirstOut,
     StartedAreAccounted, PTL DEF Spec

--------------------------------------------------------------------------------
(* Two theorems that count threads: idle threads are woken, and the pool   *)
(* implements WorkQueue step by step.  (That it has WorkQueue's fairness,  *)
(* too, is left to TLC: ThreadPool!ImplementsQueue.)                       *)

(* What there is to count is finite. *)

(* A vector of n threads holds at most n of them. *)
LEMMA VectorIsFinite ==
  ASSUME NEW S, NEW s \in Seq(S)
  PROVE  IsFiniteSet(Range(s)) /\ Cardinality(Range(s)) <= Len(s)
<1>1. Len(s) \in Nat /\ DOMAIN s = 1..Len(s)
  BY LenProperties
<1>2. IsFiniteSet(1..Len(s)) /\ Cardinality(1..Len(s)) = Len(s)
  BY <1>1, FS_Interval
<1>3. s \in Surjection(1..Len(s), Range(s))
  BY <1>1 DEF Surjection, Range
<1>4. QED
  BY <1>2, <1>3, FS_Surjection

(* Every thread that has begun and has not exited is in the vector. *)
LEMMA WorkersAreFinite ==
  ASSUME TypeOK, WorkersKept, NEW W \in SUBSET Thread,
         \A w \in W : worker[w] \notin {"none", "exited"}
  PROVE  /\ IsFiniteSet(W) /\ Cardinality(W) \in Nat
         /\ W \subseteq Range(threads)
<1>1. W \subseteq Range(threads)
  BY LenProperties DEF WorkersKept, Range, TypeOK
<1>2. IsFiniteSet(Range(threads))
  BY VectorIsFinite DEF TypeOK
<1>3. QED
  BY <1>1, <1>2, FS_Subset, FS_CardinalityType

NotifyingFinite == IsFiniteSet(notifying)

LEMMA NotifyingIsFinite == Spec => []NotifyingFinite
<1>1. Init => NotifyingFinite
  BY FS_EmptySet DEF Init, NotifyingFinite
<1>2. NotifyingFinite /\ [Next]_vars => NotifyingFinite'
  <2> SUFFICES ASSUME NotifyingFinite, [Next]_vars PROVE NotifyingFinite'
    OBVIOUS
  <2>1. \/ UNCHANGED notifying
        \/ \E c \in Client : notifying' \in {notifying \union {c}, notifying \ {c}}
    BY DEF Next, Execute, WorkerStep, DtorStep, Stopped, ExecuteSpawn, ExecuteEnqueue,
           WillNotify, ExecuteFaults, NotifyOne, Wait, SpuriousWakeup, Timeout, Take,
           End, Exit, Move, Complete, DtorClose, DtorNotifyAll, DtorEnd,
           DtorJoinThrows, vars
  <2>2. QED
    BY <2>1, FS_AddElement, FS_RemoveElement DEF NotifyingFinite
<1>3. QED
  BY <1>1, <1>2, PTL DEF Spec

--------------------------------------------------------------------------------
(* Idle threads are woken. *)

(* A set that gains or loses one element. *)
LEMMA CountOneMore ==
  ASSUME NEW S, IsFiniteSet(S), NEW x, x \notin S
  PROVE  Cardinality(S \union {x}) = Cardinality(S) + 1 /\ Cardinality(S) \in Nat
BY FS_AddElement, FS_CardinalityType

LEMMA CountOneLess ==
  ASSUME NEW S, IsFiniteSet(S), NEW x \in S
  PROVE  Cardinality(S \ {x}) = Cardinality(S) - 1 /\ Cardinality(S) \in Nat
BY FS_RemoveElement, FS_CardinalityType

LEMMA IdleThreadsStep ==
  TypeOK /\ WorkersAccepted /\ WorkersKept /\ NotifyingFinite
    /\ IdleThreadsAreWoken /\ [Next]_vars => IdleThreadsAreWoken'
<1> SUFFICES ASSUME TypeOK, WorkersAccepted, WorkersKept, NotifyingFinite,
                    IdleThreadsAreWoken, [Next]_vars,
                    (\A w \in Thread : worker[w] # "unstarted")', Waiting' # {}
             PROVE  Len(queue') <= Cardinality(Checking') + Cardinality(notifying')
  BY DEF IdleThreadsAreWoken
<1>0. /\ IsFiniteSet(Checking) /\ Cardinality(Checking) \in Nat
      /\ IsFiniteSet(notifying) /\ Cardinality(notifying) \in Nat
      /\ queue \in Seq(Task) /\ Len(queue) \in Nat
  <2>1. Checking \in SUBSET Thread /\ \A w \in Checking : worker[w] \notin {"none", "exited"}
    BY DEF Checking
  <2>2. QED
    BY <2>1, WorkersAreFinite, FS_CardinalityType, LenProperties DEF NotifyingFinite, TypeOK
<1>a. ASSUME \A w \in Thread : worker[w] # "unstarted", Waiting # {}
      PROVE  Len(queue) <= Cardinality(Checking) + Cardinality(notifying)
  BY <1>a DEF IdleThreadsAreWoken
<1>1. ASSUME NEW c \in Client, NEW t \in Task, ExecuteSpawn(c, t)
      PROVE  Len(queue') <= Cardinality(Checking') + Cardinality(notifying')
  <2>1. worker[t] = "none" /\ t \in Thread
    BY <1>1 DEF ExecuteSpawn, CanExecute, IsNext, WorkersAccepted, Thread
  <2>2. worker' = [worker EXCEPT ![t] = "awake"]
    BY <1>1, <2>1 DEF ExecuteSpawn, TypeOK
  <2>3. (\A w \in Thread : worker[w] # "unstarted") /\ Waiting' = Waiting
    BY <2>1, <2>2 DEF TypeOK, Waiting
  <2>4. t \notin Checking /\ Checking' = Checking \union {t}
    BY <2>1, <2>2 DEF TypeOK, Checking
  <2>5. Len(queue') = Len(queue) + 1 /\ notifying' = notifying
    BY <1>0, <1>1, AppendProperties DEF ExecuteSpawn, Push
  <2>6. Cardinality(Checking') = Cardinality(Checking) + 1
    BY <1>0, <2>4, CountOneMore
  <2>7. QED
    BY <1>0, <1>a, <2>3, <2>5, <2>6
<1>2. ASSUME NEW c \in Client, NEW t \in Task, ExecuteEnqueue(c, t)
      PROVE  Len(queue') <= Cardinality(Checking') + Cardinality(notifying')
  <2>1. worker' = worker
    BY <1>2 DEF ExecuteEnqueue
  <2>2. (\A w \in Thread : worker[w] # "unstarted") /\ Waiting' = Waiting
        /\ Checking' = Checking
    BY <2>1 DEF Waiting, Checking
  <2>3. c \notin notifying /\ notifying' = notifying \union {c}
    BY <1>2 DEF ExecuteEnqueue, CanExecute, WillNotify
  <2>4. Cardinality(notifying') = Cardinality(notifying) + 1
    BY <1>0, <2>3, CountOneMore
  <2>5. Len(queue') = Len(queue) + 1
    BY <1>0, <1>2, AppendProperties DEF ExecuteEnqueue, Push
  <2>6. QED
    BY <1>0, <1>a, <2>2, <2>4, <2>5
<1>3. ASSUME UNCHANGED <<queue, notifying, worker>>
      PROVE  Len(queue') <= Cardinality(Checking') + Cardinality(notifying')
  BY <1>3, <1>a DEF Checking, Waiting
<1>4. ASSUME NEW w \in Thread, worker[w] \in {"waiting", "running"}, UNCHANGED queue,
             worker' \in {[worker EXCEPT ![w] = "awake"], [worker EXCEPT ![w] = "timedout"]}
      PROVE  /\ Waiting # {} /\ \A v \in Thread : worker[v] # "unstarted"
             /\ Cardinality(Checking') = Cardinality(Checking) + 1
             /\ Len(queue') = Len(queue)
  <2>1. w \notin Checking /\ Checking' = Checking \union {w}
    BY <1>4 DEF TypeOK, Checking
  <2>2. Waiting' \subseteq Waiting /\ \A v \in Thread : worker[v] # "unstarted"
    BY <1>4 DEF TypeOK, Waiting
  <2>3. Cardinality(Checking') = Cardinality(Checking) + 1
    BY <1>0, <2>1, CountOneMore
  <2>4. QED
    BY <1>4, <2>2, <2>3
<1>5. ASSUME NEW c \in Client, NotifyOne(c)
      PROVE  Len(queue') <= Cardinality(Checking') + Cardinality(notifying')
  <2>1. Waiting # {}
    BY <1>5 DEF NotifyOne, Waiting
  <2>2. PICK w \in Waiting : worker' = [worker EXCEPT ![w] = "awake"]
    BY <1>5, <2>1 DEF NotifyOne
  <2>3. w \in Thread /\ worker[w] = "waiting" /\ UNCHANGED queue
    BY <1>5, <2>2 DEF NotifyOne, Waiting
  <2>4. c \in notifying /\ notifying' = notifying \ {c}
    BY <1>5 DEF NotifyOne
  <2>5. Cardinality(notifying') = Cardinality(notifying) - 1
    BY <1>0, <2>4, CountOneLess
  <2>6. /\ \A v \in Thread : worker[v] # "unstarted"
        /\ Cardinality(Checking') = Cardinality(Checking) + 1
        /\ Len(queue') = Len(queue)
    BY <1>4, <2>2, <2>3
  <2>7. QED
    BY <1>0, <1>a, <2>1, <2>5, <2>6
<1>6. ASSUME NEW w \in Thread, SpuriousWakeup(w) \/ Timeout(w) \/ Complete(w)
      PROVE  Len(queue') <= Cardinality(Checking') + Cardinality(notifying')
  <2>1. /\ worker[w] \in {"waiting", "running"} /\ UNCHANGED <<queue, notifying>>
        /\ worker' \in {[worker EXCEPT ![w] = "awake"], [worker EXCEPT ![w] = "timedout"]}
    BY <1>6 DEF SpuriousWakeup, Timeout, Complete, Move
  <2>2. /\ Waiting # {} /\ \A v \in Thread : worker[v] # "unstarted"
        /\ Cardinality(Checking') = Cardinality(Checking) + 1
        /\ Len(queue') = Len(queue)
    BY <1>4, <2>1
  <2>3. QED
    BY <1>0, <1>a, <2>1, <2>2
<1>7. ASSUME NEW w \in Thread, Take(w)
      PROVE  Len(queue') <= Cardinality(Checking') + Cardinality(notifying')
  <2>1. w \in Checking /\ Checking' = Checking \ {w}
    BY <1>7 DEF Take, TypeOK, Checking
  <2>2. Cardinality(Checking') = Cardinality(Checking) - 1
    BY <1>0, <2>1, CountOneLess
  <2>3. Len(queue') = Len(queue) - 1 /\ notifying' = notifying
    BY <1>0, <1>7, HeadTailProperties DEF Take
  <2>4. Waiting' = Waiting /\ \A v \in Thread : worker[v] # "unstarted"
    BY <1>7 DEF Take, TypeOK, Waiting, Checking
  <2>5. QED
    BY <1>0, <1>a, <2>2, <2>3, <2>4
<1>8. ASSUME NEW w \in Thread, Wait(w) \/ End(w)
      PROVE  Len(queue') <= Cardinality(Checking') + Cardinality(notifying')
  <2>1. queue' = <<>> /\ notifying' = notifying
    BY <1>8 DEF Wait, End, Move, HasWork, FindsNothing
  <2>2. Checking' \subseteq Checking
    BY <1>8 DEF Wait, End, Move, Checking, TypeOK
  <2>3. Cardinality(Checking') \in Nat
    BY <1>0, <2>2, FS_Subset, FS_CardinalityType
  <2>4. QED
    BY <1>0, <2>1, <2>3
<1>9. ASSUME NEW w \in Thread, Exit(w)
      PROVE  Len(queue') <= Cardinality(Checking') + Cardinality(notifying')
  <2>1. Checking' = Checking /\ Waiting' = Waiting /\ UNCHANGED <<queue, notifying>>
        /\ \A v \in Thread : worker[v] # "unstarted"
    BY <1>9 DEF Exit, Move, Checking, Waiting, TypeOK
  <2>2. QED
    BY <1>a, <2>1
<1>10. ~DtorNotifyAll
  BY DEF DtorNotifyAll, WokenByAll, Waiting
<1>11. QED
  BY <1>1, <1>2, <1>3, <1>5, <1>6, <1>7, <1>8, <1>9, <1>10
     DEF Next, Execute, WorkerStep, DtorStep, Stopped, ExecuteFaults, DtorClose, DtorEnd,
         DtorJoinThrows, vars

(* As long as no thread failed to start, every queued task has a thread    *)
(* about to look or a notification of its own coming while another sleeps. *)
THEOREM IdleThreadsWake == Spec => []IdleThreadsAreWoken
<1>1. Init => IdleThreadsAreWoken
  BY DEF Init, IdleThreadsAreWoken, Waiting
<1>2. QED
  BY <1>1, IdleThreadsStep, TypeCorrect, KeptInvariant, NotifyingIsFinite, PTL
     DEF Spec, KeptInv

--------------------------------------------------------------------------------
(* The pool implements the abstract queue, step by step. *)

(* No call submits a task twice. *)
AcceptedOnce == \A i, j \in 1..Len(accepted) : accepted[i] = accepted[j] => i = j

(* No two workers hold one task. *)
TasksHeldOnce == \A v, w \in Running : fun[v] = fun[w] => v = w

Held == {fun[w] : w \in Running}

(* A worker that moves neither into nor out of a task. *)
LEMMA HeldStays ==
  ASSUME TypeOK, NEW w \in Thread, worker[w] # "running", NEW to, to # "running",
         worker' = [worker EXCEPT ![w] = to], UNCHANGED fun
  PROVE  Running' = Running /\ Held' = Held
<1>1. Running' = Running
  BY DEF TypeOK, Running
<1>2. QED
  BY <1>1 DEF Held

LEMMA AcceptedOnceStep == TypeOK /\ AcceptedOnce /\ [Next]_vars => AcceptedOnce'
<1> SUFFICES ASSUME TypeOK, AcceptedOnce, [Next]_vars PROVE AcceptedOnce'
  OBVIOUS
<1>1. ASSUME NEW t \in Task, Push(t), t \notin Range(accepted)
      PROVE  AcceptedOnce'
  <2>1. /\ accepted \in Seq(Task) /\ Len(accepted) \in Nat
        /\ Len(accepted') = Len(accepted) + 1
        /\ \A i \in 1..Len(accepted) : accepted'[i] = accepted[i]
        /\ accepted'[Len(accepted) + 1] = t
    BY <1>1, AppendProperties, LenProperties DEF Push, TypeOK
  <2>2. \A i \in 1..Len(accepted) : accepted[i] # t
    BY <1>1, <2>1, LenProperties DEF Range
  <2>3. QED
    BY <2>1, <2>2 DEF AcceptedOnce
<1>2. CASE UNCHANGED accepted
  BY <1>2 DEF AcceptedOnce
<1>3. \/ UNCHANGED accepted
      \/ \E t \in Task : Push(t) /\ t \notin Range(accepted)
  BY DEF Next, Execute, WorkerStep, DtorStep, Stopped, ExecuteSpawn, ExecuteEnqueue,
         CanExecute, IsNext, ExecuteFaults, NotifyOne, Wait, SpuriousWakeup, Timeout, Take,
         End, Exit, Move, Complete, DtorClose, DtorNotifyAll, DtorEnd,
         DtorJoinThrows, vars, history
<1>4. QED
  BY <1>1, <1>2, <1>3

(* The task a worker takes is held by no other, and has not been run. *)
LEMMA HeadIsNew ==
  ASSUME TypeOK, AcceptedOnce, TasksInOrder, StartedAccounted, queue # <<>>
  PROVE  Head(queue) \in Task /\ Head(queue) \notin Held /\ Head(queue) \notin done
<1>1. /\ queue \in Seq(Task) /\ started \in Seq(Task)
      /\ Len(queue) \in Nat /\ Len(started) \in Nat /\ Len(queue) >= 1
      /\ Head(queue) = queue[1] /\ Head(queue) \in Task
  BY HeadTailProperties, LenProperties, EmptySeq DEF TypeOK
<1>2. /\ Len(accepted) = Len(started) + Len(queue)
      /\ \A i \in 1..Len(started) : accepted[i] = started[i]
      /\ accepted[Len(started) + 1] = queue[1]
  BY <1>1, ConcatProperties DEF TasksInOrder
<1>3. Head(queue) \notin Range(started)
  <2>1. SUFFICES ASSUME NEW i \in 1..Len(started), started[i] = queue[1] PROVE FALSE
    BY <1>1, LenProperties DEF Range
  <2>2. i = Len(started) + 1
    BY <1>1, <1>2, <2>1 DEF AcceptedOnce
  <2>3. QED
    BY <1>1, <2>1, <2>2
<1>4. QED
  BY <1>1, <1>3 DEF StartedAccounted, Held

RefinementInv ==
  /\ TypeOK /\ WorkersAccepted /\ WorkersKept
  /\ AcceptedOnce /\ TasksInOrder /\ StartedAccounted /\ TasksHeldOnce

LEMMA TasksHeldOnceStep == RefinementInv /\ [Next]_vars => TasksHeldOnce'
<1> SUFFICES ASSUME RefinementInv, [Next]_vars PROVE TasksHeldOnce'
  OBVIOUS
<1> USE DEF RefinementInv
<1>1. ASSUME UNCHANGED fun, Running' = Running
      PROVE  TasksHeldOnce'
  BY <1>1 DEF TasksHeldOnce
<1>2. ASSUME NEW c \in Client, NEW t \in Task, ExecuteSpawn(c, t)
      PROVE  TasksHeldOnce'
  <2>1. worker[t] = "none" /\ t \in Thread
    BY <1>2 DEF ExecuteSpawn, CanExecute, IsNext, WorkersAccepted, Thread
  <2>2. Running' = Running
    BY <1>2, <2>1 DEF ExecuteSpawn, Running, TypeOK
  <2>3. QED
    BY <1>1, <1>2, <2>2 DEF ExecuteSpawn
<1>3. ASSUME NEW w \in Thread, Take(w)
      PROVE  TasksHeldOnce'
  <2>1. w \notin Running /\ Running' = Running \union {w}
    BY <1>3 DEF Take, Running, Checking, TypeOK
  <2>2. fun'[w] = Head(queue) /\ \A v \in Running : fun'[v] = fun[v]
    BY <1>3, <2>1 DEF Take, TypeOK, Running
  <2>3. \A v \in Running : fun[v] # Head(queue)
    BY <1>3, HeadIsNew DEF Take, Held
  <2>4. QED
    BY <2>1, <2>2, <2>3 DEF TasksHeldOnce
<1>4. ASSUME NEW w \in Thread, Complete(w)
      PROVE  TasksHeldOnce'
  <2>1. Running' = Running \ {w} /\ \A v \in Running' : fun'[v] = fun[v]
    BY <1>4 DEF Complete, Running, TypeOK
  <2>2. QED
    BY <2>1 DEF TasksHeldOnce
<1>5. ASSUME NEW w \in Thread, Wait(w) \/ SpuriousWakeup(w) \/ Timeout(w)
                                \/ End(w) \/ Exit(w)
      PROVE  TasksHeldOnce'
  <2>1. Running' = Running /\ UNCHANGED fun
    BY <1>5 DEF Wait, SpuriousWakeup, Timeout, End, Exit, Move, Running, TypeOK
  <2>2. QED
    BY <1>1, <2>1
<1>6. ASSUME (\E c \in Client : NotifyOne(c)) \/ DtorNotifyAll
      PROVE  TasksHeldOnce'
  <2>1. Running' = Running /\ UNCHANGED fun
    BY <1>6 DEF NotifyOne, Waiting, DtorNotifyAll, WokenByAll, Running, TypeOK
  <2>2. QED
    BY <1>1, <2>1
<1>7. ASSUME UNCHANGED <<fun, worker>>
      PROVE  TasksHeldOnce'
  BY <1>1, <1>7 DEF Running
<1>8. QED
  BY <1>2, <1>3, <1>4, <1>5, <1>6, <1>7
     DEF Next, Execute, WorkerStep, DtorStep, Stopped, ExecuteEnqueue, ExecuteFaults,
         DtorClose, DtorEnd, DtorJoinThrows, vars

LEMMA RefinementInvariant == Spec => []RefinementInv
<1>1. Init => AcceptedOnce /\ TasksHeldOnce
  BY DEF Init, AcceptedOnce, TasksHeldOnce, Running
<1>2. QED
  BY <1>1, AcceptedOnceStep, TasksHeldOnceStep, TypeCorrect, KeptInvariant, FirstInFirstOut,
     StartedAreAccounted, PTL DEF Spec, RefinementInv, KeptInv

(* A worker that takes a task is one of at most MaxThreads. *)
LEMMA ThreadsSuffice ==
  ASSUME RefinementInv, NEW w \in Checking
  PROVE  Cardinality(Held) < MaxThreads
<1> USE DEF RefinementInv
<1>1. /\ IsFiniteSet(Range(threads)) /\ Cardinality(Range(threads)) <= Len(threads)
      /\ Cardinality(Range(threads)) \in Nat /\ Len(threads) \in Nat
  BY VectorIsFinite, FS_CardinalityType, LenProperties DEF TypeOK
<1>2. /\ IsFiniteSet(Running) /\ Cardinality(Running) \in Nat
      /\ Running \subseteq Range(threads)
  <2>1. Running \in SUBSET Thread /\ \A v \in Running : worker[v] \notin {"none", "exited"}
    BY DEF Running
  <2>2. QED
    BY <2>1, WorkersAreFinite
<1>3. w \in Range(threads) /\ w \notin Running
  <2>1. {w} \in SUBSET Thread /\ \A v \in {w} : worker[v] \notin {"none", "exited"}
    BY DEF Checking
  <2>2. {w} \subseteq Range(threads)
    BY <2>1, WorkersAreFinite
  <2>3. QED
    BY <2>2 DEF Checking, Running
<1>4. Cardinality(Running \union {w}) = Cardinality(Running) + 1
  BY <1>2, <1>3, CountOneMore
<1>5. Cardinality(Running \union {w}) <= Cardinality(Range(threads))
  BY <1>1, <1>2, <1>3, FS_Subset
<1>6. Cardinality(Held) <= Cardinality(Running) /\ Cardinality(Held) \in Nat
  <2>1. [v \in Running |-> fun[v]] \in Surjection(Running, Held)
    BY DEF Surjection, Held
  <2>2. QED
    BY <1>2, <2>1, FS_Surjection, FS_CardinalityType
<1>7. Len(threads) <= MaxThreads /\ MaxThreads \in Nat
  BY PoolAssumption DEF TypeOK
<1>8. QED
  BY <1>1, <1>2, <1>4, <1>5, <1>6, <1>7

LEMMA SameCardinality == \A S : Abstract!Cardinality(S) = Cardinality(S)
BY DEF Abstract!Cardinality, Cardinality

(* What the abstract queue's tasks are: none but what was accepted. *)
LEMMA KnownIsAccepted ==
  RefinementInv => Abstract!Known \subseteq Range(accepted)
<1> SUFFICES ASSUME RefinementInv PROVE Abstract!Known \subseteq Range(accepted)
  OBVIOUS
<1>1. Range(accepted) = Range(started) \union Range(queue)
  BY RangeConcatenation DEF RefinementInv, TypeOK, TasksInOrder
<1>2. QED
  BY <1>1 DEF Abstract!Known, Abstract!Range, Range, RefinementInv, StartedAccounted

LEMMA RefinementStep ==
  RefinementInv /\ [Next]_vars => [Abstract!QueueNext]_(Abstract!queueVars)
<1> SUFFICES ASSUME RefinementInv, [Next]_vars
             PROVE  Abstract!QueueNext \/ UNCHANGED Abstract!queueVars
  OBVIOUS
<1>0. TypeOK
  BY DEF RefinementInv
<1>1. ASSUME UNCHANGED <<queue, done, dtor, fault>>, Held' = Held
      PROVE  UNCHANGED Abstract!queueVars
  BY <1>1 DEF Abstract!queueVars, Held, Closed, Up
<1>2. ASSUME NEW c \in Client, NEW t \in Task, CanExecute(c, t), Push(t), Held' = Held,
             UNCHANGED <<done, dtor, fault>>
      PROVE  Abstract!Submit(t)
  <2>1. t \notin Abstract!Known
    BY <1>2, KnownIsAccepted DEF CanExecute, IsNext
  <2>2. QED
    BY <1>2, <2>1 DEF Abstract!Submit, CanExecute, Push, Held, Closed, Up
<1>3. ASSUME NEW c \in Client, NEW t \in Task, ExecuteSpawn(c, t) \/ ExecuteEnqueue(c, t)
      PROVE  Abstract!QueueNext
  <2>1. worker[t] = "none" /\ t \in Thread
    BY <1>3 DEF ExecuteSpawn, ExecuteEnqueue, CanExecute, IsNext, RefinementInv,
                WorkersAccepted, Thread
  <2>2. Running' = Running /\ UNCHANGED fun
    BY <1>0, <1>3, <2>1 DEF ExecuteSpawn, ExecuteEnqueue, Running, TypeOK
  <2>3. Abstract!Submit(t)
    BY <1>2, <1>3, <2>2 DEF ExecuteSpawn, ExecuteEnqueue, Held
  <2>4. QED
    BY <2>3 DEF Abstract!QueueNext
<1>4. ASSUME NEW w \in Thread, Take(w)
      PROVE  Abstract!Start
  <2>1. w \notin Running /\ Running' = Running \union {w}
    BY <1>0, <1>4 DEF Take, Running, Checking, TypeOK
  <2>2. fun'[w] = Head(queue) /\ \A v \in Running : fun'[v] = fun[v]
    BY <1>0, <1>4, <2>1 DEF Take, TypeOK, Running
  <2>3. Held' = Held \union {Head(queue)}
    BY <2>1, <2>2 DEF Held
  <2>4. Cardinality(Held) < MaxThreads
    BY <1>4, ThreadsSuffice DEF Take
  <2>5. Abstract!Cardinality(Held) < MaxThreads
    BY <2>4, SameCardinality
  <2>6. QED
    BY <1>4, <2>3, <2>5 DEF Abstract!Start, Take, Held, Closed, Up
<1>5. ASSUME NEW w \in Thread, Complete(w)
      PROVE  Abstract!QueueNext
  <2>1. w \in Running /\ Running' = Running \ {w} /\ \A v \in Running' : fun'[v] = fun[v]
    BY <1>0, <1>5 DEF Complete, Running, TypeOK
  <2>2. PICK t \in Task : fun[w] = t
    BY <1>0, <1>5 DEF Complete, TypeOK
  <2>3. Held' = Held \ {t} /\ t \in Held
    BY <2>1, <2>2 DEF Held, RefinementInv, TasksHeldOnce
  <2>4. Abstract!Finish(t)
    BY <1>5, <2>2, <2>3 DEF Abstract!Finish, Complete, Held, Closed, Up
  <2>5. QED
    BY <2>4 DEF Abstract!QueueNext
<1>6. ASSUME (\E c \in Client : NotifyOne(c)) \/ DtorNotifyAll
      PROVE  Abstract!QueueNext \/ UNCHANGED Abstract!queueVars
  <2>1. Running' = Running /\ UNCHANGED fun
    BY <1>0, <1>6 DEF NotifyOne, Waiting, DtorNotifyAll, WokenByAll, Running, TypeOK
  <2>2. Held' = Held
    BY <2>1 DEF Held
  <2>3. UNCHANGED <<queue, done, fault>> /\ Closed' = Closed /\ Up' = Up
    BY <1>6 DEF NotifyOne, DtorNotifyAll, history, Closed, Up
  <2>4. QED
    BY <2>2, <2>3 DEF Abstract!queueVars, Held
<1>7. ASSUME NEW w \in Thread, Wait(w) \/ SpuriousWakeup(w) \/ Timeout(w)
                                \/ End(w) \/ Exit(w)
      PROVE  UNCHANGED Abstract!queueVars
  <2>1. Running' = Running /\ UNCHANGED <<fun, queue, done, dtor, fault>>
    BY <1>0, <1>7 DEF Wait, SpuriousWakeup, Timeout, End, Exit, Move, Running, TypeOK, history
  <2>2. QED
    BY <1>1, <2>1 DEF Held
<1>8. ASSUME DtorClose
      PROVE  Abstract!Close
  <2>1. Running' = Running /\ UNCHANGED <<fun, queue, done, fault>>
    BY <1>8 DEF DtorClose, Running, history
  <2>2. QED
    BY <1>8, <2>1 DEF Abstract!Close, DtorClose, Held, Closed, Up
<1>9. ASSUME DtorEnd \/ DtorJoinThrows \/ \E c \in Client, t \in Task : ExecuteFaults(c, t)
      PROVE  Abstract!Halt
  <2>1. Running' = Running /\ UNCHANGED <<fun, queue, done>> /\ Closed' = Closed
    BY <1>9 DEF DtorEnd, DtorJoinThrows, ExecuteFaults, Running, Closed, history
  <2>2. Up /\ ~Up'
    BY <1>9 DEF DtorEnd, DtorJoinThrows, ExecuteFaults, CanExecute, Up
  <2>3. QED
    BY <2>1, <2>2 DEF Abstract!Halt
<1>10. CASE UNCHANGED vars
  <2>1. UNCHANGED <<queue, done, dtor, fault, fun, worker>>
    BY <1>10 DEF vars, history
  <2>2. QED
    BY <1>1, <2>1 DEF Held, Running
<1>11. QED
  BY <1>3, <1>4, <1>5, <1>6, <1>7, <1>8, <1>9, <1>10
     DEF Next, Execute, WorkerStep, DtorStep, Stopped, Abstract!QueueNext

(* For every number of tasks, clients and threads the pool starts what it  *)
(* accepted in order, each task once, never more than MaxThreads at a      *)
(* time, and accepts nothing once closed: every behaviour of it is one of  *)
(* the abstract queue.                                                     *)
THEOREM PoolImplementsQueue == Spec => Abstract!QueueSafety
<1>1. Init => Abstract!QueueInit
  BY DEF Init, Abstract!QueueInit, Running, Closed, Up
<1>2. QED
  BY <1>1, RefinementStep, RefinementInvariant, PTL DEF Spec, Abstract!QueueSafety
================================================================================
