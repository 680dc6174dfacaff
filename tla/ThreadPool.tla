------------------------------- MODULE ThreadPool ------------------------------
(***************************************************************************)
(* herd::utils::ThreadPool: a queue of packaged tasks, a vector of threads *)
(* that execute() grows and housekeeping() shrinks, and a destructor that  *)
(* closes the pool and joins what is left.                                 *)
(*                                                                         *)
(* The grain is the critical section: pool_mutex_ is not a variable, every *)
(* action is what one thread does while it holds the mutex, or one of the  *)
(* calls made outside it (notify_one, notify_all, join, the task itself).  *)
(***************************************************************************)
EXTENDS Naturals, Sequences, FiniteSets, Functions

CONSTANTS
  Task,            \* the packaged tasks; each is submitted at most once
  Client,          \* the threads that call execute()
  MaxThreads,      \* max_threads_
  SpawnCanFail,    \* whether std::jthread's constructor may throw
  None             \* "no task"

ASSUME PoolAssumption ==
  /\ MaxThreads \in Nat \ {0}
  /\ SpawnCanFail \in BOOLEAN
  /\ None \notin Task

(* One execute() creates at most one PooledThread, so a thread is named by *)
(* the task whose execute() created it.                                    *)
Thread == Task

VARIABLES
  queue,       \* queue_, oldest task first
  threads,     \* threads_, the vector of PooledThreads
  worker,      \* where each PooledThread is
  fun,         \* the task a running worker has moved out of the queue
  notifying,   \* clients between queue_lock.unlock() and notify_one()
  dtor,        \* where ~ThreadPool() is
  fault,       \* how the process died, if it did
  accepted,    \* history: the tasks pushed, in order
  started,     \* history: the tasks popped, in order
  done         \* history: the tasks that ran to completion

history == <<accepted, started, done>>
vars == <<queue, threads, worker, fun, notifying, dtor, fault, history>>

(***************************************************************************)
(* A worker is "unstarted" when its std::jthread could not be created;     *)
(* "awake" when it is about to take the mutex and test the predicate;      *)
(* "timedout" when wait_for gave up and it is about to do so a last time;  *)
(* "exiting" once ended_ is set and "exited" once it can be joined.        *)
(***************************************************************************)
WorkerState == {"none", "unstarted", "awake", "waiting", "timedout",
                "running", "exiting", "exited"}

Ended(w) == worker[w] \in {"exiting", "exited"}
Live(w)  == worker[w] \in {"awake", "waiting", "timedout", "running"}
Running  == {w \in Thread : worker[w] = "running"}
Waiting  == {w \in Thread : worker[w] = "waiting"}
Checking == {w \in Thread : worker[w] \in {"awake", "timedout"}}
Closed   == dtor # "live"                                       \* closed_
Up       == fault = "none" /\ dtor # "gone"

TypeOK ==
  /\ queue \in Seq(Task)
  /\ threads \in Seq(Thread) /\ Len(threads) <= MaxThreads
  /\ worker \in [Thread -> WorkerState]
  /\ fun \in [Thread -> Task \union {None}]
  /\ \A w \in Thread : worker[w] = "running" <=> fun[w] # None
  /\ notifying \subseteq Client
  /\ dtor \in {"live", "closed", "joining", "gone"}
  /\ fault \in {"none", "null_join", "terminate"}
  /\ accepted \in Seq(Task)
  /\ started \in Seq(Task)
  /\ done \subseteq Task

Init ==
  /\ queue = <<>>
  /\ threads = <<>>
  /\ worker = [w \in Thread |-> "none"]
  /\ fun = [w \in Thread |-> None]
  /\ notifying = {}
  /\ dtor = "live"
  /\ fault = "none"
  /\ accepted = <<>>
  /\ started = <<>>
  /\ done = {}

(***************************************************************************)
(* execute().  After closed_ it throws ThreadPoolClosed and changes        *)
(* nothing: a stuttering step, which has no action.                        *)
(***************************************************************************)

(* Nothing depends on which task a call submits, so the names are used in  *)
(* an order: a task is the next one or it has been submitted.              *)
IsNext(t) ==
  /\ t \notin Range(accepted)
  /\ t = CHOOSE s \in Task : s \notin Range(accepted)

(* A call may race with the destructor's body, never with the pool's end.  *)
CanExecute(c, t) == Up /\ ~Closed /\ c \notin notifying /\ IsNext(t)

(* remove_if leaves the first k threads in place exactly when the ended    *)
(* ones are the last of the vector; they are joined, so they have exited.  *)
HousekeepingKeeps(k) ==
  /\ \A i \in 1..k : ~Ended(threads[i])
  /\ \A i \in k+1..Len(threads) : worker[threads[i]] = "exited"

(* With an ended thread before a live one, remove_if moves the live one's  *)
(* unique_ptr down, and housekeeping() joins through the null left behind. *)
HousekeepingFaults ==
  \E i, j \in 1..Len(threads) :
    i < j /\ Ended(threads[i]) /\ ~Ended(threads[j])

(* Mutant: the task jumps the queue. *)
PushFront(t) == queue' = <<t>> \o queue /\ accepted' = Append(accepted, t)

Push(t) == queue' = Append(queue, t) /\ accepted' = Append(accepted, t)

(* Mutants: the growth rule off by one, and without its upper bound. *)
MustSpawnLate(n) == Len(queue) + 1 > n + 1 /\ n < MaxThreads
MustSpawnAlways(n) == Len(queue) + 1 >= n + 1

(* The test after the push, housekeeping() having left n threads.          *)
MustSpawn(n) == Len(queue) + 1 >= n + 1 /\ n < MaxThreads

(* The pool grows.  When start() throws, the task stays queued, and a      *)
(* PooledThread that will never run nor set ended_ stays in threads_.      *)
ExecuteSpawn(c, t) ==
  /\ CanExecute(c, t)
  /\ \E k \in 0..Len(threads) :
       /\ HousekeepingKeeps(k)
       /\ MustSpawn(k)
       /\ threads' = Append(SubSeq(threads, 1, k), t)
  /\ Push(t)
  /\ \/ worker' = [worker EXCEPT ![t] = "awake"]
     \/ SpawnCanFail /\ worker' = [worker EXCEPT ![t] = "unstarted"]
  /\ UNCHANGED <<fun, notifying, dtor, fault, started, done>>

(* Mutants: no notify_one(), and one only for an empty queue. *)
ForgetToNotify(c) == UNCHANGED notifying
WillNotifyIfEmpty(c) ==
  notifying' = IF queue = <<>> THEN notifying \union {c} ELSE notifying

(* The mutex is released first, notify_one() is a later step of the call.  *)
WillNotify(c) == notifying' = notifying \union {c}

(* The task is left to the threads there are.                              *)
ExecuteEnqueue(c, t) ==
  /\ CanExecute(c, t)
  /\ \E k \in 0..Len(threads) :
       /\ HousekeepingKeeps(k)
       /\ ~MustSpawn(k)
       /\ threads' = SubSeq(threads, 1, k)
  /\ Push(t)
  /\ WillNotify(c)
  /\ UNCHANGED <<worker, fun, dtor, fault, started, done>>

ExecuteFaults(c, t) ==
  /\ CanExecute(c, t)
  /\ HousekeepingFaults
  /\ fault' = "null_join"
  /\ UNCHANGED <<queue, threads, worker, fun, notifying, dtor, history>>

(* consumers_cv_.notify_one(): wakes one waiter, or is lost.               *)
NotifyOne(c) ==
  /\ Up
  /\ c \in notifying
  /\ notifying' = notifying \ {c}
  /\ \/ Waiting = {} /\ UNCHANGED worker
     \/ \E w \in Waiting : worker' = [worker EXCEPT ![w] = "awake"]
  /\ UNCHANGED <<queue, threads, fun, dtor, fault, history>>

(***************************************************************************)
(* thread_body()                                                           *)
(***************************************************************************)

(* A step that only moves worker w.                                        *)
Move(w, from, to) ==
  /\ Up
  /\ worker[w] \in from
  /\ worker' = [worker EXCEPT ![w] = to]
  /\ UNCHANGED <<queue, threads, fun, notifying, dtor, fault, history>>

HasWork == queue # <<>> \/ Closed

(* The predicate is false: wait_for releases the mutex and blocks; the     *)
(* wait ends by a notification, spuriously, or when TIMEOUT has passed.    *)
Wait(w) == ~HasWork /\ Move(w, {"awake"}, "waiting")
SpuriousWakeup(w) == Move(w, {"waiting"}, "awake")
Timeout(w) == Move(w, {"waiting"}, "timedout")

(* Woken or timed out, a worker that finds a task takes the oldest.        *)
Take(w) ==
  /\ Up
  /\ w \in Checking
  /\ queue # <<>>
  /\ queue' = Tail(queue)
  /\ fun' = [fun EXCEPT ![w] = Head(queue)]
  /\ started' = Append(started, Head(queue))
  /\ worker' = [worker EXCEPT ![w] = "running"]
  /\ UNCHANGED <<threads, notifying, dtor, fault, accepted, done>>

(* Mutants: a timed-out worker, or a worker of a closed pool, does not look *)
(* at the queue again before it ends.                                      *)
EndsOnTimeout(w) == worker[w] = "timedout" \/ (Closed /\ queue = <<>>)
EndsOnClose(w)   == Closed \/ (worker[w] = "timedout" /\ queue = <<>>)

(* timed_out || queue_.empty(): wait_for returns pred() after a timeout,   *)
(* and a worker that was woken ends only when the pool is closed.          *)
FindsNothing(w) == queue = <<>> /\ (worker[w] = "timedout" \/ Closed)

(* ended_ is set before the mutex is released.                             *)
End(w) == FindsNothing(w) /\ Move(w, {"awake", "timedout"}, "exiting")

(* fun() returns: a packaged task keeps its exception in the future.       *)
Complete(w) ==
  /\ Up
  /\ worker[w] = "running"
  /\ done' = done \union {fun[w]}
  /\ fun' = [fun EXCEPT ![w] = None]
  /\ worker' = [worker EXCEPT ![w] = "awake"]
  /\ UNCHANGED <<queue, threads, notifying, dtor, fault, accepted, started>>

Exit(w) == Move(w, {"exiting"}, "exited")

(***************************************************************************)
(* ~ThreadPool()                                                           *)
(***************************************************************************)

DtorClose ==
  /\ Up /\ dtor = "live"
  /\ dtor' = "closed"
  /\ UNCHANGED <<queue, threads, worker, fun, notifying, fault, history>>

(* Mutant: notify_one() in place of notify_all(). *)
WokenByOne ==
  IF Waiting = {} THEN worker
  ELSE [worker EXCEPT ![CHOOSE w \in Waiting : TRUE] = "awake"]

WokenByAll ==
  [w \in Thread |-> IF worker[w] = "waiting" THEN "awake" ELSE worker[w]]

DtorNotifyAll ==
  /\ Up /\ dtor = "closed"
  /\ dtor' = "joining"
  /\ worker' = WokenByAll
  /\ UNCHANGED <<queue, threads, fun, notifying, fault, history>>

(* Every join has returned and the members go; no call may be in flight    *)
(* by then (the caller's obligation).                                      *)
DtorEnd ==
  /\ Up /\ dtor = "joining"
  /\ \A i \in 1..Len(threads) : worker[threads[i]] = "exited"
  /\ notifying = {}
  /\ dtor' = "gone"
  /\ UNCHANGED <<queue, threads, worker, fun, notifying, fault, history>>

(* join() of a jthread that was never started throws, out of a destructor. *)
DtorJoinThrows ==
  /\ Up /\ dtor = "joining"
  /\ \E i \in 1..Len(threads) :
       /\ worker[threads[i]] = "unstarted"
       /\ \A j \in 1..i-1 : worker[threads[j]] = "exited"
  /\ fault' = "terminate"
  /\ UNCHANGED <<queue, threads, worker, fun, notifying, dtor, history>>

--------------------------------------------------------------------------------

Execute(c, t) == ExecuteSpawn(c, t) \/ ExecuteEnqueue(c, t) \/ ExecuteFaults(c, t)

WorkerStep(w) == Wait(w) \/ Take(w) \/ End(w) \/ Complete(w) \/ Exit(w)

DtorStep == DtorNotifyAll \/ DtorEnd \/ DtorJoinThrows

Stopped == ~Up /\ UNCHANGED vars

Next ==
  \/ \E c \in Client : NotifyOne(c) \/ \E t \in Task : Execute(c, t)
  \/ \E w \in Thread : WorkerStep(w) \/ SpuriousWakeup(w) \/ Timeout(w)
  \/ DtorClose \/ DtorStep
  \/ Stopped

(* The scheduler and the mutex are fair to every thread, tasks terminate,  *)
(* a client that enqueued goes on to notify, and a destructor that began   *)
(* goes on.  Nobody has to call execute() or the destructor, and no wait   *)
(* has to time out.                                                        *)
Fairness ==
  /\ \A w \in Thread : WF_vars(WorkerStep(w))
  /\ \A c \in Client : WF_vars(NotifyOne(c))
  /\ WF_vars(DtorStep)

Spec == Init /\ [][Next]_vars

FairSpec == Spec /\ Fairness

--------------------------------------------------------------------------------

(* No task is lost, duplicated or overtaken between execute()'s push and a *)
(* worker's pop: what was accepted is what was started followed by what is *)
(* queued, in the order of the calls.                                      *)
TasksInOrder == accepted = started \o queue

(* A queued task is never left to threads that have ended: a worker ends   *)
(* only when it finds the queue empty, under the mutex, and housekeeping() *)
(* comes before the push.  In particular some thread is left to take it.   *)
QueuedTaskHasThread ==
  queue # <<>> =>
    /\ threads # <<>>
    /\ \A i \in 1..Len(threads) : ~Ended(threads[i])

(* No wake-up is lost: while tasks are queued and some thread lives, the   *)
(* threads are not all blocked in wait_for with nobody about to notify.    *)
(* The interesting step is execute() pushing between a worker's test of    *)
(* the predicate and its wait.                                             *)
NoLostWakeup ==
  queue # <<>> /\ (\E w \in Thread : Live(w)) =>
    \/ \E w \in Thread : Live(w) /\ worker[w] # "waiting"
    \/ notifying # {}

(* Stronger, as long as no thread failed to start: when a thread is idle,  *)
(* every queued task has a thread or a notify_one() of its own coming, so  *)
(* no task waits behind a running one while another thread sleeps.         *)
IdleThreadsAreWoken ==
  (\A w \in Thread : worker[w] # "unstarted") /\ Waiting # {} =>
    Len(queue) <= Cardinality(Checking) + Cardinality(notifying)

(* Until the vector holds max_threads_ threads, the backlog never exceeds  *)
(* one task per thread: execute()'s growth rule keeps up with every        *)
(* interleaving of pushes, pops and threads that end.                      *)
BacklogBound == Len(threads) < MaxThreads => Len(queue) <= Len(threads)

(* What the destructor's unlocked loop over threads_ relies on: from the   *)
(* moment closed_ is set no call changes the vector or adds a task.        *)
ClosedIsFinal == [][Closed => UNCHANGED <<threads, accepted>>]_vars

(* When the members are destroyed nothing is queued, every accepted task   *)
(* has run, and no thread still touches the pool, whichever of execute(),  *)
(* timeouts and the destructor came first.                                 *)
DrainedWhenGone ==
  dtor = "gone" =>
    /\ queue = <<>>
    /\ done = Range(accepted)
    /\ \A w \in Thread : worker[w] \in {"none", "exited"}

(* Every task execute() accepted is eventually run, unless housekeeping()  *)
(* or a destructor that joins a thread that never started kills the        *)
(* process first, or no thread of the vector ever started: one that did    *)
(* serves the tasks of those that did not.                                 *)
AcceptedTaskCompletes ==
  \A t \in Task :
    t \in Range(accepted) ~>
      \/ t \in done
      \/ fault # "none"
      \/ \A i \in 1..Len(threads) : worker[threads[i]] = "unstarted"

(* A destructor that starts returns: no worker sleeps through notify_all   *)
(* and no join waits for ever.                                             *)
DestructorReturns == Closed ~> ~Up

(* execute() can be called whenever the pool is alive: nothing in it may   *)
(* dereference a thread that housekeeping()'s remove_if has moved from.    *)
HousekeepingIsSafe == fault # "null_join"

(* The pool implements the abstract queue: a task is pending while it is   *)
(* in queue_, running while a worker holds it, and a fault or the end of   *)
(* the destructor halts everything.                                        *)
Abstract == INSTANCE WorkQueue WITH
  MaxRunning <- MaxThreads,
  pending    <- queue,
  running    <- {fun[w] : w \in Running},
  finished   <- done,
  open       <- ~Closed,
  halted     <- ~Up

ImplementsQueue ==
  /\ Abstract!QueueSafety
  /\ [](\A w \in Thread : worker[w] # "unstarted") => Abstract!QueueFairness
================================================================================
