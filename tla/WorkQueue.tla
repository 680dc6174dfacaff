------------------------------- MODULE WorkQueue -------------------------------
(***************************************************************************)
(* What herd::utils::ThreadPool promises its users, and nothing about how: *)
(* tasks are started in the order execute() accepted them, each exactly    *)
(* once, at most MaxRunning at a time, and once the pool is closed nothing *)
(* more is accepted.  ThreadPool implements it (ThreadPool!ImplementsQueue)*)
(* and SessionLifecycle uses it as the pool the remote backend owns.       *)
(***************************************************************************)
EXTENDS Naturals, Sequences, FiniteSets, Functions

CONSTANTS
  Task,         \* the packaged tasks that may be submitted
  MaxRunning    \* the most tasks that run at a time

VARIABLES
  pending,      \* accepted tasks not started yet, oldest first
  running,      \* the tasks some worker is running
  finished,     \* the tasks whose future is ready
  open,         \* whether tasks are still accepted
  halted        \* the process died: nothing happens any more

queueVars == <<pending, running, finished, open, halted>>

Known == Range(pending) \union running \union finished

QueueTypeOK ==
  /\ pending \in Seq(Task)
  /\ running \subseteq Task
  /\ finished \subseteq Task
  /\ open \in BOOLEAN
  /\ halted \in BOOLEAN

QueueInit ==
  /\ pending = <<>>
  /\ running = {}
  /\ finished = {}
  /\ open = TRUE
  /\ halted = FALSE

Submit(t) ==
  /\ ~halted /\ open
  /\ t \notin Known
  /\ pending' = Append(pending, t)
  /\ UNCHANGED <<running, finished, open, halted>>

Start ==
  /\ ~halted
  /\ pending # <<>>
  /\ Cardinality(running) < MaxRunning
  /\ pending' = Tail(pending)
  /\ running' = running \union {Head(pending)}
  /\ UNCHANGED <<finished, open, halted>>

Finish(t) ==
  /\ ~halted
  /\ t \in running
  /\ running' = running \ {t}
  /\ finished' = finished \union {t}
  /\ UNCHANGED <<pending, open, halted>>

Close ==
  /\ ~halted /\ open
  /\ open' = FALSE
  /\ UNCHANGED <<pending, running, finished, halted>>

Halt ==
  /\ ~halted
  /\ halted' = TRUE
  /\ UNCHANGED <<pending, running, finished, open>>

QueueNext ==
  \/ \E t \in Task : Submit(t) \/ Finish(t)
  \/ Start \/ Close \/ Halt

QueueSafety == QueueInit /\ [][QueueNext]_queueVars

QueueFairness ==
  /\ WF_queueVars(Start)
  /\ \A t \in Task : WF_queueVars(Finish(t))

QueueSpec == QueueSafety /\ QueueFairness
================================================================================
