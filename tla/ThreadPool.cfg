\* Four tasks and two clients fill three threads and the queue behind them;
\* threads may fail to start.
SPECIFICATION FairSpec
CONSTANTS
  t1 = t1
  t2 = t2
  t3 = t3
  t4 = t4
  c1 = c1
  c2 = c2
  Task = {t1, t2, t3, t4}
  Client = {c1, c2}
  MaxThreads = 3
  SpawnCanFail = TRUE
  None = None
INVARIANTS
  TypeOK
  QueuedTaskHasThread
  NoLostWakeup
  IdleThreadsAreWoken
  BacklogBound
  DrainedWhenGone
PROPERTIES
  AcceptedTaskCompletes
  DestructorReturns
  ImplementsQueue
