\* ThreadPool_housekeeping
SPECIFICATION Spec
CONSTANTS
  t1 = t1
  t2 = t2
  t3 = t3
  t4 = t4
  c1 = c1
  c2 = c2
  Task = {t1, t2, t3}
  Client = {c1}
  MaxThreads = 2
  SpawnCanFail = FALSE
  None = None
INVARIANTS
  HousekeepingIsSafe
