CONSTANTS
  PoolTasks = {t1, t2, t3}
  Threads = {w1, w2}
  Clients = {c1, c2}
SPECIFICATION FairSpec
CHECK_DEADLOCK FALSE
INVARIANTS
  NoStrandedTask
PROPERTIES
  EveryTaskRuns
  DestructorReturns
  Implements
