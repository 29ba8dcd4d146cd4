SPECIFICATION PthreadSpec
CONSTANTS
  Task = {t1, t2, t3}
  MutexId = {m1, m2}
  CondvarId = {c1}
  None = None
  NotifyLocked = TRUE
INVARIANTS
  PthreadTypeOK
  MutualExclusion
  WordAgrees
  AssertionsHold
PROPERTIES
  QueuedGetsLock
  ImplementsMonitor
CHECK_DEADLOCK FALSE
