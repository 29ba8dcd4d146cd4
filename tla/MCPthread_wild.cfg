SPECIFICATION PthreadSpec
CONSTANTS
  Task = {t1, t2, t3}
  MutexId = {m1, m2}
  CondvarId = {c1}
  None = None
  NotifyLocked = FALSE
INVARIANT
  OneSender
SYMMETRY Symmetry
CHECK_DEADLOCK FALSE
