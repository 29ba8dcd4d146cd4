SPECIFICATION Spec
CONSTANTS
  ThreadId = {0, 1, 2}
  Main = 0
  Byte = {0, 1, 2}
  Programs <- LifePrograms
  PIPELINE_SIZE = 2
INVARIANTS
  NoLostWakeup
  StallIsBlockedControl
  ReapedIsDone
  MainOutlivesJoined
CHECK_DEADLOCK FALSE
PROPERTY
  Terminates
