SPECIFICATION Spec
CONSTANTS
  ThreadId = {0, 1, 2}
  Main = 0
  Byte = {0, 1, 2}
  Programs <- Par
  PIPELINE_SIZE = 8
INVARIANT
  JoinFindsThread
CHECK_DEADLOCK FALSE
