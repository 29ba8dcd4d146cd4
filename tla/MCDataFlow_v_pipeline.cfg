SPECIFICATION Spec
CONSTANTS
  ThreadId = {0}
  Main = 0
  Byte = {1, 2, 3}
  Programs <- LongBlock
  PIPELINE_SIZE = 2
INVARIANT
  AllReaped
CHECK_DEADLOCK FALSE
