SPECIFICATION Spec
CONSTANTS
  ThreadId = {0}
  Main = 0
  Byte = {1, 2}
  Programs <- SwapAfterStore
  PIPELINE_SIZE = 8
INVARIANT
  ReleaseClassBarrier
CHECK_DEADLOCK FALSE
