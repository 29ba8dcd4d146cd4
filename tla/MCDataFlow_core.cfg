SPECIFICATION Spec
CONSTANTS
  ThreadId = {0, 1}
  Main = 0
  Byte = {0, 1, 2}
  Programs <- CorePrograms
  PIPELINE_SIZE = 8
INVARIANTS
  TypeOK
  ReleaseBarrier
  AcquireBarrier
  Coherence
  Quiescent
  MessagePassing
CHECK_DEADLOCK FALSE
