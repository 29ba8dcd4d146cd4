SPECIFICATION Spec
CONSTANTS
  ThreadId = {0}
  Main = 0
  Byte = {1, 2}
  Programs <- DependentStore
  PIPELINE_SIZE = 8
INVARIANT
  ChosenSteps
CHECK_DEADLOCK FALSE
