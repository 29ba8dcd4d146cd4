SPECIFICATION Spec
CONSTANTS
  PtrBits = 16
  MemBytes = 20
  MaxSteps = 3
  StructDefs <- MCStructDefs
  Constants <- MCConstants
  Instrs <- MCInstrs
  InitMem <- MCInitMem
  TlsAddrs <- MCTlsAddrs
CHECK_DEADLOCK FALSE
INVARIANTS EvalTypeOK ComputesLLVM
