SPECIFICATION Spec
CONSTANTS
  Programs <- MCPrograms
  Natives <- MCNatives
  Threads = {t1, t2}
  Words = {8, 9}
  MaxOps = 6
CHECK_DEADLOCK FALSE
INVARIANTS LinkTypeOK NamesDenote VariablesHold PanicsIfIllFormed
