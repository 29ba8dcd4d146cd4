SPECIFICATION Spec
CONSTANTS
  Addr = {0, 1, 2, 3, 4}
  Length = {0, 1, 2, 3, 4, 5}
  Layouts <- SmallLayouts
  HEAP_GUARD = 3
  HeapStart = 3
  MaxStores = 3
  MaxBlocks = 2
INVARIANTS
  TypeOK
  Disjoint
  LoadsLastStore
  BlocksApart
PROPERTY
  StoreCompletes
CHECK_DEADLOCK FALSE
