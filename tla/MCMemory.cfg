SPECIFICATION Spec
CONSTANTS
  t0 = t0
  t1 = t1
  t2 = t2
  First = t0
  Task <- MCTask
  SmallSize = 11
  PhysSizes <- MCPhysSizes
  NSlot = 2
  Unit = 2
  ProgSize <- MCProgSize
  MaxIncr = 2
SYMMETRY Symm
CONSTRAINT Bounded
CHECK_DEADLOCK FALSE
INVARIANTS
  OwnedOnce
  HeapMapped
PROPERTIES
  CopyComplete
  LostOnlyByFork
