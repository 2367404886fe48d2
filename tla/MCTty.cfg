SPECIFICATION FairSpec
CONSTANTS
  w1 = w1
  r1 = r1
  r2 = r2
  Writer <- OneWriter
  Reader <- TwoReaders
  IBuf = 1
  OBuf = 4
  ReadSize = 2
  Echo = TRUE
INVARIANTS
  RoomConserved
  InputMatched
PROPERTIES
  WritesEnd
