SPECIFICATION DevSpec
CONSTANTS
  t1 = t1
  t2 = t2
  Task <- Tasks
  Root = t1
  NFile = 2
  NFd = 2
  ClosesAlone = FALSE
  MaxRef = 3
  NDev = 4
  Terminal = {0, 1}
  Disk = 9
  DevPoint <- Dev
  HomePoint <- Home
  TypeName <- Tty
  Name <- Names
SYMMETRY Symm
INVARIANTS
  CloseAssert
