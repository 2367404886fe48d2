SPECIFICATION MCSpec
CONSTANTS
  t1 = t1
  t2 = t2
  idle = idle
  Task <- MCTask
  MaxSectors = 3
  Proc <- MCProc
  IdleTask = idle
  FirstTask = t1
  MaxDepth = 3
  Calls = 1
INVARIANTS
  InStep
  SectionsClosed
PROPERTIES
  RequestsEnd
  TicksHandled
