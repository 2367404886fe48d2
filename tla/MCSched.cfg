SPECIFICATION MCSpec
CONSTANTS
  t1 = t1
  t2 = t2
  t3 = t3
  Idle = idle
  First = t1
  Task <- MCTask
  TimeSlice = 2
  MaxSleep = 2
  n1 = n1
  n2 = n2
  n3 = n3
  n4 = n4
  ready_list = ready_list
  sleep_list = sleep_list
  Null = null
  Node <- MCNode
  List <- MCList
INVARIANTS
  CurrIsHead
  OnePlace
  StateAgrees
  SleepAccounting
  PointersSpellItems
PROPERTIES
  EveryTaskRuns
