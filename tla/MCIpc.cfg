CONSTANTS
  t1 = t1
  t2 = t2
  t3 = t3
  m1 = m1
  s1 = s1
  Idle = idle
  First = t1
  Task <- MCTask
  NoTask = none
  Mutex <- MCMutex
  Sem <- MCSem
  InitCount <- ZeroCount
  TimeSlice = 1
  MaxSleep = 1
  MaxDepth = 2
  MaxCount = 1
SPECIFICATION FairIpcSpec
INVARIANTS
  BlockedIsQueued
PROPERTIES
  LocksAreQueues
  SemsAreCredits
  LockGranted
