SPECIFICATION FairSelSpec
CONSTANTS
  NSlot = 3
  NSel = 3
  Renames = {3}
CHECK_DEADLOCK FALSE
INVARIANTS
  ParentAlive
  BlockedOnlyIfMissed
  ClashedOnlyIfUnnamed
  DescriptorsExact
PROPERTIES
  CallsEnd
