SPECIFICATION FairSpec
CONSTANTS
  NSlot = 2
  Renames = {}
PROPERTIES
  WaitReturns
CHECK_DEADLOCK FALSE
