SPECIFICATION Spec
CONSTANTS
  w1 = w1
  w2 = w2
  MaxQueue = 2
  NConsole = 2
  Rows = 2
  Cols = 2
  ParamMax = 2
  Big = 50
  Writer <- Two
  At <- Both
  Texts <- TextSet
CHECK_DEADLOCK FALSE
INVARIANTS
  KeysAsPressed
  CursorOnScreen
  CursorFollows
PROPERTIES
  OwnDisplay
