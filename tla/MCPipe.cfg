SPECIFICATION Spec
CONSTANTS
  Proc = {p1, p2, p3}
  Byte = {x, y}
  PIPESIZE = 2
  WORD = 4
  MaxN = 2
  Kills = 1
  NoProc = NoProc
SYMMETRY Symmetry
INVARIANTS
  NoUseAfterFree
  SleepersWait
PROPERTIES
  Implements
CHECK_DEADLOCK FALSE
