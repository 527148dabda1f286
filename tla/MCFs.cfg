SPECIFICATION Spec
CONSTANTS
  Proc = {p1, p2}
  NoProc = NoProc
  Name <- MCName
  NINODES = 3
  MAXCALLS = 3
  Images <- MCImages
  Paths <- MCPaths
SYMMETRY Symmetry
INVARIANTS
  RefsExact
  LinkCounts
  NoLockCycle
  PanicsOnlyOnStray
CHECK_DEADLOCK FALSE
