SPECIFICATION Spec
CONSTANTS
  Proc = {p1, p2, p3}
  Val = {v1, v2}
  Block = {1, 2, 3}
  NBUF = 2
  MaxHold = 2
  MaxPins = 1
  NoBlock = NoBlock
  NoBuf = NoBuf
  NoProc = NoProc
SYMMETRY Symmetry
CHECK_DEADLOCK FALSE
INVARIANTS
  OneBufferPerBlock
  RefcntExact
  SleepLocks
PROPERTIES
  OnlyHolderChanges
