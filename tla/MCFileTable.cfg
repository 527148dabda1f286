SPECIFICATION Spec
CONSTANTS
  Proc = {p1, p2}
  NOFILE = 2
  NFILE = 4
  NPIPE = 1
  Inum = {1}
SYMMETRY Symmetry
INVARIANTS
  RefsMatch
CHECK_DEADLOCK FALSE
