SPECIFICATION Spec
CONSTANTS
  Proc = {p1, p2}
  InitProc = p1
  NPAGES = 24
  PGSIZE = 32
  FANOUT = 3
  MAXVA = 27
  WORD = 1024
  Amounts <- MCAmounts
  Images <- MCImages
  NoTable = NoTable
INVARIANTS
  
  
  CopyExact
CHECK_DEADLOCK FALSE
