SPECIFICATION Spec
CONSTANTS
  Proc = {p1, p2}
  f1 = f1
  f2 = f2
  File = {f1, f2}
  IpOf <- MCIpOf
  BSIZE = 2
  NDIRECT = 1
  FSSIZE = 8
  BPB = 1
  MAXOPBLOCKS = 6
  NINODES = 3
  NMETA = 2
  Sizes = {3}
  Amounts = {1, 3}
  NoProc = NoProc
SYMMETRY Symmetry
INVARIANTS BlocksAccounted ContentsOwn OpFitsLog
CHECK_DEADLOCK FALSE
