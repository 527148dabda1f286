SPECIFICATION Spec
CONSTANTS
  CPU = {c1, c2}
  NPROC = 3
  UvmcopyOk = TRUE
  KillPids = {2}
  MaxPid = 3
  NoCpu = NoCpu
  NoProc = NoProc
SYMMETRY Symmetry
INVARIANTS
  OneCpu
  SchedAssertions
  NoOrphans
  NoLostExit
