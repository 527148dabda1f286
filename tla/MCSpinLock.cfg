SPECIFICATION Spec
CONSTANTS
  CPU = {c1, c2}
  Lock = {1, 2}
  NoCpu = NoCpu
  NoFrame = NoFrame
  NoLock = NoLock
SYMMETRY Symmetry
INVARIANTS
  MutualExclusion
  NoPanic
  NoSpinDeadlock
  
