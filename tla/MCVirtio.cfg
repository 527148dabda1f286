SPECIFICATION Spec
CONSTANTS
  Proc = {p1, p2, p3}
  NUM = 7
  WORD = 7
  NoProc = NoProc
SYMMETRY Symmetry
INVARIANTS
  DescriptorsOwned
  NoLostWakeup
PROPERTIES
  ReturnsAfterTransfer
