SPECIFICATION Spec

CONSTANTS
  Lines <- MCLines
  MAXARGS = 3
  NPROC = 8
  Error = Error
  NoCmd = NoCmd

INVARIANTS
  ParsesBack
  Plumbed
  InForeground

CHECK_DEADLOCK FALSE
