SPECIFICATION LiveSpec
CONSTANTS
  Reader = {r1, r2}
  Killable = {r1}
  Writer = {w1}
  INPUT_BUF_SIZE = 2
  UART_TX_BUF_SIZE = 1
  UINT = 4
  FIFO = 2
  Plain <- MCPlain
  ReadSizes = {2}
  WriteSizes = {2}
  MAXIN = 3
  MAXOUT = 2
  None = None
INVARIANTS ReaderSleepsOnEmpty 
PROPERTIES  WritesFinish
CHECK_DEADLOCK FALSE
