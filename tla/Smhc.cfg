CONSTANTS
  Data = {0, 1, 2, 3, 4}
  Fifo = 1
  Single = 1
  Multi = 2
  CmdWait = 1
  R1bWait = 1
  DataWait = 2
  Wrap = 8
  Starts = {6}
  Upclkonly = Upclkonly
  None = None
SPECIFICATION FairSpec
INVARIANTS
  TypeOK
  ReadIntact
  TimeoutExact
PROPERTIES
  DoneIsOver
  Returns
