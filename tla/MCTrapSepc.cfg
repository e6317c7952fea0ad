CONSTANTS
  Proc = {p1, p2}
  NoProc = NoProc
  UserR6 = UserR6
  Addr <- MCAddr
  Entry = 0
  Handler = 1
  MaxDepth = 2
SPECIFICATION Spec
INVARIANT
  SepcIsUregPc
CHECK_DEADLOCK FALSE
