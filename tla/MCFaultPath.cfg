CONSTANTS
  Proc = {p1}
  NoProc = NoProc
  UserR6 = UserR6
  Addr <- MCAddr
  UserEntry = 0
  Handler = 1
  MaxDepth = 2
  Page = {1, 2, 3}
  Idx <- MCIdx
  VA <- MCVA
  Frame = {f1}
  Nil = Nil
  Junk = Junk
  Kernel = Kernel
  Bare = Bare
SPECIFICATION FairSpec
INVARIANT RetryWorks
PROPERTY TrapsReturn
CHECK_DEADLOCK FALSE
