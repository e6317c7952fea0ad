CONSTANTS
  Proc = {p1, p2}
  NoProc = NoProc
  Page = {1, 2, 3, 4}
  Idx <- MCIdx
  VA <- FarVA
  Frame = {f1, f2}
  Nil = Nil
  Junk = Junk
  Kernel = Kernel
  Bare = Bare
SPECIFICATION Spec
INVARIANT
  GivenRoot
CHECK_DEADLOCK FALSE
