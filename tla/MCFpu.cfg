CONSTANTS
  Proc = {p1, p2}
  NoProc = NoProc
  FpVal = {f0, f1, f2}
  Initfp = f0
SPECIFICATION Spec
SYMMETRY Symmetry
INVARIANTS
  TypeOK
  Isolation
  OwnRegisters
  ActiveIsUp
CHECK_DEADLOCK FALSE
