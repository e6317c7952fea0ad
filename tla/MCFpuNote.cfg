CONSTANTS
  Proc = {p1, p2}
  NoProc = NoProc
  FpVal = {f0, f1, f2}
  Initfp = f0
SPECIFICATION Spec
INVARIANT
  SurvivesSwitch
CHECK_DEADLOCK FALSE
