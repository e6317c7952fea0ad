CONSTANTS
  NTABLES = 24
  MAXCONF = 2
  Name <- MCName
  Fold <- MCFold
  Star = {"*nousbehci"}
  Value = {"0", "1"}
  Long = long
  Half = half
  Whole = whole
  PerBlock = 2
  NBlock = 2
  Rate = {r1, r2}
  MaxRx = 2
  File <- MCFile
  Nousb = "*nousbehci"
  Tries = 2
SPECIFICATION FairSpec
INVARIANTS TypeOK MapSound ConfTrue DramFound Uncached RateKept DevicesReady
PROPERTIES ReceiveEnds BootEnds
CHECK_DEADLOCK FALSE
