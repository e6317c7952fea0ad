CONSTANTS
  Mhz <- MCMhz
  Khz <- MCKhz
  Peri <- MCPeri
SPECIFICATION FairSpec
INVARIANTS
  TypeOK
  CoreSteady
  CardRate
PROPERTY
  CpuReturns
