CONSTANTS
  Mhz <- MCMhz
  Khz <- MCKhz
  Peri <- MCPeri
SPECIFICATION Spec
INVARIANT
  NeverFaster
