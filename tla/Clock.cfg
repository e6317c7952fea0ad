CONSTANTS
  Dev = {uart, ehci}
  Timer0 = timer0
  None = None
  OneShot = {t1, t2}
  Hz = hz
  MinPeriod = 2
  MaxPeriod = 4
  Horizon = 5
SPECIFICATION FairSpec
INVARIANTS
  TypeOK
  ClockAlive
  InTime
  NoneInService
PROPERTY
  Served
