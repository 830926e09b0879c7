\* 2 ns to a tick, 2 ticks to a second, a clock of 5 ticks.
SPECIFICATION FairSpec
CONSTANTS
  NSPS = 4
  HZ = 2
  UINT_MAX = 4
  MaxLag = 1
  Timespecs <- MCTimespecs
INVARIANTS
  TypeOK
  NeverEarly
  ExpiresOnTime
  ArmedAsWanted
  GettimeExact
PROPERTIES
  NotifiedInTime
