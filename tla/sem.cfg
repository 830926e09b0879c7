\* Two threads; 2 ns to a tick, 2 ticks to a second, a clock of 8 ticks.
SPECIFICATION FairSpec
CONSTANTS
  t1 = t1
  t2 = t2
  Threads = {t1, t2}
  NSPS = 4
  HZ = 2
  UINT_MAX = 7
  MaxVal = 1
  Timespecs <- MCTimespecs
INVARIANTS
  TypeOK
  NoTimeNoBlock
PROPERTIES
  NeverEarly
  TimedCallReturns
