\* 6 ns and us to the second, 3 ticks to the second, a clock of 102 ticks (34 s).
SPECIFICATION ClockSpec
CONSTANTS
  NSPS = 6
  HZ = 3
  UINT_MAX = 101
  USPS = 6
  Timespecs <- MCTimespecs
INVARIANTS
  AcceptedExact
  ClassifiesValid
  NanosleepCovers
  UsleepWithinTick
