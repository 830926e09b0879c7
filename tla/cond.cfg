\* Two threads; the threads that lock also unlock.
SPECIFICATION FairSpec
CONSTANTS
  t1 = t1
  t2 = t2
  Threads = {t1, t2}
  NoTask = NoTask
  RelockNests = FALSE
  MaxTokens = 3
CHECK_DEADLOCK FALSE
INVARIANTS
  TypeOK
  NoLostWakeup
PROPERTIES
  TimedWaitReturns
