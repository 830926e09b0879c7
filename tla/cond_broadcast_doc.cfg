\* Three threads: one broadcasts, one was counted, one comes late.
SPECIFICATION Spec
CONSTANTS
  t1 = t1
  t2 = t2
  t3 = t3
  Threads = {t1, t2, t3}
  NoTask = NoTask
  RelockNests = FALSE
  MaxTokens = 2
CHECK_DEADLOCK FALSE
INVARIANTS
  BroadcastUnblocksAll
