\* Three threads: one holds the mutex and one waits for it when the third
\* initializes it again.  A failed mq_open may stop them all.
SPECIFICATION FairQueueSpec
CONSTANTS
  t1 = t1
  t2 = t2
  t3 = t3
  Threads = {t1, t2, t3}
  q1 = q1
  Blocks = {q1}
  n1 = n1
  Names = {n1}
  NoTask = NoTask
  RelockNests = FALSE
CHECK_DEADLOCK FALSE
INVARIANTS
  MuxAccounted
PROPERTIES
  CallsReturn
