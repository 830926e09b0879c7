\* A descriptor that mq_open returned is looked up.
SPECIFICATION QueueSpec
CONSTANTS
  t1 = t1
  t2 = t2
  Threads = {t1, t2}
  q1 = q1
  q2 = q2
  Blocks = {q1, q2}
  n1 = n1
  n2 = n2
  Names = {n1, n2}
  NoTask = NoTask
  RelockNests = FALSE
CHECK_DEADLOCK FALSE
INVARIANT
  NotFoundMeansBad
