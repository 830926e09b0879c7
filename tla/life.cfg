\* Two threads and main; a memory error stops the model.
SPECIFICATION Spec
CONSTANTS
  t1 = t1
  t2 = t2
  Main = Main
  NoTask = NoTask
  Threads = {t1, t2}
  RelockNests = FALSE
CHECK_DEADLOCK FALSE
SYMMETRY ThreadSymmetry
INVARIANTS
  TypeOK
  NoLeak
  MemorySafe
  RetvalDelivered
  JoinMutexHeld
