\* Two threads that may keep the mutex for ever; relocking does not nest.
SPECIFICATION FairSpec
CONSTANTS
  t1 = t1
  t2 = t2
  Threads = {t1, t2}
  NoTask = NoTask
  RelockNests = FALSE
  MaxClaims = 2
INVARIANTS
  TypeOK
  NoOrphanLock
  NoSelfDeadlock
PROPERTIES
  OnlyOwnerReleases
  DeadlineReturns
