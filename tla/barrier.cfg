\* Four threads; barriers for nobody (refused), two and three of them.
SPECIFICATION FairSpec
CONSTANTS
  t1 = t1
  t2 = t2
  t3 = t3
  t4 = t4
  Threads = {t1, t2, t3, t4}
  Counts = {0, 2, 3}
  NoTask = NoTask
  RelockNests = FALSE
INVARIANTS
  TypeOK
  NoEarlyRelease
  NoStranded
  OneSerial
PROPERTIES
  RendezvousSpec
  AllReleased
