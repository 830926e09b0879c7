\* Two threads, one mutex; the property is what pthread.h says of the call.
SPECIFICATION Spec
CONSTANTS
  t1 = t1
  t2 = t2
  Threads = {t1, t2}
  NoTask = NoTask
  RelockNests = FALSE
  MaxClaims = 2
PROPERTIES
  TrylockFailsIfLocked
