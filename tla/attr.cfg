\* Two bits for the priority, three priorities, unsigned shorts up to 7.
SPECIFICATION Spec
CONSTANTS
  c1 = c1
  c2 = c2
  Callers = {c1, c2}
  SHFT_DETACH = 2
  CFG_TPRI_NUM = 3
  USHRT_MAX = 7
  PTHREAD_STACK_MIN = 2
  StackSizes = {1, 2, 8}
INVARIANTS
  TypeOK
  AttrRemembers
  PrioritiesAgree
PROPERTIES
  JoinableFixed
