CONSTANTS
  NULL = NULL
  Thread = {main, idle, t1, t2}
  Idle = idle
  Main = main
  Lock = {l1}
  Sema = {s1}
  IrqSema = {s1}
  Priority = {1, 2}
  TIME_SLICE = 2
  MaxValue = 1
  USERPROG = TRUE
  MLFQS = FALSE
SPECIFICATION Spec
SYMMETRY Symmetry
INVARIANTS NoThreadLost NoLostWakeup QueuesOrdered
PROPERTIES ImplementsMutex
