CONSTANTS
  NULL = NULL
  Thread = {main, idle, t1}
  Idle = idle
  Main = main
  Lock = {l1}
  Sema = {s1}
  IrqSema = {}
  Priority = {1, 2}
  TIME_SLICE = 2
  MaxValue = 1
  USERPROG = FALSE
  MLFQS = TRUE
SPECIFICATION FairSpec
INVARIANTS IInv QueuesOrdered
PROPERTIES RoundRobin 
