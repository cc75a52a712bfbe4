CONSTANTS
  NULL = NULL
  Reader = {r1, r2}
  Writer = {w1}
  Key = {b1, b2}
  Char = {b1}
  INTQ_BUFSIZE = 3
SPECIFICATION FairSpec
CHECK_DEADLOCK FALSE
INVARIANTS NobodyForgotten
PROPERTIES QueuesAreFifos 
