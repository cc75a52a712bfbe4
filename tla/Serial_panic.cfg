CONSTANTS
  NULL = NULL
  Reader = {r1, r2}
  Writer = {w1}
  Key = {b1}
  Char = {b1}
  INTQ_BUFSIZE = 3
SPECIFICATION Spec
INVARIANT WaitAssertion
