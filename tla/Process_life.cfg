CONSTANTS
  NULL = NULL
  Proc = {main, p1, p2}
  Main = main
  Status = {1}
  MaxTid = 4
SPECIFICATION FairSpec
INVARIANTS NothingStale
PROPERTIES  CallsReturn
