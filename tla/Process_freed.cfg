CONSTANTS
  NULL = NULL
  Proc = {main, p1, p2}
  Main = main
  Status = {1}
  MaxTid = 3
SPECIFICATION FairSpec
PROPERTY AlwaysFreed
