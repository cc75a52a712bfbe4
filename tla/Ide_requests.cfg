SPECIFICATION Spec
CONSTANTS
  Thread = {t1, t2}
  Main = t1
  Size = 1
  Data = {0, 1}
  Blank = 0
  MaxRequests = 2
  MaxSpurious = 1
  MaxFaults = 1
  NULL = NULL
INVARIANTS ChannelSound
PROPERTIES  Served
