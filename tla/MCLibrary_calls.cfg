CONSTANTS
  Elem = {e1, e2, e3}
  NONE = NONE
SPECIFICATION Spec
INVARIANTS  MemoryExact TextFaithful BootFaithful  
PROPERTIES CollectionsFaithful
CHECK_DEADLOCK FALSE
