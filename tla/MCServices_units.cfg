CONSTANTS
  Worker = {t1, t2}
  NONE = NONE
SPECIFICATION Spec
INVARIANTS HeapSound TranslationsSound   
PROPERTIES  ArchiveFaithful
CHECK_DEADLOCK FALSE
