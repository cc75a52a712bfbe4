CONSTANTS
  proc = proc
  prog = prog
  file1 = file1
  file2 = file2
  NULL = NULL
  Proc = {proc}
  Name = {prog, file1, file2}
  BadName = {}
  Program = {prog}
  Garbage = 1
  Length = {0, 3}
  Byte = {0, 1}
  BLOCK_SECTOR_SIZE = 2
  SectorCnt = 7
  EntryCnt = 2
  FdCnt = 3
  Size = {3}
  Position = {1}
  MaxFiles = 2
  MaxLoads = 1
SPECIFICATION Spec
VIEW View
SYMMETRY Renaming
INVARIANTS OpenKeepsBlocks DiskSound OpenFilesAgree ReadsContents
PROPERTIES  ImplementsStore
