SPECIFICATION Spec
CONSTANTS
  Proc = {p1, p2}
  Page = {code, stack}
  FilePage = {code}
  ReadOnly = {code}
  StackPage = stack
  Frames = 2
  Slots = 2
  Value = {zero, file}
  Zero = zero
  FileData = file
  NULL = null
SYMMETRY Symmetry
INVARIANTS  NothingLeaks
 
