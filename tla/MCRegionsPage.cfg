SPECIFICATION Spec
CONSTANTS
  proc0 = proc0
  proc1 = proc1
  NULL = NULL
  Procs <- MCOneProc
  RgIds <- MCTwoNames
  Sizes = {3, 5}
  UserIncs = {}
  LookupMisses = FALSE
  PageSz = 4
  MaxSbrk = 9
  MaxEnd = 9
INVARIANTS
  IncreasedLimit
