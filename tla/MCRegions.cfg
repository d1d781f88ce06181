SPECIFICATION Spec
CONSTANTS
  proc0 = proc0
  proc1 = proc1
  NULL = NULL
  Procs <- MCProcs
  RgIds <- MCTwoNames
  Sizes = {1, 2, 3}
  UserIncs = {1}
  LookupMisses = TRUE
  PageSz = 4
  MaxSbrk = 5
  MaxEnd = 5
INVARIANTS
  NoOverlap
  Accounted
PROPERTIES
  ImplementsHeap
