SPECIFICATION MemSpec
CONSTANTS
  proc0 = proc0
  name0 = name0
  name1 = name1
  NULL = NULL
  Procs <- MCProcs
  RgIds <- MCNames
  Sizes = {1, 2}
  UserIncs = {}
  LookupMisses = FALSE
  PageSz = 4
  MaxSbrk = 8
  MaxEnd = 8
  FrameSz = 2
  RamFrames = 4
  SwapFrames = 2
  BusPgns = 8
  MaxPgn = 8
  UserMaps = {}
  UserAddrs = {}
  Values = {0}
SYMMETRY MCSymmetry
INVARIANTS
  RangeMapped
