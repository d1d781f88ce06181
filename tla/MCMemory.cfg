SPECIFICATION MCMemSpec
CONSTANTS
  proc0 = proc0
  name0 = name0
  name1 = name1
  NULL = NULL
  Procs <- MCProcs
  RgIds <- MCNames
  Sizes = {1, 2, 3}
  UserIncs = {8, 16}
  LookupMisses = TRUE
  PageSz = 4
  MaxSbrk = 7
  MaxEnd = 16
  FrameSz = 2
  RamFrames = 3
  SwapFrames = 2
  BusPgns = 3
  MaxPgn = 6
  Values = {0, 1}
  UserMaps = {1}
  UserAddrs = {1}
SYMMETRY MCSymmetry
INVARIANTS
  MemTypeOK
  DataKept
  Backed
  FramesAccounted
  SwapOwned
