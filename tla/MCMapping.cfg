SPECIFICATION Spec
CONSTANTS
  proc0 = proc0
  proc1 = proc1
  proc2 = proc2
  NULL = NULL
  Procs <- MCProcs
  RamFrames = 2
  SwapFrames = 2
  MaxPgn = 4
  MaxRange = 3
  MaxCalls = 5
SYMMETRY MCSymmetry
INVARIANTS
  TypeOK
  FramesApart
  VictimsInRam
  EveryPageListed
  FreedOnlyByRace
