SPECIFICATION Spec
CONSTANTS
  proc0 = proc0
  proc1 = proc1
  NULL = NULL
  Procs <- MCProcs
  Levels = 3
  Fan = 2
  Weight <- MCWeight
  Pages = {3, 12}
  Fpns <- MCFpns
  SwpOffs <- MCSwpOffs
  MaxRange = 2
  MaxTables = 4
  MaxCalls = 3
SYMMETRY MCSymmetry
INVARIANTS
  TypeOK
  EntryOfPage
  CrashOnlyByRace
  EveryTableListed
PROPERTIES
  ImplementsFlat
