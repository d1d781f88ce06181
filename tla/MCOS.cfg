SPECIFICATION MCSpec
CONSTANTS
  cpu0 = cpu0
  cpu1 = cpu1
  CPUs <- MCCPUs
  Loader = loader
  N = 3
  MaxPrio = 2
  MaxQueueSize = 3
  TimeSlots = {0, 2}
  Sizes = {0, 4}
  Priorities = {0, 1}
  LastStart = 1
  Unreadable = {0, 2}
INVARIANTS
  TypeOK
  OneHome
  RunningListed
  SlotBound
  NoneAbandoned
PROPERTIES
  OnePerSlot
  FullQuantum
  WorkConserving
  ImplementsLife
  EveryProcessFinishes
  MissingProgramEnds
