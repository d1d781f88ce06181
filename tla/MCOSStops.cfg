SPECIFICATION FairSpec
CONSTANTS
  cpu0 = cpu0
  cpu1 = cpu1
  CPUs <- MCOneCPU
  Loader = loader
  N = 1
  MaxPrio = 1
  MaxQueueSize = 1
  TimeSlots = {2}
  Sizes = {1}
  Priorities = {0}
  LastStart = 1
  Unreadable = {0}
PROPERTIES
  EveryCPUStops
