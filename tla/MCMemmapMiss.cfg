SPECIFICATION Spec
CONSTANTS
  cpu0 = cpu0
  cpu1 = cpu1
  p1 = p1
  p2 = p2
  p3 = p3
  CPUs <- MCCPUs
  Procs <- MCProcs
  NULL = NULL
  MaxQueueSize = 3
INVARIANTS
  LookupFinds
