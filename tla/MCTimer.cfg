SPECIFICATION FairSpec
CONSTANTS
  cpu0 = cpu0
  cpu1 = cpu1
  loader = loader
  Devices <- MCDevices
  MaxSlots = 2
INVARIANTS
  TypeOK
  Lockstep
  NoLostWakeup
  FreedIsUnused
PROPERTIES
  MainEnds
  ImplementsBarrier
  ImplementsBarrierFair
