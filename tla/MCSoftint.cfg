SPECIFICATION FairSpec
CONSTANTS
  device = device
  clock = clock
  Dpcs = {d1, d2}
  NoDpc = NoDpc
  Irqs <- MCIrqs
  level <- MCLevel
INVARIANTS
  PassiveIsQuiet
  QueueConsistent
PROPERTIES
  LevelRestored
  ImplementsDpcQueue
