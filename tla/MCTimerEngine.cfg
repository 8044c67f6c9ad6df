SPECIFICATION Spec
CONSTANTS
  Timers = {a, b}
  Tick = 2
  MaxNow = 5
SYMMETRY Symmetry
CHECK_DEADLOCK FALSE
INVARIANTS
  QueuedIsServed
