SPECIFICATION FairSpec
CONSTANTS
  CPUs = {c1, c2}
  serial = serial
  memory = memory
  fb = fb
  Consoles = {serial, memory, fb}
  Writable = {serial, fb}
  InitConsoles <- MCInitConsoles
  Slots = 2
  MsgBufSize = 2
  LogLevel = 4
  Levels = {1, 4}
  Sizes = {1, 2}
  Pluggable = {fb}
  MaxPrints = 2
  MaxChanges = 3
  MaxPanics = 1
  NoOwner = NoOwner
CHECK_DEADLOCK FALSE
INVARIANTS
  InOrder
  Delivered
PROPERTIES
  DropsOnlyOnListChange
  CallsReturn
