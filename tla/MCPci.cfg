SPECIFICATION PciSpec
CONSTANTS
  NBuses = 3
  NSlots = 2
  NFunctions = 2
  Places <- MCPlaces
  Tables <- MCTables
  NWords = 2
  Bytes8 = {0, 1}
CHECK_DEADLOCK FALSE
INVARIANTS
  BusesMapped
