SPECIFICATION PlatformSpec
CONSTANTS
  SpanSize = 8
  SourceAddresses <- MCSourceAddresses
  Sizes = {1, 2, 3}
  Aligns = {1, 2}
  Refill = 4
  RefillBelow = 8
  SmpLists <- MCSmpLists
  MaxCores = 3
  Page = 2
  Large = 4
  Huge = 8
  MemEntries <- MCMemEntries
  Sections <- MCSections
  NBuses = 3
  NSlots = 2
  NFunctions = 2
  Places <- MCPlaces
  Tables <- MCTables
  NWords = 2
  Bytes8 = {0, 1}
  o1 = o1
  o2 = o2
  o3 = o3
  o4 = o4
  Objects <- MCObjects
  Levels = {1, 2}
  PerLevel = 2
CHECK_DEADLOCK FALSE
INVARIANTS
  BootOrdered
  HhdmExact
  ScanExact
  ConfigMatches
  SharingAgreed
  SegmentsTile
  FreeListsExact
  ImportsInUse
PROPERTIES
  ImplementsAllocator
  AllCoresRun
