SPECIFICATION LibSpec
CONSTANTS
  Timers = {a, b}
  Tick = 2
  MaxNow = 5
  Heads = {h1, h2}
  Elems = {e1, e2, e3}
  Null = Null
  NKeys = 8
  CharBits = 4
  ShortBits = 6
  IntBits = 8
  LongBits = 12
  ConvBufSize = 5
  Flags <- MCFlags
  Widths <- MCWidths
  Precs <- MCPrecs
  Mods <- MCMods
  Convs <- MCConvs
  StarArgs <- MCStarArgs
  IntArgs <- MCIntArgs
  CharArgs = {"k"}
  StrArgs <- MCStrArgs
  BufSizes = {4, 12}
  NoFormat = NoFormat
  small = small
  large1 = large1
  large2 = large2
  slab_cache = slab_cache
  bufctl_cache = bufctl_cache
  SmallCaches <- MCSmall
  LargeCaches <- MCLarge
  PageRuns <- MCPageRuns
  slabcap <- MCSlabcap
  KernelPages <- MCKernelPages
  NPages = 7
  Internal = 1
  Entries = 2
  Counts = {1, 2}
  Bytes = {2}
  PageSize = 2
  Stack = stack
  NoPage = NoPage
INVARIANTS
  ArmedForFirst
  OnlyEarlyStrands
  ListsMatch
  TreeMatches
  RbBalanced
  Truncates
  ReadsBack
  ListsTellRoom
  ChunksAccounted
  Backed
  PagesAccounted
PROPERTY
  FiresInOrder
CHECK_DEADLOCK FALSE
