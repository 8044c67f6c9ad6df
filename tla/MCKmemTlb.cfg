SPECIFICATION KmemSpec
CONSTANTS
  KernelPages <- MCKernelPages
  NPages = 7
  Internal = 1
  Entries = 2
  Counts = {1, 2}
  Bytes = {2}
  PageSize = 2
  Stack = stack
  NoPage = NoPage
CHECK_DEADLOCK FALSE
INVARIANTS
  TlbCoherent
