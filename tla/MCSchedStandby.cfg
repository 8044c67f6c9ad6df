SPECIFICATION Spec
CONSTANTS
  low = low
  mid1 = mid1
  mid2 = mid2
  high = high
  idle = idle
  Idle = idle
  NoThread = NoThread
  NPriorities = 3
  Threads <- MCThreads
  priority <- MCPriority
INVARIANT
  StandbyRuns
