SPECIFICATION LSpec
CONSTANTS
  ArenaSize = 160
  WordMod = 512
  Requests <- MCRequests
  HostBuild = FALSE
  Asked <- MCAsked
  Counts <- MCCounts
INVARIANT ReallocCopiesInBounds
CHECK_DEADLOCK FALSE
