SPECIFICATION FairLSpec
CONSTANTS
  ArenaSize = 160
  WordMod = 512
  Requests <- MCRequests
  HostBuild = FALSE
  Asked <- MCAsked
  Counts <- MCCounts
INVARIANTS ListTiles ListOwned ListCoalesced HeldIsBacked NothingUnreachable CopyBetweenOwnedBlocks
PROPERTIES FirstFit CallsEnd HeapUntilLost
CHECK_DEADLOCK FALSE
