SPECIFICATION FairSpec
CONSTANTS
  ChunkBytes <- MCChunkBytes
  ChunksPerWindow <- MCChunksPerWindow
  PoolSlots = 2
  LogSlots = 2
  ReadResults <- WholeReads
  SetupFails = FALSE
  MaxChunk = 6
INVARIANTS
  TypeOK
  LogPoolAccounting
  NoOverrun
  WindowIntact
  NoOrphanedWait
PROPERTIES
  GivesUpOnlyWhenLogFull
  StopIsShort
  ResultsSpec
  PrintedOnce
  SentIsConsumed
  StopEndsTasks
