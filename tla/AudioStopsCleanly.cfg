SPECIFICATION Spec
CONSTANTS
  ChunkBytes <- MCChunkBytes
  ChunksPerWindow <- MCChunksPerWindow
  PoolSlots = 2
  LogSlots = 1
  ReadResults <- WholeReads
  SetupFails = FALSE
  MaxChunk = 4
INVARIANT AudioStopsCleanly
