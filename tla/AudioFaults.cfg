SPECIFICATION Spec
CONSTANTS
  ChunkBytes <- LongChunkBytes
  ChunksPerWindow <- MCChunksPerWindow
  PoolSlots = 2
  LogSlots = 2
  ReadResults <- AnyReads
  SetupFails = TRUE
  MaxChunk = 5
INVARIANTS
  PoolAccounting
  OverrunIsShort
  WindowCounted
PROPERTY StreamSpec
\* A failing rt_task_set_periodic leaves treatment blocked for ever.
CHECK_DEADLOCK FALSE
