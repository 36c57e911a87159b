SPECIFICATION Spec
CONSTANTS
  MAX_SOURCE_CHUNKS = 4
  MAX_SHARDS = 5
  MaxFrame = 2
  NalBytes <- MCNalBytes
  KeyFrames = {0}
  ChunkLen = 2
  Policy <- MCPolicy
  STALE_SEQ_WINDOW = 2
  AssemblyTimeout = 0
  MaxTime = 1
  MaxFaults = 1
INVARIANTS
  TypeOK
  FrameIntegrity
  EnoughChunksDelivered
  BoundedReordering
CHECK_DEADLOCK FALSE
