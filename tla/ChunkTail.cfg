SPECIFICATION Spec
CONSTANTS
  ChunkSize = 4
  AcSize = 2
  HdrSize = 3
  ShaBlock = 3
  NoOfHashs = 2
  Bitstreams <- TwoChunks
  MaxWrites = 1
INVARIANTS
  ChunksAreReauthenticated
CHECK_DEADLOCK FALSE
