SPECIFICATION Spec
CONSTANTS
  SHA3_BLOCK_LEN = 3
  READ_BUFFER_SIZE = 2
  HDR_SIZE = 3
  TAG_SIZE = 1
  Bitstreams <- MCBitstreams
  MaxWrites = 0
INVARIANTS
  DigestOfCompleteData
CHECK_DEADLOCK FALSE
