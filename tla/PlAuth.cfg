SPECIFICATION Spec
CONSTANTS
  ChunkSize = 4
  AcSize = 2
  HdrSize = 3
  ShaBlock = 3
  NoOfHashs = 2
  Bitstreams <- MCBitstreams
  MaxWrites = 2
INVARIANTS
  PlTypeOK SignedWhenCompared IntactIsLoaded DecryptedToTheEnd
PROPERTIES
  LoadsAsPromised
CHECK_DEADLOCK FALSE
