SPECIFICATION Spec
CONSTANTS
  LastImage = 0
  Images <- FifthPartitionImages
  BootModes = {"FLASH"}
  EfuseRsa = FALSE
  EfuseKeys <- MCEfuseKeys
  EfuseEncOnly = FALSE
  XFSBL_EARLY_HANDOFF = FALSE
  FSBL_DEBUG_INFO = TRUE
  IsCG = FALSE
  TcmBank <- MCTcmBank
  AcWords <- MCAcWords
  Faults = {}
  MaxRestarts = 0
PROPERTIES
  MeasuredBeforeRun
CHECK_DEADLOCK FALSE
