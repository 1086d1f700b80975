SPECIFICATION Spec
CONSTANTS
  LastImage = 1
  Images <- CutShortImages
  BootModes = {"FLASH"}
  EfuseRsa = FALSE
  EfuseKeys <- MCEfuseKeys
  EfuseEncOnly = FALSE
  XFSBL_EARLY_HANDOFF = FALSE
  FSBL_DEBUG_INFO = TRUE
  IsCG = FALSE
  TcmBank <- MCTcmBank
  AcWords <- MCAcWords
  Faults = {"short"}
  MaxRestarts = 0
PROPERTIES
  StartedFromThisImage
CHECK_DEADLOCK FALSE
