SPECIFICATION FairSpec
CONSTANTS
  LastImage = 0
  Images <- FourPartitionImages
  BootModes = {"FLASH"}
  EfuseRsa = FALSE
  EfuseKeys <- MCEfuseKeys
  EfuseEncOnly = FALSE
  XFSBL_EARLY_HANDOFF = FALSE
  FSBL_DEBUG_INFO = FALSE
  IsCG = FALSE
  TcmBank <- MCTcmBank
  AcWords <- MCAcWords
  Faults = {}
  MaxRestarts = 0
PROPERTIES
  FirstSoundImageRuns
CHECK_DEADLOCK FALSE
