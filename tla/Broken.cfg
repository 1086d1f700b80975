SPECIFICATION FairSpec
CONSTANTS
  LastImage = 23
  Images <- BrokenImages
  BootModes = {"FLASH"}
  EfuseRsa = FALSE
  EfuseKeys <- MCEfuseKeys
  EfuseEncOnly = FALSE
  XFSBL_EARLY_HANDOFF = FALSE
  FSBL_DEBUG_INFO = TRUE
  IsCG = TRUE
  TcmBank <- MCTcmBank
  AcWords <- MCAcWords
  Faults = {}
  MaxRestarts = 5
INVARIANTS
  NothingRejectedRuns LogFits SoundImageIsKept
PROPERTIES
  FirstSoundImageRuns
CHECK_DEADLOCK FALSE
