SPECIFICATION FairSpec
CONSTANTS
  LastImage = 2
  Images <- EarlyImages
  BootModes = {"FLASH"}
  EfuseRsa = FALSE
  EfuseKeys <- MCEfuseKeys
  EfuseEncOnly = FALSE
  XFSBL_EARLY_HANDOFF = TRUE
  FSBL_DEBUG_INFO = FALSE
  IsCG = FALSE
  TcmBank <- MCTcmBank
  AcWords <- MCAcWords
  Faults = {"fail", "hang", "late"}
  MaxRestarts = 1
INVARIANTS
  HandoffListOK R5UsageKnown LoadedCodeSurvives AtfTableIsCurrent
PROPERTIES
  MeasuredBeforeRun BootSettles
CHECK_DEADLOCK FALSE
