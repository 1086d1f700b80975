SPECIFICATION FairSpec
CONSTANTS
  LastImage = 2
  Images <- TypicalImages
  BootModes = {"FLASH"}
  EfuseRsa = FALSE
  EfuseKeys <- MCEfuseKeys
  EfuseEncOnly = FALSE
  XFSBL_EARLY_HANDOFF = FALSE
  FSBL_DEBUG_INFO = TRUE
  IsCG = FALSE
  TcmBank <- MCTcmBank
  AcWords <- MCAcWords
  Faults = {"fail", "hang", "late"}
  MaxRestarts = 2
INVARIANTS
  TypeOK LogWellFormed NothingRejectedRuns HandoffListOK R5UsageKnown EndlessWaitIsGuarded PlMeasured
  LabelsGoByOrder
PROPERTIES
  BootIsMeasured WatchdogFallsBack BootSettles
CHECK_DEADLOCK FALSE
