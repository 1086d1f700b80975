SPECIFICATION Spec
CONSTANTS
  LastImage = 10
  Images <- SecureImages
  BootModes = {"FLASH", "USB", "JTAG", "OTHER"}
  EfuseRsa = TRUE
  EfuseKeys <- MCEfuseKeys
  EfuseEncOnly = TRUE
  XFSBL_EARLY_HANDOFF = FALSE
  FSBL_DEBUG_INFO = TRUE
  IsCG = FALSE
  TcmBank <- MCTcmBank
  AcWords <- MCAcWords
  Faults = {"fail", "hang", "late", "short"}
  MaxRestarts = 1
INVARIANTS
  EfusePolicyHolds SignersInForce EndlessWaitIsGuarded FsblMeasuredWithTables
CHECK_DEADLOCK FALSE
