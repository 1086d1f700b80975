SPECIFICATION FairSpec
CONSTANTS
  BANKSIZE = 8
  BANKSIZE_64MB = 16
  FLASH_SIZE_2G = 32
  SIXTY_FOUR_BYTE = 8
  DMA_DATA_TRAN_SIZE = 16
  Cells <- MCCells
  Calls <- MCCalls
  Boards <- MCBoards
INVARIANTS
  QspiTypeOK
PROPERTIES
  CopiesAsPromised CopiesReturn
CHECK_DEADLOCK FALSE
