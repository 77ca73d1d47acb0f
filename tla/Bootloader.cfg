SPECIFICATION FairSpec
CONSTANTS
  Base = 4
  CR = 3
  LF = 2
  SizeBytes = 2
  RxFifo = 2
  TxFifo = 2
  Length <- MCLength
  Images <- MCImages
INVARIANTS TypeOK NothingLost ImageLoaded
PROPERTY UploadEnds
CHECK_DEADLOCK FALSE
