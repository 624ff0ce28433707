SPECIFICATION FairSpec
CONSTANTS
  Sizes <- MCSizes
  TransferSize = 2
  ChecksumBlockSize = 4
  FlashSize = 9
  MaxRuns = 4
INVARIANTS
  TypeOK
  InStep
  SumCovers
  ImageArrives
PROPERTIES
  UpdateEnds
CHECK_DEADLOCK FALSE
