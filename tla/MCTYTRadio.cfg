SPECIFICATION FairSpec
CONSTANTS
  map <- MCSmallMap
  AddrSpace = 16
  TransferSize = 2
  Firmwares <- MCFirmwares
  MaxRuns = 2
INVARIANTS
  IInv
  DoneMeansFlashed
  ProgrammedInPlace
  NeverGarbled
  Footprint
PROPERTIES
  KeepsPromise
  Terminates
CHECK_DEADLOCK FALSE
