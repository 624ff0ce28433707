SPECIFICATION Spec
CONSTANTS
  map <- MCSmallMap
  AddrSpace = 16
  TransferSize = 2
  Firmwares <- MCSharedSector
  MaxRuns = 1
INVARIANT
  DoneMeansFlashedAlways
CHECK_DEADLOCK FALSE
