SPECIFICATION Spec
CONSTANTS
  map <- MCMap
  AddrSpace = 16
  TransferSize = 2
  Firmwares <- MCFirmwares
  MaxRuns = 2
INVARIANTS
  TypeOK
PROPERTIES
  ImplementsTYTRadio
CHECK_DEADLOCK FALSE
