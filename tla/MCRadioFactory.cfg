SPECIFICATION FairSpec
CONSTANTS
  NPlaces = 2
  Devices <- MCDevices
  MaxPorts = 2
  MaxRuns = 2
  MaxChanges = 1
INVARIANTS
  TypeOK
  IndexIsPlace
  ContextAlive
  OpensWhatWasShown
  DriverFitsRadio
PROPERTIES
  EveryRunEnds
CHECK_DEADLOCK FALSE
