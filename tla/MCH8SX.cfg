SPECIFICATION FairSpec
CONSTANTS
  Files <- MCFiles
  Cells = 3
  Refusals <- MCAcknowledged
  Faults = {"transfer"}
  MaxRuns = 3
INVARIANTS
  TypeOK
  ProgramsErased
  DoneMeansImage
PROPERTIES
  DialogueEnds
CHECK_DEADLOCK FALSE
