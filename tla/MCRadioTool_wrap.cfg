SPECIFICATION Spec
CONSTANTS
  Tables <- MCTables
  MaxRegions = 2
  PadSize = 2
  Invocations <- MCInvocations
  Files <- MCFiles
  Codeplugs <- MCCodeplugs
  Drivers = {"TYT", "Yaesu", "SGL", "Ailunce"}
CHECK_DEADLOCK FALSE
INVARIANTS
  WrapsAsMarked
