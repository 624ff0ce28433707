SPECIFICATION Spec
CONSTANTS
  Tables <- MCTables
  MaxRegions = 2
  PadSize = 2
  Invocations <- MCInvocations
  Files <- MCFiles
  Codeplugs <- MCCodeplugs
  Drivers = {"TYT", "Yaesu", "SGL", "Ailunce"}
INVARIANTS
  ToolInv
  UnwrapGivesBack
  ReadByItsMaker
  FlashGivesWrapped
  CSReadsOnlyGenuine
