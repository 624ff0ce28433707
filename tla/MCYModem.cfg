SPECIFICATION FairSpec
CONSTANTS
  Sizes = {16, 14}
  RxLens = {16, 14, 13}
  BlockSize = 4
  U32 = 64
  SeqMod = 3
  MaxErrors = 3
  Builds <- MCBuilds
  Lines <- MCLines
  MaxFaults = 4
  MaxEarly = 1
INVARIANTS
  TypeOK
  StoredInOrder
  NeverAhead
  LengthMeansFile
PROPERTY
  Delivered
CHECK_DEADLOCK FALSE
