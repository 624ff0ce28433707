SPECIFICATION Spec
CONSTANTS
  Sizes = {12}
  RxLens = {12}
  BlockSize = 4
  U32 = 64
  SeqMod = 3
  MaxErrors = 5
  Builds <- MCUnsigned
  Lines <- MCCorrupting
  MaxFaults = 5
  MaxEarly = 0
INVARIANT
  SentMeansReceived
CHECK_DEADLOCK FALSE
