SPECIFICATION FairSpec
CONSTANTS
  Operations <- TYTOperations
  MaxOps = 3
  AbortBusy = {"stalls", "ignores", "idles"}
  AbortError = {"stalls", "ignores", "idles"}
  ShortReplies = FALSE
INVARIANTS
  TypeOK
  ReadsItsRegister
  InSetTime
PROPERTIES
  KeepsChannel
  EveryCallEnds
CHECK_DEADLOCK FALSE
