SPECIFICATION Spec
CONSTANTS
  Files <- MCFiles
  Cells = 2
  Refusals = {}
  Faults = {"cell"}
  MaxRuns = 1
INVARIANTS
  DamageIsNoticed
CHECK_DEADLOCK FALSE
