SPECIFICATION Spec
CONSTANTS
  Setups = {s1}
  MaxFaults = 1
  MaxMoves = 0
CHECK_DEADLOCK FALSE
INVARIANTS
  ExistingDataIsRefused
