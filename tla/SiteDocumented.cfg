SPECIFICATION Spec
CONSTANTS
  Deadline = 2
  CreateSteps = 3
  MaxFaults = 2
CHECK_DEADLOCK FALSE
INVARIANTS
  RerunContinues
