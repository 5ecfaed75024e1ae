SPECIFICATION FairSpec
CONSTANTS
  Deadline = 2
  CreateSteps = 3
  MaxFaults = 3
CHECK_DEADLOCK FALSE
INVARIANTS
  DoneIsCommissioned
  NotShutOutByItself
  LimitLeavesServiceRunning
PROPERTIES
  ConfigKeepsContract
  EventuallyDone
