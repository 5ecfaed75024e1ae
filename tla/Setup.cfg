SPECIFICATION Spec
CONSTANTS
  Setups = {s1}
  MaxFaults = 1
  MaxMoves = 1
CHECK_DEADLOCK FALSE
INVARIANTS
  InstallsOnABareMachine
  FinishedPageIsTrue
  PasswordRefusalIsTrue
  AdviceSparesTheArchive
