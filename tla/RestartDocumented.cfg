SPECIFICATION Spec
CONSTANTS
  Settings <- MCSettings
  Foreign <- MCForeign
  NeedsRestart <- MCNeedsRestart
  PgctlWait = 1
  StopBound = 2
  StartBound = 2
  ReadyBound = 1
  MaxRuns = 1
CHECK_DEADLOCK FALSE
INVARIANTS
  StoppedOnlyInDocumentedCases
