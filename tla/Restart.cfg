SPECIFICATION FairSpec
CONSTANTS
  Settings <- MCSettings
  Foreign <- MCForeign
  NeedsRestart <- MCNeedsRestart
  PgctlWait = 1
  StopBound = 2
  StartBound = 2
  ReadyBound = 1
  MaxRuns = 2
CHECK_DEADLOCK FALSE
INVARIANTS
  NoLockConflict
  StrandedOnlyByAFault
  BoundsOnlyForAHang
PROPERTIES
  ActiveIsTrueProp
  DiagnosisIsTrueProp
  ImplementsContract
  RunEnds
  StopIsUndone
