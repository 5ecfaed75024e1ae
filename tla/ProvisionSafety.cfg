SPECIFICATION Spec
CONSTANTS
  Run = {r1, r2}
  Options <- MCOptions
SYMMETRY RunSymmetry
CHECK_DEADLOCK FALSE
INVARIANTS
  ToolTrendsReadable
  CommissionedStays
  SchemaVersionIsAFloor
  FailuresAreExplained
  TailFailsOnlyOverEarlyTrends
PROPERTIES
  LoginFailsOnlyAfterAnotherRun
  WriterPasswordKept
  ReadableFromThenOn
