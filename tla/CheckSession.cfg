SPECIFICATION Spec
CONSTANTS
  Facts <- MCFacts
  MaxMoves = 1
CHECK_DEADLOCK FALSE
INVARIANTS
  RoleDoesNotLeak
  NothingSurvives
  PassMeansAsked
  FailuresHaveACause
  RepairsAreNeeded
