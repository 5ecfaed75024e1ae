SPECIFICATION Spec
CONSTANTS
  Service = {"postgresql", "pg"}
  PostgresName = {"postgresql"}
  Machines <- MCMachines
  Ports = {5432, 5433}
  OptionPort = 5432
  Expected = 17
  Other = 14
  MaxMoves = 3
CHECK_DEADLOCK FALSE
INVARIANTS
  StillMachineIsClassified
  CandidatesAreNotOverlooked
  UnreadableIsReal
  FoundServesItsPort
