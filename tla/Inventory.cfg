SPECIFICATION PartsSpec
CONSTANTS
  Ids = {i1, i2}
  Keys = {k1, k2}
  Ops <- EveryOp
  SeedTables = {"Organization", "Department", "Laboratory", "GpuNode", "User"}
  Requests = {q1, q2}
  Serialized = FALSE
  None = None
SYMMETRY Interchangeable
INVARIANTS NoServerErrorSerially
PROPERTIES AnswersAreTrue RacesAreConflicts ReservationsKept
