SPECIFICATION Spec
CONSTANTS
  n1 = n1  n2 = n2  lab = lab
  Nodes = {n1, n2}  Labs = {lab}  LabOf <- MCLabOf
  GpuCount <- MCGpuCount  MemoryGB <- MCMemoryGB  Demands <- SmallOrLarge
  Maintenance <- MaintenanceMidway
  Rids = {r1, r2}  Bookers = {b1}  Deciders = {d1}  Sweepers = {s1}
  MaxTime = 3  MaxAborts = 0  Serialized = TRUE  None = None
INVARIANTS NoDoubleBooking ExactAccounting
PROPERTIES ImplementsLifecycle
