SPECIFICATION Spec
CONSTANTS
  n1 = n1  n2 = n2  lab = lab
  Nodes = {n1}  Labs = {lab}  LabOf <- MCLabOf
  GpuCount <- MCGpuCount  MemoryGB <- MCMemoryGB  Demands <- AnyNode
  Maintenance <- NoMaintenance
  Rids = {r1, r2}  Bookers = {b1, b2}  Deciders = {}  Sweepers = {s1}
  MaxTime = 2  MaxAborts = 0  Serialized = FALSE  None = None
INVARIANTS NoDoubleBooking
