\* Bookings, decisions and sweep passes that overlap in every order.
SPECIFICATION RacesSpec
CONSTANTS
  n1 = n1  n2 = n2  lab = lab
  Nodes = {n1, n2}  Labs = {lab}  LabOf <- MCLabOf
  GpuCount <- MCGpuCount  MemoryGB <- MCMemoryGB  Demands <- AnyNode
  Maintenance <- MaintenanceMidway
  Rids = {r1, r2}  Bookers = {b1}  Deciders = {d1}  Sweepers = {s1, s2}
  MaxTime = 3  MaxAborts = 1  Serialized = FALSE  None = None
SYMMETRY Interchangeable
INVARIANTS TypeOK NoMaintenanceOverlap UseOnlyAfterApproval SessionWithinWindow NeverEarly
