SPECIFICATION FairSpec
CONSTANTS
  n1 = n1  n2 = n2  lab = lab
  Nodes = {n1}  Labs = {lab}  LabOf <- MCLabOf
  GpuCount <- MCGpuCount  MemoryGB <- MCMemoryGB  Demands <- AnyNode
  Maintenance <- NoMaintenance
  Rids = {r1}  Bookers = {b1}  Deciders = {d1}  Sweepers = {s1, s2}
  MaxTime = 2  MaxAborts = 1  Serialized = FALSE  None = None
PROPERTIES ApprovedSettles
