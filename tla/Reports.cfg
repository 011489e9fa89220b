\* Day 19813 is Sunday, 31 March 2024, of which the run begins in the last half:
\* the next day begins a week and a month.  Moment 0 of the lists is the beginning
\* of Sunday, 4 January 1970.
SPECIFICATION ReportsSpec
CONSTANTS
  n1 = n1  n2 = n2  lab1 = lab1  lab2 = lab2  cs = cs  ee = ee  d2 = d2  u1 = u1  u2 = u2  u3 = u3  r3 = r3
  None = None  Units = 2  Epoch = 39627  Nodes = {n1, n2}  Times <- ReportTimes
  ReportRids = {r1, r2}  Departments = {cs, d2}  Courses = {c1, c2}  Users = {u1, u2, u3}
  NodeDept <- MCNodeDept  UserDept <- MCUserDept  RoleAtFirst <- MCRoles
  Movers = {u1, u3}  Beating = {n1}  SoonDegraded = 1  SoonOffline = 1
  Count = 2  Limit = 1
  DashRids = {r3, r4, r5}  Origin = 6  LabOf <- MCLabOf  Department = {lab1}
  Windows <- MCWindows  PreviewLimit = 1
  Rids = {r6}  Depts = {cs}  DeptOf <- MCDeptOf  Batches = {}  Singles = {}  MaxBatch = 0
  MaxAuditFailures = 0  Serialized = FALSE
  FirstDay = 0  LastDay = 0  MaxCount = 1  Months = {}
SYMMETRY Interchangeable
INVARIANTS ReportsAreConsistent BreakdownsAgree ViewsAgree
CHECK_DEADLOCK FALSE
