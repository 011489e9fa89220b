\* Two batches and a single decision, which overlap or do not; two reservations
\* on a dashboard, on two nodes; reports from Friday,
\* 23 February 2024 (day 19776), over the leap day into the week after.
SPECIFICATION PartsSpec
CONSTANTS
  cs = cs  ee = ee
  Rids = {r1, r2, r3}  Depts = {cs, ee}  DeptOf <- MCDeptOf
  Batches = {b1, b2}  Singles = {d1}  MaxBatch = 2
  MaxAuditFailures = 1  Serialized = FALSE  None = None
  n1 = n1  n2 = n2  lab1 = lab1  lab2 = lab2  r3 = r3
  Units = 2  Nodes = {n1, n2}  LabOf <- MCLabOf  Department = {lab1}
  Windows <- MCWindows  PreviewLimit = 1
  DashRids = {r1, r2}  Times <- MCTimes  Origin = 7
  FirstDay = 19776  LastDay = 19786  MaxCount = 2  Months <- MCMonths
INVARIANTS DashboardIsWhole PeriodsTile
PROPERTIES AllOrNothing OwnDepartmentOnly AppliedToPendingOnly EveryBatchAnswered
