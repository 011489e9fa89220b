SPECIFICATION PartsSpec
CONSTANTS
  ada = ada  bob = bob  eve = eve
  ApprovalRids = {r1, r2}  ApprovalCalls = 3  ApprovalBatches = 2
  People = {ada, bob, eve}
  PeopleRole <- MCPeopleRole
  TabCalls = {q1, q2, q3}
  Rids = {r1}
  Filters = {"COMPLETED", "CANCELLED", "REJECTED"}
  MaxCalls = 4
  MaxBatches = 0
  None = None
INVARIANTS SessionsAgree ListsAreCurrent
PROPERTIES BrowsersSettle
\* The parts bound what they send, and stop.
CHECK_DEADLOCK FALSE
