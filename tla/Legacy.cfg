SPECIFICATION PartsSpec
CONSTANTS
  sam = sam  fay = fay  ada = ada
  Users = {sam, fay, ada}
  RoleOf <- MCRoleOf
  NodeEnv = "production"
  MaxHits = 5
  None = None  Malformed = {bad}  Unread = Unread  Gone = Gone
  Requests = {r1, r2}
  Gpus = {g1}
  Details <- MCDetails
  Sizes = {2}
  Bodies <- MCBodies
  Presented = {"absent", "malformed", "expired", "valid"}
  Patched = {"Maintenance"}
  Offered = {"createGpuRequest", "approveRequest", "rejectRequest", "completeGpuRequest",
             "createGpuResource", "updateGpuResource", "deleteGpuResource",
             "getMyRequests", "getPendingRequests", "getAllRequests", "getAllGpuResources",
             "getAllAuditLogs", "getAvailableGpuResources", "getDashboardSummary", "getUsageAnalytics"}
  Handlers = {h1, h2}
  MaxStarts = 6
  MaxFaults = 1
  Queries <- MCQueries
SYMMETRY Interchangeable
INVARIANTS DecisionsAddUp RacesTellTheTruth EveryAnswerDocumented
CHECK_DEADLOCK FALSE
