SPECIFICATION PartsSpec
CONSTANTS
  u1 = u1
  u2 = u2
  ChangingUsers = {u1, u2}
  ChangingRoles = {"SUPER_ADMIN", "DEPARTMENT_ADMIN", "STUDENT"}
  ChangingOps = {"assignUserRole"}
  ChangingAccessTtl = 1
  ChangingMaxSignIn = 1
  ScopeUsers = {u1, u2, u3}
  ScopeRoles = {"SUPER_ADMIN", "DEPARTMENT_ADMIN"}
  ScopeOps = {"assignUserDepartment", "changeUserStatus", "createUser"}
  Users = {u4}
  Departments = {d1, d2}
  Roles <- AllRoles
  Ops <- EveryHandler
  Requests = {q1}
  AccessTtl = 0
  MaxSignIn = 0
  Serialized = TRUE
  Failures = FALSE
  None = None
INVARIANTS RolesAreFresh UsersManagedInDepartment 
PROPERTIES AdminsMadeBySuperAdmin
SYMMETRY Interchangeable
