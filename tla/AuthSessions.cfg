\* Logins, refreshes and logouts that overlap and may die half-way, or do not overlap.
SPECIFICATION PartsSpec
CONSTANTS
  Tokens = {t1, t2, t3, t4}  Users = {u1, u2}  Requests = {q1, q2}  Serialized = FALSE  None = None
SYMMETRY Interchangeable
INVARIANTS LogoutAllIsFinal InactiveGetsNothing OneUsableSerially ReuseIsFinalSerially
