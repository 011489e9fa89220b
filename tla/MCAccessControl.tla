-------------------------- MODULE MCAccessControl --------------------------
(* Small instances of AccessControl for TLC: roles that change while tokens  *)
(* live on ("roles"), users of two departments who administer each other     *)
(* ("scope"), and every route with every role ("routes").                    *)
EXTENDS AccessControl, TLC

CONSTANTS
  u1, u2,                                                       \* users who may be swapped
  ChangingUsers, ChangingRoles, ChangingOps, ChangingAccessTtl, ChangingMaxSignIn, \* the instance of "roles"
  ScopeUsers, ScopeRoles, ScopeOps                              \* the instance of "scope"
VARIABLE part

EveryHandler == DOMAIN ApiRouter

Changing == INSTANCE AccessControl WITH
  Users <- ChangingUsers, Roles <- ChangingRoles, Ops <- ChangingOps, AccessTtl <- ChangingAccessTtl,
  MaxSignIn <- ChangingMaxSignIn, Serialized <- FALSE
Scope == INSTANCE AccessControl WITH
  Users <- ScopeUsers, Roles <- ScopeRoles, Ops <- ScopeOps

\* What ConstantsAssumption says of an instance.
ASSUME InstancesAssumption ==
  /\ ChangingRoles \subseteq AllRoles /\ ScopeRoles \subseteq AllRoles
  /\ ChangingOps \subseteq EveryHandler /\ ScopeOps \subseteq EveryHandler
  /\ ChangingAccessTtl \in Nat /\ ChangingMaxSignIn \in Nat
  /\ None \notin ChangingUsers \cup ScopeUsers

\* One sign-in at a time, next to one token, or two tokens; and no sign-in during
\* a request where no role changes.
SigningIn == UNION {{<<u, s>> : s \in signing[u]} : u \in DOMAIN signing}
Held == UNION {{<<u, t>> : t \in tokens[u]} : u \in DOMAIN tokens}
Within ==
  /\ Cardinality(SigningIn) <= 1
  /\ part = "roles" => Cardinality(SigningIn) + Cardinality(Held) <= 2
  /\ part # "roles" /\ SigningIn # {} => \A q \in Requests : req[q].pc = "idle"

PartsInit ==
  \/ part = "roles" /\ Changing!Init /\ \A u \in ChangingUsers : user[u].active
  \/ part = "scope" /\ Scope!Init
  \/ part = "routes" /\ Init

PartsNext ==
  /\ \/ part = "roles" /\ Changing!Next
     \/ part = "scope" /\ Scope!Next
     \/ part = "routes" /\ Next
  /\ UNCHANGED part
  /\ Within'

PartsSpec == PartsInit /\ [][PartsNext]_<<vars, part>>

Interchangeable == Permutations({u1, u2}) \cup Permutations(Departments)

-----------------------------------------------------------------------------
\* The role of a request is no staler than an access token may be old.
RolesAreFresh == part = "roles" => Changing!RoleStalenessBounded

\* Only a SUPER_ADMIN makes administrators.
AdminsMadeBySuperAdmin == [][part = "roles" => Changing!MakesAdminsAsSuperAdmin]_<<vars, part>>

\* Users are managed within the department, one request at a time.
UsersManagedInDepartment == part = "scope" => Scope!WritesStayInDepartment

\* The middleware decides as the table of endpoints in docs/api.md says.
RoutesDecideAsDocumented == part = "routes" => DecidesAsDocumented
=============================================================================
