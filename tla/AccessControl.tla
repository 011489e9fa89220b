--------------------------- MODULE AccessControl ---------------------------
(***************************************************************************)
(* Who may do what in apps/api, and the administration of users that       *)
(* changes it.                                                             *)
(*                                                                         *)
(* A request carries an access token, which holds the role its user had    *)
(* when it was signed and lives for AccessTtl.  It passes authenticate,    *)
(* requireRole, and requireDepartmentScope or requireOwnership; then its   *)
(* handler reads and writes.  Each database access is a step of its own:   *)
(* others, and the clock, may come in between.                             *)
(***************************************************************************)
EXTENDS Integers, FiniteSets, ApiRoutes

CONSTANTS
  Users, Departments,
  Roles,       \* the roles of the instance
  Ops,         \* the handlers of the instance
  Requests,    \* slots for requests in flight
  AccessTtl,   \* accessTokenTtlMinutes
  MaxSignIn,   \* the longest that a token is signed after the read of its user
  Serialized,  \* TRUE: a request starts only when none is in flight
  Failures,    \* TRUE: a statement of a request may throw
  None         \* no department, no user

ASSUME ConstantsAssumption ==
  /\ Roles \subseteq AllRoles
  /\ Ops \subseteq DOMAIN ApiRouter
  /\ AccessTtl \in Nat /\ MaxSignIn \in Nat
  /\ Serialized \in BOOLEAN /\ Failures \in BOOLEAN
  /\ None \notin Departments \cup Users

VARIABLES
  user,     \* the users table; role None for an id that is not in it
  signing,  \* the logins and refreshes that have read their user: the role, and the age
  tokens,   \* the access tokens each user has: the role, and the age
  since,    \* history: how long ago a user last had a role
  req       \* the requests in flight

vars == <<user, signing, tokens, since, req>>

MaybeDepartment == Departments \cup {None}
UserRow == [role : Roles \cup {None}, department : MaybeDepartment, active : BOOLEAN]
NoUser == [role |-> None, department |-> None, active |-> FALSE]
LongAgo == MaxSignIn + AccessTtl + 1

IdleRequest == [pc |-> "idle", endpoint |-> "none", op |-> "none", actor |-> None, role |-> None, held |-> 0,
                target |-> None, arg |-> NoUser, scope |-> None, own |-> FALSE]

\* The seed: an active SUPER_ADMIN, and every user but a SUPER_ADMIN in a
\* department.
Seeded == {r \in UserRow : /\ r.role = None <=> r = NoUser
                           /\ r.role \in Roles => (r.department = None <=> r.role = "SUPER_ADMIN")}

Init ==
  /\ user \in [Users -> Seeded]
  /\ \E u \in Users : user[u].role = "SUPER_ADMIN" /\ user[u].active
  /\ signing = [u \in Users |-> {}]
  /\ tokens = [u \in Users |-> {}]
  /\ since = [u \in Users |-> [r \in Roles |-> IF r = user[u].role THEN 0 ELSE LongAgo]]
  /\ req = [q \in Requests |-> IdleRequest]

-----------------------------------------------------------------------------
(* Tokens *)

Fresh(role) == [role |-> role, age |-> 0]

\* Login and refresh read the user, who must be active.
ReadUser_FromOldToken(u) ==  \* mutant
  /\ user[u].active
  /\ \E r \in {user[u].role} \cup {t.role : t \in tokens[u]} :
       signing' = [signing EXCEPT ![u] = @ \cup {Fresh(r)}]
  /\ UNCHANGED <<user, tokens, since, req>>
ReadUser(u) ==
  /\ user[u].active
  /\ signing' = [signing EXCEPT ![u] = @ \cup {Fresh(user[u].role)}]
  /\ UNCHANGED <<user, tokens, since, req>>

\* Then login compares the password and they sign what they read.  Another that
\* has read the same may still be about to.
SignToken(u) ==
  /\ \E s \in signing[u] : tokens' = [tokens EXCEPT ![u] = @ \cup {Fresh(s.role)}]
  /\ UNCHANGED <<user, signing, since, req>>

\* None has to: the password is wrong, a statement throws, or the last has signed.
EndSignIns(u) ==
  /\ \E s \in signing[u] : signing' = [signing EXCEPT ![u] = @ \ {s}]
  /\ UNCHANGED <<user, tokens, since, req>>

Older(S, max) == {[t EXCEPT !.age = @ + 1] : t \in {s \in S : s.age < max}}

Tick ==
  /\ \A u \in Users : \A s \in signing[u] : s.age < MaxSignIn
  /\ signing' = [u \in Users |-> Older(signing[u], MaxSignIn)]
  /\ tokens' = [u \in Users |-> Older(tokens[u], AccessTtl)]
  /\ since' = [u \in Users |-> [r \in Roles |->
       IF r = user[u].role THEN 0 ELSE IF since[u][r] < LongAgo THEN since[u][r] + 1 ELSE LongAgo]]
  /\ UNCHANGED <<user, req>>

-----------------------------------------------------------------------------
(* The middleware *)

Goto(q, pc) == req' = [req EXCEPT ![q].pc = pc]
End(q) == req' = [req EXCEPT ![q] = IdleRequest]

UserOps == {"createUser", "changeUserStatus", "assignUserRole", "assignUserDepartment"}

\* Who a request is about, and what its body says; createUserSchema wants a
\* department for every role but SUPER_ADMIN.
Targets(op) == IF op \in UserOps THEN Users ELSE {None}
Arguments(op) ==
  CASE op = "createUser"           -> {a \in Seeded \ {NoUser} : a.active}
    [] op = "changeUserStatus"     -> {[NoUser EXCEPT !.active = b] : b \in BOOLEAN}
    [] op = "assignUserRole"       -> {[role |-> r, department |-> None, active |-> TRUE] : r \in Roles}
    [] op = "assignUserDepartment" -> {[role |-> None, department |-> d, active |-> TRUE] : d \in MaybeDepartment}
    [] OTHER                       -> {NoUser}

Bypasses(q) == ApiRouter[req[q].op].scope = "department" /\ req[q].role = "SUPER_ADMIN"

RoleAdmitted_Any(op, role) == role \in Roles  \* mutant
RoleAdmitted(op, role) == role \in ApiRouter[op].roles

\* authenticate and requireRole look at the token alone, and requireRole is that
\* of the route which the request is dispatched to.
Authenticate(q, u, t, endpoint, target, arg) ==
  /\ Dispatched(endpoint) = "createUser" => user[target].role = None
  /\ req' = [req EXCEPT ![q] =
       [IdleRequest EXCEPT !.pc = IF RoleAdmitted(Dispatched(endpoint), t.role) THEN "target" ELSE "forbidden",
                           !.endpoint = endpoint, !.op = Dispatched(endpoint),
                           !.actor = u, !.role = t.role, !.held = since[u][t.role],
                           !.target = target, !.arg = arg]]
  /\ UNCHANGED <<user, signing, tokens, since>>

Unscoped(q) ==
  /\ req[q].pc = "target"
  /\ ApiRouter[req[q].op].scope = "none" \/ Bypasses(q)
  /\ Goto(q, "run")
  /\ UNCHANGED <<user, signing, tokens, since>>

\* The department of what the request is about.  That of a new user is in the
\* request, and anything but a user is in some department; None is answered 404.
TargetDepartments(q) ==
  IF req[q].op = "createUser" THEN {req[q].arg.department}
  ELSE IF req[q].op \in UserOps THEN {user[req[q].target].department} ELSE MaybeDepartment

ResolveTarget(q) ==
  /\ req[q].pc = "target"
  /\ ApiRouter[req[q].op].scope \in {"department", "department!"} /\ ~Bypasses(q)
  /\ \E d \in TargetDepartments(q) :
       IF d = None /\ req[q].op # "createUser" THEN End(q)
       ELSE req' = [req EXCEPT ![q].pc = "actor", ![q].scope = d]
  /\ UNCHANGED <<user, signing, tokens, since>>

ScopeAdmits_AnyDepartment(q) == user[req[q].actor].department # None  \* mutant
ScopeAdmits(q) ==
  LET mine == user[req[q].actor].department IN mine # None /\ mine = req[q].scope

CheckActor(q) ==
  /\ req[q].pc = "actor"
  /\ req' = [req EXCEPT ![q].pc = IF ScopeAdmits(q) THEN "run" ELSE "refused",
                        ![q].own = req[q].scope # None /\ user[req[q].actor].department = req[q].scope]
  /\ UNCHANGED <<user, signing, tokens, since>>

\* requireOwnership: the owner is the caller or somebody else, or there is none.
CheckOwner(q) ==
  /\ req[q].pc = "target" /\ ApiRouter[req[q].op].scope = "owner"
  /\ \/ End(q)
     \/ \E own \in BOOLEAN :
          req' = [req EXCEPT ![q].pc = IF own THEN "run" ELSE "refused", ![q].own = own]
  /\ UNCHANGED <<user, signing, tokens, since>>

\* A statement of a handler that throws is answered 500.  The two middlewares
\* are async functions that nothing awaits: what they throw is nobody's error.
Throws(q) ==
  /\ Failures
  /\ \/ /\ req[q].pc \in {"run", "write"}
        /\ End(q)
     \/ /\ \/ req[q].pc = "target" /\ ApiRouter[req[q].op].scope # "none" /\ ~Bypasses(q)
           \/ req[q].pc = "actor"
        /\ Goto(q, "unanswered")
  /\ UNCHANGED <<user, signing, tokens, since>>

-----------------------------------------------------------------------------
(* The handlers *)

AssignableByDepartmentAdmin_Peer == {"DEPARTMENT_ADMIN", "LAB_ADMIN", "FACULTY", "STUDENT"}  \* mutant
AssignableByDepartmentAdmin == {"LAB_ADMIN", "FACULTY", "STUDENT"}
RoleAssignmentAuthorized(actorRole, role) ==
  \/ actorRole = "SUPER_ADMIN"
  \/ actorRole = "DEPARTMENT_ADMIN" /\ role \in AssignableByDepartmentAdmin

\* What the handler checks against the row it has read.
Valid(q) ==
  LET current == user[req[q].target]  arg == req[q].arg IN
  CASE req[q].op = "createUser" ->
         current.role = None /\ RoleAssignmentAuthorized(req[q].role, arg.role)
    [] req[q].op = "changeUserStatus" -> current.role # None
    [] req[q].op = "assignUserDepartment" ->
         current.role # None /\ (arg.department = None => current.role = "SUPER_ADMIN")
    [] req[q].op = "assignUserRole" ->
         /\ current.role # None
         /\ RoleAssignmentAuthorized(req[q].role, arg.role)
         /\ arg.role = "SUPER_ADMIN" => current.department = None

\* Handlers that leave the users alone are left out, but for their answer.
ReadCurrent(q) ==
  /\ req[q].pc = "run"
  /\ IF req[q].op \in UserOps /\ Valid(q) THEN Goto(q, "write") ELSE End(q)
  /\ UNCHANGED <<user, signing, tokens, since>>

Written(q) ==
  LET row == user[req[q].target]  arg == req[q].arg IN
  CASE req[q].op = "createUser"           -> IF row.role = None THEN arg ELSE row
    [] req[q].op = "changeUserStatus"     -> [row EXCEPT !.active = arg.active]
    [] req[q].op = "assignUserDepartment" -> [row EXCEPT !.department = arg.department]
    [] req[q].op = "assignUserRole"       -> [row EXCEPT !.role = arg.role]

\* The row is updated by id.  A second user with the email or university id of
\* another is refused by the unique constraint.
WriteUser(q) ==
  /\ req[q].pc = "write"
  /\ user' = [user EXCEPT ![req[q].target] = Written(q)]
  /\ since' = [since EXCEPT ![req[q].target][Written(q).role] = 0]
  /\ End(q)
  /\ UNCHANGED <<signing, tokens>>

Answer(q) ==
  /\ req[q].pc \in {"forbidden", "refused"}
  /\ End(q)
  /\ UNCHANGED <<user, signing, tokens, since>>

-----------------------------------------------------------------------------
Step(q) ==
  \/ Unscoped(q) \/ ResolveTarget(q) \/ CheckActor(q) \/ CheckOwner(q)
  \/ ReadCurrent(q) \/ WriteUser(q) \/ Answer(q) \/ Throws(q)

Start(q) ==
  /\ req[q] = IdleRequest
  /\ Serialized => \A p \in Requests : req[p] = IdleRequest
  /\ \E u \in Users : \E t \in tokens[u], endpoint \in Ops :
       \E target \in Targets(Dispatched(endpoint)), arg \in Arguments(Dispatched(endpoint)) :
         Authenticate(q, u, t, endpoint, target, arg)

Next ==
  \/ \E u \in Users : ReadUser(u) \/ SignToken(u) \/ EndSignIns(u)
  \/ Tick
  \/ \E q \in Requests : Start(q) \/ Step(q)

Spec == Init /\ [][Next]_vars

-----------------------------------------------------------------------------
(* Properties *)

\* The role a request acts with is stale by at most the lifetime of an access
\* token and the time between reading and signing it: its user had that role no
\* longer ago when the request was authenticated, however many logins, refreshes
\* and changes of roles overlapped.
RoleStalenessBounded == \A q \in Requests : req[q].pc # "idle" => req[q].held <= MaxSignIn + AccessTtl

\* Only a SUPER_ADMIN makes administrators: a user becomes DEPARTMENT_ADMIN or
\* SUPER_ADMIN only in a request with the role SUPER_ADMIN.
MakesAdminsAsSuperAdmin ==
  \A u \in Users :
    user'[u].role \in DepartmentAdmins /\ user'[u].role # user[u].role
      => \E q \in Requests : req[q].target = u /\ req[q].role = "SUPER_ADMIN"

\* Users are managed within the department: what anybody but a SUPER_ADMIN
\* changes is in the department he is in at that moment.  (One request at a time.)
WritesStayInDepartment ==
  \A q \in Requests :
    req[q].pc = "write" /\ req[q].role # "SUPER_ADMIN" =>
      LET d == IF req[q].op = "createUser" THEN req[q].arg.department
                                           ELSE user[req[q].target].department
      IN  d # None /\ d = user[req[q].actor].department

\* docs/api.md: the roles of each endpoint, and which are starred for their own
\* department.
Documented(op, role, own) ==
  /\ role \in AllRoles
  /\ op \in {"createOrganization", "updateOrganization", "createDepartment", "deleteDepartment",
             "assignUserDepartment"} => role = "SUPER_ADMIN"
  /\ op \in {"updateDepartment", "createLaboratory", "deleteLaboratory", "createCourse",
             "updateCourse", "deleteCourse", "deleteGpuNode", "createUser", "updateUserProfile",
             "changeUserStatus", "assignUserRole"} =>
       role = "SUPER_ADMIN" \/ (role = "DEPARTMENT_ADMIN" /\ own)
  /\ op \in {"updateLaboratory", "createGpuNode", "updateGpuNode", "changeGpuNodeStatus",
             "updateGpuNodeHeartbeat"} =>
       role = "SUPER_ADMIN" \/ (role \in {"DEPARTMENT_ADMIN", "LAB_ADMIN"} /\ own)
  /\ op \in {"listUsers", "getUser"} \cup DOMAIN AnalyticsRoutes \cup DOMAIN ReportRoutes =>
       role \in {"SUPER_ADMIN", "DEPARTMENT_ADMIN", "LAB_ADMIN"}
  /\ op \in {"createReservation", "listMyReservations"} => role \in {"STUDENT", "FACULTY"}
  /\ op \in {"approveReservation", "rejectReservation"} => role = "FACULTY" /\ own
  /\ op = "cancelReservation" => role \in {"STUDENT", "FACULTY"} /\ own
  /\ op \in DOMAIN FacultyRoutes \cup DOMAIN BulkRoutes \cup {"listPendingReservations"} =>
       role = "FACULTY"

\* The middleware decides as docs/api.md says, from the role of the token and the
\* department or the owner that it found: a request is answered by the handler of
\* its endpoint, no handler runs for anybody else, and nobody whom the table
\* admits is refused: by requireRole, whatever the department or the owner.
DecidesAsDocumented ==
  \A q \in Requests :
    LET allowed(own) == Documented(req[q].endpoint, req[q].role, own) IN
    /\ req[q].pc = "run" => allowed(req[q].own) /\ req[q].op = req[q].endpoint
    /\ req[q].pc = "refused" => ~allowed(req[q].own)
    /\ req[q].pc = "forbidden" => ~allowed(TRUE) /\ ~allowed(FALSE)
=============================================================================
