------------------------- MODULE AccessControlProofs -------------------------
(***************************************************************************)
(* Proofs about AccessControl: the roles of tokens and requests, who makes *)
(* administrators, the department scope of users, and the table of routes. *)
(***************************************************************************)
EXTENDS MCAccessControl, TLAPS

-----------------------------------------------------------------------------
(* The table of routes *)

\* What docs/api.md lets a role do with a route that is scoped like this.
DocumentedAs(op, scope, role) ==
  IF scope = "none" \/ (scope = "department" /\ role = "SUPER_ADMIN")
  THEN \A own \in BOOLEAN : Documented(op, role, own)
  ELSE Documented(op, role, TRUE) /\ ~Documented(op, role, FALSE)

\* Only SUPER_ADMIN leaves a department when he manages users.
ScopedAs(op, route) ==
  IF op = "assignUserDepartment" THEN route.roles = {"SUPER_ADMIN"} ELSE route.scope = "department"

\* Nor does it let others.
NotDocumented(op, role) == ~Documented(op, role, TRUE) /\ ~Documented(op, role, FALSE)

RouterOK(f) ==
  \A op \in DOMAIN f :
    /\ \A role \in f[op].roles : DocumentedAs(op, f[op].scope, role)
    /\ \A role : role \notin f[op].roles => NotDocumented(op, role)
    /\ op \in UserOps => ScopedAs(op, f[op])

\* Tables that are right about their routes are so together.
LEMMA JoinedOK ==
  ASSUME NEW tables, \A f \in tables : RouterOK(f)
  PROVE  RouterOK(Joined(tables))
  <1>. DEFINE J == Joined(tables)
  <1>. SUFFICES ASSUME NEW op \in DOMAIN J
                PROVE  /\ \A role \in J[op].roles : DocumentedAs(op, J[op].scope, role)
                       /\ \A role : role \notin J[op].roles => NotDocumented(op, role)
                       /\ op \in UserOps => ScopedAs(op, J[op])
    BY Zenon DEF RouterOK
  <1>1. PICK table \in tables : op \in DOMAIN table
    BY DEF Joined
  <1>. DEFINE F == CHOOSE f \in tables : op \in DOMAIN f
  <1>2. F \in tables /\ op \in DOMAIN F
    BY <1>1
  <1>3. J[op] = F[op]
    BY DEF Joined
  <1>. HIDE DEF J, F
  <1>. QED BY <1>2, <1>3, Zenon DEF RouterOK

\* So it is enough to look at the groups of routes.
LEMMA GroupOK ==
  ASSUME NEW ops, NEW roles, NEW scope,
         \A op \in ops, role \in roles : DocumentedAs(op, scope, role),
         \A op \in ops, role \in AllRoles \ roles : NotDocumented(op, role),
         \A op \in ops \cap UserOps : IF op = "assignUserDepartment" THEN roles = {"SUPER_ADMIN"}
                                                                     ELSE scope = "department"
  PROVE  RouterOK(Routes(ops, roles, scope))
  BY DEF RouterOK, Routes, ScopedAs, NotDocumented, Documented

LEMMA DocumentedRoutes ==
  /\ DOMAIN AnalyticsRoutes = {"getUniversityAnalytics", "listDepartmentAnalytics", "getGpuUtilization",
                               "getStudentsAnalytics", "listTopCourses"}
  /\ DOMAIN ReportRoutes = {"getDailyReport", "getWeeklyReport", "getMonthlyReport"}
  /\ DOMAIN BulkRoutes = {"bulkApproveReservations", "bulkRejectReservations"}
  /\ DOMAIN FacultyRoutes = {"getFacultyDashboard", "listFacultyCourses", "getWeeklyLabSchedule"}
  BY DEF AnalyticsRoutes, ReportRoutes, BulkRoutes, FacultyRoutes, Routes

USE DEF AllRoles, DepartmentAdmins, LabAdmins, BookingRoles

LEMMA OrganizationRoutesOK == RouterOK(OrganizationRoutes)
  <1>1. RouterOK(Routes({"listOrganizations", "getOrganization"}, AllRoles, "none"))
    BY DocumentedRoutes, GroupOK DEF DocumentedAs, NotDocumented, Documented, UserOps
  <1>2. RouterOK(Routes({"createOrganization", "updateOrganization"}, {"SUPER_ADMIN"}, "none"))
    BY DocumentedRoutes, GroupOK DEF DocumentedAs, NotDocumented, Documented, UserOps
  <1>. QED BY <1>1, <1>2, JoinedOK DEF OrganizationRoutes

LEMMA DepartmentRoutesOK == RouterOK(DepartmentRoutes)
  <1>1. RouterOK(Routes({"listDepartments", "getDepartment"}, AllRoles, "none"))
    BY DocumentedRoutes, GroupOK DEF DocumentedAs, NotDocumented, Documented, UserOps
  <1>2. RouterOK(Routes({"createDepartment", "deleteDepartment"}, {"SUPER_ADMIN"}, "none"))
    BY DocumentedRoutes, GroupOK DEF DocumentedAs, NotDocumented, Documented, UserOps
  <1>3. RouterOK(Routes({"updateDepartment"}, DepartmentAdmins, "department"))
    BY DocumentedRoutes, GroupOK DEF DocumentedAs, NotDocumented, Documented, UserOps
  <1>. QED BY <1>1, <1>2, <1>3, JoinedOK DEF DepartmentRoutes

LEMMA LaboratoryRoutesOK == RouterOK(LaboratoryRoutes)
  <1>1. RouterOK(Routes({"listLaboratories", "getLaboratory"}, AllRoles, "none"))
    BY DocumentedRoutes, GroupOK DEF DocumentedAs, NotDocumented, Documented, UserOps
  <1>2. RouterOK(Routes({"createLaboratory", "deleteLaboratory"}, DepartmentAdmins, "department"))
    BY DocumentedRoutes, GroupOK DEF DocumentedAs, NotDocumented, Documented, UserOps
  <1>3. RouterOK(Routes({"updateLaboratory"}, LabAdmins, "department"))
    BY DocumentedRoutes, GroupOK DEF DocumentedAs, NotDocumented, Documented, UserOps
  <1>. QED BY <1>1, <1>2, <1>3, JoinedOK DEF LaboratoryRoutes

LEMMA CourseRoutesOK == RouterOK(CourseRoutes)
  <1>1. RouterOK(Routes({"listCourses", "getCourse"}, AllRoles, "none"))
    BY DocumentedRoutes, GroupOK DEF DocumentedAs, NotDocumented, Documented, UserOps
  <1>2. RouterOK(Routes({"createCourse", "updateCourse", "deleteCourse"}, DepartmentAdmins, "department"))
    BY DocumentedRoutes, GroupOK DEF DocumentedAs, NotDocumented, Documented, UserOps
  <1>. QED BY <1>1, <1>2, JoinedOK DEF CourseRoutes

LEMMA GpuNodeRoutesOK == RouterOK(GpuNodeRoutes)
  <1>1. RouterOK(Routes({"listGpuNodes", "getGpuNode"}, AllRoles, "none"))
    BY DocumentedRoutes, GroupOK DEF DocumentedAs, NotDocumented, Documented, UserOps
  <1>2. RouterOK(Routes({"createGpuNode", "updateGpuNode", "changeGpuNodeStatus", "updateGpuNodeHeartbeat"}, LabAdmins, "department"))
    BY DocumentedRoutes, GroupOK DEF DocumentedAs, NotDocumented, Documented, UserOps
  <1>3. RouterOK(Routes({"deleteGpuNode"}, DepartmentAdmins, "department"))
    BY DocumentedRoutes, GroupOK DEF DocumentedAs, NotDocumented, Documented, UserOps
  <1>. QED BY <1>1, <1>2, <1>3, JoinedOK DEF GpuNodeRoutes

LEMMA HealthRoutesOK == RouterOK(HealthRoutes)
  BY DocumentedRoutes, GroupOK DEF DocumentedAs, NotDocumented, Documented, UserOps, HealthRoutes

LEMMA UserRoutesOK == RouterOK(UserRoutes)
  <1>1. RouterOK(Routes({"listUsers", "getUser"}, LabAdmins, "none"))
    BY DocumentedRoutes, GroupOK DEF DocumentedAs, NotDocumented, Documented, UserOps
  <1>2. RouterOK(Routes({"createUser", "updateUserProfile", "changeUserStatus", "assignUserRole"}, DepartmentAdmins, "department"))
    BY DocumentedRoutes, GroupOK DEF DocumentedAs, NotDocumented, Documented, UserOps
  <1>3. RouterOK(Routes({"assignUserDepartment"}, {"SUPER_ADMIN"}, "none"))
    BY DocumentedRoutes, GroupOK DEF DocumentedAs, NotDocumented, Documented, UserOps
  <1>. QED BY <1>1, <1>2, <1>3, JoinedOK DEF UserRoutes

LEMMA ReservationRoutesOK == RouterOK(ReservationRoutes)
  <1>1. RouterOK(Routes({"createReservation", "listMyReservations"}, BookingRoles, "none"))
    BY DocumentedRoutes, GroupOK DEF DocumentedAs, NotDocumented, Documented, UserOps
  <1>2. RouterOK(Routes({"listPendingReservations"}, {"FACULTY"}, "none"))
    BY DocumentedRoutes, GroupOK DEF DocumentedAs, NotDocumented, Documented, UserOps
  <1>3. RouterOK(Routes({"approveReservation", "rejectReservation"}, {"FACULTY"}, "department!"))
    BY DocumentedRoutes, GroupOK DEF DocumentedAs, NotDocumented, Documented, UserOps
  <1>4. RouterOK(Routes({"cancelReservation"}, BookingRoles, "owner"))
    BY DocumentedRoutes, GroupOK DEF DocumentedAs, NotDocumented, Documented, UserOps
  <1>. QED BY <1>1, <1>2, <1>3, <1>4, JoinedOK DEF ReservationRoutes

LEMMA AvailabilityRoutesOK == RouterOK(AvailabilityRoutes)
  BY DocumentedRoutes, GroupOK DEF DocumentedAs, NotDocumented, Documented, UserOps, AvailabilityRoutes

LEMMA CalendarRoutesOK == RouterOK(CalendarRoutes)
  BY DocumentedRoutes, GroupOK DEF DocumentedAs, NotDocumented, Documented, UserOps, CalendarRoutes

LEMMA BulkRoutesOK == RouterOK(BulkRoutes)
  BY DocumentedRoutes, GroupOK DEF DocumentedAs, NotDocumented, Documented, UserOps, BulkRoutes

LEMMA FacultyRoutesOK == RouterOK(FacultyRoutes)
  BY DocumentedRoutes, GroupOK DEF DocumentedAs, NotDocumented, Documented, UserOps, FacultyRoutes

LEMMA AnalyticsRoutesOK == RouterOK(AnalyticsRoutes)
  BY DocumentedRoutes, GroupOK DEF DocumentedAs, NotDocumented, Documented, UserOps, AnalyticsRoutes

LEMMA ReportRoutesOK == RouterOK(ReportRoutes)
  BY DocumentedRoutes, GroupOK DEF DocumentedAs, NotDocumented, Documented, UserOps, ReportRoutes

LEMMA ApiRouterOK == RouterOK(ApiRouter)
  <1>1. ASSUME NEW i \in DOMAIN MountOrder
        PROVE  RouterOK(MountOrder[i])
    <2>1. MountOrder[i] \in {OrganizationRoutes, DepartmentRoutes, CalendarRoutes, LaboratoryRoutes,
                             CourseRoutes, HealthRoutes, AvailabilityRoutes, GpuNodeRoutes, UserRoutes,
                             BulkRoutes, ReservationRoutes, FacultyRoutes, AnalyticsRoutes, ReportRoutes}
      BY DEF MountOrder
    <2>. QED
      BY <2>1, OrganizationRoutesOK, DepartmentRoutesOK, LaboratoryRoutesOK, CourseRoutesOK,
         GpuNodeRoutesOK, HealthRoutesOK, UserRoutesOK, ReservationRoutesOK, AvailabilityRoutesOK,
         CalendarRoutesOK, BulkRoutesOK, FacultyRoutesOK, AnalyticsRoutesOK, ReportRoutesOK, Zenon
  <1>. QED BY <1>1, JoinedOK DEF ApiRouter

-----------------------------------------------------------------------------
(* The order in which routers are mounted *)

LEMMA JoinedAt ==
  ASSUME NEW tables, NEW op \in DOMAIN Joined(tables)
  PROVE  \E f \in tables : op \in DOMAIN f /\ Joined(tables)[op] = f[op]
  BY DEF Joined

\* What is named is mounted where nothing has a parameter, but for two.
LEMMA NamedAt ==
  ASSUME NEW op \in DOMAIN Named
  PROVE  /\ Named[op] \in {<<"GET", "gpu-nodes">>, <<"GET", "reservations">>, <<"PATCH", "reservations">>,
                           <<"GET", "faculty">>, <<"GET", "analytics">>, <<"GET", "reports">>}
         /\ Named[op] = <<"GET", "gpu-nodes">> => op \in DOMAIN AvailabilityRoutes \cup {"listLiveGpuNodes"}
  <1>. DEFINE tables ==
         {At(DOMAIN AvailabilityRoutes \cup {"listLiveGpuNodes"}, "GET", "gpu-nodes"),
          At({"listMyReservations", "listPendingReservations"}, "GET", "reservations"),
          At(DOMAIN BulkRoutes, "PATCH", "reservations"),
          At({"getFacultyDashboard", "listFacultyCourses"}, "GET", "faculty"),
          At(DOMAIN AnalyticsRoutes, "GET", "analytics"), At(DOMAIN ReportRoutes, "GET", "reports")}
  <1>1. PICK f \in tables : op \in DOMAIN f /\ Named[op] = f[op]
    <2>1. Named = Joined(tables)
      BY DEF Named
    <2>. HIDE DEF tables
    <2>. QED BY <2>1, JoinedAt
  <1>. QED BY <1>1 DEF At

LEMMA ByIdAt ==
  ASSUME NEW o \in DOMAIN ById,
         ById[o] \in {<<"GET", "gpu-nodes">>, <<"GET", "reservations">>, <<"PATCH", "reservations">>,
                      <<"GET", "faculty">>, <<"GET", "analytics">>, <<"GET", "reports">>}
  PROVE  o = "getGpuNode" /\ ById[o] = <<"GET", "gpu-nodes">>
  <1>. DEFINE tables ==
         {At({"getOrganization"}, "GET", "organizations"), At({"updateOrganization"}, "PATCH", "organizations"),
          At({"getDepartment"}, "GET", "departments"), At({"updateDepartment"}, "PATCH", "departments"),
          At({"getLaboratory"}, "GET", "laboratories"), At({"updateLaboratory"}, "PATCH", "laboratories"),
          At({"getCourse"}, "GET", "courses"), At({"updateCourse"}, "PATCH", "courses"),
          At({"getGpuNode"}, "GET", "gpu-nodes"), At({"updateGpuNode"}, "PATCH", "gpu-nodes"),
          At({"getUser"}, "GET", "users"), At({"updateUserProfile"}, "PATCH", "users"),
          At({"cancelReservation"}, "DELETE", "reservations")}
  <1>1. PICK f \in tables : o \in DOMAIN f /\ ById[o] = f[o]
    <2>1. ById = Joined(tables)
      BY DEF ById
    <2>. HIDE DEF tables
    <2>. QED BY <2>1, JoinedAt
  <1>. QED BY <1>1 DEF At

LEMMA RoutesDomain == \A ops, roles, scope : DOMAIN Routes(ops, roles, scope) = ops
  BY DEF Routes

LEMMA JoinedWithout ==
  ASSUME NEW tables, NEW op, \A f \in tables : op \notin DOMAIN f
  PROVE  op \notin DOMAIN Joined(tables)
  BY JoinedAt

\* The node by its id comes after the routers of the two.
LEMMA NodeByIdIsLast ==
  ASSUME NEW op \in DOMAIN AvailabilityRoutes \cup {"listLiveGpuNodes"}
  PROVE  ~MountedBefore("getGpuNode", op)
  <1>1. op \in {"getGpuNodeAvailability", "listLiveGpuNodes"}
    BY RoutesDomain DEF AvailabilityRoutes
  <1>2. /\ "getGpuNode" \notin DOMAIN OrganizationRoutes
        /\ "getGpuNode" \notin DOMAIN DepartmentRoutes
        /\ "getGpuNode" \notin DOMAIN CalendarRoutes
        /\ "getGpuNode" \notin DOMAIN LaboratoryRoutes
        /\ "getGpuNode" \notin DOMAIN CourseRoutes
        /\ "getGpuNode" \notin DOMAIN HealthRoutes
        /\ "getGpuNode" \notin DOMAIN AvailabilityRoutes
    <2>1. "getGpuNode" \notin DOMAIN OrganizationRoutes
      BY RoutesDomain, JoinedWithout DEF OrganizationRoutes
    <2>2. "getGpuNode" \notin DOMAIN DepartmentRoutes
      BY RoutesDomain, JoinedWithout DEF DepartmentRoutes
    <2>3. "getGpuNode" \notin DOMAIN CalendarRoutes
      BY RoutesDomain DEF CalendarRoutes
    <2>4. "getGpuNode" \notin DOMAIN LaboratoryRoutes
      BY RoutesDomain, JoinedWithout DEF LaboratoryRoutes
    <2>5. "getGpuNode" \notin DOMAIN CourseRoutes
      BY RoutesDomain, JoinedWithout DEF CourseRoutes
    <2>6. "getGpuNode" \notin DOMAIN HealthRoutes
      BY RoutesDomain DEF HealthRoutes
    <2>7. "getGpuNode" \notin DOMAIN AvailabilityRoutes
      BY RoutesDomain DEF AvailabilityRoutes
    <2>. QED BY <2>1, <2>2, <2>3, <2>4, <2>5, <2>6, <2>7
  <1>3. /\ op \notin DOMAIN GpuNodeRoutes
        /\ op \notin DOMAIN UserRoutes
        /\ op \notin DOMAIN BulkRoutes
        /\ op \notin DOMAIN ReservationRoutes
        /\ op \notin DOMAIN FacultyRoutes
        /\ op \notin DOMAIN AnalyticsRoutes
        /\ op \notin DOMAIN ReportRoutes
    <2>1. op \notin DOMAIN GpuNodeRoutes
      BY <1>1, RoutesDomain, JoinedWithout DEF GpuNodeRoutes
    <2>2. op \notin DOMAIN UserRoutes
      BY <1>1, RoutesDomain, JoinedWithout DEF UserRoutes
    <2>3. op \notin DOMAIN BulkRoutes
      BY <1>1, RoutesDomain DEF BulkRoutes
    <2>4. op \notin DOMAIN ReservationRoutes
      BY <1>1, RoutesDomain, JoinedWithout DEF ReservationRoutes
    <2>5. op \notin DOMAIN FacultyRoutes
      BY <1>1, RoutesDomain DEF FacultyRoutes
    <2>6. op \notin DOMAIN AnalyticsRoutes
      BY <1>1, RoutesDomain DEF AnalyticsRoutes
    <2>7. op \notin DOMAIN ReportRoutes
      BY <1>1, RoutesDomain DEF ReportRoutes
    <2>. QED BY <2>1, <2>2, <2>3, <2>4, <2>5, <2>6, <2>7
  <1>4. DOMAIN MountOrder = 1 .. 14
    BY DEF MountOrder
  <1>5. \A i \in 1 .. 7 : "getGpuNode" \notin DOMAIN MountOrder[i]
    BY <1>2 DEF MountOrder
  <1>6. \A j \in 8 .. 14 : op \notin DOMAIN MountOrder[j]
    BY <1>3 DEF MountOrder
  <1>. QED BY <1>4, <1>5, <1>6 DEF MountedBefore

\* No router answers for an endpoint of another.
LEMMA DispatchedOK == \A op : Swallowing(op) = {} /\ Dispatched(op) = op
  <1>1. ASSUME NEW op, NEW o \in Swallowing(op)
        PROVE  FALSE
    <2>1. o \in DOMAIN ById /\ op \in DOMAIN Named /\ ById[o] = Named[op] /\ MountedBefore(o, op)
      BY <1>1 DEF Swallowing
    <2>2. o = "getGpuNode" /\ op \in DOMAIN AvailabilityRoutes \cup {"listLiveGpuNodes"}
      BY <2>1, NamedAt, ByIdAt
    <2>. QED BY <2>1, <2>2, NodeByIdIsLast
  <1>2. \A op : Swallowing(op) = {}
    BY <1>1
  <1>. QED BY <1>2 DEF Dispatched

-----------------------------------------------------------------------------
(* The middleware: what a request may be on its way through it *)

Fields == {"pc", "endpoint", "op", "actor", "role", "held", "target", "arg", "scope", "own"}
Shaped(r) == r = [f \in Fields |-> r[f]]

\* A request has a role that its route admits, and stands where it is because of
\* the scope of its route.
Admitted(r) ==
  /\ r.own \in BOOLEAN
  /\ r.pc # "idle" => r.endpoint = r.op /\ r.op \in DOMAIN ApiRouter
  /\ r.pc \notin {"idle", "forbidden"} => r.role \in ApiRouter[r.op].roles
  /\ r.pc = "forbidden" => NotDocumented(r.op, r.role)
  /\ r.pc = "actor" => /\ ApiRouter[r.op].scope \in {"department", "department!"}
                       /\ ~(ApiRouter[r.op].scope = "department" /\ r.role = "SUPER_ADMIN")
  /\ r.pc = "run" => Documented(r.op, r.role, r.own)
  /\ r.pc = "refused" => ~Documented(r.op, r.role, r.own)

MiddlewareInv ==
  /\ req = [q \in Requests |-> req[q]]
  /\ \A q \in Requests : Shaped(req[q]) /\ Admitted(req[q])

LEMMA IdleAdmitted == Shaped(IdleRequest) /\ Admitted(IdleRequest)
  BY DEF Shaped, Fields, IdleRequest, Admitted

\* A step of a request leaves the others alone.
LEMMA OneRequest ==
  ASSUME MiddlewareInv, NEW q \in Requests, NEW r, Shaped(r), Admitted(r),
         req' = [req EXCEPT ![q] = r]
  PROVE  MiddlewareInv'
  BY DEF MiddlewareInv

LEMMA EndAdmitted ==
  ASSUME MiddlewareInv, NEW q \in Requests, End(q)
  PROVE  MiddlewareInv'
  BY OneRequest, IdleAdmitted DEF End

LEMMA MiddlewareStep ==
  ASSUME ConstantsAssumption, MiddlewareInv, [Next]_vars
  PROVE  MiddlewareInv'
  <1>1. ASSUME NEW q \in Requests, Unscoped(q)
        PROVE  MiddlewareInv'
    <2>. DEFINE r == [req[q] EXCEPT !.pc = "run"]
    <2>1. req' = [req EXCEPT ![q] = r]
      BY <1>1 DEF Unscoped, Goto, MiddlewareInv
    <2>2. Shaped(req[q]) /\ Admitted(req[q]) /\ req[q].pc = "target"
      BY <1>1 DEF MiddlewareInv, Unscoped
    <2>3. /\ r.pc = "run" /\ r.op = req[q].op /\ r.endpoint = req[q].endpoint /\ r.role = req[q].role /\ r.own = req[q].own
          /\ Shaped(r)
      BY <2>2 DEF Shaped, Fields
    <2>4. DocumentedAs(r.op, ApiRouter[r.op].scope, r.role)
      BY <2>2, <2>3, ApiRouterOK DEF Admitted, RouterOK
    <2>5. Documented(r.op, r.role, r.own)
      BY <1>1, <2>2, <2>3, <2>4, Zenon DEF Unscoped, Bypasses, DocumentedAs, Admitted
    <2>6. Admitted(r)
      BY <2>2, <2>3, <2>5 DEF Admitted
    <2>. QED BY <2>1, <2>3, <2>6, OneRequest
  <1>2. ASSUME NEW q \in Requests, ResolveTarget(q)
        PROVE  MiddlewareInv'
    <2>1. CASE End(q)
      BY <2>1, EndAdmitted
    <2>2. CASE \E d \in TargetDepartments(q) :
                 req' = [req EXCEPT ![q].pc = "actor", ![q].scope = d]
      <3>1. PICK d : req' = [req EXCEPT ![q].pc = "actor", ![q].scope = d]
        BY <2>2
      <3>. DEFINE r == [req[q] EXCEPT !.pc = "actor", !.scope = d]
      <3>2. req' = [req EXCEPT ![q] = r]
        BY <3>1 DEF MiddlewareInv
      <3>3. Shaped(req[q]) /\ Admitted(req[q]) /\ req[q].pc = "target"
        BY <1>2 DEF MiddlewareInv, ResolveTarget
      <3>4. /\ r.pc = "actor" /\ r.op = req[q].op /\ r.endpoint = req[q].endpoint /\ r.role = req[q].role /\ r.own = req[q].own
            /\ Shaped(r)
        BY <3>3 DEF Shaped, Fields
      <3>5. Admitted(r)
        BY <1>2, <3>3, <3>4 DEF Admitted, ResolveTarget, Bypasses
      <3>. QED BY <3>2, <3>4, <3>5, OneRequest
    <2>. QED BY <1>2, <2>1, <2>2 DEF ResolveTarget
  <1>3. ASSUME NEW q \in Requests, CheckActor(q)
        PROVE  MiddlewareInv'
    <2>. DEFINE own == req[q].scope # None /\ user[req[q].actor].department = req[q].scope
                r == [req[q] EXCEPT !.pc = IF ScopeAdmits(q) THEN "run" ELSE "refused", !.own = own]
    <2>1. req' = [req EXCEPT ![q] = r]
      BY <1>3 DEF CheckActor, MiddlewareInv
    <2>2. Shaped(req[q]) /\ Admitted(req[q]) /\ req[q].pc = "actor"
      BY <1>3 DEF MiddlewareInv, CheckActor
    <2>3. /\ r.pc = IF ScopeAdmits(q) THEN "run" ELSE "refused"
          /\ r.op = req[q].op /\ r.endpoint = req[q].endpoint /\ r.role = req[q].role /\ r.own = own
          /\ Shaped(r)
      BY <2>2 DEF Shaped, Fields
    <2>4. DocumentedAs(r.op, ApiRouter[r.op].scope, r.role)
      BY <2>2, <2>3, ApiRouterOK DEF Admitted, RouterOK
    <2>5. Documented(r.op, r.role, TRUE) /\ ~Documented(r.op, r.role, FALSE)
      BY <2>2, <2>3, <2>4 DEF DocumentedAs, Admitted
    <2>6. own <=> ScopeAdmits(q)
      BY DEF ScopeAdmits
    <2>7. own \in BOOLEAN
      OBVIOUS
    <2>8. Admitted(r)
      <3>. HIDE DEF own, r
      <3>1. CASE ScopeAdmits(q)
        BY <3>1, <2>2, <2>3, <2>5, <2>6, <2>7 DEF Admitted
      <3>2. CASE ~ScopeAdmits(q)
        BY <3>2, <2>2, <2>3, <2>5, <2>6, <2>7 DEF Admitted
      <3>. QED BY <3>1, <3>2
    <2>. QED BY <2>1, <2>3, <2>8, OneRequest
  <1>4. ASSUME NEW q \in Requests, CheckOwner(q)
        PROVE  MiddlewareInv'
    <2>1. CASE End(q)
      BY <2>1, EndAdmitted
    <2>2. ASSUME NEW own \in BOOLEAN,
                 req' = [req EXCEPT ![q].pc = IF own THEN "run" ELSE "refused", ![q].own = own]
          PROVE  MiddlewareInv'
      <3>. DEFINE r == [req[q] EXCEPT !.pc = IF own THEN "run" ELSE "refused", !.own = own]
      <3>1. req' = [req EXCEPT ![q] = r]
        BY <2>2 DEF MiddlewareInv
      <3>2. Shaped(req[q]) /\ Admitted(req[q]) /\ req[q].pc = "target"
        BY <1>4 DEF MiddlewareInv, CheckOwner
      <3>3. /\ r.pc = IF own THEN "run" ELSE "refused"
            /\ r.op = req[q].op /\ r.endpoint = req[q].endpoint /\ r.role = req[q].role /\ r.own = own
            /\ Shaped(r)
        BY <3>2 DEF Shaped, Fields
      <3>4. DocumentedAs(r.op, "owner", r.role)
        BY <1>4, <3>2, <3>3, ApiRouterOK DEF Admitted, RouterOK, CheckOwner
      <3>5. Documented(r.op, r.role, TRUE) /\ ~Documented(r.op, r.role, FALSE)
        BY <3>4 DEF DocumentedAs
      <3>6. Admitted(r)
        <4>. HIDE DEF r
        <4>1. CASE own = TRUE
          BY <4>1, <3>2, <3>3, <3>5 DEF Admitted
        <4>2. CASE own = FALSE
          BY <4>2, <3>2, <3>3, <3>5 DEF Admitted
        <4>. QED BY <4>1, <4>2
      <3>. QED BY <3>1, <3>3, <3>6, OneRequest
    <2>. QED BY <1>4, <2>1, <2>2 DEF CheckOwner
  <1>5. ASSUME NEW q \in Requests, Throws(q) \/ ReadCurrent(q) \/ WriteUser(q) \/ Answer(q)
        PROVE  MiddlewareInv'
    <2>1. CASE End(q)
      BY <2>1, EndAdmitted
    <2>2. ASSUME NEW pc \in {"unanswered", "write"}, Goto(q, pc), req[q].pc \notin {"idle", "forbidden"}
          PROVE  MiddlewareInv'
      <3>. DEFINE r == [req[q] EXCEPT !.pc = pc]
      <3>1. req' = [req EXCEPT ![q] = r]
        BY <2>2 DEF Goto, MiddlewareInv
      <3>2. Shaped(req[q]) /\ Admitted(req[q])
        BY DEF MiddlewareInv
      <3>3. /\ r.pc = pc /\ r.op = req[q].op /\ r.endpoint = req[q].endpoint /\ r.role = req[q].role /\ r.own = req[q].own
            /\ Shaped(r)
        BY <3>2 DEF Shaped, Fields
      <3>4. Admitted(r)
        BY <2>2, <3>2, <3>3 DEF Admitted
      <3>. QED BY <3>1, <3>3, <3>4, OneRequest
    <2>. QED BY <1>5, <2>1, <2>2 DEF Throws, ReadCurrent, WriteUser, Answer
  <1>6. ASSUME NEW q \in Requests, Start(q)
        PROVE  MiddlewareInv'
    <2>1. PICK u, t, op, target, arg : op \in Ops /\ Authenticate(q, u, t, op, target, arg)
      BY <1>6 DEF Start
    <2>. DEFINE pc == IF RoleAdmitted(op, t.role) THEN "target" ELSE "forbidden"
                r == [IdleRequest EXCEPT !.pc = pc, !.endpoint = op, !.op = op, !.actor = u, !.role = t.role,
                           !.held = since[u][t.role], !.target = target, !.arg = arg]
    <2>2. Dispatched(op) = op
      BY DispatchedOK
    <2>3. req' = [req EXCEPT ![q] = r]
      BY <2>1, <2>2 DEF Authenticate
    <2>4. r.pc = pc /\ r.op = op /\ r.endpoint = op /\ r.role = t.role /\ r.own = FALSE /\ Shaped(r)
      BY DEF IdleRequest, Shaped, Fields
    <2>5. op \in DOMAIN ApiRouter
      BY <2>1 DEF ConstantsAssumption
    <2>6. /\ pc \in {"target", "forbidden"}
          /\ pc = "target" => t.role \in ApiRouter[op].roles
          /\ pc = "forbidden" => NotDocumented(op, t.role)
      BY <2>5, ApiRouterOK DEF RoleAdmitted, RouterOK
    <2>7. Admitted(r)
      <3>. HIDE DEF r, pc
      <3>. QED BY <2>4, <2>5, <2>6 DEF Admitted
    <2>. QED BY <2>3, <2>4, <2>7, OneRequest
  <1>7. CASE UNCHANGED req
    BY <1>7 DEF MiddlewareInv
  <1>. QED
    BY <1>1, <1>2, <1>3, <1>4, <1>5, <1>6, <1>7 DEF Next, Step, vars, ReadUser, SignToken, EndSignIns, Tick

\* Who is admitted to a handler, and who is refused, is what docs/api.md says,
\* whatever the roles and the departments of users do between the steps of a
\* request: for any users, departments, roles and requests in flight.
THEOREM DecidesAsDocumentedCorrect == Spec => []DecidesAsDocumented
  <1>1. Init => MiddlewareInv
    BY IdleAdmitted DEF Init, MiddlewareInv
  <1>2. MiddlewareInv => DecidesAsDocumented
    BY DEF MiddlewareInv, Admitted, NotDocumented, DecidesAsDocumented
  <1>3. MiddlewareInv /\ [Next]_vars => MiddlewareInv'
    BY MiddlewareStep, ConstantsAssumption
  <1>. QED BY <1>1, <1>2, <1>3, PTL DEF Spec

\* The routes of the checked instance are decided as docs/api.md says.
THEOREM RoutesDecideAsDocumentedCorrect == PartsSpec => []RoutesDecideAsDocumented
  <1>. DEFINE Inv == part = "routes" => MiddlewareInv
  <1>1. PartsInit => Inv
    BY IdleAdmitted DEF PartsInit, Init, MiddlewareInv
  <1>2. Inv => RoutesDecideAsDocumented
    BY DEF MiddlewareInv, Admitted, NotDocumented, DecidesAsDocumented, RoutesDecideAsDocumented
  <1>3. Inv /\ [PartsNext]_<<vars, part>> => Inv'
    <2>. SUFFICES ASSUME Inv, [PartsNext]_<<vars, part>>, part' = "routes"
                  PROVE  MiddlewareInv'
      OBVIOUS
    <2>1. part = "routes" /\ MiddlewareInv
      BY DEF PartsNext
    <2>2. [Next]_vars
      BY <2>1 DEF PartsNext
    <2>. QED BY <2>1, <2>2, MiddlewareStep, ConstantsAssumption
  <1>. QED BY <1>1, <1>2, <1>3, PTL DEF PartsSpec

-----------------------------------------------------------------------------
(* The department scope, one request at a time *)

\* The instance has the same routes.
LEMMA ScopeTables ==
  /\ \A tables : Scope!Joined(tables) = Joined(tables)
  /\ \A ops, roles, scope : Scope!Routes(ops, roles, scope) = Routes(ops, roles, scope)
  /\ \A ops, method, prefix : Scope!At(ops, method, prefix) = At(ops, method, prefix)
  BY DEF Scope!Joined, Joined, Scope!Routes, Routes, Scope!At, At

LEMMA ScopeRouters ==
  /\ Scope!OrganizationRoutes = OrganizationRoutes /\ Scope!DepartmentRoutes = DepartmentRoutes
  /\ Scope!CalendarRoutes = CalendarRoutes /\ Scope!LaboratoryRoutes = LaboratoryRoutes
  /\ Scope!CourseRoutes = CourseRoutes /\ Scope!HealthRoutes = HealthRoutes
  /\ Scope!AvailabilityRoutes = AvailabilityRoutes /\ Scope!GpuNodeRoutes = GpuNodeRoutes
  /\ Scope!UserRoutes = UserRoutes /\ Scope!BulkRoutes = BulkRoutes
  /\ Scope!ReservationRoutes = ReservationRoutes /\ Scope!FacultyRoutes = FacultyRoutes
  /\ Scope!AnalyticsRoutes = AnalyticsRoutes /\ Scope!ReportRoutes = ReportRoutes
  <1>. USE ScopeTables DEF Scope!AllRoles, Scope!DepartmentAdmins, Scope!LabAdmins, Scope!BookingRoles
  <1>1. Scope!OrganizationRoutes = OrganizationRoutes
    BY DEF Scope!OrganizationRoutes, OrganizationRoutes
  <1>2. Scope!DepartmentRoutes = DepartmentRoutes
    BY DEF Scope!DepartmentRoutes, DepartmentRoutes
  <1>3. Scope!CalendarRoutes = CalendarRoutes
    BY DEF Scope!CalendarRoutes, CalendarRoutes
  <1>4. Scope!LaboratoryRoutes = LaboratoryRoutes
    BY DEF Scope!LaboratoryRoutes, LaboratoryRoutes
  <1>5. Scope!CourseRoutes = CourseRoutes
    BY DEF Scope!CourseRoutes, CourseRoutes
  <1>6. Scope!HealthRoutes = HealthRoutes
    BY DEF Scope!HealthRoutes, HealthRoutes
  <1>7. Scope!AvailabilityRoutes = AvailabilityRoutes
    BY DEF Scope!AvailabilityRoutes, AvailabilityRoutes
  <1>8. Scope!GpuNodeRoutes = GpuNodeRoutes
    BY DEF Scope!GpuNodeRoutes, GpuNodeRoutes
  <1>9. Scope!UserRoutes = UserRoutes
    BY DEF Scope!UserRoutes, UserRoutes
  <1>10. Scope!BulkRoutes = BulkRoutes
    BY DEF Scope!BulkRoutes, BulkRoutes
  <1>11. Scope!ReservationRoutes = ReservationRoutes
    BY DEF Scope!ReservationRoutes, ReservationRoutes
  <1>12. Scope!FacultyRoutes = FacultyRoutes
    BY DEF Scope!FacultyRoutes, FacultyRoutes
  <1>13. Scope!AnalyticsRoutes = AnalyticsRoutes
    BY DEF Scope!AnalyticsRoutes, AnalyticsRoutes
  <1>14. Scope!ReportRoutes = ReportRoutes
    BY DEF Scope!ReportRoutes, ReportRoutes
  <1>. QED
    BY <1>1, <1>2, <1>3, <1>4, <1>5, <1>6, <1>7, <1>8, <1>9, <1>10, <1>11, <1>12, <1>13, <1>14

LEMMA ScopeRouter ==
  /\ Scope!ApiRouter = ApiRouter
  /\ \A op : Scope!Dispatched(op) = op
  <1>1. Scope!MountOrder = MountOrder
    BY ScopeRouters DEF Scope!MountOrder, MountOrder
  <1>2. Scope!Named = Named /\ Scope!ById = ById
    BY ScopeTables, ScopeRouters DEF Scope!Named, Named, Scope!ById, ById
  <1>3. \A a, b : Scope!MountedBefore(a, b) <=> MountedBefore(a, b)
    BY <1>1 DEF Scope!MountedBefore, MountedBefore
  <1>4. \A op : Scope!Swallowing(op) = Swallowing(op)
    BY <1>2, <1>3 DEF Scope!Swallowing, Swallowing
  <1>5. \A op : Scope!Dispatched(op) = op
    BY <1>4, DispatchedOK DEF Scope!Dispatched
  <1>6. Scope!ApiRouter = ApiRouter
    BY <1>1, ScopeTables DEF Scope!ApiRouter, ApiRouter
  <1>. QED BY <1>5, <1>6

\* The department that a request of user management is about.
ManagedDepartment(r) ==
  IF r.op = "createUser" THEN r.arg.department ELSE user[r.target].department

\* What a request knows of the departments while nothing else runs.
Managed(r) ==
  /\ r.pc = "idle" => r = IdleRequest
  /\ r.pc \notin {"idle", "forbidden"} => r.op \in DOMAIN ApiRouter /\ r.role \in ApiRouter[r.op].roles
  /\ r.pc = "write" => r.op \in UserOps
  /\ r.op \in UserOps /\ r.role # "SUPER_ADMIN" =>
       /\ r.pc = "actor" => r.scope = ManagedDepartment(r)
       /\ r.pc \in {"run", "write"} => /\ ManagedDepartment(r) # None
                                       /\ ManagedDepartment(r) = user[r.actor].department

ManagementInv ==
  /\ req = [q \in Requests |-> req[q]]
  /\ \A q \in Requests : Shaped(req[q]) /\ Managed(req[q])
  /\ \A p, q \in Requests : req[p] # IdleRequest /\ req[q] # IdleRequest => p = q

LEMMA ScopeInstance ==
  /\ Scope!IdleRequest = IdleRequest /\ Scope!UserOps = UserOps
  /\ Shaped(IdleRequest) /\ Managed(IdleRequest)
  BY DEF Scope!IdleRequest, Scope!NoUser, IdleRequest, NoUser, Scope!UserOps, UserOps, Shaped, Fields,
         Managed

\* The only request in flight goes on, and the users stay as they are.
LEMMA OnlyRequest ==
  ASSUME ManagementInv, NEW q \in Requests, NEW r, Shaped(r), Managed(r),
         \A p \in Requests : p # q => req[p] = IdleRequest,
         req' = [req EXCEPT ![q] = r], UNCHANGED user
  PROVE  ManagementInv'
  <1>1. \A p \in Requests : req'[p] = IF p = q THEN r ELSE req[p]
    BY DEF ManagementInv
  <1>2. \A p \in Requests : Shaped(req'[p]) /\ Managed(req'[p])
    BY <1>1 DEF ManagementInv
  <1>3. \A p \in Requests : Managed(req[p])'
    BY <1>2 DEF Managed, ManagedDepartment
  <1>4. \A p \in Requests : Shaped(req[p])'
    BY <1>2 DEF Shaped
  <1>. QED BY <1>1, <1>3, <1>4 DEF ManagementInv

\* The only request in flight ends, with or without a change of the users.
LEMMA OnlyRequestEnds ==
  ASSUME ManagementInv, NEW q \in Requests,
         \A p \in Requests : p # q => req[p] = IdleRequest,
         Scope!End(q)
  PROVE  ManagementInv'
  <1>1. req' = [p \in Requests |-> IdleRequest]
    BY ScopeInstance DEF ManagementInv, Scope!End
  <1>2. /\ Shaped(IdleRequest)
        /\ Managed(IdleRequest)'
    BY DEF Shaped, Fields, Managed, IdleRequest
  <1>. QED BY <1>1, <1>2 DEF ManagementInv, Managed, Shaped

\* So the users are managed within the department between any two steps.
LEMMA ManagementStep ==
  ASSUME Serialized, InstancesAssumption, ManagementInv, [Scope!Next]_vars
  PROVE  ManagementInv'
  <1>. USE ScopeInstance, ScopeRouter
  <1>1. ASSUME NEW q \in Requests, Scope!Unscoped(q)
        PROVE  ManagementInv'
    <2>. DEFINE r == [req[q] EXCEPT !.pc = "run"]
    <2>1. req' = [req EXCEPT ![q] = r] /\ UNCHANGED user
      BY <1>1 DEF Scope!Unscoped, Scope!Goto, ManagementInv
    <2>2. Shaped(req[q]) /\ Managed(req[q]) /\ req[q].pc = "target"
      BY <1>1 DEF ManagementInv, Scope!Unscoped
    <2>3. /\ r.pc = "run" /\ r.op = req[q].op /\ r.role = req[q].role
          /\ Shaped(r)
      BY <2>2 DEF Shaped, Fields
    <2>4. r.op \in UserOps => r.role = "SUPER_ADMIN"
      <3>1. r.op \in UserOps => ScopedAs(r.op, ApiRouter[r.op])
        BY <2>2, <2>3, ApiRouterOK DEF Managed, RouterOK
      <3>2. ApiRouter[r.op].scope = "none" \/ r.role = "SUPER_ADMIN"
        BY <1>1, <2>2, <2>3 DEF Scope!Unscoped, Scope!Bypasses
      <3>. QED BY <3>1, <3>2, <2>2, <2>3 DEF ScopedAs, Managed
    <2>5. Managed(r)
      <3>. HIDE DEF r
      <3>. QED BY <2>2, <2>3, <2>4 DEF Managed
    <2>6. \A p \in Requests : p # q => req[p] = IdleRequest
      BY <2>2 DEF ManagementInv, IdleRequest
    <2>. QED BY <2>1, <2>3, <2>5, <2>6, OnlyRequest
  <1>2. ASSUME NEW q \in Requests, Scope!ResolveTarget(q)
        PROVE  ManagementInv'
    <2>1. Shaped(req[q]) /\ Managed(req[q]) /\ req[q].pc = "target"
      BY <1>2 DEF ManagementInv, Scope!ResolveTarget
    <2>2. \A p \in Requests : p # q => req[p] = IdleRequest
      BY <2>1 DEF ManagementInv, IdleRequest
    <2>3. CASE Scope!End(q)
      BY <2>2, <2>3, OnlyRequestEnds
    <2>4. ASSUME NEW d \in Scope!TargetDepartments(q),
                 req' = [req EXCEPT ![q].pc = "actor", ![q].scope = d]
          PROVE  ManagementInv'
      <3>. DEFINE r == [req[q] EXCEPT !.pc = "actor", !.scope = d]
      <3>1. req' = [req EXCEPT ![q] = r] /\ UNCHANGED user
        BY <1>2, <2>4 DEF ManagementInv, Scope!ResolveTarget
      <3>2. /\ r.pc = "actor" /\ r.op = req[q].op /\ r.role = req[q].role /\ r.scope = d
            /\ r.target = req[q].target /\ r.arg = req[q].arg /\ r.actor = req[q].actor
            /\ Shaped(r)
        BY <2>1 DEF Shaped, Fields
      <3>3. r.op \in UserOps => d = ManagedDepartment(r)
        BY <3>2 DEF Scope!TargetDepartments, ManagedDepartment
      <3>4. Managed(r)
        <4>. HIDE DEF r
        <4>. QED BY <2>1, <3>2, <3>3 DEF Managed
      <3>. QED BY <2>2, <3>1, <3>2, <3>4, OnlyRequest
    <2>. QED BY <1>2, <2>3, <2>4 DEF Scope!ResolveTarget
  <1>3. ASSUME NEW q \in Requests, Scope!CheckActor(q)
        PROVE  ManagementInv'
    <2>. DEFINE own == req[q].scope # None /\ user[req[q].actor].department = req[q].scope
                r == [req[q] EXCEPT !.pc = IF Scope!ScopeAdmits(q) THEN "run" ELSE "refused", !.own = own]
    <2>1. req' = [req EXCEPT ![q] = r] /\ UNCHANGED user
      BY <1>3 DEF Scope!CheckActor, ManagementInv
    <2>2. Shaped(req[q]) /\ Managed(req[q]) /\ req[q].pc = "actor"
      BY <1>3 DEF ManagementInv, Scope!CheckActor
    <2>3. \A p \in Requests : p # q => req[p] = IdleRequest
      BY <2>2 DEF ManagementInv, IdleRequest
    <2>4. /\ r.pc = IF Scope!ScopeAdmits(q) THEN "run" ELSE "refused"
          /\ r.op = req[q].op /\ r.role = req[q].role /\ r.scope = req[q].scope
          /\ r.target = req[q].target /\ r.arg = req[q].arg /\ r.actor = req[q].actor
          /\ Shaped(r)
      BY <2>2 DEF Shaped, Fields
    <2>5. ManagedDepartment(r) = ManagedDepartment(req[q])
      BY <2>4 DEF ManagedDepartment
    <2>6. Managed(r)
      <3>. HIDE DEF r
      <3>1. CASE Scope!ScopeAdmits(q)
        BY <3>1, <2>2, <2>4, <2>5 DEF Managed, Scope!ScopeAdmits
      <3>2. CASE ~Scope!ScopeAdmits(q)
        BY <3>2, <2>2, <2>4 DEF Managed
      <3>. QED BY <3>1, <3>2
    <2>. QED BY <2>1, <2>3, <2>4, <2>6, OnlyRequest
  <1>4. ASSUME NEW q \in Requests, Scope!CheckOwner(q)
        PROVE  ManagementInv'
    <2>1. Shaped(req[q]) /\ Managed(req[q]) /\ req[q].pc = "target"
      BY <1>4 DEF ManagementInv, Scope!CheckOwner
    <2>2. \A p \in Requests : p # q => req[p] = IdleRequest
      BY <2>1 DEF ManagementInv, IdleRequest
    <2>3. CASE Scope!End(q)
      BY <2>2, <2>3, OnlyRequestEnds
    <2>4. ASSUME NEW own \in BOOLEAN,
                 req' = [req EXCEPT ![q].pc = IF own THEN "run" ELSE "refused", ![q].own = own]
          PROVE  ManagementInv'
      <3>. DEFINE r == [req[q] EXCEPT !.pc = IF own THEN "run" ELSE "refused", !.own = own]
      <3>1. req' = [req EXCEPT ![q] = r] /\ UNCHANGED user
        BY <1>4, <2>4 DEF ManagementInv, Scope!CheckOwner
      <3>2. /\ r.pc \in {"run", "refused"} /\ r.op = req[q].op /\ r.role = req[q].role
            /\ Shaped(r)
        BY <2>1 DEF Shaped, Fields
      <3>3. r.op \in UserOps => r.role = "SUPER_ADMIN"
        <4>1. r.op \in UserOps => ScopedAs(r.op, ApiRouter[r.op])
          BY <2>1, <3>2, ApiRouterOK DEF Managed, RouterOK
        <4>2. ApiRouter[r.op].scope = "owner"
          BY <1>4, <3>2 DEF Scope!CheckOwner
        <4>. QED BY <4>1, <4>2, <2>1, <3>2 DEF ScopedAs, Managed
      <3>4. Managed(r)
        <4>. HIDE DEF r
        <4>. QED BY <2>1, <3>2, <3>3 DEF Managed
      <3>. QED BY <2>2, <3>1, <3>2, <3>4, OnlyRequest
    <2>. QED BY <1>4, <2>3, <2>4 DEF Scope!CheckOwner
  <1>5. ASSUME NEW q \in Requests,
               Scope!Throws(q) \/ Scope!ReadCurrent(q) \/ Scope!WriteUser(q) \/ Scope!Answer(q)
        PROVE  ManagementInv'
    <2>1. Shaped(req[q]) /\ Managed(req[q]) /\ req[q].pc # "idle"
      BY <1>5 DEF ManagementInv, Scope!Throws, Scope!ReadCurrent, Scope!WriteUser, Scope!Answer
    <2>2. \A p \in Requests : p # q => req[p] = IdleRequest
      BY <2>1 DEF ManagementInv, IdleRequest
    <2>3. CASE Scope!End(q)
      BY <2>2, <2>3, OnlyRequestEnds
    <2>4. ASSUME NEW pc \in {"unanswered", "write"}, Scope!Goto(q, pc), UNCHANGED user,
                 req[q].pc # "forbidden", pc = "write" => req[q].pc = "run" /\ req[q].op \in UserOps
          PROVE  ManagementInv'
      <3>. DEFINE r == [req[q] EXCEPT !.pc = pc]
      <3>1. req' = [req EXCEPT ![q] = r]
        BY <2>4 DEF Scope!Goto, ManagementInv
      <3>2. /\ r.pc = pc /\ r.op = req[q].op /\ r.role = req[q].role
            /\ r.target = req[q].target /\ r.arg = req[q].arg /\ r.actor = req[q].actor
            /\ Shaped(r)
        BY <2>1 DEF Shaped, Fields
      <3>3. ManagedDepartment(r) = ManagedDepartment(req[q])
        BY <3>2 DEF ManagedDepartment
      <3>4. Managed(r)
        <4>. HIDE DEF r
        <4>. QED BY <2>1, <2>4, <3>2, <3>3 DEF Managed
      <3>. QED BY <2>2, <2>4, <3>1, <3>2, <3>4, OnlyRequest
    <2>. QED BY <1>5, <2>3, <2>4 DEF Scope!Throws, Scope!ReadCurrent, Scope!WriteUser, Scope!Answer
  <1>6. ASSUME NEW q \in Requests, Scope!Start(q)
        PROVE  ManagementInv'
    <2>1. \A p \in Requests : req[p] = IdleRequest
      BY <1>6 DEF Scope!Start
    <2>2. PICK u, t, op, target, arg : op \in ScopeOps /\ Scope!Authenticate(q, u, t, op, target, arg)
      BY <1>6 DEF Scope!Start
    <2>. DEFINE pc == IF Scope!RoleAdmitted(op, t.role) THEN "target" ELSE "forbidden"
                r == [IdleRequest EXCEPT !.pc = pc, !.endpoint = op, !.op = op, !.actor = u, !.role = t.role,
                           !.held = since[u][t.role], !.target = target, !.arg = arg]
    <2>7. Scope!Dispatched(op) = op
      BY ScopeRouter
    <2>3. req' = [req EXCEPT ![q] = r] /\ UNCHANGED user
      BY <2>2, <2>7 DEF Scope!Authenticate
    <2>4. r.pc = pc /\ r.op = op /\ r.role = t.role /\ Shaped(r)
      BY DEF IdleRequest, Shaped, Fields
    <2>5. /\ pc \in {"target", "forbidden"} /\ op \in DOMAIN ApiRouter
          /\ pc = "target" => t.role \in ApiRouter[op].roles
      BY <2>2 DEF Scope!RoleAdmitted, InstancesAssumption, EveryHandler
    <2>6. Managed(r)
      <3>. HIDE DEF r, pc
      <3>. QED BY <2>4, <2>5 DEF Managed
    <2>. QED BY <2>1, <2>3, <2>4, <2>6, OnlyRequest
  <1>7. CASE UNCHANGED <<user, req>>
    <2>1. \A p \in Requests : Managed(req[p])' <=> Managed(req[p])
      BY <1>7 DEF Managed, ManagedDepartment
    <2>. QED BY <1>7, <2>1 DEF ManagementInv, Shaped
  <1>. QED
    BY <1>1, <1>2, <1>3, <1>4, <1>5, <1>6, <1>7
    DEF Scope!Next, Scope!Step, vars, Scope!ReadUser, Scope!SignToken, Scope!EndSignIns, Scope!Tick

\* What anybody but a SUPER_ADMIN changes of a user is in the department that he
\* is in at that moment, when requests run one at a time: for any users,
\* departments and handlers, whatever was changed before.
THEOREM WritesStayInDepartmentCorrect ==
  ASSUME Serialized
  PROVE  Scope!Spec => []Scope!WritesStayInDepartment
  <1>1. Scope!Init => ManagementInv
    BY ScopeInstance DEF Scope!Init, ManagementInv
  <1>2. ManagementInv => Scope!WritesStayInDepartment
    BY DEF ManagementInv, Managed, ManagedDepartment, Scope!WritesStayInDepartment
  <1>3. ManagementInv /\ [Scope!Next]_vars => ManagementInv'
    BY ManagementStep, InstancesAssumption
  <1>. QED BY <1>1, <1>2, <1>3, PTL DEF Scope!Spec, Scope!vars, vars

\* Users are managed within the department in the checked instance.
THEOREM UsersManagedInDepartmentCorrect ==
  ASSUME Serialized
  PROVE  PartsSpec => []UsersManagedInDepartment
  <1>. DEFINE Inv == part = "scope" => ManagementInv
  <1>1. PartsInit => Inv
    BY ScopeInstance DEF PartsInit, Scope!Init, ManagementInv
  <1>2. Inv => UsersManagedInDepartment
    BY DEF ManagementInv, Managed, ManagedDepartment, Scope!WritesStayInDepartment,
           UsersManagedInDepartment
  <1>3. Inv /\ [PartsNext]_<<vars, part>> => Inv'
    <2>. SUFFICES ASSUME Inv, [PartsNext]_<<vars, part>>, part' = "scope"
                  PROVE  ManagementInv'
      OBVIOUS
    <2>1. part = "scope" /\ ManagementInv
      BY DEF PartsNext
    <2>2. [Scope!Next]_vars
      BY <2>1 DEF PartsNext
    <2>. QED BY <2>1, <2>2, ManagementStep, InstancesAssumption
  <1>. QED BY <1>1, <1>2, <1>3, PTL DEF PartsSpec

-----------------------------------------------------------------------------
(* The roles of tokens and requests, and who makes administrators *)

LEMMA WrittenBy ==
  ASSUME NEW q
  PROVE  LET row == user[req[q].target]  arg == req[q].arg  op == req[q].op  w == Changing!Written(q) IN
         /\ op = "createUser" => w = IF row.role = None THEN arg ELSE row
         /\ op = "changeUserStatus" => w = [row EXCEPT !.active = arg.active]
         /\ op = "assignUserDepartment" => w = [row EXCEPT !.department = arg.department]
         /\ op = "assignUserRole" => w = [row EXCEPT !.role = arg.role]
  BY DEF Changing!Written

LEMMA ValidFor ==
  ASSUME NEW q, Changing!Valid(q)
  PROVE  LET current == user[req[q].target]  arg == req[q].arg  op == req[q].op IN
         /\ op \in UserOps \ {"createUser"} => current.role # None
         /\ op \in {"createUser", "assignUserRole"} =>
              Changing!RoleAssignmentAuthorized(req[q].role, arg.role)
  BY DEF Changing!Valid, UserOps

LEMMA ArgumentsOf ==
  /\ \A a \in Changing!Arguments("createUser") : a \in Changing!Seeded /\ a.role # None
  /\ \A a \in Changing!Arguments("changeUserStatus") : a.active \in BOOLEAN
  /\ \A a \in Changing!Arguments("assignUserRole") : a.role \in ChangingRoles
  /\ \A a \in Changing!Arguments("assignUserDepartment") : a.department \in Changing!MaybeDepartment
  BY DEF Changing!Arguments, Changing!Seeded, Changing!UserRow, Changing!NoUser

\* How stale a role may be at most.
Staleness == ChangingMaxSignIn + ChangingAccessTtl

LEMMA ChangingInstance ==
  /\ Changing!IdleRequest = IdleRequest /\ Changing!UserOps = UserOps
  /\ Changing!LongAgo = Staleness + 1
  /\ ChangingAccessTtl \in Nat /\ ChangingMaxSignIn \in Nat /\ Staleness \in Nat
  BY InstancesAssumption
  DEF Changing!IdleRequest, Changing!NoUser, IdleRequest, NoUser, Changing!UserOps, UserOps,
      Changing!LongAgo, Staleness

\* A user who may sign in has a role.
UsersOK ==
  /\ user \in [ChangingUsers -> Changing!UserRow]
  /\ \A u \in ChangingUsers : user[u].active => user[u].role \in ChangingRoles

\* The role that a user has now, he had a moment ago.
SinceOK ==
  /\ since \in [ChangingUsers -> [ChangingRoles -> 0 .. Changing!LongAgo]]
  /\ \A u \in ChangingUsers : user[u].role \in ChangingRoles => since[u][user[u].role] = 0

\* Who signs in had the role when it was read.
SigningOK ==
  /\ signing \in [ChangingUsers -> SUBSET [role : ChangingRoles, age : 0 .. ChangingMaxSignIn]]
  /\ \A u \in ChangingUsers : \A s \in signing[u] : since[u][s.role] <= s.age

\* So a token is older than its user's loss of its role, but for the sign-in.
TokensOK ==
  /\ tokens \in [ChangingUsers -> SUBSET [role : ChangingRoles, age : 0 .. ChangingAccessTtl]]
  /\ \A u \in ChangingUsers : \A t \in tokens[u] : since[u][t.role] <= t.age + ChangingMaxSignIn

\* What a request keeps of its token, and what its handler has checked.
Acting(r) ==
  /\ r.pc # "idle" => /\ r.held <= Staleness
                      /\ r.op \in UserOps => r.target \in ChangingUsers /\ r.arg \in Changing!Arguments(r.op)
  /\ r.pc = "write" =>
       /\ r.op \in UserOps
       /\ r.op # "createUser" => user[r.target].role \in ChangingRoles
       /\ r.op \in {"createUser", "assignUserRole"} => Changing!RoleAssignmentAuthorized(r.role, r.arg.role)

ActorsOK ==
  /\ req = [q \in Requests |-> req[q]]
  /\ \A q \in Requests : Shaped(req[q]) /\ Acting(req[q])

RolesInv == UsersOK /\ SinceOK /\ SigningOK /\ TokensOK /\ ActorsOK

LEMMA RolesInit ==
  ASSUME Changing!Init
  PROVE  RolesInv
  <1>. USE ChangingInstance
  <1>1. UsersOK
    BY DEF Changing!Init, UsersOK, Changing!Seeded, Changing!UserRow, Changing!NoUser
  <1>2. SinceOK
    BY <1>1 DEF Changing!Init, SinceOK
  <1>3. SigningOK /\ TokensOK
    BY DEF Changing!Init, SigningOK, TokensOK
  <1>4. ActorsOK
    BY DEF Changing!Init, ActorsOK, Acting, Shaped, Fields, IdleRequest
  <1>. QED BY <1>1, <1>2, <1>3, <1>4 DEF RolesInv

\* A request goes on while its user table stays, or changes without taking a role
\* from anybody.
LEMMA ActorStep ==
  ASSUME ActorsOK, NEW q \in Requests, NEW r, Shaped(r), Acting(r)', req' = [req EXCEPT ![q] = r],
         \A u \in ChangingUsers : user[u].role \in ChangingRoles => user'[u].role \in ChangingRoles
  PROVE  ActorsOK'
  <1>1. \A p \in Requests : req'[p] = IF p = q THEN r ELSE req[p]
    BY DEF ActorsOK
  <1>2. ASSUME NEW p \in Requests
        PROVE  Acting(req[p])'
    <2>1. CASE p = q
      BY <1>1, <2>1
    <2>2. CASE p # q
      BY <1>1, <2>2 DEF ActorsOK, Acting
    <2>. QED BY <2>1, <2>2
  <1>3. \A p \in Requests : Shaped(req[p])'
    BY <1>1 DEF ActorsOK, Shaped
  <1>. QED BY <1>1, <1>2, <1>3 DEF ActorsOK

LEMMA ActorEnds ==
  ASSUME ActorsOK, NEW q \in Requests, Changing!End(q),
         \A u \in ChangingUsers : user[u].role \in ChangingRoles => user'[u].role \in ChangingRoles
  PROVE  ActorsOK'
  <1>1. Shaped(IdleRequest) /\ Acting(IdleRequest)'
    BY DEF Shaped, Fields, Acting, IdleRequest
  <1>. QED BY <1>1, ActorStep, ChangingInstance DEF Changing!End

LEMMA ReadUserStep ==
  ASSUME RolesInv, NEW u \in ChangingUsers, Changing!ReadUser(u)
  PROVE  RolesInv'
  <1>. USE ChangingInstance
  <1>. DEFINE s == [role |-> user[u].role, age |-> 0]
  <1>1. /\ user[u].role \in ChangingRoles /\ since[u][user[u].role] = 0
        /\ signing' = [signing EXCEPT ![u] = signing[u] \cup {s}]
        /\ UNCHANGED <<user, tokens, since, req>>
    BY DEF Changing!ReadUser, Changing!Fresh, RolesInv, UsersOK, SinceOK
  <1>2. s \in [role : ChangingRoles, age : 0 .. ChangingMaxSignIn] /\ since[u][s.role] <= s.age
    BY <1>1
  <1>3. SigningOK'
    <2>. HIDE DEF s
    <2>. QED BY <1>1, <1>2 DEF RolesInv, SigningOK
  <1>4. UsersOK' /\ SinceOK' /\ TokensOK'
    BY <1>1 DEF RolesInv, UsersOK, SinceOK, TokensOK
  <1>5. ActorsOK'
    BY <1>1 DEF RolesInv, ActorsOK, Acting, Shaped
  <1>. QED BY <1>3, <1>4, <1>5 DEF RolesInv

LEMMA SignTokenStep ==
  ASSUME RolesInv, NEW u \in ChangingUsers, Changing!SignToken(u)
  PROVE  RolesInv'
  <1>. USE ChangingInstance
  <1>1. PICK s \in signing[u] : tokens' = [tokens EXCEPT ![u] = @ \cup {Changing!Fresh(s.role)}]
    BY DEF Changing!SignToken
  <1>. DEFINE t == [role |-> s.role, age |-> 0]
  <1>2. tokens' = [tokens EXCEPT ![u] = tokens[u] \cup {t}] /\ UNCHANGED <<user, signing, since, req>>
    BY <1>1 DEF Changing!SignToken, Changing!Fresh
  <1>3. s.role \in ChangingRoles /\ s.age \in 0 .. ChangingMaxSignIn /\ since[u][s.role] <= s.age
    BY DEF RolesInv, SigningOK
  <1>4. since[u][s.role] \in Int
    BY <1>3 DEF RolesInv, SinceOK
  <1>5. /\ t \in [role : ChangingRoles, age : 0 .. ChangingAccessTtl]
        /\ since[u][t.role] <= t.age + ChangingMaxSignIn
    BY <1>3, <1>4
  <1>6. TokensOK'
    <2>. HIDE DEF t
    <2>. QED BY <1>2, <1>5 DEF RolesInv, TokensOK
  <1>7. UsersOK' /\ SinceOK' /\ SigningOK'
    BY <1>2 DEF RolesInv, UsersOK, SinceOK, SigningOK
  <1>8. ActorsOK'
    BY <1>2 DEF RolesInv, ActorsOK, Acting, Shaped
  <1>. QED BY <1>6, <1>7, <1>8 DEF RolesInv

LEMMA EndSignInsStep ==
  ASSUME RolesInv, NEW u \in ChangingUsers, Changing!EndSignIns(u)
  PROVE  RolesInv'
  <1>1. PICK s \in signing[u] : signing' = [signing EXCEPT ![u] = @ \ {s}]
    BY DEF Changing!EndSignIns
  <1>2. UNCHANGED <<user, tokens, since, req>>
    BY DEF Changing!EndSignIns
  <1>3. SigningOK'
    BY <1>1, <1>2 DEF RolesInv, SigningOK
  <1>4. UsersOK' /\ SinceOK' /\ TokensOK'
    BY <1>2 DEF RolesInv, UsersOK, SinceOK, TokensOK
  <1>5. ActorsOK'
    BY <1>2 DEF RolesInv, ActorsOK, Acting, Shaped
  <1>. QED BY <1>3, <1>4, <1>5 DEF RolesInv

\* What grows older was younger, and had the same role.
LEMMA OlderFrom ==
  ASSUME NEW S \in SUBSET [role : ChangingRoles, age : Nat], NEW max \in Nat, NEW t \in Changing!Older(S, max)
  PROVE  \E s \in S : t.role = s.role /\ t.age = s.age + 1 /\ t \in [role : ChangingRoles, age : 0 .. max]
  <1>1. PICK s \in S : s.age < max /\ t = [s EXCEPT !.age = @ + 1]
    BY DEF Changing!Older
  <1>. QED BY <1>1

LEMMA TickStep ==
  ASSUME RolesInv, Changing!Tick
  PROVE  RolesInv'
  <1>. USE ChangingInstance
  <1>. DEFINE Later(u, r) == IF r = user[u].role THEN 0
                             ELSE IF since[u][r] < Changing!LongAgo THEN since[u][r] + 1 ELSE Changing!LongAgo
  <1>1. /\ since' = [u \in ChangingUsers |-> [r \in ChangingRoles |-> Later(u, r)]]
        /\ signing' = [u \in ChangingUsers |-> Changing!Older(signing[u], ChangingMaxSignIn)]
        /\ tokens' = [u \in ChangingUsers |-> Changing!Older(tokens[u], ChangingAccessTtl)]
        /\ UNCHANGED <<user, req>>
    BY DEF Changing!Tick
  <1>2. \A u \in ChangingUsers, r \in ChangingRoles :
          Later(u, r) \in 0 .. Changing!LongAgo /\ Later(u, r) <= since[u][r] + 1
    BY DEF RolesInv, SinceOK
  <1>3. UsersOK' /\ ActorsOK'
    BY <1>1 DEF RolesInv, UsersOK, ActorsOK, Acting, Shaped
  <1>4. SinceOK'
    BY <1>1, <1>2 DEF RolesInv, SinceOK
  <1>5. \A u \in ChangingUsers, r \in ChangingRoles :
          since[u][r] \in Int /\ since'[u][r] \in Int /\ since'[u][r] <= since[u][r] + 1
    BY <1>1, <1>2 DEF RolesInv, SinceOK
  <1>6. ASSUME NEW u \in ChangingUsers, NEW S \in SUBSET [role : ChangingRoles, age : Nat],
               NEW max \in Nat, NEW bound \in Nat, NEW t \in Changing!Older(S, max),
               \A s \in S : since[u][s.role] <= s.age + bound
        PROVE  t \in [role : ChangingRoles, age : 0 .. max] /\ since'[u][t.role] <= t.age + bound
    <2>1. PICK s \in S : t.role = s.role /\ t.age = s.age + 1 /\ t \in [role : ChangingRoles, age : 0 .. max]
      BY <1>6, OlderFrom
    <2>2. s.role \in ChangingRoles /\ s.age \in Nat /\ since[u][s.role] <= s.age + bound
      BY <1>6
    <2>. HIDE DEF Later
    <2>. QED BY <1>5, <2>1, <2>2
  <1>7. SigningOK'
    <2>1. ASSUME NEW u \in ChangingUsers, NEW s \in signing'[u]
          PROVE  s \in [role : ChangingRoles, age : 0 .. ChangingMaxSignIn] /\ since'[u][s.role] <= s.age
      <3>1. s \in Changing!Older(signing[u], ChangingMaxSignIn)
        BY <1>1, <2>1
      <3>2. /\ signing[u] \in SUBSET [role : ChangingRoles, age : 0 .. ChangingMaxSignIn]
            /\ \A r \in signing[u] : since[u][r.role] <= r.age
        BY DEF RolesInv, SigningOK
      <3>3. signing[u] \in SUBSET [role : ChangingRoles, age : Nat]
        BY <3>2
      <3>4. \A r \in signing[u] : since[u][r.role] <= r.age + 0
        BY <3>2
      <3>5. s \in [role : ChangingRoles, age : 0 .. ChangingMaxSignIn] /\ since'[u][s.role] <= s.age + 0
        <4>. HIDE DEF Later
        <4>. QED BY <1>6, <3>1, <3>3, <3>4
      <3>. QED BY <3>5
    <2>. HIDE DEF Later
    <2>. QED BY <1>1, <2>1 DEF SigningOK
  <1>8. TokensOK'
    <2>1. ASSUME NEW u \in ChangingUsers, NEW t \in tokens'[u]
          PROVE  /\ t \in [role : ChangingRoles, age : 0 .. ChangingAccessTtl]
                 /\ since'[u][t.role] <= t.age + ChangingMaxSignIn
      <3>1. t \in Changing!Older(tokens[u], ChangingAccessTtl)
        BY <1>1, <2>1
      <3>2. /\ tokens[u] \in SUBSET [role : ChangingRoles, age : 0 .. ChangingAccessTtl]
            /\ \A r \in tokens[u] : since[u][r.role] <= r.age + ChangingMaxSignIn
        BY DEF RolesInv, TokensOK
      <3>3. tokens[u] \in SUBSET [role : ChangingRoles, age : Nat]
        BY <3>2
      <3>. HIDE DEF Later
      <3>. QED BY <1>6, <3>1, <3>2, <3>3
    <2>. HIDE DEF Later
    <2>. QED BY <1>1, <2>1 DEF TokensOK
  <1>. QED BY <1>3, <1>4, <1>7, <1>8 DEF RolesInv

\* The row that a handler writes is a user with a role, if its user had one or
\* is new.
LEMMA WrittenRow ==
  ASSUME RolesInv, NEW q \in Requests, req[q].pc = "write"
  PROVE  /\ req[q].target \in ChangingUsers
         /\ Changing!Written(q) \in Changing!UserRow
         /\ Changing!Written(q).role \in ChangingRoles
  <1>. USE ChangingInstance
  <1>. DEFINE r == req[q]  row == user[req[q].target]  w == Changing!Written(q)
  <1>1. /\ r.op \in UserOps /\ r.target \in ChangingUsers /\ r.arg \in Changing!Arguments(r.op)
        /\ row \in Changing!UserRow
        /\ r.op # "createUser" => row.role \in ChangingRoles
    BY DEF RolesInv, ActorsOK, Acting, UsersOK
  <1>2. CASE r.op = "createUser"
    <2>1. w = IF row.role = None THEN r.arg ELSE row
      BY <1>2, WrittenBy
    <2>2. r.arg \in Changing!UserRow /\ r.arg.role \in ChangingRoles
      BY <1>1, <1>2, ArgumentsOf DEF Changing!Seeded, Changing!UserRow
    <2>3. row.role # None => row.role \in ChangingRoles
      BY <1>1 DEF Changing!UserRow
    <2>. HIDE DEF w, row, r
    <2>4. w \in Changing!UserRow /\ w.role \in ChangingRoles
      BY <1>1, <2>1, <2>2, <2>3
    <2>. QED BY <1>1, <2>4 DEF w, r
  <1>3. CASE r.op = "changeUserStatus"
    <2>1. w = [row EXCEPT !.active = r.arg.active]
      BY <1>3, WrittenBy
    <2>2. r.arg.active \in BOOLEAN
      BY <1>1, <1>3, ArgumentsOf
    <2>. QED BY <1>1, <1>3, <2>1, <2>2 DEF Changing!UserRow
  <1>4. CASE r.op = "assignUserDepartment"
    <2>1. w = [row EXCEPT !.department = r.arg.department]
      BY <1>4, WrittenBy
    <2>2. r.arg.department \in Changing!MaybeDepartment
      BY <1>1, <1>4, ArgumentsOf
    <2>. QED BY <1>1, <1>4, <2>1, <2>2 DEF Changing!UserRow
  <1>5. CASE r.op = "assignUserRole"
    <2>1. w = [row EXCEPT !.role = r.arg.role]
      BY <1>5, WrittenBy
    <2>2. r.arg.role \in ChangingRoles
      BY <1>1, <1>5, ArgumentsOf
    <2>. QED BY <1>1, <1>5, <2>1, <2>2 DEF Changing!UserRow
  <1>. QED BY <1>1, <1>2, <1>3, <1>4, <1>5 DEF UserOps

LEMMA WriteUserStep ==
  ASSUME RolesInv, NEW q \in Requests, Changing!WriteUser(q)
  PROVE  RolesInv'
  <1>. USE ChangingInstance
  <1>. DEFINE w == Changing!Written(q)  u0 == req[q].target
  <1>1. /\ u0 \in ChangingUsers /\ w \in Changing!UserRow /\ w.role \in ChangingRoles
        /\ user' = [user EXCEPT ![u0] = w] /\ since' = [since EXCEPT ![u0][w.role] = 0]
        /\ Changing!End(q) /\ UNCHANGED <<signing, tokens>>
    BY WrittenRow DEF Changing!WriteUser
  <1>. HIDE DEF w, u0
  <1>2. UsersOK'
    BY <1>1 DEF RolesInv, UsersOK
  <1>3. \A u \in ChangingUsers, r \in ChangingRoles :
          since'[u][r] = IF u = u0 /\ r = w.role THEN 0 ELSE since[u][r]
    BY <1>1 DEF RolesInv, SinceOK
  <1>4. since' \in [ChangingUsers -> [ChangingRoles -> 0 .. Changing!LongAgo]]
    BY <1>1 DEF RolesInv, SinceOK
  <1>5. \A u \in ChangingUsers : user'[u] = IF u = u0 THEN w ELSE user[u]
    BY <1>1 DEF RolesInv, UsersOK
  <1>6. SinceOK'
    BY <1>1, <1>3, <1>4, <1>5 DEF RolesInv, SinceOK
  <1>7. \A u \in ChangingUsers, r \in ChangingRoles : since'[u][r] <= since[u][r]
    BY <1>3 DEF RolesInv, SinceOK
  <1>8. \A u \in ChangingUsers, r \in ChangingRoles : since[u][r] \in Int /\ since'[u][r] \in Int
    BY <1>4 DEF RolesInv, SinceOK
  <1>9. SigningOK'
    <2>. SUFFICES ASSUME NEW u \in ChangingUsers, NEW s \in signing[u]
                  PROVE  since'[u][s.role] <= s.age
      BY <1>1 DEF RolesInv, SigningOK
    <2>1. s.role \in ChangingRoles /\ s.age \in Int /\ since[u][s.role] <= s.age
      BY DEF RolesInv, SigningOK
    <2>. QED BY <1>7, <1>8, <2>1
  <1>10. TokensOK'
    <2>. SUFFICES ASSUME NEW u \in ChangingUsers, NEW t \in tokens[u]
                  PROVE  since'[u][t.role] <= t.age + ChangingMaxSignIn
      BY <1>1 DEF RolesInv, TokensOK
    <2>1. t.role \in ChangingRoles /\ t.age \in Int /\ since[u][t.role] <= t.age + ChangingMaxSignIn
      BY DEF RolesInv, TokensOK
    <2>. QED BY <1>7, <1>8, <2>1
  <1>11. ActorsOK'
    BY <1>1, <1>5, ActorEnds DEF RolesInv
  <1>. QED BY <1>2, <1>6, <1>9, <1>10, <1>11 DEF RolesInv

\* The other steps of a request change nothing but the request.
LEMMA RequestStep ==
  ASSUME RolesInv, NEW q \in Requests, NEW r, Shaped(r), Acting(r),
         req' = [req EXCEPT ![q] = r], UNCHANGED <<user, signing, tokens, since>>
  PROVE  RolesInv'
  <1>1. Acting(r)'
    BY DEF Acting
  <1>2. ActorsOK'
    BY <1>1, ActorStep DEF RolesInv
  <1>3. UsersOK' /\ SinceOK' /\ SigningOK' /\ TokensOK'
    BY DEF RolesInv, UsersOK, SinceOK, SigningOK, TokensOK
  <1>. QED BY <1>2, <1>3 DEF RolesInv

LEMMA RequestEnds ==
  ASSUME RolesInv, NEW q \in Requests, Changing!End(q), UNCHANGED <<user, signing, tokens, since>>
  PROVE  RolesInv'
  <1>1. Shaped(IdleRequest) /\ Acting(IdleRequest)
    BY DEF Shaped, Fields, Acting, IdleRequest
  <1>. QED BY <1>1, RequestStep, ChangingInstance DEF Changing!End

LEMMA RolesStep ==
  ASSUME RolesInv, [Changing!Next]_vars
  PROVE  RolesInv'
  <1>. USE ChangingInstance
  <1>1. ASSUME NEW q \in Requests,
               \/ Changing!Unscoped(q) \/ Changing!ResolveTarget(q) \/ Changing!CheckActor(q)
               \/ Changing!CheckOwner(q) \/ Changing!ReadCurrent(q) \/ Changing!Throws(q)
        PROVE  RolesInv'
    <2>1. UNCHANGED <<user, signing, tokens, since>> /\ Shaped(req[q]) /\ Acting(req[q]) /\ req[q].pc # "idle"
      BY <1>1 DEF RolesInv, ActorsOK, Changing!Unscoped, Changing!ResolveTarget, Changing!CheckActor,
                  Changing!CheckOwner, Changing!ReadCurrent, Changing!Throws
    <2>2. CASE Changing!End(q)
      BY <2>1, <2>2, RequestEnds
    <2>3. ASSUME NEW r, req' = [req EXCEPT ![q] = r], Shaped(r), r.pc \notin {"idle", "write"},
                 \A f \in Fields \ {"pc", "scope", "own"} : r[f] = req[q][f]
          PROVE  RolesInv'
      <3>1. Acting(r)
        BY <2>1, <2>3 DEF Fields, Acting
      <3>. QED BY <2>1, <2>3, <3>1, RequestStep
    <2>4. req[q] = [f \in Fields |-> req[q][f]] /\ req = [p \in Requests |-> req[p]]
      BY <2>1 DEF Shaped, RolesInv, ActorsOK
    <2>5. ASSUME NEW pc \in {"run", "unanswered"}, Changing!Goto(q, pc)
          PROVE  RolesInv'
      <3>. DEFINE r == [req[q] EXCEPT !.pc = pc]
      <3>1. req' = [req EXCEPT ![q] = r]
        BY <2>4, <2>5 DEF Changing!Goto
      <3>2. Shaped(r) /\ r.pc = pc /\ \A f \in Fields \ {"pc"} : r[f] = req[q][f]
        BY <2>4 DEF Shaped, Fields
      <3>. HIDE DEF r
      <3>. QED BY <2>3, <3>1, <3>2
    <2>6. CASE Changing!Unscoped(q) \/ Changing!Throws(q)
      BY <2>2, <2>5, <2>6 DEF Changing!Unscoped, Changing!Throws
    <2>7. CASE Changing!ResolveTarget(q)
      <3>1. ASSUME NEW d, req' = [req EXCEPT ![q].pc = "actor", ![q].scope = d]
            PROVE  RolesInv'
        <4>. DEFINE r == [req[q] EXCEPT !.pc = "actor", !.scope = d]
        <4>1. req' = [req EXCEPT ![q] = r]
          BY <2>4, <3>1
        <4>2. Shaped(r) /\ r.pc = "actor" /\ \A f \in Fields \ {"pc", "scope"} : r[f] = req[q][f]
          BY <2>4 DEF Shaped, Fields
        <4>. HIDE DEF r
        <4>. QED BY <2>3, <4>1, <4>2
      <3>. QED BY <2>2, <2>7, <3>1 DEF Changing!ResolveTarget
    <2>8. ASSUME NEW pc \in {"run", "refused"}, NEW own,
                 req' = [req EXCEPT ![q].pc = pc, ![q].own = own]
          PROVE  RolesInv'
      <3>. DEFINE r == [req[q] EXCEPT !.pc = pc, !.own = own]
      <3>1. req' = [req EXCEPT ![q] = r]
        BY <2>4, <2>8
      <3>2. Shaped(r) /\ r.pc = pc /\ \A f \in Fields \ {"pc", "own"} : r[f] = req[q][f]
        BY <2>4 DEF Shaped, Fields
      <3>. HIDE DEF r
      <3>. QED BY <2>3, <3>1, <3>2
    <2>9. CASE Changing!CheckActor(q) \/ Changing!CheckOwner(q)
      BY <2>2, <2>8, <2>9 DEF Changing!CheckActor, Changing!CheckOwner
    <2>10. CASE Changing!ReadCurrent(q)
      <3>1. CASE req[q].op \in UserOps /\ Changing!Valid(q) /\ Changing!Goto(q, "write")
        <4>. DEFINE r == [req[q] EXCEPT !.pc = "write"]
        <4>1. req' = [req EXCEPT ![q] = r]
          BY <2>4, <3>1 DEF Changing!Goto
        <4>2. /\ r.pc = "write" /\ r.op = req[q].op /\ r.role = req[q].role /\ r.held = req[q].held
              /\ r.target = req[q].target /\ r.arg = req[q].arg
              /\ Shaped(r)
          BY <2>1 DEF Shaped, Fields
        <4>3. r.op # "createUser" => user[r.target].role \in ChangingRoles
          BY <2>1, <3>1, <4>2, ValidFor DEF RolesInv, UsersOK, Changing!UserRow, Acting
        <4>4. Acting(r)
          <5>. HIDE DEF r
          <5>. QED BY <2>1, <3>1, <4>2, <4>3, ValidFor DEF Acting
        <4>. QED BY <2>1, <4>1, <4>2, <4>4, RequestStep
      <3>. QED BY <2>2, <2>10, <3>1 DEF Changing!ReadCurrent
    <2>. QED BY <1>1, <2>6, <2>7, <2>9, <2>10
  <1>2. ASSUME NEW q \in Requests, Changing!Answer(q)
        PROVE  RolesInv'
    BY <1>2, RequestEnds DEF Changing!Answer
  <1>3. ASSUME NEW q \in Requests, Changing!Start(q)
        PROVE  RolesInv'
    <2>1. PICK u, t, endpoint, target, arg :
            /\ u \in ChangingUsers /\ t \in tokens[u]
            /\ target \in Changing!Targets(Changing!Dispatched(endpoint))
            /\ arg \in Changing!Arguments(Changing!Dispatched(endpoint))
            /\ Changing!Authenticate(q, u, t, endpoint, target, arg)
      BY <1>3 DEF Changing!Start
    <2>. DEFINE op == Changing!Dispatched(endpoint)
                pc == IF Changing!RoleAdmitted(op, t.role) THEN "target" ELSE "forbidden"
                r == [IdleRequest EXCEPT !.pc = pc, !.endpoint = endpoint, !.op = op, !.actor = u,
                           !.role = t.role, !.held = since[u][t.role], !.target = target, !.arg = arg]
    <2>2. req' = [req EXCEPT ![q] = r] /\ UNCHANGED <<user, signing, tokens, since>>
      BY <2>1 DEF Changing!Authenticate
    <2>3. /\ r.pc \in {"target", "forbidden"} /\ r.op = op /\ r.held = since[u][t.role]
          /\ r.target = target /\ r.arg = arg /\ Shaped(r)
      BY DEF IdleRequest, Shaped, Fields
    <2>4. since[u][t.role] <= Staleness
      <3>1. /\ t.role \in ChangingRoles /\ t.age \in 0 .. ChangingAccessTtl
            /\ since[u][t.role] <= t.age + ChangingMaxSignIn
        BY <2>1 DEF RolesInv, TokensOK
      <3>2. since[u][t.role] \in Int
        BY <2>1, <3>1 DEF RolesInv, SinceOK
      <3>. QED BY <3>1, <3>2 DEF Staleness
    <2>5. Acting(r)
      <3>. HIDE DEF r, op
      <3>1. target \in Changing!Targets(op) /\ arg \in Changing!Arguments(op)
        BY <2>1 DEF op
      <3>. QED BY <2>3, <2>4, <3>1 DEF Acting, Changing!Targets
    <2>. QED BY <2>2, <2>3, <2>5, RequestStep
  <1>4. CASE UNCHANGED vars
    BY <1>4 DEF RolesInv, UsersOK, SinceOK, SigningOK, TokensOK, ActorsOK, Acting, Shaped, vars
  <1>. QED
    BY <1>1, <1>2, <1>3, <1>4, ReadUserStep, SignTokenStep, EndSignInsStep, TickStep, WriteUserStep
    DEF Changing!Next, Changing!Step

\* Who writes an administrator's role has the role SUPER_ADMIN.
LEMMA AdminsStep ==
  ASSUME RolesInv, [Changing!Next]_vars
  PROVE  Changing!MakesAdminsAsSuperAdmin
  <1>. USE ChangingInstance
  <1>. SUFFICES ASSUME NEW u \in ChangingUsers,
                       user'[u].role \in {"SUPER_ADMIN", "DEPARTMENT_ADMIN"}, user'[u].role # user[u].role
                PROVE  \E q \in Requests : req[q].target = u /\ req[q].role = "SUPER_ADMIN"
    BY DEF Changing!MakesAdminsAsSuperAdmin, Changing!DepartmentAdmins
  <1>1. PICK q \in Requests : Changing!WriteUser(q)
    BY DEF Changing!Next, Changing!Step, vars, Changing!ReadUser, Changing!SignToken, Changing!EndSignIns,
           Changing!Tick, Changing!Start, Changing!Authenticate, Changing!Unscoped, Changing!ResolveTarget, Changing!CheckActor,
           Changing!CheckOwner, Changing!ReadCurrent, Changing!Answer, Changing!Throws
  <1>. DEFINE r == req[q]  row == user[r.target]  w == Changing!Written(q)
  <1>2. r.pc = "write" /\ user' = [user EXCEPT ![r.target] = w]
    BY <1>1 DEF Changing!WriteUser
  <1>3. /\ r.target = u /\ w = user'[u] /\ row = user[u] /\ row \in Changing!UserRow
    BY <1>2 DEF RolesInv, UsersOK
  <1>4. /\ r.op \in UserOps
        /\ r.op \in {"createUser", "assignUserRole"} => Changing!RoleAssignmentAuthorized(r.role, r.arg.role)
        /\ r.arg \in Changing!Arguments(r.op)
    BY <1>2 DEF RolesInv, ActorsOK, Acting
  <1>5. w.role = row.role \/ (r.op \in {"createUser", "assignUserRole"} /\ w.role = r.arg.role)
    <2>1. CASE r.op = "createUser"
      BY <2>1, WrittenBy
    <2>2. CASE r.op = "changeUserStatus"
      <3>1. w = [row EXCEPT !.active = r.arg.active]
        BY <2>2, WrittenBy
      <3>. QED BY <1>3, <3>1 DEF Changing!UserRow
    <2>3. CASE r.op = "assignUserDepartment"
      <3>1. w = [row EXCEPT !.department = r.arg.department]
        BY <2>3, WrittenBy
      <3>. QED BY <1>3, <3>1 DEF Changing!UserRow
    <2>4. CASE r.op = "assignUserRole"
      <3>1. w = [row EXCEPT !.role = r.arg.role]
        BY <2>4, WrittenBy
      <3>. QED BY <1>3, <2>4, <3>1 DEF Changing!UserRow
    <2>. QED BY <1>4, <2>1, <2>2, <2>3, <2>4 DEF UserOps
  <1>6. r.role = "SUPER_ADMIN"
    <2>. HIDE DEF r, row, w
    <2>. QED BY <1>3, <1>4, <1>5 DEF Changing!RoleAssignmentAuthorized, Changing!AssignableByDepartmentAdmin
  <1>. QED BY <1>3, <1>6

\* A request never acts with a role that its user lost longer ago than a token
\* lives and a sign-in takes from its read of the user to the signing, however
\* many requests, logins, refreshes and changes of roles interleave.
THEOREM RoleStalenessBoundedCorrect == Changing!Spec => []Changing!RoleStalenessBounded
  <1>1. RolesInv => Changing!RoleStalenessBounded
    BY DEF Staleness, RolesInv, ActorsOK, Acting, Changing!RoleStalenessBounded
  <1>. QED BY <1>1, RolesInit, RolesStep, PTL DEF Changing!Spec, Changing!vars, vars

\* No role is escalated: only a request with the role SUPER_ADMIN makes an
\* administrator, although others may change the user after it was checked.
THEOREM MakesAdminsAsSuperAdminCorrect ==
  Changing!Spec => [][Changing!MakesAdminsAsSuperAdmin]_vars
  BY RolesInit, RolesStep, AdminsStep, PTL DEF Changing!Spec, Changing!vars, vars

\* In the part that TLC runs as well.
LEMMA RolesPart ==
  /\ PartsInit => (part = "roles" => RolesInv)
  /\ (part = "roles" => RolesInv) /\ [PartsNext]_<<vars, part>> => (part = "roles" => RolesInv)'
  <1>1. PartsInit => (part = "roles" => RolesInv)
    BY RolesInit DEF PartsInit
  <1>2. ASSUME part = "roles" => RolesInv, [PartsNext]_<<vars, part>>, part' = "roles"
        PROVE  RolesInv'
    <2>1. part = "roles" /\ [Changing!Next]_vars
      BY <1>2 DEF PartsNext
    <2>. QED BY <1>2, <2>1, RolesStep
  <1>. QED BY <1>1, <1>2

\* The role of a request is no staler than an access token may be old, and a
\* sign-in long.
THEOREM RolesAreFreshCorrect == PartsSpec => []RolesAreFresh
  <1>1. (part = "roles" => RolesInv) => RolesAreFresh
    BY DEF Staleness, RolesInv, ActorsOK, Acting, Changing!RoleStalenessBounded, RolesAreFresh
  <1>. QED BY <1>1, RolesPart, PTL DEF PartsSpec

\* Only a SUPER_ADMIN makes administrators.
THEOREM AdminsMadeBySuperAdminCorrect == PartsSpec => AdminsMadeBySuperAdmin
  <1>1. (part = "roles" => RolesInv) /\ [PartsNext]_<<vars, part>>
          => [part = "roles" => Changing!MakesAdminsAsSuperAdmin]_<<vars, part>>
    <2>. SUFFICES ASSUME part = "roles" => RolesInv, PartsNext, part = "roles"
                  PROVE  Changing!MakesAdminsAsSuperAdmin
      OBVIOUS
    <2>1. [Changing!Next]_vars
      BY DEF PartsNext
    <2>. QED BY <2>1, AdminsStep
  <1>. QED BY <1>1, RolesPart, PTL DEF PartsSpec, AdminsMadeBySuperAdmin
=============================================================================
