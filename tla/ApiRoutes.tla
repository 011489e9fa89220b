----------------------------- MODULE ApiRoutes -----------------------------
(***************************************************************************)
(* The routes of apps/api: which roles requireRole admits to a handler,    *)
(* and how requireDepartmentScope or requireOwnership narrows them down.   *)
(* A handler is named without its "Handler".                               *)
(***************************************************************************)
EXTENDS Integers

AllRoles == {"SUPER_ADMIN", "DEPARTMENT_ADMIN", "LAB_ADMIN", "FACULTY", "STUDENT"}
DepartmentAdmins == {"SUPER_ADMIN", "DEPARTMENT_ADMIN"}
LabAdmins == DepartmentAdmins \cup {"LAB_ADMIN"}
BookingRoles == {"STUDENT", "FACULTY"}

\* scope: "none"; "department", which SUPER_ADMIN bypasses; "department!", which
\* nobody does; "owner".
Routes(ops, roles, scope) == [op \in ops |-> [roles |-> roles, scope |-> scope]]

\* No two of the tables have a route in common.
Joined(tables) ==
  [op \in UNION {DOMAIN f : f \in tables} |-> (CHOOSE f \in tables : op \in DOMAIN f)[op]]

OrganizationRoutes ==
  Joined({Routes({"listOrganizations", "getOrganization"}, AllRoles, "none"),
          Routes({"createOrganization", "updateOrganization"}, {"SUPER_ADMIN"}, "none")})

DepartmentRoutes ==
  Joined({Routes({"listDepartments", "getDepartment"}, AllRoles, "none"),
          Routes({"createDepartment", "deleteDepartment"}, {"SUPER_ADMIN"}, "none"),
          Routes({"updateDepartment"}, DepartmentAdmins, "department")})

LaboratoryRoutes ==
  Joined({Routes({"listLaboratories", "getLaboratory"}, AllRoles, "none"),
          Routes({"createLaboratory", "deleteLaboratory"}, DepartmentAdmins, "department"),
          Routes({"updateLaboratory"}, LabAdmins, "department")})

CourseRoutes ==
  Joined({Routes({"listCourses", "getCourse"}, AllRoles, "none"),
          Routes({"createCourse", "updateCourse", "deleteCourse"},
                  DepartmentAdmins, "department")})

GpuNodeRoutes ==
  Joined({Routes({"listGpuNodes", "getGpuNode"}, AllRoles, "none"),
          Routes({"createGpuNode", "updateGpuNode", "changeGpuNodeStatus", "updateGpuNodeHeartbeat"},
                  LabAdmins, "department"),
          Routes({"deleteGpuNode"}, DepartmentAdmins, "department")})

HealthRoutes == Routes({"listLiveGpuNodes", "getGpuNodeHealth"}, AllRoles, "none")

UserRoutes ==
  Joined({Routes({"listUsers", "getUser"}, LabAdmins, "none"),
          Routes({"createUser", "updateUserProfile", "changeUserStatus", "assignUserRole"},
                  DepartmentAdmins, "department"),
          Routes({"assignUserDepartment"}, {"SUPER_ADMIN"}, "none")})

ReservationRoutes ==
  Joined({Routes({"createReservation", "listMyReservations"}, BookingRoles, "none"),
          Routes({"listPendingReservations"}, {"FACULTY"}, "none"),
          Routes({"approveReservation", "rejectReservation"}, {"FACULTY"}, "department!"),
          Routes({"cancelReservation"}, BookingRoles, "owner")})

AvailabilityRoutes == Routes({"getGpuNodeAvailability"}, AllRoles, "none")
CalendarRoutes == Routes({"getLaboratoryCalendar"}, AllRoles, "none")

\* The bulk decisions scope themselves inside their transaction.
BulkRoutes == Routes({"bulkApproveReservations", "bulkRejectReservations"}, {"FACULTY"}, "none")

FacultyRoutes ==
  Routes({"getFacultyDashboard", "listFacultyCourses", "getWeeklyLabSchedule"}, {"FACULTY"}, "none")

AnalyticsRoutes ==
  Routes({"getUniversityAnalytics", "listDepartmentAnalytics", "getGpuUtilization",
          "getStudentsAnalytics", "listTopCourses"}, LabAdmins, "none")

ReportRoutes ==
  Routes({"getDailyReport", "getWeeklyReport", "getMonthlyReport"}, LabAdmins, "none")

\* What createApp mounts, in this order: express tries one after the other.
MountOrder ==
  <<OrganizationRoutes, DepartmentRoutes, CalendarRoutes, LaboratoryRoutes, CourseRoutes,
    HealthRoutes, AvailabilityRoutes, GpuNodeRoutes, UserRoutes, BulkRoutes, ReservationRoutes,
    FacultyRoutes, AnalyticsRoutes, ReportRoutes>>

ApiRouter == Joined({MountOrder[i] : i \in DOMAIN MountOrder})

MountedBefore(a, b) ==
  \E i, j \in DOMAIN MountOrder : i < j /\ a \in DOMAIN MountOrder[i] /\ b \in DOMAIN MountOrder[j]

\* The routes of one segment, such as "/live", and of the parameter "/:id", which
\* any such segment matches: their methods and where they are mounted.
At(ops, method, prefix) == [op \in ops |-> <<method, prefix>>]

Named ==
  Joined({At(DOMAIN AvailabilityRoutes \cup {"listLiveGpuNodes"}, "GET", "gpu-nodes"),
          At({"listMyReservations", "listPendingReservations"}, "GET", "reservations"),
          At(DOMAIN BulkRoutes, "PATCH", "reservations"),
          At({"getFacultyDashboard", "listFacultyCourses"}, "GET", "faculty"),
          At(DOMAIN AnalyticsRoutes, "GET", "analytics"), At(DOMAIN ReportRoutes, "GET", "reports")})

ById ==
  Joined({At({"getOrganization"}, "GET", "organizations"), At({"updateOrganization"}, "PATCH", "organizations"),
          At({"getDepartment"}, "GET", "departments"), At({"updateDepartment"}, "PATCH", "departments"),
          At({"getLaboratory"}, "GET", "laboratories"), At({"updateLaboratory"}, "PATCH", "laboratories"),
          At({"getCourse"}, "GET", "courses"), At({"updateCourse"}, "PATCH", "courses"),
          At({"getGpuNode"}, "GET", "gpu-nodes"), At({"updateGpuNode"}, "PATCH", "gpu-nodes"),
          At({"getUser"}, "GET", "users"), At({"updateUserProfile"}, "PATCH", "users"),
          At({"cancelReservation"}, "DELETE", "reservations")})

\* The route that answers a request for an endpoint: "/:id" swallows the named
\* routes of routers mounted after its own.  No other patterns of two routes
\* match the same path.
Swallowing(op) ==
  {o \in DOMAIN ById : op \in DOMAIN Named /\ ById[o] = Named[op] /\ MountedBefore(o, op)}
Dispatched(op) == IF Swallowing(op) = {} THEN op ELSE CHOOSE o \in Swallowing(op) : TRUE
=============================================================================
