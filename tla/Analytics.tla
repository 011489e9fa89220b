----------------------------- MODULE Analytics -----------------------------
(***************************************************************************)
(* The analytics and reports of apps/api, modules/analytics: one request   *)
(* computes its answer from many statements, most of them sent at once     *)
(* with Promise.all, while bookings, decisions, sweep passes, heartbeats   *)
(* and role changes go on.                                                 *)
(*                                                                         *)
(* Reservations live as ReservationLifecycle promises.  A statement is a   *)
(* record [name, of]: what it asks, and the department, course or bucket   *)
(* it asks about.  A request is the set of statements it sends; After says *)
(* which of them wait for others.                                          *)
(***************************************************************************)
EXTENDS UtcCalendar, FiniteSets, FiniteSetsExt, Functions

CONSTANTS
  Nodes, Rids, Times, None,  \* of ReservationLifecycle
  Departments, Courses, Users,
  NodeDept,    \* the department of the laboratory of each node
  UserDept,    \* the department of each user, or None
  RoleAtFirst, \* the role of each user at first ...
  Movers,      \* ... and the users whose role may change
  Beating,     \* nodes that send heartbeats, or have them set by hand
  Online, Degraded, \* thresholds of computeConnectivityStatus
  Epoch,       \* the instant of the calendar at which the run begins
  Kinds,       \* the requests that are sent
  Count,       \* how many buckets a report has
  Limit,       \* how many courses the top list has
  Serialized   \* TRUE: nothing else happens while a request is answered

\* What the tables and the schemas of the queries (dailyReportQuerySchema,
\* topCoursesQuerySchema) say of them, after 1970.
WellFormed ==
  /\ IsFiniteSet(Rids) /\ IsFiniteSet(Users) /\ IsFiniteSet(Departments)
  /\ Times \subseteq Nat /\ Epoch \in Nat /\ Online \in Int /\ Degraded \in Int
  /\ NodeDept \in [Nodes -> Departments]
  /\ UserDept \in [Users -> Departments \cup {None}]
  /\ RoleAtFirst \in [Users -> {"STUDENT", "FACULTY"}]
  /\ Count \in 1 .. 90 /\ Limit \in 1 .. 50 /\ Serialized \in BOOLEAN
  /\ None \notin Nodes \cup Departments \cup Courses \cup Int

VARIABLES
  now, booking, used,  \* of ReservationLifecycle
  made,   \* each reservation's owner, course and createdAt
  role,   \* users.role
  beat,   \* each node's lastHeartbeat, in gpu_nodes and in gpu_health_snapshots,
          \* which is None when there is no row
  req,    \* the request
  begun,  \* history: the tables other than beat when it began ...
  lately  \* ... and, while there is one, each node's heartbeats since then

Life == INSTANCE ReservationLifecycle WITH Maintenance <- {}

life == <<now, booking, used>>
tables == <<life, made, role, beat>>
vars == <<tables, req, begun, lately>>

Clock(t) == Epoch + t

-----------------------------------------------------------------------------
(* What the statements ask, of tables as they are or as they were *)

Tables == [booking |-> booking, used |-> used, made |-> made, role |-> role]

Made(db) == {r \in Rids : db.made[r].at # None}
Statuses == {"PENDING", "APPROVED", "ACTIVE", "REJECTED", "CANCELLED", "COMPLETED"}
CountStatus(db, S) == [s \in Statuses |-> Cardinality({r \in S : db.booking[r].status = s})]

InRange_EndToo(t, range) == range.start <= t /\ t <= range.end  \* mutant
InRange(t, range) == range.start <= t /\ t < range.end

\* Only a session that has ended has computeHours and endedAt.
Hours(db, S) ==
  SumFunction([r \in S |-> IF db.used[r] # <<>> /\ db.used[r][1].status = "COMPLETED"
                           THEN db.used[r][1].endedAt - db.used[r][1].startedAt ELSE 0])
EndedIn(db, range) ==
  {r \in Rids : /\ db.used[r] # <<>> /\ db.used[r][1].status = "COMPLETED"
                /\ InRange(Clock(db.used[r][1].endedAt), range)}
CreatedIn(db, range) == {r \in Made(db) : InRange(Clock(db.made[r].at), range)}

OfDepartment(db, d) == {r \in Made(db) : NodeDept[db.booking[r].node] = d}
OfCourse(db, c) == {r \in Made(db) : db.made[r].course = c}
WithRole(db, name) == {u \in Users : db.role[u] = name}

StudentIds(db) == {db.made[r].user : r \in {q \in Made(db) : db.role[db.made[q].user] = "STUDENT"}}

\* The snapshot's heartbeat counts if there is one, else the node's.
LastHeartbeat(node, snapshot) == IF snapshot # None THEN snapshot ELSE node
Heartbeats(b) == [n \in Nodes |-> LastHeartbeat(b[n].node, b[n].snapshot)]

ConnectivityStatus(last, at) ==
  IF last = None THEN "OFFLINE"
  ELSE IF at - last < Online THEN "ONLINE"
  ELSE IF at - last <= Degraded THEN "DEGRADED" ELSE "OFFLINE"

-----------------------------------------------------------------------------
(* Requests *)

Reports == Granularities
Q(name, of) == [name |-> name, of |-> of]
Each(names, S) == {Q(name, x) : name \in names, x \in S}

Idle == [kind |-> "idle", at |-> 0, buckets |-> <<>>, todo |-> {}, got |-> <<>>, pc |-> "idle"]

listNodeConnectivity == Each({"nodes", "connectivity"}, {None})
getUniversityAnalytics == listNodeConnectivity \cup Each({"students", "faculty", "byStatus", "hours"}, {None})
listDepartmentAnalytics == Each({"students", "faculty", "total", "hours", "active"}, Departments)
getGpuUtilization == listNodeConnectivity \cup Each({"snapshots"}, {None})
getStudentsAnalytics ==
  Each({"ids", "students", "studentHours"}, {None}) \cup Each({"students", "activeStudents"}, Departments)
listTopCourses == Each({"total", "active", "hours"}, Courses)
buildReport == Each({"total", "byStatus", "hours"}, 1 .. Count)

Statements(kind) ==
  CASE kind = "university"  -> getUniversityAnalytics
    [] kind = "departments" -> listDepartmentAnalytics
    [] kind = "gpu"         -> getGpuUtilization
    [] kind = "students"    -> getStudentsAnalytics
    [] kind = "courses"     -> listTopCourses
    [] kind \in Reports     -> buildReport

\* A statement is sent once the statements its answer is computed from, and
\* those awaited with them, have been answered.
After(kind, q) ==
  CASE kind = "students" /\ q.of # None      -> Each({"ids", "students", "studentHours"}, {None})
    [] q.name = "connectivity"               -> {Q("nodes", None)}
    [] kind = "gpu" /\ q.name = "snapshots"  -> {Q("connectivity", None)}
    [] OTHER -> {}

\* The rows a statement about reservations selects.
Selected(q, r) ==
  CASE r.kind \in Reports      -> CreatedIn(Tables, r.buckets[q.of])
    [] r.kind = "departments"  -> OfDepartment(Tables, q.of)
    [] r.kind = "courses"      -> OfCourse(Tables, q.of)
    [] OTHER                   -> Made(Tables)

\* listNodeConnectivity measures ages at the moment the request came.
ConnectivityAt(r) == r.at

Eval(q, r) ==
  CASE q.name \in {"students", "faculty"} ->
         Cardinality({u \in WithRole(Tables, IF q.name = "students" THEN "STUDENT" ELSE "FACULTY") :
                        q.of = None \/ UserDept[u] = q.of})
    [] q.name = "total" -> Cardinality(Selected(q, r))
    [] q.name = "byStatus" -> CountStatus(Tables, Selected(q, r))
    [] q.name = "active" -> CountStatus(Tables, Selected(q, r))["ACTIVE"]
    [] q.name = "hours" -> Hours(Tables, IF r.kind \in Reports THEN EndedIn(Tables, r.buckets[q.of])
                                         ELSE Selected(q, r))
    [] q.name = "studentHours" ->
         Hours(Tables, {x \in Made(Tables) : role[made[x].user] = "STUDENT"})
    [] q.name = "ids" -> StudentIds(Tables)
    [] q.name = "activeStudents" ->
         Cardinality({u \in WithRole(Tables, "STUDENT") : UserDept[u] = q.of /\ u \in r.got[Q("ids", None)]})
    [] q.name = "nodes" -> [n \in Nodes |-> beat[n].node]
    [] q.name = "connectivity" ->
         [n \in Nodes |-> ConnectivityStatus(LastHeartbeat(r.got[Q("nodes", None)][n], beat[n].snapshot),
                                             ConnectivityAt(r))]
    [] q.name = "snapshots" -> {n \in Nodes : beat[n].snapshot # None}

\* rows.sort(byTotal).slice(0, limit): the sort is stable, the courses come in
\* the order of their codes, and any order of Courses may be that one.
TopCourses_SlicedFirst(got) ==  \* mutant
  {top \in SUBSET Courses : Cardinality(top) = Min({Limit, Cardinality(Courses)})}
TopCourses(got) ==
  {top \in SUBSET Courses :
     /\ Cardinality(top) = Min({Limit, Cardinality(Courses)})
     /\ \A c \in top, d \in Courses \ top : got[Q("total", c)] >= got[Q("total", d)]}

-----------------------------------------------------------------------------
(* Actions *)

NotMade == [user |-> None, course |-> None, at |-> None]

Init ==
  /\ Life!Init
  /\ made = [r \in Rids |-> NotMade]
  /\ role = RoleAtFirst
  /\ beat = [n \in Nodes |-> [node |-> None, snapshot |-> None]]
  /\ req = Idle /\ begun = Tables /\ lately = [n \in Nodes |-> {}]

Free == ~Serialized \/ req.pc # "reading"

\* What goes on besides: bookings, decisions, sweep passes, the clock ...
Book(r, u, n, c, start, end) ==
  /\ Life!Book(r, n, start, end)
  /\ made' = [made EXCEPT ![r] = [user |-> u, course |-> c, at |-> now]]
Live ==
  \/ UNCHANGED made /\ \/ \E r \in Rids : Life!Approve(r) \/ Life!Reject(r) \/ Life!Cancel(r) \/ Life!Complete(r)
                       \/ \E r \in Rids : Life!Activate(r, now)
                       \/ Life!Tick
  \/ \E r \in Rids, u \in Users, n \in Nodes, c \in Courses \cup {None}, start, end \in Times :
       Book(r, u, n, c, start, end)

\* ... the first and the last statement of ingestTelemetry, the last of which is
\* also updateGpuNodeHeartbeat by hand, with the time that the agent or the
\* administrator names (Telemetry has a report with all its statements) ...
UpsertSnapshot(n, at) ==
  /\ beat' = [beat EXCEPT ![n].snapshot = at]
  /\ UNCHANGED <<life, made, role>>
UpdateLastHeartbeat(n, at) ==
  /\ beat' = [beat EXCEPT ![n].node = at]
  /\ UNCHANGED <<life, made, role>>

\* ... and assignUserRole.
ChangeRole(u) ==
  /\ role' = [role EXCEPT ![u] = IF @ = "STUDENT" THEN "FACULTY" ELSE "STUDENT"]
  /\ UNCHANGED <<life, made, beat>>

Meanwhile ==
  /\ Free
  /\ \/ Live /\ UNCHANGED <<role, beat>>
     \/ \E n \in Beating, at \in Times : UpsertSnapshot(n, at) \/ UpdateLastHeartbeat(n, at)
     \/ \E u \in Movers : ChangeRole(u)
  /\ lately' = [n \in Nodes |-> IF req.pc = "idle" THEN {} ELSE lately[n] \cup {Heartbeats(beat')[n]}]
  /\ UNCHANGED <<req, begun>>

\* A handler of analytics.controller.ts starts.
Ask(kind) ==
  /\ req.pc = "idle"
  /\ req' = [Idle EXCEPT !.kind = kind, !.at = now, !.pc = "reading", !.todo = Statements(kind),
                         !.buckets = IF kind \in Reports THEN Buckets(kind, Clock(now), Count) ELSE <<>>]
  /\ begun' = Tables /\ lately' = [n \in Nodes |-> {Heartbeats(beat)[n]}]
  /\ UNCHANGED tables

Read(q) ==
  /\ req.pc = "reading"
  /\ q \in req.todo
  /\ After(req.kind, q) \cap req.todo = {}
  /\ req' = [req EXCEPT !.todo = @ \ {q},
                        !.got = [x \in DOMAIN @ \cup {q} |-> IF x = q THEN Eval(q, req) ELSE @[x]],
                        !.pc = IF req.todo = {q} THEN "answered" ELSE @]
  /\ UNCHANGED <<tables, begun, lately>>

\* The client has its answer; the history holds nothing any more.
Done ==
  /\ req.pc = "answered"
  /\ req' = Idle /\ begun' = Tables /\ lately' = [n \in Nodes |-> {}]
  /\ UNCHANGED tables

Next ==
  \/ Meanwhile
  \/ \E kind \in Kinds : Ask(kind)
  \/ \E q \in req.todo : Read(q)
  \/ Done

Spec == Init /\ [][Next]_vars

-----------------------------------------------------------------------------
(* Properties *)

Answered(kinds) == req.pc = "answered" /\ req.kind \in kinds
Got(name, of) == req.got[Q(name, of)]
Total(name, S) == SumFunction([x \in S |-> Got(name, x)])
Span == [start |-> req.buckets[1].start, end |-> req.buckets[Len(req.buckets)].end]

\* A report loses nothing and counts nothing twice, whatever is booked and
\* completed while its buckets are computed: over its buckets there are at
\* least the reservations and hours there were when the request came, and at
\* most those there are when it is answered.
ReportsCountOnce ==
  Answered(Reports) =>
    /\ Cardinality(CreatedIn(begun, Span)) <= Total("total", 1 .. Count)
    /\ Total("total", 1 .. Count) <= Cardinality(CreatedIn(Tables, Span))
    /\ Hours(begun, EndedIn(begun, Span)) <= Total("hours", 1 .. Count)
    /\ Total("hours", 1 .. Count) <= Hours(Tables, EndedIn(Tables, Span))

\* A period that had ended when the request came is closed: the count of its
\* reservations and their breakdown by status, two statements, agree although
\* statuses change and reservations are made between them.
PastPeriodsAreClosed ==
  Answered(Reports) =>
    \A k \in 1 .. Count :
      req.buckets[k].end <= Clock(req.at) =>
        Got("total", k) = SumFunction(Got("byStatus", k))

\* The departments share the reservations and the hours of the university out
\* among them, and everyone's reservation counts for the department whose node
\* it takes, users without a department included.
DepartmentsAddUp ==
  Answered({"departments"}) =>
    /\ Cardinality(Made(begun)) <= Total("total", Departments)
    /\ Total("total", Departments) <= Cardinality(Made(Tables))
    /\ Hours(begun, Rids) <= Total("hours", Departments)
    /\ Total("hours", Departments) <= Hours(Tables, Rids)

\* Of the students, those with a reservation are some, and there is one at
\* least when the students have used hours: the average is over them.
ActiveStudentsAreStudents ==
  Answered({"students"}) =>
    /\ Cardinality(Got("ids", None)) <= Got("students", None)
    /\ Got("studentHours", None) > 0 => Got("ids", None) # {}
    /\ Total("activeStudents", Departments) <= Cardinality(Got("ids", None))
    /\ \A d \in Departments : Got("activeStudents", d) <= Got("students", d)

\* No course off the list of the top courses had more reservations when the
\* request came than one on the list has when it is answered.
TopCoursesAreTop ==
  Answered({"courses"}) =>
    \A top \in TopCourses(req.got) : \A c \in top, d \in Courses \ top :
      Cardinality(OfCourse(Tables, c)) >= Cardinality(OfCourse(begun, d))

\* What a node is shown as, put together from the row of the node and, later,
\* its snapshot, is what it was at some moment since the request came, although
\* reports and overrides land in between, whatever time they name; and where no
\* reading is shown next to it, a third statement, it had not reported by then and
\* is shown by the heartbeat of its own row.
ConnectivityWasSo ==
  Answered({"university", "gpu"}) =>
    \A n \in Nodes :
      /\ \E last \in lately[n] : Got("connectivity", None)[n] = ConnectivityStatus(last, req.at)
      /\ req.kind = "gpu" /\ n \notin Got("snapshots", None) =>
           Got("connectivity", None)[n] = ConnectivityStatus(Got("nodes", None)[n], req.at)
=============================================================================
