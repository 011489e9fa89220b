----------------------------- MODULE MCReports -----------------------------
(* Small instances of what the api reports about reservations, for TLC:     *)
(* Analytics, a request of one kind in each part ("reports", "departments", *)
(* "students", "courses" and "nodes"), and the views of ReservationViews    *)
(* other than the dashboard ("lists").  The parts of Analytics have its     *)
(* constants in common and differ in what goes on besides.  MCFacultyBulk   *)
(* has the instances of the dashboard and the calendar, and the rest of the *)
(* variables, which keep one value.                                         *)
EXTENDS MCFacultyBulk

CONSTANTS
  ReportRids, Departments, Courses, Users, NodeDept, UserDept, RoleAtFirst, Movers, Beating,
  SoonDegraded, SoonOffline, Epoch, Count, Limit,   \* as in Analytics
  d2, u1, u2, u3
VARIABLES made, role, beat, req, begun, lately

Kinds == {"daily", "weekly", "monthly", "departments", "students", "courses", "university", "gpu"}
Stats == INSTANCE Analytics WITH
  Rids <- ReportRids, Online <- SoonDegraded, Degraded <- SoonOffline

ASSUME StatsAssumption == Stats!WellFormed

tables == <<now, booking, used, made, role, beat>>
analytics == <<made, role, beat, req, begun, lately>>
faculty == <<vars, dash, steady, asked>>
allVars == <<faculty, now, booking, used, analytics, part>>

MCNodeDept == n1 :> cs @@ n2 :> d2
MCUserDept == u1 :> cs @@ u2 :> None @@ u3 :> d2
MCRoles == [u \in {u1, u2, u3} |-> IF u = u3 THEN "FACULTY" ELSE "STUDENT"]
ReportTimes == 0 .. 3

-----------------------------------------------------------------------------
KindsOf ==
  [reports |-> {"daily", "weekly", "monthly"}, departments |-> {"departments"},
   students |-> {"students"}, courses |-> {"courses"}, nodes |-> {"university", "gpu"}]

LookedAt == IF part = "nodes" THEN {"nodes", "connectivity", "snapshots"} ELSE {"total", "hours"}
Looking == \E q \in req.todo : q.name \in LookedAt
AnsweredNames == {q.name : q \in DOMAIN req.got}

\* What goes on besides.
MadeOnes == {r \in ReportRids : made[r] # Stats!NotMade}
Besides ==
  /\ req.kind \in KindsOf[part] \cup {"idle"}
  /\ part # "students" => role = RoleAtFirst
  /\ part = "nodes" => /\ MadeOnes = {} /\ now <= 2
                       /\ \A n \in Nodes : {beat[n].node, beat[n].snapshot} \subseteq {None, 0, 1, 2}
  /\ part # "nodes" => /\ now <= 1 /\ \A r \in MadeOnes : booking[r].end <= 1
                       /\ \A n \in Nodes : Stats!Heartbeats(beat)[n] = None
  \* One reservation, of a user without a department; or any, on one node.
  /\ part = "departments" => Cardinality(MadeOnes) <= 1 /\ \A r \in MadeOnes : made[r].user = u2
  /\ part # "departments" => \A r \in MadeOnes : booking[r].node = n1
  /\ part \in {"reports", "courses"} => \A r \in MadeOnes : made[r].user = u1
  /\ part # "courses" => \A r \in MadeOnes : made[r].course = None
  \* No property tells a rejected reservation from a cancelled one.
  /\ \A r \in MadeOnes : booking[r].status # "REJECTED"
  \* The answers no property looks at are the last, of "university" in one order.
  /\ part \in {"departments", "courses", "nodes"} /\ Looking => AnsweredNames \subseteq LookedAt
  /\ part = "nodes" => /\ "faculty" \in AnsweredNames => "students" \in AnsweredNames
                       /\ "byStatus" \in AnsweredNames => "faculty" \in AnsweredNames
                       /\ "hours" \in AnsweredNames => "byStatus" \in AnsweredNames

NoAnalytics == made = <<>> /\ role = <<>> /\ beat = <<>> /\ req = <<>> /\ begun = <<>> /\ lately = <<>>

ReportsInit ==
  /\ NoBulk /\ asked = <<>>
  /\ \/ part \in DOMAIN KindsOf /\ Stats!Init /\ dash = <<>> /\ steady = {}
     \/ part = "lists" /\ Dashboard!Init /\ NoAnalytics

\* In "students" nothing else happens while the request is answered, in "nodes"
\* not once the answers that matter have been given.
ReportsNext ==
  /\ UNCHANGED part
  /\ \/ /\ part \in DOMAIN KindsOf /\ Stats!Next /\ UNCHANGED faculty /\ Besides'
        /\ part = "students" /\ req.pc = "reading" => UNCHANGED tables
        /\ part = "nodes" /\ req.pc # "idle" /\ ~Looking => UNCHANGED tables
     \/ part = "lists" /\ Dashboard!Change /\ UNCHANGED <<vars, asked, analytics>>

ReportsSpec == ReportsInit /\ [][ReportsNext]_allVars

Interchangeable == Permutations(ReportRids)

-----------------------------------------------------------------------------
\* A report counts everything once while reservations change under it, and the
\* periods that are over are closed.
ReportsAreConsistent == part = "reports" => Stats!ReportsCountOnce /\ Stats!PastPeriodsAreClosed

\* Departments, students, courses and nodes: what one request says from many
\* statements fits together.
BreakdownsAgree ==
  /\ part = "departments" => Stats!DepartmentsAddUp
  /\ part = "students" => Stats!ActiveStudentsAreStudents
  /\ part = "courses" => Stats!TopCoursesAreTop
  /\ part = "nodes" => Stats!ConnectivityWasSo

\* Availability, calendar, schedule and lists agree with what can be booked and
\* with each other.
ViewsAgree == part = "lists" => Dashboard!TodayInWeek /\ Dashboard!ViewsAgree /\ Dashboard!PagesCover
=============================================================================
