----------------------------- MODULE Inventory -----------------------------
(***************************************************************************)
(* Organizations, departments, laboratories, users, courses and GPU nodes  *)
(* of apps/api: the tables, the constraints PostgreSQL enforces on them,   *)
(* and the services that administer them.                                  *)
(*                                                                         *)
(* The services share one shape - read the row, the row it refers to and   *)
(* the row that has its key, write, record an audit event - and differ in  *)
(* which of these they do and which database errors they turn into a 409.  *)
(* A service function is therefore data here: Handlers holds one record    *)
(* per function, and the actions interpret it, one statement per step, so  *)
(* that other requests come in between.                                    *)
(***************************************************************************)
EXTENDS Naturals, Sequences, FiniteSets

CONSTANTS
  Ids,         \* row ids, per table
  Keys,        \* codes, names, hostnames, e-mail addresses
  Ops,         \* the handlers of the instance
  SeedTables,  \* the tables that have a row from the start
  Requests,    \* slots for requests in flight
  Serialized,  \* TRUE: a request starts only when none is in flight
  None         \* SQL NULL, an absent input

-----------------------------------------------------------------------------
(* The schema.  A table has references, each with what the deletion of the *)
(* row it points to does; the columns that, with the key, are unique; and  *)
(* the values of the one column besides these that decides anything.       *)

To(table, onDelete) == [to |-> table, onDelete |-> onDelete]

Organization == [refs |-> <<>>, unique |-> {}, tags |-> {None}]
Department == [refs |-> [organizationId |-> To("Organization", "Restrict")],
               unique |-> {"organizationId"}, tags |-> {None}]
Laboratory == [refs |-> [departmentId |-> To("Department", "Restrict")],
               unique |-> {"departmentId"}, tags |-> {None}]
User == [refs |-> [departmentId |-> To("Department", "SetNull")],
         unique |-> {}, tags |-> {"SUPER_ADMIN", "FACULTY", "STUDENT"}]
Course == [refs |-> [facultyId |-> To("User", "Restrict")], unique |-> {}, tags |-> {None}]
GpuNode == [refs |-> [labId |-> To("Laboratory", "Restrict")],
            unique |-> {}, tags |-> {"AVAILABLE", "MAINTENANCE"}]
Reservation_CascadeCourse ==  \* mutant
  [refs |-> [userId |-> To("User", "Restrict"), gpuNodeId |-> To("GpuNode", "Restrict"),
             courseId |-> To("Course", "Cascade")], unique |-> {}, tags |-> {None}]
Reservation == [refs |-> [userId |-> To("User", "Restrict"), gpuNodeId |-> To("GpuNode", "Restrict"),
                          courseId |-> To("Course", "SetNull")], unique |-> {}, tags |-> {None}]
MaintenanceWindow == [refs |-> [gpuNodeId |-> To("GpuNode", "Cascade")], unique |-> {}, tags |-> {None}]

Schema == [Organization |-> Organization, Department |-> Department, Laboratory |-> Laboratory,
           User |-> User, Course |-> Course, GpuNode |-> GpuNode,
           Reservation |-> Reservation, MaintenanceWindow |-> MaintenanceWindow]
Tables == DOMAIN Schema
Refs(t) == DOMAIN Schema[t].refs

Row(t) == [live : BOOLEAN, key : Keys \cup {None}, tag : Schema[t].tags \cup {None},
           refs : [Refs(t) -> Ids \cup {None}]]
NoRow(t) == [live |-> FALSE, key |-> None, tag |-> None, refs |-> [f \in Refs(t) |-> None]]

-----------------------------------------------------------------------------
(* The services: what they read, in order, what they write, the fields the *)
(* schema of their input lets a client set, and the database errors they   *)
(* answer with 409 instead of 500.                                         *)

Service(table, reads, write, sets, catches) ==
  [table |-> table, reads |-> reads, write |-> write, sets |-> sets, catches |-> catches]

createOrganization == Service("Organization", <<"key">>, "insert", {"key"}, {"P2002"})
updateOrganization == Service("Organization", <<"self", "key">>, "update", {"key"}, {"P2002"})

createDepartment_Uncaught == Service("Department", <<"parent", "key">>, "insert",  \* mutant
                                     {"key", "organizationId"}, {})
createDepartment == Service("Department", <<"parent", "key">>, "insert",
                            {"key", "organizationId"}, {"P2002"})
updateDepartment == Service("Department", <<"self", "key">>, "update", {"key"}, {"P2002"})
deleteDepartment_Uncaught == Service("Department", <<"self">>, "delete", {}, {})  \* mutant
deleteDepartment == Service("Department", <<"self">>, "delete", {}, {"P2003"})

createLaboratory == Service("Laboratory", <<"parent", "key">>, "insert",
                            {"key", "departmentId"}, {"P2002"})
updateLaboratory == Service("Laboratory", <<"self", "key">>, "update", {"key"}, {"P2002"})
deleteLaboratory == Service("Laboratory", <<"self">>, "delete", {}, {"P2003"})

createCourse == Service("Course", <<"faculty", "key">>, "insert", {"key", "facultyId"}, {"P2002"})
updateCourse == Service("Course", <<"self", "faculty">>, "update", {"facultyId"}, {})
deleteCourse == Service("Course", <<"self">>, "delete", {}, {})

createGpuNode == Service("GpuNode", <<"parent", "key">>, "insert",
                         {"key", "labId", "tag"}, {"P2002"})
updateGpuNode == Service("GpuNode", <<"self", "key">>, "update", {"key"}, {"P2002"})
changeGpuNodeStatus == Service("GpuNode", <<"self">>, "update", {"tag"}, {})
updateGpuNodeHeartbeat == Service("GpuNode", <<"self">>, "update", {}, {})
deleteGpuNode == Service("GpuNode", <<"self">>, "delete", {}, {"P2003"})

\* The e-mail address stands for the university id too: both are unique, and
\* a clash of either is answered alike.
createUser == Service("User", <<"parent", "key">>, "insert",
                      {"key", "departmentId", "tag"}, {"P2002"})
updateUserProfile == Service("User", <<"self", "key">>, "update", {"key"}, {"P2002"})

\* Modelled in other modules: here only what they do to these tables.
assignUserRole == Service("User", <<"self">>, "update", {"tag"}, {})
createReservation == Service("Reservation", <<"parent">>, "insert", {"userId", "gpuNodeId", "courseId"}, {})
\* No endpoint creates a maintenance window; an operator of the database does.
planMaintenance == Service("MaintenanceWindow", <<"parent">>, "insert", {"gpuNodeId"}, {})

Handlers ==
  [createOrganization |-> createOrganization, updateOrganization |-> updateOrganization,
   createDepartment |-> createDepartment, updateDepartment |-> updateDepartment,
   deleteDepartment |-> deleteDepartment,
   createLaboratory |-> createLaboratory, updateLaboratory |-> updateLaboratory,
   deleteLaboratory |-> deleteLaboratory,
   createCourse |-> createCourse, updateCourse |-> updateCourse, deleteCourse |-> deleteCourse,
   createGpuNode |-> createGpuNode, updateGpuNode |-> updateGpuNode,
   changeGpuNodeStatus |-> changeGpuNodeStatus, updateGpuNodeHeartbeat |-> updateGpuNodeHeartbeat,
   deleteGpuNode |-> deleteGpuNode,
   createUser |-> createUser, updateUserProfile |-> updateUserProfile,
   assignUserRole |-> assignUserRole, createReservation |-> createReservation,
   planMaintenance |-> planMaintenance]

\* A table is seeded only with the tables its rows refer to.
ASSUME ConstantsAssumption ==
  /\ Ops \subseteq DOMAIN Handlers
  /\ SeedTables \subseteq Tables
  /\ \A t \in SeedTables, f \in {"organizationId", "departmentId", "labId", "facultyId", "userId",
                                 "gpuNodeId"} : f \in Refs(t) => Schema[t].refs[f].to \in SeedTables
  /\ Serialized \in BOOLEAN
  /\ None \notin Ids \cup Keys \cup {"SUPER_ADMIN", "500"}  \* NULL is no value

VARIABLES
  db,   \* the tables
  req   \* the requests in flight

vars == <<db, req>>

Idle == [pc |-> "idle", n |-> 0, op |-> None, id |-> None, input |-> None, seen |-> None,
         wrote |-> FALSE, recorded |-> FALSE, answer |-> None]

\* The seed: one row in each of the seeded tables, which refers to the others.
SeedRow(t, i, k) ==
  [live |-> TRUE,
   key |-> IF t \in {"Reservation", "MaintenanceWindow"} THEN None ELSE k,
   tag |-> CASE t = "User" -> "FACULTY" [] t = "GpuNode" -> "AVAILABLE" [] OTHER -> None,
   refs |-> [f \in Refs(t) |-> IF Schema[t].refs[f].to \in SeedTables THEN i ELSE None]]

Init ==
  /\ \E i \in Ids, k \in Keys :
       db = [t \in Tables |-> [j \in Ids |-> IF t \in SeedTables /\ j = i
                                             THEN SeedRow(t, i, k) ELSE NoRow(t)]]
  /\ req = [q \in Requests |-> Idle]

-----------------------------------------------------------------------------
(* What PostgreSQL does with a statement *)

\* A unique constraint: the row would have the key of another one.
Clashes(t, i, row) ==
  \E j \in Ids \ {i} :
    /\ row.key # None /\ db[t][j].live /\ db[t][j].key = row.key
    /\ \A f \in Schema[t].unique : db[t][j].refs[f] = row.refs[f]

\* A foreign key: the row refers to one that is not there.
Dangles(t, row) ==
  \E f \in Refs(t) : row.refs[f] # None /\ ~db[Schema[t].refs[f].to][row.refs[f]].live

PointsTo(c, j, f, t, i) == Schema[c].refs[f].to = t /\ db[c][j].refs[f] = i

Restricted(t, i) ==
  \E c \in Tables, j \in Ids : \E f \in Refs(c) :
    db[c][j].live /\ PointsTo(c, j, f, t, i) /\ Schema[c].refs[f].onDelete = "Restrict"

AfterDelete(t, i) ==
  [c \in Tables |-> [j \in Ids |->
     IF \/ c = t /\ j = i
        \/ \E f \in Refs(c) : PointsTo(c, j, f, t, i) /\ Schema[c].refs[f].onDelete = "Cascade"
     THEN NoRow(c)
     ELSE [db[c][j] EXCEPT !.refs = [f \in Refs(c) |-> IF PointsTo(c, j, f, t, i) THEN None ELSE @[f]]]]]

-----------------------------------------------------------------------------
(* A request *)

Handler(q) == Handlers[req[q].op]
Table(q) == Handler(q).table
Row0(q) == db[Table(q)][req[q].id]
Reply(q, a) == req' = [req EXCEPT ![q].pc = "done", ![q].answer = a]

\* What the input schemas accept.  createUserSchema wants a department for
\* everyone but a SUPER_ADMIN; a reservation may name no course; an update
\* may leave out what it does not change.
Acceptable(op, row) ==
  LET h == Handlers[op]  t == h.table IN
  /\ row.live
  /\ op = "assignUserRole" => row.tag # "SUPER_ADMIN"
  /\ "key" \notin h.sets => row.key = None
  /\ "tag" \in h.sets <=> row.tag # None
  /\ \A f \in Refs(t) : f \notin h.sets => row.refs[f] = None
  /\ h.write = "insert" =>
       /\ "key" \in h.sets => row.key # None
       /\ \A f \in Refs(t) \ {"courseId"} : row.refs[f] = None <=> row.tag = "SUPER_ADMIN"

Inputs == [op \in Ops |-> {row \in Row(Handlers[op].table) : Acceptable(op, row)}]

\* An id for a new row is one that no row and no request has.
Holds(p, t, i) ==
  /\ req[p].pc # "idle"
  /\ \/ Table(p) = t /\ req[p].id = i
     \/ \E f \in Refs(Table(p)) : Schema[Table(p)].refs[f].to = t /\ req[p].input.refs[f] = i
Fresh(t, i) == ~db[t][i].live /\ \A p \in Requests : ~Holds(p, t, i)

Receive(q, op, i, row) ==
  /\ req[q] = Idle
  /\ Serialized => \A p \in Requests : req[p] = Idle
  /\ Handlers[op].write = "insert" => Fresh(Handlers[op].table, i)
  /\ req' = [req EXCEPT ![q] = [Idle EXCEPT
       !.pc = "read", !.n = 1, !.op = op, !.id = i, !.input = row, !.seen = NoRow(Handlers[op].table)]]
  /\ UNCHANGED db

NextRead(q, row) ==
  req' = [req EXCEPT ![q].n = @ + 1, ![q].seen = row,
                     ![q].pc = IF req[q].n = Len(Handler(q).reads) THEN "write" ELSE "read"]

\* getX: 404 when the row is not there.
ReadSelf(q) ==
  /\ req[q].pc = "read" /\ Handler(q).reads[req[q].n] = "self"
  /\ IF Row0(q).live THEN NextRead(q, Row0(q)) ELSE Reply(q, "404")
  /\ UNCHANGED db

\* The row the new one is to refer to: 400 when it is not there.
ReadParent(q) ==
  /\ req[q].pc = "read" /\ Handler(q).reads[req[q].n] = "parent"
  /\ IF Dangles(Table(q), req[q].input) THEN Reply(q, "400") ELSE NextRead(q, req[q].seen)
  /\ UNCHANGED db

\* assertFaculty: 400 when the user is not there or is not FACULTY.
ReadFaculty(q) ==
  LET u == req[q].input.refs.facultyId IN
  /\ req[q].pc = "read" /\ Handler(q).reads[req[q].n] = "faculty"
  /\ IF u = None \/ (db["User"][u].live /\ db["User"][u].tag = "FACULTY")
     THEN NextRead(q, req[q].seen) ELSE Reply(q, "400")
  /\ UNCHANGED db

\* findXByKey: 409 when another row has the key.  An update looks among the
\* rows of the parent that the row had when it was read.
ReadKey(q) ==
  LET row == IF req[q].seen.live THEN [req[q].seen EXCEPT !.key = req[q].input.key] ELSE req[q].input IN
  /\ req[q].pc = "read" /\ Handler(q).reads[req[q].n] = "key"
  /\ IF Clashes(Table(q), req[q].id, row) THEN Reply(q, "409") ELSE NextRead(q, req[q].seen)
  /\ UNCHANGED db

Updated(q) ==
  LET given(x, old) == IF x = None THEN old ELSE x IN
  [live |-> TRUE, key |-> given(req[q].input.key, Row0(q).key), tag |-> given(req[q].input.tag, Row0(q).tag),
   refs |-> [f \in Refs(Table(q)) |-> given(req[q].input.refs[f], Row0(q).refs[f])]]

Store(q, row) == db' = [db EXCEPT ![Table(q)][req[q].id] = row]
Wrote(q) == req' = [req EXCEPT ![q].pc = "audit", ![q].wrote = TRUE]

\* A statement the database refuses: 409 for the errors the service catches.
Refused(q, code) ==
  /\ Reply(q, IF code \in Handler(q).catches THEN "409" ELSE "500")
  /\ UNCHANGED db

Insert(q) ==
  /\ req[q].pc = "write" /\ Handler(q).write = "insert"
  /\ IF Dangles(Table(q), req[q].input) THEN Refused(q, "P2025")
     ELSE IF Clashes(Table(q), req[q].id, req[q].input) THEN Refused(q, "P2002")
     ELSE Store(q, req[q].input) /\ Wrote(q)

Update(q) ==
  /\ req[q].pc = "write" /\ Handler(q).write = "update"
  /\ IF ~Row0(q).live \/ Dangles(Table(q), Updated(q)) THEN Refused(q, "P2025")
     ELSE IF Clashes(Table(q), req[q].id, Updated(q)) THEN Refused(q, "P2002")
     ELSE Store(q, Updated(q)) /\ Wrote(q)

Delete(q) ==
  /\ req[q].pc = "write" /\ Handler(q).write = "delete"
  /\ IF ~Row0(q).live THEN Refused(q, "P2025")
     ELSE IF Restricted(Table(q), req[q].id) THEN Refused(q, "P2003")
     ELSE db' = AfterDelete(Table(q), req[q].id) /\ Wrote(q)

\* recordAdminAuditEvent may fail, and swallows its failure: the write has
\* committed.
Audit_Rethrows(q) ==  \* mutant
  /\ req[q].pc = "audit"
  /\ \E recorded \in BOOLEAN :
       req' = [req EXCEPT ![q].pc = "done", ![q].answer = IF recorded THEN "ok" ELSE "500", ![q].recorded = recorded]
  /\ UNCHANGED db
Audit(q) ==
  /\ req[q].pc = "audit"
  /\ \E recorded \in BOOLEAN :
       req' = [req EXCEPT ![q].pc = "done", ![q].answer = "ok", ![q].recorded = recorded]
  /\ UNCHANGED db

Respond(q) ==
  /\ req[q].pc = "done"
  /\ req' = [req EXCEPT ![q] = Idle]
  /\ UNCHANGED db

Step(q) ==
  \/ ReadSelf(q) \/ ReadParent(q) \/ ReadFaculty(q) \/ ReadKey(q)
  \/ Insert(q) \/ Update(q) \/ Delete(q)
  \/ Audit(q) \/ Respond(q)

Start(q) == \E op \in Ops : \E i \in Ids, row \in Inputs[op] : Receive(q, op, i, row)

Next == \E q \in Requests : Start(q) \/ Step(q)

Spec == Init /\ [][Next]_vars

-----------------------------------------------------------------------------
(* Properties *)

Answered(q) == req[q].pc # "done" /\ req'[q].pc = "done"

\* The row that a request was to change, or one that it was to refer to, has been
\* deleted since it was looked up.
Gone(q) == \/ Handler(q).write # "insert" /\ ~Row0(q).live
           \/ Dangles(Table(q), req[q].input)

NotFaculty(q) ==
  /\ Table(q) = "Course" /\ req[q].input.refs.facultyId # None
  /\ db["User"][req[q].input.refs.facultyId].tag # "FACULTY"

\* Another row has the key, in the department or organization that this one is
\* in now; or rows refer to it.
InUse(q) ==
  CASE Handler(q).write = "insert" -> Clashes(Table(q), req[q].id, req[q].input)
    [] Handler(q).write = "update" -> Row0(q).live => Clashes(Table(q), req[q].id, Updated(q))
    [] Handler(q).write = "delete" -> Restricted(Table(q), req[q].id)

\* What a request is told is so at that moment, although it was looked up over
\* several statements: success if and only if its write has been done, whether
\* or not the audit event could be recorded (the promise of common/audit.ts);
\* 404 of a row that is not there, 400 of a reference that leads nowhere or to
\* somebody who does not teach, 409 of a key that another row has where this one
\* is now, or of a row that others refer to.
AnswersAreTrue ==
  [][\A q \in Requests : Answered(q) =>
       /\ req'[q].answer = "ok" <=> req[q].wrote
       /\ req'[q].recorded => req'[q].answer = "ok"
       /\ req'[q].answer = "404" => ~Row0(q).live
       /\ req'[q].answer = "400" => Dangles(Table(q), req[q].input) \/ NotFaculty(q)
       /\ req'[q].answer = "409" => InUse(q)]_vars

\* Who loses a race is told so: the second of two requests for a key, or one that
\* deletes what another has just come to refer to, gets a 409.  Only a row that
\* has been deleted meanwhile makes a 500 of it.
RacesAreConflicts == [][\A q \in Requests : Answered(q) /\ req'[q].answer = "500" => Gone(q)]_vars

\* When requests do not overlap, what a service looks up before it writes and
\* the errors it catches cover every refusal of the database.
NoServerError == \A q \in Requests : req[q].answer # "500"

\* A reservation is never lost or moved to another user or node by the
\* administration of what it refers to.
ReservationsKept ==
  [][\A i \in Ids : db["Reservation"][i].live =>
       /\ db'["Reservation"][i].live
       /\ \A f \in {"userId", "gpuNodeId"} :
            db'["Reservation"][i].refs[f] = db["Reservation"][i].refs[f]]_vars
=============================================================================
