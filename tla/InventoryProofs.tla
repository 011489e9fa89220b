--------------------------- MODULE InventoryProofs ---------------------------
(***************************************************************************)
(* Proofs about Inventory, for any ids, keys, handlers, seed and number of *)
(* requests in flight, and about the parts of it that TLC runs.            *)
(***************************************************************************)
EXTENDS MCInventory, TLAPS

-----------------------------------------------------------------------------
(* The schema and the services, as far as the proofs look at them *)

AllTables == {"Organization", "Department", "Laboratory", "User", "Course", "GpuNode",
              "Reservation", "MaintenanceWindow"}

Target(t, f) == Schema[t].refs[f].to
OnDelete(t, f) == Schema[t].refs[f].onDelete

LEMMA SchemaRows ==
  /\ Tables = AllTables
  /\ Schema["Organization"] = Organization /\ Schema["Department"] = Department
  /\ Schema["Laboratory"] = Laboratory /\ Schema["User"] = User /\ Schema["Course"] = Course
  /\ Schema["GpuNode"] = GpuNode /\ Schema["Reservation"] = Reservation
  /\ Schema["MaintenanceWindow"] = MaintenanceWindow
  BY DEF Tables, Schema, AllTables

LEMMA NoRefs == DOMAIN <<>> = {}
  OBVIOUS

LEMMA RefsOf ==
  /\ Refs("Organization") = {}
  /\ Refs("Department") = {"organizationId"}
  /\ Refs("Laboratory") = {"departmentId"}
  /\ Refs("User") = {"departmentId"}
  /\ Refs("Course") = {"facultyId"}
  /\ Refs("GpuNode") = {"labId"}
  /\ Refs("Reservation") = {"userId", "gpuNodeId", "courseId"}
  /\ Refs("MaintenanceWindow") = {"gpuNodeId"}
  <1>1. Refs("Organization") = {}
    BY SchemaRows, NoRefs DEF Refs, Organization
  <1>2. /\ Refs("Department") = {"organizationId"}
        /\ Refs("Laboratory") = {"departmentId"}
        /\ Refs("User") = {"departmentId"}
    BY SchemaRows DEF Refs, Department, Laboratory, User
  <1>3. /\ Refs("Course") = {"facultyId"}
        /\ Refs("GpuNode") = {"labId"}
        /\ Refs("Reservation") = {"userId", "gpuNodeId", "courseId"}
        /\ Refs("MaintenanceWindow") = {"gpuNodeId"}
    BY SchemaRows DEF Refs, Course, GpuNode, Reservation, MaintenanceWindow
  <1>. QED BY <1>1, <1>2, <1>3

LEMMA TargetOf ==
  /\ Target("Department", "organizationId") = "Organization"
  /\ Target("Laboratory", "departmentId") = "Department"
  /\ Target("User", "departmentId") = "Department"
  /\ Target("Course", "facultyId") = "User"
  /\ Target("GpuNode", "labId") = "Laboratory"
  /\ Target("Reservation", "userId") = "User"
  /\ Target("Reservation", "gpuNodeId") = "GpuNode"
  /\ Target("Reservation", "courseId") = "Course"
  /\ Target("MaintenanceWindow", "gpuNodeId") = "GpuNode"
  BY SchemaRows DEF Target, Department, Laboratory, User, Course, GpuNode, Reservation,
                    MaintenanceWindow, To

LEMMA OnDeleteOf ==
  /\ OnDelete("Department", "organizationId") = "Restrict"
  /\ OnDelete("Laboratory", "departmentId") = "Restrict"
  /\ OnDelete("User", "departmentId") = "SetNull"
  /\ OnDelete("Course", "facultyId") = "Restrict"
  /\ OnDelete("GpuNode", "labId") = "Restrict"
  /\ OnDelete("Reservation", "userId") = "Restrict"
  /\ OnDelete("Reservation", "gpuNodeId") = "Restrict"
  /\ OnDelete("Reservation", "courseId") = "SetNull"
  /\ OnDelete("MaintenanceWindow", "gpuNodeId") = "Cascade"
  BY SchemaRows DEF OnDelete, Department, Laboratory, User, Course, GpuNode, Reservation,
                    MaintenanceWindow, To

LEMMA UniqueOf ==
  /\ Schema["Organization"].unique = {} /\ Schema["Department"].unique = {"organizationId"}
  /\ Schema["Laboratory"].unique = {"departmentId"}
  /\ \A t \in {"User", "Course", "GpuNode", "Reservation", "MaintenanceWindow"} : Schema[t].unique = {}
  BY SchemaRows DEF Organization, Department, Laboratory, User, Course, GpuNode, Reservation,
                    MaintenanceWindow

\* What the schema guarantees: references lead to tables; the columns of a
\* unique constraint are required ones; a row that is deleted with another one
\* has no rows that refer to it.
LEMMA SchemaFacts ==
  /\ \A t \in Tables : \A f \in Refs(t) : Target(t, f) \in Tables
  /\ \A t \in Tables : Schema[t].unique \subseteq Refs(t)
  /\ \A t \in Tables : \A f \in Schema[t].unique : OnDelete(t, f) = "Restrict"
  /\ \A t \in Tables : \A f \in Refs(t) : \A g \in Refs(Target(t, f)) : OnDelete(Target(t, f), g) # "Cascade"
  <1>1. \A t \in Tables : \A f \in Refs(t) : Target(t, f) \in Tables
    BY SchemaRows, RefsOf, TargetOf DEF AllTables
  <1>2. \A t \in Tables : Schema[t].unique \subseteq Refs(t)
    BY SchemaRows, RefsOf, UniqueOf DEF AllTables
  <1>3. \A t \in Tables : \A f \in Schema[t].unique : OnDelete(t, f) = "Restrict"
    BY SchemaRows, OnDeleteOf, UniqueOf DEF AllTables
  <1>4. \A t \in Tables : \A f \in Refs(t) : Target(t, f) # "MaintenanceWindow"
    BY SchemaRows, RefsOf, TargetOf DEF AllTables
  <1>5. \A t \in Tables \ {"MaintenanceWindow"} : \A g \in Refs(t) : OnDelete(t, g) # "Cascade"
    BY SchemaRows, RefsOf, OnDeleteOf DEF AllTables
  <1>. QED BY <1>1, <1>2, <1>3, <1>4, <1>5

LEMMA HandlerOf ==
  /\ DOMAIN Handlers =
       {"createOrganization", "createDepartment", "createLaboratory", "createCourse",
        "createGpuNode", "createUser", "createReservation", "planMaintenance",
        "updateOrganization", "updateDepartment", "updateLaboratory", "updateCourse",
        "updateGpuNode", "changeGpuNodeStatus", "updateGpuNodeHeartbeat", "updateUserProfile",
        "assignUserRole", "deleteDepartment", "deleteLaboratory", "deleteCourse",
        "deleteGpuNode"}
  /\ Handlers["createOrganization"] = createOrganization /\ Handlers["createDepartment"] = createDepartment
  /\ Handlers["createLaboratory"] = createLaboratory
  /\ Handlers["createCourse"] = createCourse /\ Handlers["createGpuNode"] = createGpuNode
  /\ Handlers["createUser"] = createUser
  /\ Handlers["createReservation"] = createReservation /\ Handlers["planMaintenance"] = planMaintenance
  /\ Handlers["updateOrganization"] = updateOrganization /\ Handlers["updateDepartment"] = updateDepartment
  /\ Handlers["updateLaboratory"] = updateLaboratory
  /\ Handlers["updateCourse"] = updateCourse /\ Handlers["updateGpuNode"] = updateGpuNode
  /\ Handlers["changeGpuNodeStatus"] = changeGpuNodeStatus
  /\ Handlers["updateGpuNodeHeartbeat"] = updateGpuNodeHeartbeat /\ Handlers["updateUserProfile"] = updateUserProfile
  /\ Handlers["assignUserRole"] = assignUserRole
  /\ Handlers["deleteDepartment"] = deleteDepartment /\ Handlers["deleteLaboratory"] = deleteLaboratory
  /\ Handlers["deleteCourse"] = deleteCourse /\ Handlers["deleteGpuNode"] = deleteGpuNode
  BY DEF Handlers

\* Reservations are only ever inserted here.
LEMMA WhatHandlersWrite ==
  \A op \in DOMAIN Handlers :
    /\ Handlers[op].table \in Tables
    /\ Handlers[op].write \in {"insert", "update", "delete"}
    /\ Handlers[op].table = "Reservation" => Handlers[op].write = "insert"
  BY SchemaRows DEF AllTables, Handlers, Service,
    createOrganization, updateOrganization, createDepartment, updateDepartment, deleteDepartment,
    createLaboratory, updateLaboratory, deleteLaboratory, createCourse, updateCourse, deleteCourse,
    createGpuNode, updateGpuNode, changeGpuNodeStatus, updateGpuNodeHeartbeat, deleteGpuNode,
    createUser, updateUserProfile, assignUserRole, createReservation, planMaintenance

\* What a service has looked up when it comes to write, and which refusals of
\* the database it turns into a 409: together they leave no refusal over.
Covered(op) ==
  LET h == Handlers[op] IN
  /\ Len(h.reads) \in Nat \ {0}
  /\ h.write \in {"update", "delete"} => h.reads[1] = "self"
  /\ h.write = "insert" /\ h.table \notin {"Organization", "Course"} => h.reads[1] = "parent"
  /\ h.write = "insert" /\ h.table = "Course" => h.reads[1] = "faculty"
  /\ h.write = "update" => \/ h.sets \cap Refs(h.table) = {}
                           \/ h.table = "Course" /\ Len(h.reads) = 2 /\ h.reads[2] = "faculty"
  /\ h.write # "delete" => \/ "P2002" \in h.catches
                           \/ "key" \notin h.sets /\ Schema[h.table].unique = {}
  /\ h.write = "delete" => "P2003" \in h.catches \/ h.table = "Course"

\* What its answers rest on: an insert reads no row of its own, an update sets no
\* column of a unique constraint but the key, only courses have a teacher, and
\* nobody catches the error of a row that is gone.
Looks(op) ==
  LET h == Handlers[op] IN
  /\ h.write = "insert" => \A k \in 1 .. Len(h.reads) : h.reads[k] # "self"
  /\ h.write = "update" => h.sets \cap Schema[h.table].unique = {}
  /\ h.write = "delete" => Len(h.reads) = 1
  /\ h.table # "Course" => \A k \in 1 .. Len(h.reads) : h.reads[k] # "faculty"
  /\ "P2025" \notin h.catches

LEMMA HandlersCover == \A op \in DOMAIN Handlers : Covered(op)
  <1>. USE HandlerOf, RefsOf, UniqueOf DEF Covered, Service
  <1>1. Covered("createOrganization")
    BY DEF createOrganization
  <1>2. Covered("createDepartment")
    BY DEF createDepartment
  <1>3. Covered("createLaboratory")
    BY DEF createLaboratory
  <1>4. Covered("createCourse")
    BY DEF createCourse
  <1>5. Covered("createGpuNode")
    BY DEF createGpuNode
  <1>6. Covered("createUser")
    BY DEF createUser
  <1>7. Covered("createReservation")
    BY DEF createReservation
  <1>8. Covered("planMaintenance")
    BY DEF planMaintenance
  <1>9. Covered("updateOrganization")
    BY DEF updateOrganization
  <1>10. Covered("updateDepartment")
    BY DEF updateDepartment
  <1>11. Covered("updateLaboratory")
    BY DEF updateLaboratory
  <1>12. Covered("updateCourse")
    BY DEF updateCourse
  <1>13. Covered("updateGpuNode")
    BY DEF updateGpuNode
  <1>14. Covered("changeGpuNodeStatus")
    BY DEF changeGpuNodeStatus
  <1>15. Covered("updateGpuNodeHeartbeat")
    BY DEF updateGpuNodeHeartbeat
  <1>16. Covered("updateUserProfile")
    BY DEF updateUserProfile
  <1>17. Covered("assignUserRole")
    BY DEF assignUserRole
  <1>18. Covered("deleteDepartment")
    BY DEF deleteDepartment
  <1>19. Covered("deleteLaboratory")
    BY DEF deleteLaboratory
  <1>20. Covered("deleteCourse")
    BY DEF deleteCourse
  <1>21. Covered("deleteGpuNode")
    BY DEF deleteGpuNode
  <1>. HIDE RefsOf, UniqueOf DEF Covered, Service
  <1>. QED BY <1>1, <1>2, <1>3, <1>4, <1>5, <1>6, <1>7, <1>8, <1>9, <1>10, <1>11, <1>12,
            <1>13, <1>14, <1>15, <1>16, <1>17, <1>18, <1>19, <1>20, <1>21

LEMMA HandlersLook == \A op \in DOMAIN Handlers : Looks(op)
  <1>. USE HandlerOf, RefsOf, UniqueOf DEF Looks, Service
  <1>1. Looks("createOrganization")
    BY DEF createOrganization
  <1>2. Looks("createDepartment")
    BY DEF createDepartment
  <1>3. Looks("createLaboratory")
    BY DEF createLaboratory
  <1>4. Looks("createCourse")
    BY DEF createCourse
  <1>5. Looks("createGpuNode")
    BY DEF createGpuNode
  <1>6. Looks("createUser")
    BY DEF createUser
  <1>7. Looks("createReservation")
    BY DEF createReservation
  <1>8. Looks("planMaintenance")
    BY DEF planMaintenance
  <1>9. Looks("updateOrganization")
    BY DEF updateOrganization
  <1>10. Looks("updateDepartment")
    BY DEF updateDepartment
  <1>11. Looks("updateLaboratory")
    BY DEF updateLaboratory
  <1>12. Looks("updateCourse")
    BY DEF updateCourse
  <1>13. Looks("updateGpuNode")
    BY DEF updateGpuNode
  <1>14. Looks("changeGpuNodeStatus")
    BY DEF changeGpuNodeStatus
  <1>15. Looks("updateGpuNodeHeartbeat")
    BY DEF updateGpuNodeHeartbeat
  <1>16. Looks("updateUserProfile")
    BY DEF updateUserProfile
  <1>17. Looks("assignUserRole")
    BY DEF assignUserRole
  <1>18. Looks("deleteDepartment")
    BY DEF deleteDepartment
  <1>19. Looks("deleteLaboratory")
    BY DEF deleteLaboratory
  <1>20. Looks("deleteCourse")
    BY DEF deleteCourse
  <1>21. Looks("deleteGpuNode")
    BY DEF deleteGpuNode
  <1>. HIDE RefsOf, UniqueOf DEF Looks, Service
  <1>. QED BY <1>1, <1>2, <1>3, <1>4, <1>5, <1>6, <1>7, <1>8, <1>9, <1>10, <1>11, <1>12,
            <1>13, <1>14, <1>15, <1>16, <1>17, <1>18, <1>19, <1>20, <1>21

-----------------------------------------------------------------------------
(* Types *)

Rows == UNION {Row(t) : t \in Tables}

Request == [pc : {"idle", "read", "write", "audit", "done"}, n : Nat,
            op : DOMAIN Handlers \cup {None}, id : Ids \cup {None},
            input : Rows \cup {None}, seen : Rows \cup {None},
            wrote : BOOLEAN, recorded : BOOLEAN, answer : {None, "ok", "400", "404", "409", "500"}]

TableOf(r) == Handlers[r.op].table

\* A request carries what its handler needs, and knows whether it has written.
Good(r) ==
  /\ r \in Request
  /\ r.pc # "idle" => /\ r.op \in DOMAIN Handlers /\ r.id \in Ids
                      /\ r.input \in Row(TableOf(r)) /\ r.seen \in Row(TableOf(r))
                      /\ Acceptable(r.op, r.input)
  /\ r.pc = "read" => r.n \in 1 .. Len(Handlers[r.op].reads)
  /\ r.pc \in {"read", "write"} => ~r.wrote
  /\ r.pc = "audit" => r.wrote
  /\ r.pc # "done" => ~r.recorded

DbOK == DOMAIN db = Tables /\ \A t \in Tables : db[t] \in [Ids -> Row(t)]
RequestsOK == req \in [Requests -> Request] /\ \A q \in Requests : Good(req[q])

LEMMA RowTypes ==
  \A t \in Tables : /\ \A row \in Row(t) : /\ row.live \in BOOLEAN /\ row.refs \in [Refs(t) -> Ids \cup {None}]
                                           /\ row.key \in Keys \cup {None}
                    /\ Row(t) \subseteq Rows
                    /\ NoRow(t) \in Row(t) /\ NoRow(t).live = FALSE
  <1>1. ASSUME NEW t \in Tables PROVE NoRow(t) \in Row(t) /\ NoRow(t).live = FALSE
    BY DEF Row, NoRow
  <1>. QED BY <1>1 DEF Row, Rows

LEMMA IdleGood == Good(Idle)
  BY DEF Good, Idle, Request

\* A request gets a record that is in order.
LEMMA SetGood ==
  ASSUME RequestsOK, NEW q \in Requests, NEW r, Good(r), req' = [req EXCEPT ![q] = r]
  PROVE  RequestsOK' /\ req'[q] = r /\ \A p \in Requests \ {q} : req'[p] = req[p]
  BY DEF RequestsOK, Good

-----------------------------------------------------------------------------
(* Ids that are spoken for *)

\* The request is going to insert a row.
Inserts(r) == r.pc \in {"read", "write"} /\ Handlers[r.op].write = "insert"

\* No row has the id of a row that is yet to be inserted, nor has another one
\* that is yet to be inserted.
IdsFresh ==
  \A q \in Requests : Inserts(req[q]) =>
    /\ ~db[TableOf(req[q])][req[q].id].live
    /\ \A p \in Requests \ {q} :
         Inserts(req[p]) => TableOf(req[p]) # TableOf(req[q]) \/ req[p].id # req[q].id

\* What the database enforces: two rows never have the same code, name, hostname
\* or e-mail address where it is to be unique,
KeysUnique ==
  \A t \in Tables : \A i, j \in Ids :
    /\ i # j /\ db[t][i].live /\ db[t][j].live
    /\ db[t][i].key = db[t][j].key /\ db[t][i].key # None
    => \E f \in Schema[t].unique : db[t][i].refs[f] # db[t][j].refs[f]

\* and a row refers only to rows that are there, and keeps the references that it
\* must have.
NoDanglingReference ==
  \A t \in Tables, i \in Ids : db[t][i].live =>
    \A f \in Refs(t) :
      /\ db[t][i].refs[f] # None => db[Schema[t].refs[f].to][db[t][i].refs[f]].live
      /\ Schema[t].refs[f].onDelete = "Restrict" => db[t][i].refs[f] # None

\* The inductive invariant.
Inv == DbOK /\ RequestsOK /\ IdsFresh /\ KeysUnique /\ NoDanglingReference

\* r is what req[q] has become, and it inserts nothing that req[q] would not.
Continues(r, q) ==
  /\ Good(r)
  /\ Inserts(r) => Inserts(req[q]) /\ r.op = req[q].op /\ r.id = req[q].id

\* The steps that write nothing.
LEMMA ReadingStep ==
  ASSUME Inv, db' = db, NEW q \in Requests, NEW r, Continues(r, q), req' = [req EXCEPT ![q] = r]
  PROVE  Inv'
  <1>1. RequestsOK' /\ req'[q] = r /\ \A p \in Requests \ {q} : req'[p] = req[p]
    BY SetGood DEF Inv, Continues
  <1>2. IdsFresh'
    BY <1>1 DEF Inv, IdsFresh, Continues, Inserts, TableOf
  <1>3. DbOK' /\ KeysUnique'
    BY DEF Inv, DbOK, KeysUnique
  <1>4. NoDanglingReference'
    BY DEF Inv, NoDanglingReference
  <1>. QED BY <1>1, <1>2, <1>3, <1>4 DEF Inv

\* What an answer and a read make of a request.
LEMMA ReplyStep ==
  ASSUME Inv, NEW q \in Requests, req[q].pc # "idle",
         NEW a \in {"ok", "400", "404", "409", "500"}, Reply(q, a)
  PROVE  \E r : Continues(r, q) /\ req' = [req EXCEPT ![q] = r] /\ r.answer = a /\ r.pc = "done"
  <1>. DEFINE r == [req[q] EXCEPT !.pc = "done", !.answer = a]
  <1>1. req[q] \in Request /\ Good(req[q])
    BY DEF Inv, RequestsOK
  <1>2. r \in Request /\ r.pc = "done" /\ r.answer = a /\ r.wrote = req[q].wrote /\ r.recorded = req[q].recorded
        /\ r.op = req[q].op /\ r.id = req[q].id /\ r.input = req[q].input /\ r.seen = req[q].seen
    BY <1>1 DEF Request
  <1>3. req' = [req EXCEPT ![q] = r]
    BY DEF Inv, RequestsOK, Reply
  <1>4. Continues(r, q)
    BY <1>1, <1>2 DEF Good, Continues, Inserts, TableOf
  <1>. QED BY <1>2, <1>3, <1>4

LEMMA AuditStep ==
  ASSUME Inv, NEW q \in Requests, Audit(q)
  PROVE  \E r : /\ Continues(r, q) /\ req' = [req EXCEPT ![q] = r] /\ r.pc = "done" /\ r.answer = "ok"
                /\ req[q].pc = "audit" /\ req[q].wrote /\ db' = db
  <1>1. PICK recorded \in BOOLEAN :
          req' = [req EXCEPT ![q].pc = "done", ![q].answer = "ok", ![q].recorded = recorded]
    BY DEF Audit
  <1>. DEFINE r == [req[q] EXCEPT !.pc = "done", !.answer = "ok", !.recorded = recorded]
  <1>2. req[q] \in Request /\ Good(req[q]) /\ req[q].pc = "audit" /\ db' = db
    BY DEF Inv, RequestsOK, Audit
  <1>3. r \in Request /\ r.pc = "done" /\ r.answer = "ok" /\ r.wrote = req[q].wrote
        /\ r.op = req[q].op /\ r.id = req[q].id /\ r.input = req[q].input /\ r.seen = req[q].seen
    BY <1>2 DEF Request
  <1>4. req' = [req EXCEPT ![q] = r]
    BY <1>1 DEF Inv, RequestsOK
  <1>5. Continues(r, q)
    BY <1>2, <1>3 DEF Good, Continues, Inserts, TableOf
  <1>. QED BY <1>2, <1>3, <1>4, <1>5 DEF Good

LEMMA NextReadStep ==
  ASSUME Inv, NEW q \in Requests, req[q].pc = "read", NEW row \in Row(Table(q)), NextRead(q, row)
  PROVE  \E r : /\ Continues(r, q) /\ req' = [req EXCEPT ![q] = r]
                /\ r.op = req[q].op /\ r.id = req[q].id /\ r.input = req[q].input /\ r.answer = req[q].answer
                /\ r.n = req[q].n + 1
                /\ r.pc = IF req[q].n = Len(Handler(q).reads) THEN "write" ELSE "read"
  <1>. DEFINE pc == IF req[q].n = Len(Handler(q).reads) THEN "write" ELSE "read"
              r == [req[q] EXCEPT !.n = @ + 1, !.seen = row, !.pc = pc]
  <1>1. req[q] \in Request /\ Good(req[q])
    BY DEF Inv, RequestsOK
  <1>2. row \in Rows
    BY <1>1, RowTypes, WhatHandlersWrite DEF Good, Table, Handler
  <1>3. req[q].n \in Nat /\ req[q].n + 1 \in Nat /\ pc \in {"read", "write"}
    BY <1>1 DEF Request
  <1>7. r \in Request /\ r.pc = pc /\ r.n = req[q].n + 1 /\ r.seen = row /\ r.wrote = req[q].wrote /\ r.recorded = req[q].recorded
        /\ r.op = req[q].op /\ r.id = req[q].id /\ r.input = req[q].input /\ r.answer = req[q].answer
    BY <1>1, <1>2, <1>3 DEF Request
  <1>4. req' = [req EXCEPT ![q] = r]
    BY DEF Inv, RequestsOK, NextRead
  <1>5. Len(Handler(q).reads) \in Nat
    BY <1>1, HandlersCover DEF Good, Covered, Handler
  <1>6. Continues(r, q)
    BY <1>1, <1>5, <1>7 DEF Good, Continues, Inserts, TableOf, Table, Handler
  <1>. QED BY <1>4, <1>6, <1>7

-----------------------------------------------------------------------------
(* What a statement does to the tables *)

\* A row that a table may hold: it lives and has the references it needs.
Complete(t, row) ==
  /\ row \in Row(t) /\ row.live
  /\ \A f \in Refs(t) : OnDelete(t, f) = "Restrict" => row.refs[f] # None

Writes(t, i, row) == db' = [db EXCEPT ![t][i] = row]

LEMMA WriteIs ==
  ASSUME DbOK, NEW t \in Tables, NEW i \in Ids, NEW row \in Row(t), Writes(t, i, row)
  PROVE  /\ DbOK' /\ db'[t][i] = row
         /\ \A j \in Ids \ {i} : db'[t][j] = db[t][j]
         /\ \A c \in Tables \ {t} : db'[c] = db[c]
         /\ \A c \in Tables, j \in Ids : (c = t /\ j = i) \/ db'[c][j] = db[c][j]
  <1>1. /\ DOMAIN db' = Tables /\ db'[t] = [db[t] EXCEPT ![i] = row]
        /\ \A c \in Tables \ {t} : db'[c] = db[c]
    BY DEF DbOK, Writes
  <1>2. /\ db'[t] \in [Ids -> Row(t)] /\ db'[t][i] = row
        /\ \A j \in Ids \ {i} : db'[t][j] = db[t][j]
    BY <1>1 DEF DbOK
  <1>. QED BY <1>1, <1>2 DEF DbOK

\* Nobody clashes with a row that the unique constraint lets in.
LEMMA WriteUnique ==
  ASSUME DbOK, KeysUnique, NEW t \in Tables, NEW i \in Ids, NEW row \in Row(t), Writes(t, i, row),
         ~Clashes(t, i, row)
  PROVE  KeysUnique'
  <1>1. ASSUME NEW c \in Tables, NEW j \in Ids, NEW k \in Ids, j # k, db'[c][j].live, db'[c][k].live,
               db'[c][j].key = db'[c][k].key, db'[c][j].key # None
        PROVE  \E f \in Schema[c].unique : db'[c][j].refs[f] # db'[c][k].refs[f]
    <2>1. CASE c # t \/ (j # i /\ k # i)
      <3>1. db'[c][j] = db[c][j] /\ db'[c][k] = db[c][k]
        BY <2>1, WriteIs
      <3>. QED BY <1>1, <3>1 DEF KeysUnique
    <2>2. CASE c = t /\ j = i
      BY <1>1, <2>2, WriteIs DEF Clashes
    <2>3. CASE c = t /\ k = i
      BY <1>1, <2>3, WriteIs DEF Clashes
    <2>. QED BY <2>1, <2>2, <2>3
  <1>. QED BY <1>1 DEF KeysUnique

\* Nor does it leave a reference dangling.
LEMMA WriteRefers ==
  ASSUME DbOK, NoDanglingReference, NEW t \in Tables, NEW i \in Ids, NEW row, Complete(t, row),
         Writes(t, i, row), ~Dangles(t, row)
  PROVE  NoDanglingReference'
  <1>1. row \in Row(t) /\ row.live
    BY DEF Complete
  <1>2. \A c \in Tables, j \in Ids : db[c][j].live => db'[c][j].live
    BY <1>1, WriteIs
  <1>3. ASSUME NEW c \in Tables, NEW j \in Ids, db'[c][j].live, NEW f \in Refs(c)
        PROVE  /\ db'[c][j].refs[f] # None => db'[Schema[c].refs[f].to][db'[c][j].refs[f]].live
               /\ Schema[c].refs[f].onDelete = "Restrict" => db'[c][j].refs[f] # None
    <2>1. Schema[c].refs[f].to \in Tables
      BY SchemaFacts DEF Target
    <2>2. db'[c][j].refs[f] \in Ids \cup {None}
      BY <1>1, WriteIs, RowTypes DEF DbOK
    <2>3. CASE c = t /\ j = i
      <3>1. db'[c][j] = row
        BY <1>1, <2>3, WriteIs
      <3>2. row.refs[f] # None => row.refs[f] \in Ids /\ db[Schema[c].refs[f].to][row.refs[f]].live
        BY <2>2, <2>3, <3>1 DEF Dangles
      <3>3. Schema[c].refs[f].onDelete = "Restrict" => row.refs[f] # None
        BY <2>3 DEF Complete, OnDelete
      <3>. QED BY <1>2, <2>1, <3>1, <3>2, <3>3
    <2>4. CASE ~(c = t /\ j = i)
      <3>1. db'[c][j] = db[c][j]
        BY <1>1, <2>4, WriteIs
      <3>2. /\ db[c][j].refs[f] # None => db[Schema[c].refs[f].to][db[c][j].refs[f]].live
            /\ Schema[c].refs[f].onDelete = "Restrict" => db[c][j].refs[f] # None
        BY <1>3, <3>1 DEF NoDanglingReference
      <3>. QED BY <1>2, <2>1, <2>2, <3>1, <3>2
    <2>. QED BY <2>3, <2>4
  <1>. QED BY <1>3 DEF NoDanglingReference

\* A row that is still there after a deletion has lost no reference but those
\* that may be empty.
Cascades(t, i, c, j) == \E f \in Refs(c) : PointsTo(c, j, f, t, i) /\ OnDelete(c, f) = "Cascade"

\* The row without its references to the deleted one.
Cleared(t, i, c, j) == [f \in Refs(c) |-> IF PointsTo(c, j, f, t, i) THEN None ELSE db[c][j].refs[f]]
Kept(t, i, c, j) == [db[c][j] EXCEPT !.refs = Cleared(t, i, c, j)]

LEMMA KeptIs ==
  ASSUME DbOK, NEW t \in Tables, NEW i \in Ids, NEW c \in Tables, NEW j \in Ids
  PROVE  /\ Kept(t, i, c, j) \in Row(c)
         /\ Kept(t, i, c, j).live = db[c][j].live /\ Kept(t, i, c, j).key = db[c][j].key
         /\ Kept(t, i, c, j).refs = Cleared(t, i, c, j)
         /\ \A f \in Refs(c) : /\ PointsTo(c, j, f, t, i) => Cleared(t, i, c, j)[f] = None
                               /\ ~PointsTo(c, j, f, t, i) => Cleared(t, i, c, j)[f] = db[c][j].refs[f]
  <1>1. db[c][j] \in Row(c) /\ db[c][j].refs \in [Refs(c) -> Ids \cup {None}]
    BY RowTypes DEF DbOK
  <1>2. Cleared(t, i, c, j) \in [Refs(c) -> Ids \cup {None}]
    BY <1>1 DEF Cleared
  <1>3. /\ Kept(t, i, c, j) \in Row(c)
        /\ Kept(t, i, c, j).live = db[c][j].live /\ Kept(t, i, c, j).key = db[c][j].key
        /\ Kept(t, i, c, j).refs = Cleared(t, i, c, j)
    BY <1>1, <1>2 DEF Kept, Row
  <1>. QED BY <1>3 DEF Cleared

LEMMA DeleteIs ==
  ASSUME DbOK, NEW t \in Tables, NEW i \in Ids, db' = AfterDelete(t, i), ~Restricted(t, i)
  PROVE  /\ DbOK'
         /\ \A c \in Tables, j \in Ids :
              /\ db'[c][j].live <=> db[c][j].live /\ ~(c = t /\ j = i) /\ ~Cascades(t, i, c, j)
              /\ db'[c][j].live => /\ db'[c][j].key = db[c][j].key
                                   /\ \A f \in Refs(c) :
                                        /\ db'[c][j].refs[f] # None => /\ db'[c][j].refs[f] = db[c][j].refs[f]
                                                                       /\ ~PointsTo(c, j, f, t, i)
                                        /\ OnDelete(c, f) = "Restrict" => db'[c][j].refs[f] = db[c][j].refs[f]
  <1>1. DOMAIN db' = Tables /\ \A c \in Tables : DOMAIN db'[c] = Ids
    BY DEF AfterDelete
  <1>2. ASSUME NEW c \in Tables, NEW j \in Ids
        PROVE  db'[c][j] = IF (c = t /\ j = i) \/ Cascades(t, i, c, j) THEN NoRow(c) ELSE Kept(t, i, c, j)
    BY DEF AfterDelete, Cascades, OnDelete, Kept, Cleared
  <1>4. DbOK'
    <2>1. ASSUME NEW c \in Tables PROVE db'[c] \in [Ids -> Row(c)]
      <3>1. \A j \in Ids : db'[c][j] \in Row(c)
        BY <1>2, KeptIs, RowTypes
      <3>2. db'[c] = [j \in Ids |-> db'[c][j]]
        BY DEF AfterDelete
      <3>. QED BY <3>1, <3>2
    <2>. QED BY <1>1, <2>1 DEF DbOK
  <1>5. ASSUME NEW c \in Tables, NEW j \in Ids, db[c][j].live, NEW f \in Refs(c), OnDelete(c, f) = "Restrict"
        PROVE  ~PointsTo(c, j, f, t, i)
    BY <1>5 DEF Restricted, OnDelete
  <1>6. ASSUME NEW c \in Tables, NEW j \in Ids
        PROVE  db'[c][j].live <=> db[c][j].live /\ ~(c = t /\ j = i) /\ ~Cascades(t, i, c, j)
    BY <1>2, KeptIs, RowTypes
  <1>7. ASSUME NEW c \in Tables, NEW j \in Ids, db'[c][j].live
        PROVE  db'[c][j] = Kept(t, i, c, j) /\ db[c][j].live
    BY <1>2, <1>6, <1>7
  <1>. QED BY <1>4, <1>5, <1>6, <1>7, KeptIs

LEMMA DeleteUnique ==
  ASSUME DbOK, KeysUnique, NEW t \in Tables, NEW i \in Ids, db' = AfterDelete(t, i), ~Restricted(t, i)
  PROVE  KeysUnique'
  <1>1. \A c \in Tables, j \in Ids : db'[c][j].live =>
          /\ db[c][j].live /\ db'[c][j].key = db[c][j].key
          /\ \A f \in Schema[c].unique : db'[c][j].refs[f] = db[c][j].refs[f]
    BY DeleteIs, SchemaFacts
  <1>. QED BY <1>1 DEF KeysUnique

LEMMA DeleteRefers ==
  ASSUME DbOK, NoDanglingReference, NEW t \in Tables, NEW i \in Ids, db' = AfterDelete(t, i),
         ~Restricted(t, i)
  PROVE  NoDanglingReference'
  <1>1. ASSUME NEW c \in Tables, NEW j \in Ids, db'[c][j].live, NEW f \in Refs(c), db'[c][j].refs[f] # None
        PROVE  db'[Target(c, f)][db'[c][j].refs[f]].live
    <2>. DEFINE to == Target(c, f)
                k == db[c][j].refs[f]
    <2>1. db[c][j].live /\ db'[c][j].refs[f] = k /\ k # None /\ ~PointsTo(c, j, f, t, i)
      BY <1>1, DeleteIs
    <2>2. to \in Tables /\ k \in Ids
      BY <2>1, SchemaFacts, RowTypes DEF DbOK
    <2>3. db[to][k].live
      BY <2>1 DEF NoDanglingReference, Target
    <2>4. ~(to = t /\ k = i)
      BY <2>1 DEF PointsTo, Target
    <2>5. ~Cascades(t, i, to, k)
      BY SchemaFacts DEF Cascades
    <2>. QED BY <2>1, <2>2, <2>3, <2>4, <2>5, DeleteIs
  <1>2. ASSUME NEW c \in Tables, NEW j \in Ids, db'[c][j].live, NEW f \in Refs(c), OnDelete(c, f) = "Restrict"
        PROVE  db'[c][j].refs[f] # None
    <2>1. db[c][j].live /\ db'[c][j].refs[f] = db[c][j].refs[f]
      BY <1>2, DeleteIs
    <2>. QED BY <1>2, <2>1 DEF NoDanglingReference, OnDelete
  <1>. QED BY <1>1, <1>2 DEF NoDanglingReference, Target, OnDelete

-----------------------------------------------------------------------------
(* One lemma per step of a request *)

\* An input that is inserted has all the references it needs: only a
\* SUPER_ADMIN, and a reservation without a course, leave one out.
LEMMA InputComplete ==
  ASSUME ConstantsAssumption, NEW op \in DOMAIN Handlers, NEW row \in Row(Handlers[op].table),
         Acceptable(op, row), Handlers[op].write = "insert"
  PROVE  Complete(Handlers[op].table, row)
  <1>. DEFINE t == Handlers[op].table
  <1>1. t \in Tables /\ row.live /\ \A f \in Refs(t) \ {"courseId"} : row.refs[f] = None <=> row.tag = "SUPER_ADMIN"
    BY WhatHandlersWrite DEF Acceptable
  <1>2. CASE t = "User"
    BY <1>1, <1>2, RefsOf, OnDeleteOf DEF Complete
  <1>3. CASE t # "User"
    <2>1. row.tag \in Schema[t].tags \cup {None}
      BY DEF Row
    <2>2. "SUPER_ADMIN" \notin Schema[t].tags \cup {None}
      BY <1>1, <1>3, SchemaRows DEF ConstantsAssumption, AllTables, Organization, Department,
         Laboratory, Course, GpuNode, Reservation, MaintenanceWindow
    <2>3. \A f \in Refs(t) : OnDelete(t, f) = "Restrict" => f # "courseId"
      BY <1>1, SchemaRows, RefsOf, OnDeleteOf DEF AllTables
    <2>. QED BY <1>1, <2>1, <2>2, <2>3 DEF Complete
  <1>. QED BY <1>2, <1>3

LEMMA WroteStep ==
  ASSUME Inv, NEW q \in Requests, req[q].pc = "write", Wrote(q)
  PROVE  \E r : Continues(r, q) /\ req' = [req EXCEPT ![q] = r] /\ r.pc = "audit" /\ r.answer = req[q].answer
  <1>. DEFINE r == [req[q] EXCEPT !.pc = "audit", !.wrote = TRUE]
  <1>1. req[q] \in Request /\ Good(req[q])
    BY DEF Inv, RequestsOK
  <1>2. r \in Request /\ r.pc = "audit" /\ r.wrote = TRUE /\ r.answer = req[q].answer /\ r.recorded = req[q].recorded
        /\ r.op = req[q].op /\ r.id = req[q].id /\ r.input = req[q].input /\ r.seen = req[q].seen
    BY <1>1 DEF Request
  <1>3. req' = [req EXCEPT ![q] = r]
    BY DEF Inv, RequestsOK, Wrote
  <1>4. Continues(r, q)
    BY <1>1, <1>2 DEF Good, Continues, Inserts, TableOf
  <1>. QED BY <1>2, <1>3, <1>4

\* A statement that is refused.
LEMMA RefusedStep ==
  ASSUME Inv, NEW q \in Requests, req[q].pc = "write", NEW code, Refused(q, code)
  PROVE  Inv'
  <1>1. PICK a \in {"409", "500"} : Reply(q, a)
    BY DEF Refused
  <1>2. ~req[q].wrote /\ req[q].pc # "idle"
    BY DEF Inv, RequestsOK, Good
  <1>3. PICK r : Continues(r, q) /\ req' = [req EXCEPT ![q] = r]
    BY <1>1, <1>2, ReplyStep
  <1>. QED BY <1>3, ReadingStep DEF Refused

\* A statement that was done: the ids that were spoken for still are.
LEMMA DoneStep ==
  ASSUME Inv, NEW q \in Requests, req[q].pc = "write", Wrote(q), DbOK', KeysUnique', NoDanglingReference',
         \A c \in Tables, j \in Ids :
           db'[c][j].live => \/ db[c][j].live
                             \/ Inserts(req[q]) /\ c = Table(q) /\ j = req[q].id
  PROVE  Inv'
  <1>1. PICK r : Continues(r, q) /\ req' = [req EXCEPT ![q] = r] /\ r.pc = "audit"
    BY WroteStep
  <1>2. RequestsOK' /\ req'[q] = r /\ \A p \in Requests \ {q} : req'[p] = req[p]
    BY <1>1, SetGood DEF Inv, Continues
  <1>3. ASSUME NEW p \in Requests, Inserts(req'[p])
        PROVE  /\ p # q /\ req'[p] = req[p] /\ TableOf(req[p]) \in Tables /\ req[p].id \in Ids
    BY <1>1, <1>2, <1>3, WhatHandlersWrite DEF Inserts, Inv, RequestsOK, Good, TableOf
  <1>4. ASSUME NEW p \in Requests, Inserts(req'[p])
        PROVE  ~db'[TableOf(req[p])][req[p].id].live
    BY <1>3, <1>4 DEF Inv, IdsFresh, Table, Handler, TableOf
  <1>5. IdsFresh'
    BY <1>2, <1>3, <1>4 DEF Inv, IdsFresh, Inserts, TableOf
  <1>. QED BY <1>2, <1>5 DEF Inv

LEMMA InsertStep ==
  ASSUME ConstantsAssumption, Inv, NEW q \in Requests, Insert(q) PROVE Inv'
  <1>. DEFINE t == Table(q)
              i == req[q].id
              row == req[q].input
  <1>1. req[q].pc = "write" /\ Handler(q).write = "insert" /\ Inserts(req[q])
    BY DEF Insert, Inserts, Handler
  <1>2. t \in Tables /\ i \in Ids /\ row \in Row(t) /\ Complete(t, row)
    BY <1>1, InputComplete, WhatHandlersWrite DEF Inv, RequestsOK, Good, Table, Handler, TableOf
  <1>3. CASE \E code : Refused(q, code)
    BY <1>1, <1>3, RefusedStep
  <1>4. CASE /\ ~Dangles(t, row) /\ ~Clashes(t, i, row)
             /\ Writes(t, i, row) /\ Wrote(q)
    BY <1>1, <1>2, <1>4, WriteIs, WriteUnique, WriteRefers, DoneStep DEF Inv
  <1>. QED BY <1>3, <1>4 DEF Insert, Store, Writes

\* An updated row keeps what the input leaves out.
LEMMA UpdatedRow ==
  ASSUME Inv, NEW q \in Requests, req[q].pc = "write", Row0(q).live
  PROVE  Complete(Table(q), Updated(q))
  <1>. DEFINE t == Table(q)
              row == req[q].input
  <1>1. t \in Tables /\ req[q].id \in Ids /\ row \in Row(t)
    BY WhatHandlersWrite DEF Inv, RequestsOK, Good, Table, Handler, TableOf
  <1>2. Row0(q) \in Row(t)
    BY <1>1 DEF Inv, DbOK, Row0
  <1>3. /\ Updated(q).live = TRUE
        /\ Updated(q).key \in Keys \cup {None} /\ Updated(q).tag \in Schema[t].tags \cup {None}
    BY <1>1, <1>2 DEF Updated, Row
  <1>4. Updated(q).refs = [f \in Refs(t) |-> IF row.refs[f] = None THEN Row0(q).refs[f] ELSE row.refs[f]]
    BY DEF Updated
  <1>5. Updated(q).refs \in [Refs(t) -> Ids \cup {None}]
    BY <1>1, <1>2, <1>4, RowTypes
  <1>6. Updated(q) = [live |-> Updated(q).live, key |-> Updated(q).key, tag |-> Updated(q).tag,
                      refs |-> Updated(q).refs]
    BY DEF Updated
  <1>7. Updated(q) \in Row(t)
    BY <1>3, <1>5, <1>6 DEF Row
  <1>8. \A f \in Refs(t) : OnDelete(t, f) = "Restrict" => Row0(q).refs[f] # None
    BY <1>1 DEF Inv, NoDanglingReference, OnDelete, Row0
  <1>. QED BY <1>3, <1>4, <1>7, <1>8 DEF Complete

LEMMA UpdateStep ==
  ASSUME ConstantsAssumption, Inv, NEW q \in Requests, Update(q) PROVE Inv'
  <1>. DEFINE t == Table(q)
              i == req[q].id
  <1>1. req[q].pc = "write" /\ t \in Tables /\ i \in Ids
    BY WhatHandlersWrite DEF Update, Inv, RequestsOK, Good, Table, Handler
  <1>2. CASE \E code : Refused(q, code)
    BY <1>1, <1>2, RefusedStep
  <1>3. CASE /\ Row0(q).live /\ ~Dangles(t, Updated(q)) /\ ~Clashes(t, i, Updated(q))
             /\ Writes(t, i, Updated(q)) /\ Wrote(q)
    <2>1. Complete(t, Updated(q)) /\ Updated(q) \in Row(t)
      BY <1>1, <1>3, UpdatedRow DEF Complete
    <2>2. \A c \in Tables, j \in Ids : db'[c][j].live => db[c][j].live
      BY <1>1, <1>3, <2>1, WriteIs DEF Row0, Inv
    <2>. QED BY <1>1, <1>3, <2>1, <2>2, WriteIs, WriteUnique, WriteRefers, DoneStep DEF Inv
  <1>. QED BY <1>2, <1>3 DEF Update, Store, Writes

LEMMA DeleteStep ==
  ASSUME ConstantsAssumption, Inv, NEW q \in Requests, Delete(q) PROVE Inv'
  <1>. DEFINE t == Table(q)
              i == req[q].id
  <1>1. req[q].pc = "write" /\ t \in Tables /\ i \in Ids
    BY WhatHandlersWrite DEF Delete, Inv, RequestsOK, Good, Table, Handler
  <1>2. CASE \E code : Refused(q, code)
    BY <1>1, <1>2, RefusedStep
  <1>3. CASE ~Restricted(t, i) /\ db' = AfterDelete(t, i) /\ Wrote(q)
    <2>1. \A c \in Tables, j \in Ids : db'[c][j].live => db[c][j].live
      BY <1>1, <1>3, DeleteIs DEF Inv
    <2>. QED BY <1>1, <1>3, <2>1, DeleteIs, DeleteUnique, DeleteRefers, DoneStep DEF Inv
  <1>. QED BY <1>2, <1>3 DEF Delete

LEMMA ReadStep ==
  ASSUME ConstantsAssumption, Inv, NEW q \in Requests,
         ReadSelf(q) \/ ReadParent(q) \/ ReadFaculty(q) \/ ReadKey(q)
  PROVE  Inv'
  <1>1. req[q].pc = "read" /\ db' = db /\ ~req[q].wrote /\ Table(q) \in Tables /\ req[q].id \in Ids
        /\ req[q].seen \in Row(Table(q))
    BY WhatHandlersWrite DEF ReadSelf, ReadParent, ReadFaculty, ReadKey, Inv, RequestsOK, Good,
                             Table, Handler, TableOf
  <1>2. Row0(q) \in Row(Table(q))
    BY <1>1 DEF Inv, DbOK, Row0
  <1>3. \/ \E a \in {"400", "404", "409"} : Reply(q, a)
        \/ \E row \in Row(Table(q)) : NextRead(q, row)
    BY <1>1, <1>2 DEF ReadSelf, ReadParent, ReadFaculty, ReadKey
  <1>4. \E r : Continues(r, q) /\ req' = [req EXCEPT ![q] = r]
    <2>1. ASSUME NEW a \in {"400", "404", "409"}, Reply(q, a)
          PROVE  \E r : Continues(r, q) /\ req' = [req EXCEPT ![q] = r]
      BY <1>1, <2>1, ReplyStep
    <2>2. ASSUME NEW row \in Row(Table(q)), NextRead(q, row)
          PROVE  \E r : Continues(r, q) /\ req' = [req EXCEPT ![q] = r]
      BY <1>1, <2>2, NextReadStep
    <2>. QED BY <1>3, <2>1, <2>2
  <1>. QED BY <1>1, <1>4, ReadingStep

LEMMA AnswerStep ==
  ASSUME Inv, NEW q \in Requests, Audit(q) \/ Respond(q) PROVE Inv'
  <1>1. CASE Audit(q)
    BY <1>1, AuditStep, ReadingStep
  <1>2. CASE Respond(q)
    <2>1. Continues(Idle, q)
      BY IdleGood DEF Continues, Inserts, Idle
    <2>. QED BY <1>2, <2>1, ReadingStep DEF Respond
  <1>. QED BY <1>1, <1>2

\* A request that comes in; the id it inserts is nobody's.
LEMMA ReceiveStep ==
  ASSUME ConstantsAssumption, Inv, NEW q \in Requests, NEW op \in DOMAIN Handlers, NEW i \in Ids,
         NEW row \in Row(Handlers[op].table), Acceptable(op, row), Receive(q, op, i, row)
  PROVE  Inv'
  <1>. DEFINE t == Handlers[op].table
              r == [Idle EXCEPT !.pc = "read", !.n = 1, !.op = op, !.id = i, !.input = row, !.seen = NoRow(t)]
  <1>1. db' = db /\ req' = [req EXCEPT ![q] = r]
    BY DEF Receive
  <1>2. t \in Tables /\ row \in Rows /\ NoRow(t) \in Row(t) /\ NoRow(t) \in Rows
    BY WhatHandlersWrite, RowTypes
  <1>3. /\ r.pc = "read" /\ r.n = 1 /\ r.op = op /\ r.id = i /\ r.input = row /\ r.seen = NoRow(t)
        /\ r.wrote = FALSE /\ r.recorded = FALSE /\ r.answer = None /\ r \in Request
    BY <1>2 DEF Idle, Request
  <1>4. Len(Handlers[op].reads) \in Nat \ {0}
    BY HandlersCover DEF Covered
  <1>5. Good(r)
    BY <1>2, <1>3, <1>4 DEF Good, TableOf
  <1>6. RequestsOK' /\ req'[q] = r /\ \A p \in Requests \ {q} : req'[p] = req[p]
    BY <1>1, <1>5, SetGood DEF Inv
  <1>7. Inserts(r) => Fresh(t, i)
    BY <1>3 DEF Receive, Inserts
  <1>8. ASSUME Inserts(r), NEW p \in Requests, Inserts(req[p])
        PROVE  TableOf(req[p]) # t \/ req[p].id # i
    BY <1>7, <1>8 DEF Fresh, Holds, Inserts, TableOf, Table, Handler
  <1>9. Inserts(r) => ~db[t][i].live
    BY <1>7 DEF Fresh
  <1>10. IdsFresh'
    BY <1>1, <1>3, <1>6, <1>8, <1>9 DEF Inv, IdsFresh, Inserts, TableOf
  <1>11. DbOK' /\ KeysUnique'
    BY <1>1 DEF Inv, DbOK, KeysUnique
  <1>12. NoDanglingReference'
    BY <1>1 DEF Inv, NoDanglingReference
  <1>. QED BY <1>6, <1>10, <1>11, <1>12 DEF Inv

\* A request that comes in or goes on, whatever the others are about.
Moves(q) ==
  \/ \E op \in Ops : \E i \in Ids, row \in Inputs[op] : Receive(q, op, i, row)
  \/ Step(q)

LEMMA MovesInv == ASSUME ConstantsAssumption, Inv, NEW q \in Requests, Moves(q) PROVE Inv'
  <1>1. ASSUME NEW op \in Ops, NEW i \in Ids, NEW row \in Inputs[op], Receive(q, op, i, row)
        PROVE  Inv'
    <2>1. op \in DOMAIN Handlers /\ row \in Row(Handlers[op].table) /\ Acceptable(op, row)
      BY DEF ConstantsAssumption, Inputs
    <2>. QED BY <1>1, <2>1, ReceiveStep
  <1>2. CASE Step(q)
    BY <1>2, ReadStep, InsertStep, UpdateStep, DeleteStep, AnswerStep DEF Step
  <1>. QED BY <1>1, <1>2 DEF Moves

LEMMA StutterInv == ASSUME Inv, UNCHANGED vars PROVE Inv'
  <1>1. DbOK' /\ KeysUnique'
    BY DEF Inv, DbOK, KeysUnique, vars
  <1>2. NoDanglingReference'
    BY DEF Inv, NoDanglingReference, vars
  <1>3. RequestsOK'
    BY DEF Inv, RequestsOK, vars
  <1>4. IdsFresh'
    BY DEF Inv, IdsFresh, Inserts, TableOf, vars
  <1>. QED BY <1>1, <1>2, <1>3, <1>4 DEF Inv

-----------------------------------------------------------------------------
(* The seed *)

\* A set of tables that can be seeded together.
Closed(seeds) ==
  /\ seeds \subseteq Tables
  /\ \A t \in seeds : \A f \in Refs(t) : OnDelete(t, f) # "SetNull" => Target(t, f) \in seeds

SeedOf(seeds, t, i, k) ==
  [live |-> TRUE,
   key |-> IF t \in {"Reservation", "MaintenanceWindow"} THEN None ELSE k,
   tag |-> CASE t = "User" -> "FACULTY" [] t = "GpuNode" -> "AVAILABLE" [] OTHER -> None,
   refs |-> [f \in Refs(t) |-> IF Schema[t].refs[f].to \in seeds THEN i ELSE None]]

Seeded(seeds) ==
  /\ \E i \in Ids, k \in Keys :
       db = [t \in Tables |-> [j \in Ids |-> IF t \in seeds /\ j = i THEN SeedOf(seeds, t, i, k) ELSE NoRow(t)]]
  /\ req = [q \in Requests |-> Idle]

LEMMA SeededInv == ASSUME ConstantsAssumption, NEW seeds, Closed(seeds), Seeded(seeds) PROVE Inv
  <1>1. PICK i \in Ids, k \in Keys :
          db = [t \in Tables |-> [j \in Ids |-> IF t \in seeds /\ j = i THEN SeedOf(seeds, t, i, k) ELSE NoRow(t)]]
    BY DEF Seeded
  <1>2. ASSUME NEW t \in Tables PROVE SeedOf(seeds, t, i, k) \in Row(t)
    <2>. DEFINE tag == CASE t = "User" -> "FACULTY" [] t = "GpuNode" -> "AVAILABLE" [] OTHER -> None
    <2>1. tag \in Schema[t].tags \cup {None}
      <3>1. CASE t = "User"
        BY <3>1, SchemaRows DEF User
      <3>2. CASE t = "GpuNode"
        BY <3>2, SchemaRows DEF GpuNode
      <3>3. CASE t # "User" /\ t # "GpuNode"
        BY <3>3
      <3>. QED BY <3>1, <3>2, <3>3
    <2>. HIDE DEF tag
    <2>. QED BY <2>1 DEF SeedOf, Row, tag
  <1>3. DbOK
    BY <1>1, <1>2, RowTypes DEF DbOK
  <1>4. \A t \in Tables, j \in Ids : db[t][j].live => t \in seeds /\ j = i /\ db[t][j] = SeedOf(seeds, t, i, k)
    BY <1>1, RowTypes
  <1>5. KeysUnique
    BY <1>4 DEF KeysUnique
  <1>6. NoDanglingReference
    <2>1. ASSUME NEW t \in Tables, NEW j \in Ids, db[t][j].live, NEW f \in Refs(t)
          PROVE  /\ db[t][j].refs[f] # None => db[Target(t, f)][db[t][j].refs[f]].live
                 /\ OnDelete(t, f) = "Restrict" => db[t][j].refs[f] # None
      <3>1. t \in seeds /\ db[t][j].refs[f] = IF Target(t, f) \in seeds THEN i ELSE None
        <4>1. t \in seeds /\ db[t][j].refs = SeedOf(seeds, t, i, k).refs
          BY <1>4, <2>1
        <4>2. SeedOf(seeds, t, i, k).refs = [g \in Refs(t) |-> IF Target(t, g) \in seeds THEN i ELSE None]
          BY DEF SeedOf, Target
        <4>. QED BY <2>1, <4>1, <4>2
      <3>2. Target(t, f) \in seeds => Target(t, f) \in Tables /\ db[Target(t, f)][i].live
        BY <1>1 DEF Closed, SeedOf
      <3>3. OnDelete(t, f) = "Restrict" => Target(t, f) \in seeds
        BY <3>1 DEF Closed
      <3>4. i # None
        BY DEF ConstantsAssumption
      <3>. QED BY <3>1, <3>2, <3>3, <3>4
    <2>. QED BY <2>1 DEF NoDanglingReference, Target, OnDelete
  <1>7. RequestsOK /\ IdsFresh
    BY IdleGood DEF Seeded, RequestsOK, Good, IdsFresh, Inserts, Idle
  <1>. QED BY <1>3, <1>5, <1>6, <1>7 DEF Inv

LEMMA SeedClosed == ASSUME ConstantsAssumption PROVE Closed(SeedTables)
  <1>1. \A t \in Tables : \A f \in Refs(t) : OnDelete(t, f) # "SetNull" =>
          f \in {"organizationId", "departmentId", "labId", "facultyId", "userId", "gpuNodeId"}
    BY SchemaRows, RefsOf, OnDeleteOf DEF AllTables
  <1>. QED BY <1>1 DEF ConstantsAssumption, Closed, Target

LEMMA InitInv == ASSUME ConstantsAssumption, Init PROVE Inv
  BY SeedClosed, SeededInv DEF Init, Seeded, SeedRow, SeedOf

-----------------------------------------------------------------------------
(* Requests that overlap *)

LEMMA NextMoves == Next => \E q \in Requests : Moves(q)
  BY DEF Next, Start, Moves

\* The inductive invariant holds throughout.
THEOREM InvCorrect == Spec => []Inv
  <1>1. Init => Inv
    BY InitInv, ConstantsAssumption
  <1>2. Inv /\ [Next]_vars => Inv'
    BY NextMoves, MovesInv, StutterInv, ConstantsAssumption
  <1>. QED BY <1>1, <1>2, PTL DEF Spec

\* What a step leaves alone of a reservation.
Keeps(i) ==
  db["Reservation"][i].live =>
    /\ db'["Reservation"][i].live
    /\ \A f \in {"userId", "gpuNodeId"} : db'["Reservation"][i].refs[f] = db["Reservation"][i].refs[f]

LEMMA MovesKeeps ==
  ASSUME ConstantsAssumption, Inv, NEW q \in Requests, Moves(q), NEW i \in Ids PROVE Keeps(i)
  <1>. DEFINE t == Table(q)
              j == req[q].id
  <1>1. "Reservation" \in Tables /\ Refs("Reservation") = {"userId", "gpuNodeId", "courseId"}
        /\ \A f \in Refs("Reservation") : OnDelete("Reservation", f) # "Cascade"
        /\ \A g \in {"userId", "gpuNodeId"} : OnDelete("Reservation", g) = "Restrict"
    BY SchemaRows, RefsOf, OnDeleteOf DEF AllTables
  <1>2. req[q].pc = "write" => /\ t \in Tables /\ j \in Ids /\ req[q].input \in Row(t)
                               /\ t = "Reservation" => Handler(q).write = "insert"
    BY WhatHandlersWrite DEF Inv, RequestsOK, Good, Table, Handler, TableOf
  <1>3. CASE db' = db
    BY <1>3 DEF Keeps
  <1>4. CASE Insert(q)
    <2>1. CASE Writes(t, j, req[q].input)
      <3>1. ~db[t][j].live
        BY <1>4 DEF Insert, Inv, IdsFresh, Inserts, TableOf, Table, Handler
      <3>2. db["Reservation"][i].live => db'["Reservation"][i] = db["Reservation"][i]
        BY <1>1, <1>2, <1>4, <2>1, <3>1, WriteIs DEF Insert, Inv
      <3>. QED BY <3>2 DEF Keeps
    <2>. QED BY <1>3, <1>4, <2>1 DEF Insert, Refused, Store, Writes
  <1>5. CASE Update(q)
    <2>1. CASE Row0(q).live /\ Writes(t, j, Updated(q))
      <3>1. req[q].pc = "write" /\ t # "Reservation"
        BY <1>2, <1>5 DEF Update
      <3>2. Updated(q) \in Row(t)
        BY <2>1, <3>1, UpdatedRow DEF Complete
      <3>3. db'["Reservation"] = db["Reservation"]
        BY <1>1, <1>2, <2>1, <3>1, <3>2, WriteIs DEF Inv
      <3>. QED BY <3>3 DEF Keeps
    <2>. QED BY <1>3, <1>5, <2>1 DEF Update, Refused, Store, Writes
  <1>6. CASE Delete(q)
    <2>1. CASE ~Restricted(t, j) /\ db' = AfterDelete(t, j)
      <3>1. t \in Tables /\ j \in Ids /\ t # "Reservation"
        BY <1>2, <1>6 DEF Delete
      <3>2. ~Cascades(t, j, "Reservation", i)
        BY <1>1 DEF Cascades
      <3>3. db["Reservation"][i].live => db'["Reservation"][i].live
        BY <1>1, <2>1, <3>1, <3>2, DeleteIs DEF Inv
      <3>4. db'["Reservation"][i].live =>
              \A f \in {"userId", "gpuNodeId"} : db'["Reservation"][i].refs[f] = db["Reservation"][i].refs[f]
        BY <1>1, <2>1, <3>1, DeleteIs DEF Inv
      <3>. QED BY <3>3, <3>4 DEF Keeps
    <2>. QED BY <1>3, <1>6, <2>1 DEF Delete, Refused
  <1>. QED BY <1>3, <1>4, <1>5, <1>6
       DEF Moves, Receive, Step, ReadSelf, ReadParent, ReadFaculty, ReadKey, Audit, Respond

\* No step of the administration removes a reservation or moves it to another
\* user or node.
THEOREM ReservationsKeptCorrect == Spec => ReservationsKept
  <1>1. Inv /\ [Next]_vars => [\A i \in Ids : Keeps(i)]_vars
    BY NextMoves, MovesKeeps, ConstantsAssumption
  <1>2. [\A i \in Ids : Keeps(i)]_vars => 
          [\A i \in Ids : db["Reservation"][i].live =>
             /\ db'["Reservation"][i].live
             /\ \A f \in {"userId", "gpuNodeId"} :
                  db'["Reservation"][i].refs[f] = db["Reservation"][i].refs[f]]_vars
    BY DEF Keeps
  <1>. QED BY <1>1, <1>2, InvCorrect, PTL DEF Spec, ReservationsKept

-----------------------------------------------------------------------------
(* What overlapping requests are told *)

\* Where a service does not catch the error of a unique constraint, its write
\* cannot run into one.
LEMMA UpdateUnique ==
  ASSUME Inv, NEW q \in Requests, req[q].pc = "write", Handler(q).write = "update", Row0(q).live,
         "P2002" \notin Handler(q).catches
  PROVE  ~Clashes(Table(q), req[q].id, Updated(q))
  <1>. DEFINE t == Table(q)
              op == req[q].op
  <1>1. /\ op \in DOMAIN Handlers /\ t \in Tables /\ req[q].id \in Ids
        /\ Acceptable(op, req[q].input) /\ t = Handlers[op].table /\ Covered(op)
    BY WhatHandlersWrite, HandlersCover DEF Inv, RequestsOK, Good, Table, Handler, TableOf
  <1>2. "key" \notin Handlers[op].sets /\ Schema[t].unique = {}
    BY <1>1 DEF Covered, Handler
  <1>3. Updated(q).key = Row0(q).key
    BY <1>1, <1>2 DEF Acceptable, Updated
  <1>. QED BY <1>1, <1>2, <1>3 DEF Inv, KeysUnique, Clashes, Row0

LEMMA InsertUnique ==
  ASSUME Inv, NEW q \in Requests, req[q].pc = "write", Handler(q).write = "insert",
         "P2002" \notin Handler(q).catches
  PROVE  ~Clashes(Table(q), req[q].id, req[q].input)
  <1>. DEFINE op == req[q].op
  <1>1. op \in DOMAIN Handlers /\ Covered(op) /\ Acceptable(op, req[q].input) /\ Table(q) = Handlers[op].table
    BY HandlersCover DEF Inv, RequestsOK, Good, Table, Handler
  <1>2. req[q].input.key = None
    BY <1>1 DEF Covered, Handler, Acceptable
  <1>. QED BY <1>2 DEF Clashes

LEMMA DeleteFree ==
  ASSUME Inv, NEW q \in Requests, req[q].pc = "write", Handler(q).write = "delete",
         "P2003" \notin Handler(q).catches
  PROVE  ~Restricted(Table(q), req[q].id)
  <1>. DEFINE op == req[q].op
  <1>1. op \in DOMAIN Handlers /\ Covered(op) /\ Table(q) = Handlers[op].table
    BY HandlersCover DEF Inv, RequestsOK, Good, Table, Handler
  <1>2. Table(q) = "Course"
    BY <1>1 DEF Covered, Handler
  <1>3. \A c \in Tables : \A f \in Refs(c) : Target(c, f) = "Course" => OnDelete(c, f) # "Restrict"
    BY SchemaRows, RefsOf, TargetOf, OnDeleteOf DEF AllTables
  <1>. QED BY <1>2, <1>3 DEF Restricted, PointsTo, Target, OnDelete

\* The row that an update has read is, if it is still there, where it was: in the
\* same department or organization; and nobody inserts another one in its place.
SeenOK(q) ==
  req[q].pc = "read" =>
    /\ Handler(q).write = "insert" => ~req[q].seen.live
    /\ Handler(q).write # "insert" /\ req[q].n # 1 => req[q].seen.live
    /\ req[q].seen.live =>
         /\ \A p \in Requests : Inserts(req[p]) => ~(TableOf(req[p]) = Table(q) /\ req[p].id = req[q].id)
         /\ Row0(q).live => \A f \in Schema[Table(q)].unique : Row0(q).refs[f] = req[q].seen.refs[f]
SeenInv == \A q \in Requests : SeenOK(q)

\* A row that is in use by a request keeps the columns of its unique constraint.
SameScope(t, i) ==
  db'[t][i].live => /\ db[t][i].live
                    /\ \A f \in Schema[t].unique : db'[t][i].refs[f] = db[t][i].refs[f]

LEMMA WritesSameScope ==
  ASSUME ConstantsAssumption, Inv, NEW p \in Requests, Moves(p), NEW t \in Tables, NEW i \in Ids,
         Inserts(req[p]) => ~(TableOf(req[p]) = t /\ req[p].id = i)
  PROVE  SameScope(t, i)
  <1>. DEFINE c == Table(p)
              j == req[p].id
              op == req[p].op
  <1>1. req[p].pc = "write" => /\ c \in Tables /\ j \in Ids /\ req[p].input \in Row(c) /\ op \in DOMAIN Handlers
                               /\ Acceptable(op, req[p].input) /\ c = Handlers[op].table /\ c = TableOf(req[p])
    BY WhatHandlersWrite DEF Inv, RequestsOK, Good, Table, Handler, TableOf
  <1>2. CASE db' = db
    BY <1>2 DEF SameScope
  <1>3. CASE Insert(p)
    <2>1. CASE Writes(c, j, req[p].input)
      <3>1. ~(c = t /\ j = i) /\ req[p].pc = "write"
        BY <1>1, <1>3 DEF Insert, Inserts, Handler
      <3>2. db'[t][i] = db[t][i]
        BY <1>1, <2>1, <3>1, WriteIs DEF Inv
      <3>. QED BY <3>2 DEF SameScope
    <2>. QED BY <1>2, <1>3, <2>1 DEF Insert, Refused, Store, Writes
  <1>4. CASE Update(p)
    <2>1. CASE Row0(p).live /\ Writes(c, j, Updated(p))
      <3>1. req[p].pc = "write" /\ Handlers[op].write = "update"
        BY <1>4 DEF Update, Handler
      <3>2. Updated(p) \in Row(c)
        BY <2>1, <3>1, UpdatedRow DEF Complete
      <3>3. CASE c = t /\ j = i
        <4>1. db'[t][i] = Updated(p)
          BY <1>1, <2>1, <3>1, <3>2, <3>3, WriteIs DEF Inv
        <4>2. \A f \in Schema[t].unique : f \in Refs(t) /\ req[p].input.refs[f] = None
          BY <1>1, <3>1, <3>3, HandlersLook, SchemaFacts DEF Looks, Acceptable
        <4>3. \A f \in Schema[t].unique : Updated(p).refs[f] = Row0(p).refs[f]
          BY <3>3, <4>2 DEF Updated
        <4>4. Row0(p) = db[t][i]
          BY <3>3 DEF Row0
        <4>. QED BY <2>1, <4>1, <4>3, <4>4 DEF SameScope
      <3>4. CASE ~(c = t /\ j = i)
        <4>1. db'[t][i] = db[t][i]
          BY <1>1, <2>1, <3>1, <3>2, <3>4, WriteIs DEF Inv
        <4>. QED BY <4>1 DEF SameScope
      <3>. QED BY <3>3, <3>4
    <2>. QED BY <1>2, <1>4, <2>1 DEF Update, Refused, Store, Writes
  <1>5. CASE Delete(p)
    <2>1. CASE ~Restricted(c, j) /\ db' = AfterDelete(c, j)
      <3>1. c \in Tables /\ j \in Ids
        BY <1>1, <1>5 DEF Delete
      <3>. QED BY <2>1, <3>1, DeleteIs, SchemaFacts DEF Inv, SameScope
    <2>. QED BY <1>2, <1>5, <2>1 DEF Delete, Refused
  <1>. QED BY <1>2, <1>3, <1>4, <1>5
       DEF Moves, Receive, Step, ReadSelf, ReadParent, ReadFaculty, ReadKey, Audit, Respond

\* What a step makes of a request: of its own one, and of another.
LEMMA SeenNext ==
  ASSUME ConstantsAssumption, Inv, SeenInv, NEW q \in Requests, req[q].pc = "read", NEW row \in Row(Table(q)),
         NextRead(q, row), db' = db,
         \/ row = req[q].seen /\ Handler(q).reads[req[q].n] # "self"
         \/ row = Row0(q) /\ row.live /\ Handler(q).reads[req[q].n] = "self"
  PROVE  SeenOK(q)'
  <1>1. /\ req[q] \in Request /\ req[q].op \in DOMAIN Handlers /\ req[q].n \in 1 .. Len(Handler(q).reads)
        /\ Covered(req[q].op) /\ Looks(req[q].op) /\ Len(Handler(q).reads) \in Nat \ {0}
        /\ Table(q) \in Tables /\ req[q].id \in Ids /\ Table(q) = TableOf(req[q])
    BY HandlersCover, HandlersLook, WhatHandlersWrite DEF Inv, RequestsOK, Good, Covered, Handler, Table, TableOf
  <1>2. req' = [req EXCEPT ![q] = [req[q] EXCEPT !.n = @ + 1, !.seen = row,
                    !.pc = IF req[q].n = Len(Handler(q).reads) THEN "write" ELSE "read"]]
    BY DEF Inv, RequestsOK, NextRead
  <1>3. /\ req'[q].op = req[q].op /\ req'[q].id = req[q].id /\ req'[q].n = req[q].n + 1 /\ req'[q].seen = row
        /\ \A p \in Requests \ {q} : req'[p] = req[p]
        /\ req'[q].pc \in {"read", "write"}
    BY <1>1, <1>2 DEF Inv, RequestsOK, Request
  <1>4. \A p \in Requests : Inserts(req'[p]) => Inserts(req[p]) /\ req'[p].op = req[p].op /\ req'[p].id = req[p].id
    BY <1>3 DEF Inserts
  <1>5. /\ Handler(q)' = Handler(q) /\ Table(q)' = Table(q) /\ Row0(q)' = Row0(q)
    BY <1>3 DEF Handler, Table, Row0
  <1>6. CASE row = req[q].seen /\ Handler(q).reads[req[q].n] # "self"
    <2>1. Handler(q).write # "insert" => row.live
      <3>1. Handler(q).write \in {"insert", "update", "delete"}
        BY <1>1, WhatHandlersWrite DEF Handler
      <3>2. Handler(q).write # "insert" => req[q].n # 1
        BY <1>1, <1>6, <3>1 DEF Covered, Handler
      <3>. QED BY <1>6, <3>2 DEF SeenInv, SeenOK
    <2>2. Handler(q).write = "insert" => ~row.live
      BY <1>6 DEF SeenInv, SeenOK
    <2>3. row.live => /\ \A p \in Requests : Inserts(req[p]) => ~(TableOf(req[p]) = Table(q) /\ req[p].id = req[q].id)
                      /\ Row0(q).live => \A f \in Schema[Table(q)].unique : Row0(q).refs[f] = row.refs[f]
      BY <1>6 DEF SeenInv, SeenOK
    <2>. QED BY <1>3, <1>4, <1>5, <2>1, <2>2, <2>3 DEF SeenOK, TableOf
  <1>7. CASE row = Row0(q) /\ row.live /\ Handler(q).reads[req[q].n] = "self"
    <2>1. Handler(q).write # "insert"
      BY <1>1, <1>7 DEF Looks, Handler
    <2>2. \A p \in Requests : Inserts(req[p]) => ~(TableOf(req[p]) = Table(q) /\ req[p].id = req[q].id)
      BY <1>7 DEF Inv, IdsFresh, Row0
    <2>. QED BY <1>3, <1>4, <1>5, <1>7, <2>1, <2>2 DEF SeenOK, TableOf
  <1>. QED BY <1>6, <1>7

\* A request that has read its row, and another one that moves.
LEMMA SeenOther ==
  ASSUME ConstantsAssumption, Inv, SeenInv, NEW q \in Requests, NEW p \in Requests \ {q}, Moves(p),
         req'[q] = req[q],
         \A o \in Requests : Inserts(req'[o]) =>
           \/ Inserts(req[o]) /\ req'[o].op = req[o].op /\ req'[o].id = req[o].id
           \/ req[q].pc = "read" => ~(TableOf(req'[o]) = Table(q) /\ req'[o].id = req[q].id)
  PROVE  SeenOK(q)'
  <1>. SUFFICES ASSUME req[q].pc = "read"
                PROVE  SeenOK(q)'
    BY DEF SeenOK
  <1>1. Table(q) \in Tables /\ req[q].id \in Ids /\ Handler(q)' = Handler(q) /\ Table(q)' = Table(q)
    BY WhatHandlersWrite DEF Inv, RequestsOK, Good, Table, Handler
  <1>2. Row0(q)' = db'[Table(q)][req[q].id]
    BY <1>1 DEF Row0
  <1>3. SeenOK(q)
    BY DEF SeenInv
  <1>4. req[q].seen.live =>
          \A o \in Requests : Inserts(req'[o]) => ~(TableOf(req'[o]) = Table(q) /\ req'[o].id = req[q].id)
    BY <1>3 DEF SeenOK, TableOf
  <1>5. req[q].seen.live => SameScope(Table(q), req[q].id)
    BY <1>1, <1>3, WritesSameScope DEF SeenOK
  <1>6. req[q].seen.live /\ Row0(q)'.live =>
          \A f \in Schema[Table(q)].unique : Row0(q)'.refs[f] = req[q].seen.refs[f]
    BY <1>2, <1>3, <1>5 DEF SeenOK, SameScope, Row0
  <1>. QED BY <1>1, <1>3, <1>4, <1>6 DEF SeenOK

LEMMA OnlyOneMoves ==
  ASSUME Inv, NEW p \in Requests, Moves(p)
  PROVE  \A q \in Requests \ {p} : req'[q] = req[q]
  BY DEF Moves, Receive, Step, ReadSelf, ReadParent, ReadFaculty, ReadKey, Insert, Update, Delete, Audit, Respond,
         Reply, NextRead, Refused, Wrote, Inv, RequestsOK

LEMMA SeenStep ==
  ASSUME ConstantsAssumption, Inv, SeenInv, NEW p \in Requests, Moves(p)
  PROVE  SeenInv'
  <1>1. \A q \in Requests \ {p} : req'[q] = req[q]
    BY OnlyOneMoves
  <1>2. CASE \E op \in Ops : \E i \in Ids, row \in Inputs[op] : Receive(p, op, i, row)
    <2>0. PICK op \in Ops : \E i \in Ids, row \in Inputs[op] : Receive(p, op, i, row)
      BY <1>2
    <2>1. PICK i \in Ids, row \in Inputs[op] : Receive(p, op, i, row)
      BY <2>0
    <2>2. /\ req'[p].pc = "read" /\ req'[p].n = 1 /\ req'[p].op = op /\ req'[p].id = i
          /\ req'[p].seen = NoRow(Handlers[op].table) /\ db' = db
      BY <2>1 DEF Receive, Idle, Inv, RequestsOK
    <2>3. SeenOK(p)'
      BY <2>2 DEF SeenOK, NoRow
    <2>4. ASSUME NEW q \in Requests \ {p} PROVE SeenOK(q)'
      <3>1. Inserts(req'[p]) => Fresh(Handlers[op].table, i)
        BY <2>1, <2>2 DEF Receive, Inserts
      <3>2. Inserts(req'[p]) => (req[q].pc = "read" => ~(TableOf(req'[p]) = Table(q) /\ req'[p].id = req[q].id))
        BY <2>2, <3>1 DEF Fresh, Holds, TableOf
      <3>. QED BY <1>1, <3>2, SeenOther
    <2>. QED BY <2>3, <2>4 DEF SeenInv
  <1>3. CASE Step(p)
    <2>0. req[p].pc # "idle"
      BY <1>3 DEF Step, ReadSelf, ReadParent, ReadFaculty, ReadKey, Insert, Update, Delete, Audit, Respond
    <2>1. /\ req[p] \in Request /\ Table(p) \in Tables
          /\ req[p].seen \in Row(Table(p)) /\ Row0(p) \in Row(Table(p))
      <3>1. /\ req[p] \in Request /\ req[p].op \in DOMAIN Handlers /\ req[p].id \in Ids
            /\ req[p].seen \in Row(TableOf(req[p])) /\ Table(p) = TableOf(req[p])
        BY <2>0 DEF Inv, RequestsOK, Good, Table, Handler, TableOf
      <3>2. Table(p) \in Tables
        BY <3>1, WhatHandlersWrite DEF TableOf
      <3>. QED BY <3>1, <3>2 DEF Inv, DbOK, Row0
    <2>2. Inserts(req'[p]) => Inserts(req[p]) /\ req'[p].op = req[p].op /\ req'[p].id = req[p].id
      <3>1. CASE NextRead(p, Row0(p)) \/ NextRead(p, req[p].seen)
        BY <1>3, <2>1, <3>1 DEF NextRead, Inserts, Inv, RequestsOK, Request
      <3>2. CASE \E a : Reply(p, a)
        BY <2>1, <3>2 DEF Reply, Inserts, Inv, RequestsOK, Request
      <3>3. CASE Wrote(p) \/ Audit(p) \/ Respond(p)
        BY <2>1, <3>3 DEF Wrote, Audit, Respond, Inserts, Idle, Inv, RequestsOK, Request
      <3>. QED BY <1>3, <3>1, <3>2, <3>3
           DEF Step, ReadSelf, ReadParent, ReadFaculty, ReadKey, Insert, Update, Delete, Refused
    <2>3. ASSUME NEW q \in Requests \ {p} PROVE SeenOK(q)'
      <3>1. \A o \in Requests : Inserts(req'[o]) => Inserts(req[o]) /\ req'[o].op = req[o].op /\ req'[o].id = req[o].id
        BY <1>1, <2>2
      <3>2. Moves(p) /\ req'[q] = req[q]
        BY <1>1
      <3>. QED BY <3>1, <3>2, SeenOther
    <2>4. SeenOK(p)'
      <3>1. CASE req'[p].pc # "read"
        BY <3>1 DEF SeenOK
      <3>2. CASE ReadSelf(p) /\ Row0(p).live /\ NextRead(p, Row0(p))
        BY <2>1, <3>2, SeenNext DEF ReadSelf
      <3>3. CASE (ReadParent(p) \/ ReadFaculty(p) \/ ReadKey(p)) /\ NextRead(p, req[p].seen)
        BY <2>1, <3>3, SeenNext DEF ReadParent, ReadFaculty, ReadKey
      <3>4. CASE (\E a : Reply(p, a)) \/ Wrote(p) \/ Audit(p) \/ Respond(p)
        <4>1. req'[p].pc # "read"
          BY <2>1, <3>4 DEF Reply, Wrote, Audit, Respond, Idle, Inv, RequestsOK, Request
        <4>. QED BY <3>1, <4>1
      <3>. QED BY <1>3, <3>2, <3>3, <3>4
           DEF Step, ReadSelf, ReadParent, ReadFaculty, ReadKey, Insert, Update, Delete, Refused
    <2>. QED BY <2>3, <2>4 DEF SeenInv
  <1>. QED BY <1>2, <1>3 DEF Moves

\* What may be said of a request at the moment it is answered.
Truthful(q) ==
  /\ req'[q].answer = "ok" <=> req[q].wrote
  /\ req'[q].recorded => req'[q].answer = "ok"
  /\ req'[q].answer = "404" => ~Row0(q).live
  /\ req'[q].answer = "400" => Dangles(Table(q), req[q].input) \/ NotFaculty(q)
  /\ req'[q].answer = "409" => InUse(q)
  /\ req'[q].answer = "500" => Gone(q)

\* An answer that is given without a write having been done is true if what it
\* says of the row is.
LEMMA ReplyTruthful ==
  ASSUME Inv, NEW q \in Requests, req[q].pc \in {"read", "write"}, NEW a, Reply(q, a),
         a # "ok",
         /\ a = "404" => ~Row0(q).live
         /\ a = "400" => Dangles(Table(q), req[q].input) \/ NotFaculty(q)
         /\ a = "409" => InUse(q)
         /\ a = "500" => Gone(q)
  PROVE  Truthful(q)
  <1>1. req'[q].answer = a /\ req'[q].recorded = req[q].recorded
    BY DEF Inv, RequestsOK, Request, Reply
  <1>2. ~req[q].wrote /\ ~req[q].recorded
    BY DEF Inv, RequestsOK, Good
  <1>. QED BY <1>1, <1>2 DEF Truthful

LEMMA NotDone ==
  ASSUME Inv, NEW q \in Requests, NEW row, NextRead(q, row) \/ Wrote(q)
  PROVE  ~Answered(q)
  <1>1. req'[q].pc # "done"
    BY DEF Inv, RequestsOK, Request, NextRead, Wrote
  <1>. QED BY <1>1 DEF Answered

\* What a request carries when it reads or writes.
LEMMA Carries ==
  ASSUME Inv, NEW q \in Requests, req[q].pc \in {"read", "write"}
  PROVE  /\ req[q].op \in DOMAIN Handlers /\ Table(q) \in Tables /\ req[q].id \in Ids
         /\ Covered(req[q].op) /\ Looks(req[q].op) /\ Acceptable(req[q].op, req[q].input)
         /\ Handler(q) = Handlers[req[q].op] /\ Table(q) = Handlers[req[q].op].table
         /\ Handler(q).write \in {"insert", "update", "delete"}
         /\ req[q].pc = "read" => req[q].n \in 1 .. Len(Handlers[req[q].op].reads)
  BY HandlersCover, HandlersLook, WhatHandlersWrite DEF Inv, RequestsOK, Good, Table, Handler, TableOf

LEMMA ReadsTruthful ==
  ASSUME Inv, SeenInv, NEW q \in Requests, Answered(q),
         ReadSelf(q) \/ ReadParent(q) \/ ReadFaculty(q) \/ ReadKey(q)
  PROVE  Truthful(q)
  <1>1. req[q].pc = "read"
    BY DEF ReadSelf, ReadParent, ReadFaculty, ReadKey
  <1>2. \A row : ~NextRead(q, row)
    BY NotDone
  <1>3. CASE ReadSelf(q)
    BY <1>1, <1>2, <1>3, ReplyTruthful DEF ReadSelf
  <1>4. CASE ReadParent(q)
    BY <1>1, <1>2, <1>4, ReplyTruthful DEF ReadParent
  <1>5. CASE ReadFaculty(q)
    <2>. DEFINE u == req[q].input.refs.facultyId
    <2>1. Table(q) = "Course"
      BY <1>1, <1>5, Carries DEF ReadFaculty, Looks
    <2>2. Reply(q, "400") /\ u # None /\ (db["User"][u].live => db["User"][u].tag # "FACULTY")
      BY <1>2, <1>5 DEF ReadFaculty
    <2>3. "facultyId" \in Refs("Course") /\ Schema["Course"].refs["facultyId"].to = "User"
      BY RefsOf, TargetOf DEF Target
    <2>4. Dangles(Table(q), req[q].input) \/ NotFaculty(q)
      BY <2>1, <2>2, <2>3 DEF Dangles, NotFaculty
    <2>. QED BY <1>1, <2>2, <2>4, ReplyTruthful
  <1>6. CASE ReadKey(q)
    <2>. DEFINE t == Table(q)
                given == req[q].input
                looked == IF req[q].seen.live THEN [req[q].seen EXCEPT !.key = given.key] ELSE given
    <2>1. Reply(q, "409") /\ Clashes(t, req[q].id, looked)
      BY <1>2, <1>6 DEF ReadKey
    <2>2. /\ t \in Tables /\ Covered(req[q].op) /\ Looks(req[q].op) /\ Acceptable(req[q].op, given)
          /\ Handler(q) = Handlers[req[q].op] /\ t = Handlers[req[q].op].table
          /\ Handler(q).write \in {"insert", "update", "delete"}
          /\ req[q].n \in 1 .. Len(Handlers[req[q].op].reads)
      BY <1>1, Carries
    <2>3. ASSUME Handler(q).write = "insert" PROVE InUse(q)
      <3>1. ~req[q].seen.live
        BY <1>1, <2>3 DEF SeenInv, SeenOK
      <3>. QED BY <2>1, <2>3, <3>1 DEF InUse
    <2>4. ASSUME Handler(q).write = "update" PROVE InUse(q)
      <3>1. req[q].n # 1
        BY <1>6, <2>2, <2>4 DEF Covered, ReadKey
      <3>2. req[q].seen.live
        BY <1>1, <2>4, <3>1 DEF SeenInv, SeenOK
      <3>3. req[q].seen \in Row(t)
        BY <1>1 DEF Inv, RequestsOK, Good, Table, Handler, TableOf
      <3>4. looked.key = given.key /\ looked.refs = req[q].seen.refs
        BY <3>2, <3>3 DEF Row
      <3>5. given.key # None
        BY <2>1, <3>4 DEF Clashes
      <3>6. Updated(q).key = given.key
        BY <3>5 DEF Updated
      <3>7. ASSUME Row0(q).live, NEW f \in Schema[t].unique PROVE Updated(q).refs[f] = looked.refs[f]
        <4>1. f \in Refs(t) /\ f \notin Handlers[req[q].op].sets
          BY <2>2, <2>4, SchemaFacts DEF Looks
        <4>2. given.refs[f] = None
          BY <2>2, <4>1 DEF Acceptable
        <4>3. Updated(q).refs[f] = Row0(q).refs[f]
          BY <4>1, <4>2 DEF Updated
        <4>4. Row0(q).refs[f] = req[q].seen.refs[f]
          BY <1>1, <3>2, <3>7 DEF SeenInv, SeenOK
        <4>. QED BY <3>4, <4>3, <4>4
      <3>8. Row0(q).live => Clashes(t, req[q].id, Updated(q))
        BY <2>1, <3>4, <3>6, <3>7 DEF Clashes
      <3>. QED BY <2>4, <3>8 DEF InUse
    <2>5. ASSUME Handler(q).write = "delete" PROVE InUse(q)
      BY <1>6, <2>2, <2>5 DEF Covered, Looks, ReadKey
    <2>6. InUse(q)
      BY <2>2, <2>3, <2>4, <2>5
    <2>. QED BY <1>1, <2>1, <2>6, ReplyTruthful
  <1>. QED BY <1>3, <1>4, <1>5, <1>6

LEMMA WritesTruthful ==
  ASSUME Inv, NEW q \in Requests, Answered(q), Insert(q) \/ Update(q) \/ Delete(q)
  PROVE  Truthful(q)
  <1>. DEFINE catches == Handler(q).catches
  <1>1. /\ req[q].pc = "write" /\ ~Wrote(q) /\ "P2025" \notin catches
        /\ Table(q) \in Tables /\ req[q].id \in Ids
    BY NotDone, Carries DEF Insert, Update, Delete, Looks
  <1>2. CASE Insert(q)
    <2>1. "P2002" \notin catches => ~Clashes(Table(q), req[q].id, req[q].input)
      BY <1>1, <1>2, InsertUnique DEF Insert
    <2>2. \/ Reply(q, "500") /\ Dangles(Table(q), req[q].input)
          \/ Reply(q, "409") /\ Clashes(Table(q), req[q].id, req[q].input)
      BY <1>1, <1>2, <2>1 DEF Insert, Refused
    <2>. QED BY <1>1, <1>2, <2>2, ReplyTruthful DEF Gone, InUse, Insert
  <1>3. CASE Update(q)
    <2>1. "P2002" \notin catches /\ Row0(q).live => ~Clashes(Table(q), req[q].id, Updated(q))
      BY <1>1, <1>3, UpdateUnique DEF Update
    <2>2. \/ Reply(q, "500") /\ (~Row0(q).live \/ Dangles(Table(q), Updated(q)))
          \/ Reply(q, "409") /\ Clashes(Table(q), req[q].id, Updated(q))
      BY <1>1, <1>3, <2>1 DEF Update, Refused
    <2>3. Row0(q).live /\ Dangles(Table(q), Updated(q)) => Dangles(Table(q), req[q].input)
      <3>1. ASSUME Row0(q).live, NEW f \in Refs(Table(q)), Updated(q).refs[f] # None,
                   req[q].input.refs[f] = None
            PROVE  db[Schema[Table(q)].refs[f].to][Updated(q).refs[f]].live
        <4>1. Updated(q).refs[f] = Row0(q).refs[f]
          BY <3>1 DEF Updated
        <4>. QED BY <1>1, <3>1, <4>1 DEF Inv, NoDanglingReference, Row0
      <3>2. ASSUME NEW f \in Refs(Table(q)), req[q].input.refs[f] # None
            PROVE  Updated(q).refs[f] = req[q].input.refs[f]
        BY <3>2 DEF Updated
      <3>. QED BY <3>1, <3>2 DEF Dangles
    <2>. QED BY <1>1, <1>3, <2>2, <2>3, ReplyTruthful DEF Gone, InUse, Update
  <1>4. CASE Delete(q)
    <2>1. "P2003" \notin catches => ~Restricted(Table(q), req[q].id)
      BY <1>1, <1>4, DeleteFree DEF Delete
    <2>2. \/ Reply(q, "500") /\ ~Row0(q).live
          \/ Reply(q, "409") /\ Restricted(Table(q), req[q].id)
      BY <1>1, <1>4, <2>1 DEF Delete, Refused
    <2>. QED BY <1>1, <1>4, <2>2, ReplyTruthful DEF Gone, InUse, Delete
  <1>. QED BY <1>2, <1>3, <1>4

LEMMA AnswersTruthful ==
  ASSUME ConstantsAssumption, Inv, SeenInv, NEW p \in Requests, Moves(p), NEW q \in Requests, Answered(q)
  PROVE  Truthful(q)
  <1>1. q = p
    BY OnlyOneMoves DEF Answered
  <1>2. CASE \E op \in Ops : \E i \in Ids, row \in Inputs[op] : Receive(p, op, i, row)
    <2>1. req'[p].pc = "read"
      BY <1>2 DEF Receive, Idle, Inv, RequestsOK
    <2>. QED BY <1>1, <2>1 DEF Answered
  <1>3. CASE ReadSelf(p) \/ ReadParent(p) \/ ReadFaculty(p) \/ ReadKey(p)
    BY <1>1, <1>3, ReadsTruthful
  <1>4. CASE Insert(p) \/ Update(p) \/ Delete(p)
    BY <1>1, <1>4, WritesTruthful
  <1>5. CASE Audit(p)
    <2>1. req'[p].answer = "ok" /\ req[p].wrote
      BY <1>5, AuditStep DEF Inv, RequestsOK
    <2>. QED BY <1>1, <2>1 DEF Truthful
  <1>6. CASE Respond(p)
    BY <1>1, <1>6 DEF Respond, Answered
  <1>. QED BY <1>2, <1>3, <1>4, <1>5, <1>6 DEF Moves, Step

\* The tables, the requests and what they have read, for any number of them.
LEMMA AnswersInvCorrect == Spec => [](Inv /\ SeenInv)
  <1>1. Init => Inv /\ SeenInv
    <2>1. Init => SeenInv
      BY DEF Init, SeenInv, SeenOK, Idle
    <2>. QED BY <2>1, InitInv, ConstantsAssumption
  <1>2. Inv /\ SeenInv /\ [Next]_vars => (Inv /\ SeenInv)'
    <2>1. ASSUME SeenInv, UNCHANGED vars PROVE SeenInv'
      BY <2>1 DEF vars, SeenInv, SeenOK, Inserts, Table, Handler, TableOf, Row0
    <2>. QED BY <2>1, NextMoves, MovesInv, StutterInv, SeenStep, ConstantsAssumption
  <1>. QED BY <1>1, <1>2, PTL DEF Spec

\* What a request is told of the rows is so when it is told, however many others
\* come in between its statements.
THEOREM AnswersAreTrueCorrect == Spec => AnswersAreTrue
  <1>1. Inv /\ SeenInv /\ [Next]_vars => [\A q \in Requests : Answered(q) => Truthful(q)]_vars
    BY NextMoves, AnswersTruthful, ConstantsAssumption
  <1>2. [\A q \in Requests : Answered(q) => Truthful(q)]_vars =>
          [\A q \in Requests : Answered(q) =>
             /\ req'[q].answer = "ok" <=> req[q].wrote
             /\ req'[q].recorded => req'[q].answer = "ok"
             /\ req'[q].answer = "404" => ~Row0(q).live
             /\ req'[q].answer = "400" => Dangles(Table(q), req[q].input) \/ NotFaculty(q)
             /\ req'[q].answer = "409" => InUse(q)]_vars
    BY DEF Truthful
  <1>. QED BY <1>1, <1>2, AnswersInvCorrect, PTL DEF Spec, AnswersAreTrue

\* However requests overlap, nobody is answered 500 but one whose row, or a row
\* it was to refer to, has been deleted meanwhile: whoever loses a race for a key,
\* or deletes what another one has come to refer to, gets a 409.
THEOREM RacesAreConflictsCorrect == Spec => RacesAreConflicts
  <1>1. Inv /\ SeenInv /\ [Next]_vars => [\A q \in Requests : Answered(q) => Truthful(q)]_vars
    BY NextMoves, AnswersTruthful, ConstantsAssumption
  <1>2. [\A q \in Requests : Answered(q) => Truthful(q)]_vars =>
          [\A q \in Requests : Answered(q) /\ req'[q].answer = "500" => Gone(q)]_vars
    BY DEF Truthful
  <1>. QED BY <1>1, <1>2, AnswersInvCorrect, PTL DEF Spec, RacesAreConflicts

-----------------------------------------------------------------------------
(* Requests that come one at a time *)

\* What a look into the tables has told the request.
Found(r, what) ==
  /\ what = "self" => db[TableOf(r)][r.id].live
  /\ what = "parent" => ~Dangles(TableOf(r), r.input)
  /\ what = "faculty" => \/ r.input.refs["facultyId"] = None
                         \/ db["User"][r.input.refs["facultyId"]].live

\* Whatever a request has looked up is still so, and none was answered 500.
Known(r) ==
  /\ \A k \in 1 .. Len(Handlers[r.op].reads) :
       r.pc = "write" \/ (r.pc = "read" /\ k < r.n) => Found(r, Handlers[r.op].reads[k])
  /\ r.answer # "500"

AtMostOne == \A p, q \in Requests : req[p].pc # "idle" /\ req[q].pc # "idle" => p = q

SerialInv == AtMostOne /\ \A q \in Requests : Known(req[q])

Alone == \A p \in Requests : req[p] = Idle

\* One request moves, and its new record knows what it has looked up.
LEMMA OneMoves ==
  ASSUME RequestsOK, SerialInv, NEW q \in Requests, NEW r, req' = [req EXCEPT ![q] = r],
         req[q].pc # "idle" \/ Alone, Known(r)'
  PROVE  SerialInv'
  <1>1. req'[q] = r /\ \A p \in Requests \ {q} : req'[p] = req[p]
    BY DEF RequestsOK
  <1>2. \A p \in Requests \ {q} : req[p].pc = "idle"
    BY DEF SerialInv, AtMostOne, Alone, Idle
  <1>3. \A p \in Requests \ {q} : Known(req[p])'
    BY <1>1, <1>2 DEF SerialInv, Known
  <1>4. AtMostOne'
    BY <1>1, <1>2 DEF AtMostOne
  <1>5. Known(req[q])'
    BY <1>1
  <1>. QED BY <1>3, <1>4, <1>5 DEF SerialInv

\* A record that is past its reads needs nothing but an answer other than 500.
LEMMA KnownLater ==
  ASSUME NEW r, r.pc \notin {"read", "write"}, r.answer # "500" PROVE Known(r)'
  BY DEF Known

\* The row that an update writes refers to nothing that is not there: what it
\* was given anew has been looked up, the rest is as it was.
LEMMA UpdateRefers ==
  ASSUME Inv, SerialInv, NEW q \in Requests, req[q].pc = "write", Handler(q).write = "update"
  PROVE  Row0(q).live /\ ~Dangles(Table(q), Updated(q))
  <1>. DEFINE t == Table(q)
              row == req[q].input
              op == req[q].op
  <1>1. /\ op \in DOMAIN Handlers /\ t \in Tables /\ req[q].id \in Ids /\ row \in Row(t)
        /\ Acceptable(op, row) /\ t = Handlers[op].table /\ Covered(op) /\ Handlers[op].write = "update"
    BY WhatHandlersWrite, HandlersCover DEF Inv, RequestsOK, Good, Table, Handler, TableOf
  <1>2. \A k \in 1 .. Len(Handlers[op].reads) : Found(req[q], Handlers[op].reads[k])
    BY DEF SerialInv, Known
  <1>3. Row0(q).live
    <2>1. 1 \in 1 .. Len(Handlers[op].reads) /\ Handlers[op].reads[1] = "self"
      BY <1>1 DEF Covered
    <2>. QED BY <1>2, <2>1 DEF Found, Row0, Table, Handler, TableOf
  <1>4. ASSUME NEW f \in Refs(t), Updated(q).refs[f] # None
        PROVE  db[Schema[t].refs[f].to][Updated(q).refs[f]].live
    <2>1. Updated(q).refs[f] = IF row.refs[f] = None THEN Row0(q).refs[f] ELSE row.refs[f]
      BY DEF Updated
    <2>2. CASE row.refs[f] = None
      BY <1>1, <1>3, <1>4, <2>1, <2>2 DEF Inv, NoDanglingReference, Row0
    <2>3. CASE row.refs[f] # None
      <3>1. f \in Handlers[op].sets
        BY <1>1, <2>3 DEF Acceptable
      <3>2. t = "Course" /\ Len(Handlers[op].reads) = 2 /\ Handlers[op].reads[2] = "faculty"
        BY <1>1, <3>1 DEF Covered
      <3>3. 2 \in 1 .. Len(Handlers[op].reads)
        BY <3>2
      <3>4. Found(req[q], "faculty")
        BY <1>2, <3>2, <3>3
      <3>5. f = "facultyId" /\ Schema[t].refs[f].to = "User"
        BY <3>2, RefsOf, TargetOf DEF Target
      <3>. QED BY <2>1, <2>3, <3>4, <3>5 DEF Found
    <2>. QED BY <2>2, <2>3
  <1>. QED BY <1>3, <1>4 DEF Dangles

\* A new row refers to nothing that is not there, and an error of the unique
\* constraint is caught.
LEMMA InsertFits ==
  ASSUME Inv, SerialInv, NEW q \in Requests, req[q].pc = "write", Handler(q).write = "insert"
  PROVE  /\ ~Dangles(Table(q), req[q].input)
         /\ "P2002" \notin Handler(q).catches => ~Clashes(Table(q), req[q].id, req[q].input)
  <1>. DEFINE t == Table(q)
              row == req[q].input
              op == req[q].op
  <1>1. /\ op \in DOMAIN Handlers /\ t \in Tables /\ row \in Row(t)
        /\ Acceptable(op, row) /\ t = Handlers[op].table /\ Covered(op) /\ Handlers[op].write = "insert"
    BY WhatHandlersWrite, HandlersCover DEF Inv, RequestsOK, Good, Table, Handler, TableOf
  <1>2. 1 \in 1 .. Len(Handlers[op].reads)
    BY <1>1 DEF Covered
  <1>3. Found(req[q], Handlers[op].reads[1])
    BY <1>2 DEF SerialInv, Known
  <1>4. ~Dangles(t, row)
    <2>1. CASE t = "Organization"
      BY <2>1, RefsOf DEF Dangles
    <2>2. CASE t = "Course"
      <3>1. Found(req[q], "faculty")
        BY <1>1, <1>3, <2>2 DEF Covered
      <3>2. Schema[t].refs["facultyId"].to = "User"
        BY <2>2, TargetOf DEF Target
      <3>. QED BY <2>2, <3>1, <3>2, RefsOf DEF Found, Dangles
    <2>3. CASE t \notin {"Organization", "Course"}
      <3>1. Found(req[q], "parent")
        BY <1>1, <1>3, <2>3 DEF Covered
      <3>. QED BY <3>1 DEF Found, Table, Handler, TableOf
    <2>. QED BY <2>1, <2>2, <2>3
  <1>5. "P2002" \notin Handler(q).catches => row.key = None
    BY <1>1 DEF Covered, Handler, Acceptable
  <1>. QED BY <1>4, <1>5 DEF Clashes

\* A row that is to be deleted is there, and an error of a foreign key is caught.
LEMMA DeleteFits ==
  ASSUME Inv, SerialInv, NEW q \in Requests, req[q].pc = "write", Handler(q).write = "delete"
  PROVE  /\ Row0(q).live
         /\ "P2003" \notin Handler(q).catches => ~Restricted(Table(q), req[q].id)
  <1>. DEFINE op == req[q].op
  <1>1. op \in DOMAIN Handlers /\ Covered(op) /\ Table(q) = Handlers[op].table
    BY HandlersCover DEF Inv, RequestsOK, Good, Table, Handler
  <1>2. 1 \in 1 .. Len(Handlers[op].reads) /\ Handlers[op].reads[1] = "self"
    BY <1>1 DEF Covered, Handler
  <1>3. Found(req[q], "self")
    BY <1>2 DEF SerialInv, Known
  <1>4. Row0(q).live
    BY <1>3 DEF Found, Row0, Table, Handler, TableOf
  <1>5. "P2003" \notin Handler(q).catches => Table(q) = "Course"
    BY <1>1 DEF Covered, Handler
  <1>6. \A c \in Tables : \A f \in Refs(c) : Target(c, f) = "Course" => OnDelete(c, f) # "Restrict"
    BY SchemaRows, RefsOf, TargetOf, OnDeleteOf DEF AllTables
  <1>. QED BY <1>4, <1>5, <1>6 DEF Restricted, PointsTo, Target, OnDelete

\* No write is answered 500.
LEMMA SerialWrite ==
  ASSUME Inv, SerialInv, NEW q \in Requests, Insert(q) \/ Update(q) \/ Delete(q)
  PROVE  SerialInv'
  <1>1. req[q].pc = "write" /\ Known(req[q]) /\ ~req[q].wrote
    BY DEF Insert, Update, Delete, SerialInv, Inv, RequestsOK, Good
  <1>2. Reply(q, "409") \/ Wrote(q)
    <2>1. CASE Insert(q)
      BY <1>1, <2>1, InsertFits DEF Insert, Refused
    <2>2. CASE Update(q)
      BY <1>1, <2>2, UpdateRefers, UpdateUnique DEF Update, Refused
    <2>3. CASE Delete(q)
      BY <1>1, <2>3, DeleteFits DEF Delete, Refused
    <2>. QED BY <2>1, <2>2, <2>3
  <1>3. PICK r : req' = [req EXCEPT ![q] = r] /\ r.pc \notin {"read", "write"} /\ r.answer # "500"
    <2>1. CASE Reply(q, "409")
      BY <1>1, <2>1, ReplyStep
    <2>2. CASE Wrote(q)
      BY <1>1, <2>2, WroteStep DEF Known
    <2>. QED BY <1>2, <2>1, <2>2
  <1>. QED BY <1>1, <1>3, KnownLater, OneMoves DEF Inv

\* What has just been read is known from now on.
LEMMA SerialNextRead ==
  ASSUME Inv, SerialInv, NEW q \in Requests, req[q].pc = "read", NEW row \in Row(Table(q)),
         NextRead(q, row), db' = db, Found(req[q], Handler(q).reads[req[q].n])
  PROVE  SerialInv'
  <1>1. PICK r : /\ Continues(r, q) /\ req' = [req EXCEPT ![q] = r]
                 /\ r.op = req[q].op /\ r.id = req[q].id /\ r.input = req[q].input /\ r.answer = req[q].answer
                 /\ r.n = req[q].n + 1
                 /\ r.pc = IF req[q].n = Len(Handler(q).reads) THEN "write" ELSE "read"
    BY NextReadStep
  <1>2. \A what : Found(r, what)' <=> Found(req[q], what)
    BY <1>1 DEF Found, Dangles, TableOf
  <1>3. req[q].n \in 1 .. Len(Handlers[r.op].reads) /\ Len(Handlers[r.op].reads) \in Nat
    BY <1>1, HandlersCover DEF Inv, RequestsOK, Good, Covered
  <1>4. ASSUME NEW k \in 1 .. Len(Handlers[r.op].reads), r.pc = "write" \/ (r.pc = "read" /\ k < r.n)
        PROVE  Found(req[q], Handlers[r.op].reads[k])
    <2>1. k <= req[q].n
      BY <1>1, <1>3, <1>4 DEF Handler
    <2>2. CASE k = req[q].n
      BY <1>1, <2>2 DEF Handler
    <2>3. CASE k < req[q].n
      BY <1>1, <2>3 DEF SerialInv, Known
    <2>. QED BY <1>3, <2>1, <2>2, <2>3
  <1>5. Known(r)'
    BY <1>1, <1>2, <1>4 DEF SerialInv, Known
  <1>. QED BY <1>1, <1>5, OneMoves DEF Inv

LEMMA SerialRead ==
  ASSUME ConstantsAssumption, Inv, SerialInv, NEW q \in Requests,
         ReadSelf(q) \/ ReadParent(q) \/ ReadFaculty(q) \/ ReadKey(q)
  PROVE  SerialInv'
  <1>1. req[q].pc = "read" /\ db' = db /\ ~req[q].wrote /\ Table(q) \in Tables /\ req[q].id \in Ids
        /\ req[q].seen \in Row(Table(q))
    BY WhatHandlersWrite DEF ReadSelf, ReadParent, ReadFaculty, ReadKey, Inv, RequestsOK, Good,
                             Table, Handler, TableOf
  <1>2. Row0(q) \in Row(Table(q))
    BY <1>1 DEF Inv, DbOK, Row0
  <1>3. CASE \E a \in {"400", "404", "409"} : Reply(q, a)
    <2>1. PICK r : req' = [req EXCEPT ![q] = r] /\ r.pc = "done" /\ r.answer # "500"
      BY <1>1, <1>3, ReplyStep
    <2>. QED BY <1>1, <2>1, KnownLater, OneMoves DEF Inv
  <1>4. CASE \E row \in Row(Table(q)) : NextRead(q, row) /\ Found(req[q], Handler(q).reads[req[q].n])
    BY <1>1, <1>4, SerialNextRead
  <1>5. CASE ReadSelf(q)
    BY <1>2, <1>3, <1>4, <1>5 DEF ReadSelf, Found, Row0, Table, Handler, TableOf
  <1>6. CASE ReadParent(q)
    BY <1>1, <1>3, <1>4, <1>6 DEF ReadParent, Found, Table, Handler, TableOf
  <1>7. CASE ReadFaculty(q)
    BY <1>1, <1>3, <1>4, <1>7 DEF ReadFaculty, Found
  <1>8. CASE ReadKey(q)
    BY <1>1, <1>3, <1>4, <1>8 DEF ReadKey, Found
  <1>. QED BY <1>5, <1>6, <1>7, <1>8

LEMMA SerialMoves ==
  ASSUME ConstantsAssumption, Inv, SerialInv, NEW q \in Requests, Moves(q), req[q] = Idle => Alone
  PROVE  SerialInv'
  <1>1. ASSUME NEW op \in Ops, NEW i \in Ids, NEW row \in Inputs[op], Receive(q, op, i, row)
        PROVE  SerialInv'
    <2>. DEFINE r == [Idle EXCEPT !.pc = "read", !.n = 1, !.op = op, !.id = i, !.input = row,
                                  !.seen = NoRow(Handlers[op].table)]
    <2>1. req' = [req EXCEPT ![q] = r] /\ req[q] = Idle
      BY <1>1 DEF Receive
    <2>2. r.pc = "read" /\ r.n = 1 /\ r.answer = None /\ None # "500" /\ r.op = op
      BY DEF Idle, ConstantsAssumption
    <2>3. Len(Handlers[op].reads) \in Nat
      BY HandlersCover DEF Covered, ConstantsAssumption
    <2>4. Known(r)'
      BY <2>2, <2>3 DEF Known
    <2>. QED BY <2>1, <2>4, OneMoves DEF Inv
  <1>2. CASE ReadSelf(q) \/ ReadParent(q) \/ ReadFaculty(q) \/ ReadKey(q)
    BY <1>2, SerialRead
  <1>3. CASE Insert(q) \/ Update(q) \/ Delete(q)
    BY <1>3, SerialWrite
  <1>4. CASE Audit(q)
    <2>1. PICK r : req' = [req EXCEPT ![q] = r] /\ r.pc = "done" /\ r.answer = "ok" /\ req[q].pc = "audit"
      BY <1>4, AuditStep
    <2>. QED BY <2>1, KnownLater, OneMoves DEF Inv
  <1>5. CASE Respond(q)
    <2>1. Idle.pc = "idle" /\ Idle.answer # "500"
      BY DEF Idle, ConstantsAssumption
    <2>2. Known(Idle)'
      BY <2>1, KnownLater
    <2>. QED BY <1>5, <2>2, OneMoves DEF Inv, Respond
  <1>. QED BY <1>1, <1>2, <1>3, <1>4, <1>5 DEF Moves, Step

LEMMA SerialStutter == ASSUME SerialInv, UNCHANGED vars PROVE SerialInv'
  BY DEF SerialInv, AtMostOne, Known, Found, Dangles, TableOf, vars

LEMMA SerialSeeded == ASSUME ConstantsAssumption, NEW seeds, Seeded(seeds) PROVE SerialInv
  BY DEF ConstantsAssumption, Seeded, SerialInv, AtMostOne, Known, Idle

LEMMA SerialAnswers == SerialInv => NoServerError
  BY DEF SerialInv, Known, NoServerError

\* Where requests do not overlap, what the services look up and the errors that
\* they catch cover every refusal of the database.
THEOREM NoServerErrorCorrect == ASSUME Serialized PROVE Spec => []NoServerError
  <1>1. Init => Inv /\ SerialInv
    BY InitInv, SerialSeeded, ConstantsAssumption DEF Init, Seeded, SeedRow, SeedOf
  <1>2. Inv /\ SerialInv /\ [Next]_vars => (Inv /\ SerialInv)'
    <2>1. Next => \E q \in Requests : Moves(q) /\ (req[q] = Idle => Alone)
      <3>1. \A q \in Requests : Step(q) => req[q].pc # "idle"
        BY DEF Step, ReadSelf, ReadParent, ReadFaculty, ReadKey, Insert, Update, Delete, Audit, Respond
      <3>2. \A q \in Requests : Start(q) => Moves(q) /\ Alone
        BY DEF Start, Receive, Moves, Alone
      <3>3. Idle.pc = "idle"
        BY DEF Idle
      <3>. QED BY <3>1, <3>2, <3>3 DEF Next, Moves
    <2>. QED BY <2>1, MovesInv, StutterInv, SerialMoves, SerialStutter, ConstantsAssumption
  <1>. QED BY <1>1, <1>2, SerialAnswers, PTL DEF Spec

-----------------------------------------------------------------------------
(* The parts of the instance that TLC runs *)

\* The instances have the schema of the module they are instances of.
LEMMA OrganizedSeed == Organized!Init => Seeded({"Organization"})
  <1>1. Organized!Schema = Schema
    BY DEF Organized!Schema, Schema, Organized!Organization, Organization,
        Organized!Department, Department, Organized!Laboratory, Laboratory,
        Organized!User, User, Organized!Course, Course,
        Organized!GpuNode, GpuNode, Organized!Reservation, Reservation,
        Organized!MaintenanceWindow, MaintenanceWindow, Organized!To, To
  <1>2. /\ Organized!Tables = Tables /\ Organized!Idle = Idle
        /\ \A t : Organized!Refs(t) = Refs(t)
    BY <1>1 DEF Organized!Tables, Tables, Organized!Idle, Idle, Organized!Refs, Refs
  <1>3. \A t : Organized!NoRow(t) = NoRow(t)
    BY <1>2 DEF Organized!NoRow, NoRow
  <1>4. \A t, i, k : Organized!SeedRow(t, i, k) = SeedOf({"Organization"}, t, i, k)
    BY <1>1, <1>2 DEF Organized!SeedRow, SeedOf
  <1>. QED BY <1>2, <1>3, <1>4 DEF Organized!Init, Seeded

LEMMA WithLaboratorySeed == WithLaboratory!Init => Seeded({"Organization", "Department", "Laboratory"})
  <1>1. WithLaboratory!Schema = Schema
    BY DEF WithLaboratory!Schema, Schema, WithLaboratory!Organization, Organization,
        WithLaboratory!Department, Department, WithLaboratory!Laboratory, Laboratory,
        WithLaboratory!User, User, WithLaboratory!Course, Course,
        WithLaboratory!GpuNode, GpuNode, WithLaboratory!Reservation, Reservation,
        WithLaboratory!MaintenanceWindow, MaintenanceWindow, WithLaboratory!To, To
  <1>2. /\ WithLaboratory!Tables = Tables /\ WithLaboratory!Idle = Idle
        /\ \A t : WithLaboratory!Refs(t) = Refs(t)
    BY <1>1 DEF WithLaboratory!Tables, Tables, WithLaboratory!Idle, Idle, WithLaboratory!Refs, Refs
  <1>3. \A t : WithLaboratory!NoRow(t) = NoRow(t)
    BY <1>2 DEF WithLaboratory!NoRow, NoRow
  <1>4. \A t, i, k : WithLaboratory!SeedRow(t, i, k) = SeedOf({"Organization", "Department", "Laboratory"}, t, i, k)
    BY <1>1, <1>2 DEF WithLaboratory!SeedRow, SeedOf
  <1>. QED BY <1>2, <1>3, <1>4 DEF WithLaboratory!Init, Seeded

PartsInv ==
  /\ part \in DOMAIN OpsOf
  /\ Inv
  /\ part \in OneAtATime => SerialInv

LEMMA PartsInitInv == ASSUME ConstantsAssumption, PartsInit PROVE PartsInv
  <1>1. PICK seeds : Closed(seeds) /\ Seeded(seeds)
    <2>1. CASE Init
      BY <2>1, SeedClosed DEF Init, Seeded, SeedRow, SeedOf
    <2>2. CASE Organized!Init
      <3>1. Closed({"Organization"})
        BY SchemaRows, RefsOf DEF Closed, AllTables
      <3>. QED BY <2>2, <3>1, OrganizedSeed
    <2>3. CASE WithLaboratory!Init
      <3>1. Closed({"Organization", "Department", "Laboratory"})
        BY SchemaRows, RefsOf, TargetOf DEF Closed, AllTables
      <3>. QED BY <2>3, <3>1, WithLaboratorySeed
    <2>. QED BY <2>1, <2>2, <2>3 DEF PartsInit
  <1>2. part \in DOMAIN OpsOf
    BY DEF PartsInit, OpsOf
  <1>. QED BY <1>1, <1>2, SeededInv, SerialSeeded DEF PartsInv

LEMMA PartsStep ==
  ASSUME ConstantsAssumption, Ops = EveryOp, PartsInv, PartsNext
  PROVE  part' = part /\ \E q \in Requests : Moves(q) /\ (part \in OneAtATime => (req[q] = Idle => Alone))
  <1>1. PICK q \in Requests : PartStart(q) \/ Step(q)
    BY DEF PartsNext
  <1>2. part' = part /\ OpsOf[part] \subseteq Ops
    BY DEF PartsNext, PartsInv, EveryOp
  <1>3. PartStart(q) => Moves(q) /\ (part \in OneAtATime => Alone)
    BY <1>2 DEF PartStart, Moves, Alone
  <1>4. Step(q) => req[q].pc # "idle"
    BY DEF Step, ReadSelf, ReadParent, ReadFaculty, ReadKey, Insert, Update, Delete, Audit, Respond
  <1>5. Idle.pc = "idle"
    BY DEF Idle
  <1>. QED BY <1>1, <1>2, <1>3, <1>4, <1>5 DEF Moves

LEMMA PartsInvCorrect == ASSUME Ops = EveryOp PROVE PartsSpec => []PartsInv
  <1>1. PartsInit => PartsInv
    BY PartsInitInv, ConstantsAssumption
  <1>2. PartsInv /\ [PartsNext]_<<vars, part>> => PartsInv'
    <2>1. ASSUME PartsInv, PartsNext PROVE PartsInv'
      BY <2>1, PartsStep, MovesInv, SerialMoves, ConstantsAssumption DEF PartsInv
    <2>2. ASSUME PartsInv, UNCHANGED <<vars, part>> PROVE PartsInv'
      <3>1. UNCHANGED vars /\ part' = part
        BY <2>2
      <3>. QED BY <2>2, <3>1, StutterInv, SerialStutter DEF PartsInv
    <2>. QED BY <2>1, <2>2
  <1>. QED BY <1>1, <1>2, PTL DEF PartsSpec

\* In the parts where requests do not overlap, none is answered 500.
THEOREM NoServerErrorSeriallyCorrect == ASSUME Ops = EveryOp PROVE PartsSpec => []NoServerErrorSerially
  <1>1. PartsInv => NoServerErrorSerially
    BY SerialAnswers DEF PartsInv, NoServerErrorSerially
  <1>. QED BY <1>1, PartsInvCorrect, PTL
=============================================================================
