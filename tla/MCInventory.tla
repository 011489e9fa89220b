---------------------------- MODULE MCInventory ----------------------------
(* Small instances of Inventory for TLC.  Requests overlap in "structure",   *)
(* "nodes" and "courses", and come one at a time in "tree" and "services";   *)
(* each part has its handlers and the tables that hold a row from the start. *)
EXTENDS Inventory, TLC

VARIABLE part

Structure == {"createDepartment", "updateDepartment", "deleteDepartment",
              "createLaboratory", "updateLaboratory", "deleteLaboratory"}
OpsOf ==
  [structure |-> Structure,
   nodes |-> {"createGpuNode", "deleteGpuNode", "createReservation", "createLaboratory", "deleteLaboratory"},
   courses |-> {"createCourse", "updateCourse", "deleteCourse", "createReservation", "assignUserRole"},
   tree |-> Structure \cup {"createOrganization", "updateOrganization"},
   services |-> {"createCourse", "updateCourse", "deleteCourse", "createUser", "updateUserProfile",
                 "assignUserRole", "createGpuNode", "updateGpuNode", "changeGpuNodeStatus",
                 "updateGpuNodeHeartbeat", "deleteGpuNode", "createReservation", "planMaintenance"}]
EveryOp == UNION {OpsOf[p] : p \in DOMAIN OpsOf}
OneAtATime == {"tree", "services"}
TwoKeys == {"structure", "tree"}

Organized == INSTANCE Inventory WITH SeedTables <- {"Organization"}
WithLaboratory == INSTANCE Inventory WITH SeedTables <- {"Organization", "Department", "Laboratory"}

\* The keys that rows and requests have.
KeysInUse ==
  {db[t][i].key : t \in Tables, i \in Ids} \cup
  {req[q].input.key : q \in {p \in Requests : req[p] # Idle}}

Within == part \notin TwoKeys => Cardinality(KeysInUse \ {None}) = 1

PartsInit ==
  \/ part \in {"structure", "tree"} /\ Organized!Init
  \/ part \in {"nodes", "courses"} /\ Init
  \/ part = "services" /\ WithLaboratory!Init

PartStart(q) ==
  /\ req[q] = Idle
  /\ part \in OneAtATime => \A p \in Requests : req[p] = Idle
  /\ \E op \in OpsOf[part] : \E i \in Ids, row \in Inputs[op] : Receive(q, op, i, row)

PartsNext ==
  /\ \E q \in Requests : PartStart(q) \/ Step(q)
  /\ UNCHANGED part
  /\ Within'

PartsSpec == PartsInit /\ [][PartsNext]_<<vars, part>>

Interchangeable == Permutations(Ids) \cup Permutations(Keys) \cup Permutations(Requests)

-----------------------------------------------------------------------------
\* When requests do not overlap, none is answered 500.
NoServerErrorSerially == part \in OneAtATime => NoServerError
=============================================================================
