-------------------------- MODULE FacultyBulkProofs --------------------------
(***************************************************************************)
(* Proofs about FacultyBulk, for any reservations, departments, lists and  *)
(* number of requests in flight, any number of failing audit rows and any  *)
(* number of crashes; then about the dashboard of ReservationViews, about  *)
(* Calendar, about Analytics, for any tables and whatever goes on while a  *)
(* request is answered, and about the other views of ReservationViews.     *)
(***************************************************************************)
EXTENDS MCReports, FiniteSetTheorems, WellFoundedInduction, SequenceTheorems, TLAPS

\* A list that the schema lets through is a sequence of reservations.
LEMMA BatchListsAreSequences ==
  ASSUME NEW ids \in BatchLists \cup {<<>>}
  PROVE  /\ ids \in Seq(Rids)
         /\ Len(ids) \in Nat
         /\ DOMAIN ids = 1..Len(ids)
         /\ \A i \in 1..Len(ids) : ids[i] \in Rids
  <1>1. CASE ids = <<>>
    BY <1>1
  <1>2. CASE ids \in BatchLists
    <2>1. PICK n \in 1..MaxBatch : ids \in [1..n -> Rids]
      BY <1>2 DEF BatchLists
    <2>2. ids \in Seq(Rids) /\ Len(ids) = n
      BY <2>1, ConstantsAssumption DEF ConstantsAssumption
    <2>. QED BY <2>1, <2>2
  <1>. QED BY <1>1, <1>2

-----------------------------------------------------------------------------
(* Type correctness *)

\* The parts of TypeOK that speak of one bulk request.
BatchOK(b) ==
  batch[b].pc = "running" =>
    /\ batch[b].at \in 1..Len(batch[b].ids) + 1
    /\ batch[b].checked => batch[b].at \in DOMAIN batch[b].ids
    /\ batch[b].to \in Decisions
    /\ batch[b].dept \in Depts

\* A running request that has checked a row looks at a reservation.
LEMMA RowIsReservation ==
  ASSUME TypeOK, NEW b \in Batches, Running(b), batch[b].at \in DOMAIN batch[b].ids
  PROVE  Row(b) \in Rids
  <1>1. batch[b].ids \in BatchLists \cup {<<>>}
    BY DEF TypeOK, Batch
  <1>. QED BY <1>1, BatchListsAreSequences DEF Row

\* A transaction that ends leaves the other fields of its request alone.
LEMMA FinishType ==
  ASSUME TypeOK, NEW b \in Batches, NEW answer \in {"ok", "refused"}, Finish(b, answer)
  PROVE  /\ batch' \in [Batches -> Batch]
         /\ lock' \in [Rids -> Batches \cup {None}]
         /\ \A c \in Batches : batch'[c].pc = "running" => batch'[c] = batch[c]
  <1>1. batch' = [batch EXCEPT ![b] = [IdleBatch EXCEPT !.pc = answer]]
    BY DEF Finish
  <1>2. [IdleBatch EXCEPT !.pc = answer] \in Batch
    BY DEF IdleBatch, Batch
  <1>3. batch' \in [Batches -> Batch]
    BY <1>1, <1>2 DEF TypeOK
  <1>4. lock' \in [Rids -> Batches \cup {None}]
    BY DEF TypeOK, Finish, LocksWithout
  <1>5. \A c \in Batches : batch'[c].pc = "running" => batch'[c] = batch[c]
    BY <1>1, <1>2 DEF TypeOK, Batch, IdleBatch
  <1>. QED BY <1>3, <1>4, <1>5

LEMMA InitType == ASSUME ConstantsAssumption, Init PROVE TypeOK
  <1>1. IdleBatch \in Batch
    BY DEF IdleBatch, Batch
  <1>2. IdleSingle \in Single
    BY DEF IdleSingle, Single
  <1>. QED
    BY <1>1, <1>2 DEF Init, TypeOK, Statuses, IdleBatch, IdleSingle

LEMMA StartType ==
  ASSUME ConstantsAssumption, TypeOK,
         NEW b \in Batches, NEW ids \in BatchLists, NEW to \in Decisions, NEW dept \in Depts,
         StartBatch(b, ids, to, dept)
  PROVE  TypeOK'
  <1>. DEFINE new == [IdleBatch EXCEPT !.pc = "running", !.ids = ids, !.to = to, !.dept = dept]
  <1>1. new \in Batch
    BY DEF IdleBatch, Batch, BatchLists
  <1>2. batch' = [batch EXCEPT ![b] = new]
    BY DEF StartBatch
  <1>3. batch' \in [Batches -> Batch]
    BY <1>1, <1>2 DEF TypeOK
  <1>4. ASSUME NEW c \in Batches PROVE BatchOK(c)'
    <2>1. CASE c = b
      <3>1. batch'[c] = new
        BY <1>2, <2>1 DEF TypeOK
      <3>2. 1 \in 1..Len(ids) + 1
        BY BatchListsAreSequences
      <3>. QED BY <3>1, <3>2 DEF BatchOK, IdleBatch
    <2>2. CASE c # b
      BY <1>2, <2>2 DEF TypeOK, BatchOK
    <2>. QED BY <2>1, <2>2
  <1>. QED BY <1>3, <1>4 DEF TypeOK, StartBatch, BatchOK

LEMMA CheckType ==
  ASSUME TypeOK, NEW b \in Batches, CheckRow(b) PROVE TypeOK'
  <1>1. [batch[b] EXCEPT !.checked = TRUE] \in Batch
    BY DEF TypeOK, Batch
  <1>2. batch' = [batch EXCEPT ![b] = [batch[b] EXCEPT !.checked = TRUE]]
    BY DEF TypeOK, CheckRow
  <1>3. batch' \in [Batches -> Batch]
    BY <1>1, <1>2 DEF TypeOK
  <1>4. ASSUME NEW c \in Batches PROVE BatchOK(c)'
    BY <1>1, <1>2 DEF TypeOK, BatchOK, CheckRow, Running, Batch
  <1>. QED BY <1>3, <1>4 DEF TypeOK, CheckRow, BatchOK

LEMMA UpdateType ==
  ASSUME TypeOK, NEW b \in Batches, UpdateRow(b) PROVE TypeOK'
  <1>1. batch[b].ids \in BatchLists \cup {<<>>} /\ batch[b].at \in DOMAIN batch[b].ids
    BY DEF TypeOK, UpdateRow, Running, Batch
  <1>2. Row(b) \in Rids
    BY <1>1, RowIsReservation DEF UpdateRow
  <1>3. PICK fails \in BOOLEAN :
          /\ batch' = [batch EXCEPT ![b].at = batch[b].at + 1,
                                    ![b].checked = FALSE, ![b].broken = fails]
          /\ auditFailures' = IF fails THEN auditFailures + 1 ELSE auditFailures
    BY DEF UpdateRow
  <1>4. batch[b].at \in 1..Len(batch[b].ids) /\ batch[b].at + 1 \in 1..Len(batch[b].ids) + 1
    BY <1>1, BatchListsAreSequences
  <1>. DEFINE new == [batch[b] EXCEPT !.at = batch[b].at + 1,
                                      !.checked = FALSE, !.broken = fails]
  <1>5. batch' \in [Batches -> Batch] /\ auditFailures' \in Nat
    <2>1. new \in Batch
      <3>1. batch[b] \in Batch /\ batch[b].at + 1 \in Nat
        BY DEF TypeOK, Batch
      <3>. QED BY <3>1 DEF Batch
    <2>2. batch' = [batch EXCEPT ![b] = new]
      BY <1>3 DEF TypeOK
    <2>3. auditFailures' \in Nat
      BY <1>3 DEF TypeOK
    <2>. QED BY <2>1, <2>2, <2>3 DEF TypeOK
  <1>6. ASSUME NEW c \in Batches PROVE BatchOK(c)'
    <2>1. CASE c = b
      BY <1>3, <1>4, <2>1 DEF TypeOK, BatchOK, UpdateRow, Running
    <2>2. CASE c # b
      BY <1>3, <2>2 DEF TypeOK, BatchOK
    <2>. QED BY <2>1, <2>2
  <1>7. lock' \in [Rids -> Batches \cup {None}]
    BY <1>2 DEF TypeOK, UpdateRow
  <1>. QED BY <1>5, <1>6, <1>7 DEF TypeOK, BatchOK, UpdateRow

LEMMA CommitType ==
  ASSUME TypeOK, NEW b \in Batches, Commit(b) PROVE TypeOK'
  <1>1. /\ batch' \in [Batches -> Batch]
        /\ lock' \in [Rids -> Batches \cup {None}]
        /\ \A c \in Batches : batch'[c].pc = "running" => batch'[c] = batch[c]
    BY FinishType DEF Commit
  <1>2. batch[b].to \in Decisions /\ Listed(b) \subseteq Rids
    <2>1. batch[b].ids \in BatchLists \cup {<<>>} /\ batch[b].to \in Decisions
      BY DEF TypeOK, Commit, Running, Batch
    <2>. QED BY <2>1, BatchListsAreSequences DEF Listed
  <1>3. status' \in [Rids -> Statuses \cup {"NONE"}]
    BY <1>2 DEF TypeOK, Commit, Decisions, Statuses
  <1>. QED BY <1>1, <1>3 DEF TypeOK, Commit

LEMMA RollbackType ==
  ASSUME TypeOK, NEW b \in Batches, Rollback(b) PROVE TypeOK'
  <1>1. /\ batch' \in [Batches -> Batch]
        /\ lock' \in [Rids -> Batches \cup {None}]
        /\ \A c \in Batches : batch'[c].pc = "running" => batch'[c] = batch[c]
    BY FinishType DEF Rollback
  <1>. QED BY <1>1 DEF TypeOK, Rollback

LEMMA SingleType ==
  ASSUME ConstantsAssumption, TypeOK, NEW d \in Singles,
         \/ \E r \in Rids, to \in Decisions \cup {"CANCELLED"} : ReadSingle(d, r, to)
         \/ WriteSingle(d)
  PROVE  TypeOK'
  <1>1. CASE \E r \in Rids, to \in Decisions \cup {"CANCELLED"} : ReadSingle(d, r, to)
    <2>1. PICK r \in Rids, to \in Decisions \cup {"CANCELLED"} : ReadSingle(d, r, to)
      BY <1>1
    <2>2. [rid |-> r, to |-> to] \in Single /\ to # "NONE" /\ r # None
      BY DEF Single, ConstantsAssumption, Decisions
    <2>. QED BY <2>1, <2>2 DEF TypeOK, ReadSingle
  <1>2. CASE WriteSingle(d)
    <2>1. single[d].rid \in Rids /\ single[d].to \in Statuses
      BY <1>2 DEF TypeOK, WriteSingle, Single, Decisions, Statuses
    <2>2. IdleSingle \in Single
      BY DEF IdleSingle, Single
    <2>. QED BY <1>2, <2>1, <2>2 DEF TypeOK, WriteSingle, IdleSingle
  <1>. QED BY <1>1, <1>2

\* Every step keeps the types.
LEMMA NextType ==
  ASSUME ConstantsAssumption, TypeOK, [Next]_vars PROVE TypeOK'
  <1>1. CASE \E b \in Batches, ids \in BatchLists, to \in Decisions, dept \in Depts :
                StartBatch(b, ids, to, dept)
    BY <1>1, StartType
  <1>2. CASE \E b \in Batches : BatchStep(b) \/ Crash(b)
    <2>1. PICK b \in Batches : BatchStep(b) \/ Crash(b)
      BY <1>2
    <2>2. CASE CheckRow(b)
      BY <2>2, CheckType
    <2>3. CASE UpdateRow(b)
      BY <2>3, UpdateType
    <2>4. CASE Commit(b)
      BY <2>4, CommitType
    <2>5. CASE Rollback(b)
      BY <2>5, RollbackType
    <2>. QED BY <2>1, <2>2, <2>3, <2>4, <2>5 DEF BatchStep, Refuse, DeadlockVictim, Crash
  <1>3. CASE \E d \in Singles :
                \/ \E r \in Rids, to \in Decisions \cup {"CANCELLED"} : ReadSingle(d, r, to)
                \/ WriteSingle(d)
    BY <1>3, SingleType
  <1>4. CASE UNCHANGED vars
    BY <1>4 DEF vars, TypeOK
  <1>. QED BY <1>1, <1>2, <1>3, <1>4 DEF Next

\* The table and every request in flight keep their types.
THEOREM TypeCorrect == Spec => []TypeOK
  <1>1. Init => TypeOK
    BY InitType, ConstantsAssumption
  <1>2. TypeOK /\ [Next]_vars => TypeOK'
    BY NextType, ConstantsAssumption
  <1>. QED BY <1>1, <1>2, PTL DEF Spec

-----------------------------------------------------------------------------
(* Safety *)

\* What a running request still knows: it holds the lock of every row it has
\* passed, and those rows, and one it has just checked, are its department's.
Knows(b) ==
  Running(b) =>
    /\ \A i \in DOMAIN batch[b].ids : i < batch[b].at =>
         lock[batch[b].ids[i]] = b /\ DeptOf[batch[b].ids[i]] = batch[b].dept
    /\ batch[b].checked => DeptOf[Row(b)] = batch[b].dept

\* The inductive invariant: types, what requests know, and that only they hold locks.
Inv ==
  /\ TypeOK
  /\ \A b \in Batches : Knows(b)
  /\ LocksAreLive

\* The positions of a list are numbers, and it lists reservations.
LEMMA Positions ==
  ASSUME TypeOK, NEW b \in Batches
  PROVE  \A i \in DOMAIN batch[b].ids : i \in 1..Len(batch[b].ids) /\ batch[b].ids[i] \in Rids
  <1>1. batch[b].ids \in BatchLists \cup {<<>>}
    BY DEF TypeOK, Batch
  <1>. QED BY <1>1, BatchListsAreSequences

\* A step that leaves a request and its locks alone keeps what it knows.
LEMMA Frame ==
  ASSUME NEW b \in Batches, Inv, batch'[b] = batch[b], \A r \in Rids : lock[r] = b => lock'[r] = b
  PROVE  Knows(b)'
  <1>1. \A i \in DOMAIN batch[b].ids : batch[b].ids[i] \in Rids
    BY Positions DEF Inv
  <1>. QED BY <1>1 DEF Inv, Knows, Row, Running

LEMMA InitInv == ASSUME ConstantsAssumption, Init PROVE Inv
  <1>1. TypeOK
    BY InitType
  <1>2. \A b \in Batches : Knows(b)
    BY DEF Init, Knows, Running, IdleBatch
  <1>3. LocksAreLive
    BY DEF Init, LocksAreLive
  <1>. QED BY <1>1, <1>2, <1>3 DEF Inv

\* Starting: no request that was not running held a lock.
LEMMA StartInv ==
  ASSUME ConstantsAssumption, Inv,
         NEW b \in Batches, NEW ids \in BatchLists, NEW to \in Decisions, NEW dept \in Depts,
         StartBatch(b, ids, to, dept)
  PROVE  (\A c \in Batches : Knows(c)') /\ LocksAreLive'
  <1>. DEFINE new == [IdleBatch EXCEPT !.pc = "running", !.ids = ids, !.to = to, !.dept = dept]
  <1>1. batch' = [batch EXCEPT ![b] = new] /\ lock' = lock
    BY DEF StartBatch
  <1>2. ASSUME NEW c \in Batches PROVE Knows(c)'
    <2>1. CASE c = b
      <3>1. batch'[c] = new
        BY <1>1, <2>1 DEF Inv, TypeOK
      <3>2. \A i \in DOMAIN ids : ~(i < 1)
        BY BatchListsAreSequences
      <3>. QED BY <3>1, <3>2 DEF Knows, IdleBatch, Running
    <2>2. CASE c # b
      <3>1. batch'[c] = batch[c]
        BY <1>1, <2>2 DEF Inv, TypeOK
      <3>. QED BY <1>1, <3>1, Frame
    <2>. QED BY <2>1, <2>2
  <1>3. \A r \in Rids : lock[r] # None => lock[r] \in Batches /\ lock[r] # b
    BY DEF Inv, TypeOK, LocksAreLive, StartBatch
  <1>4. LocksAreLive'
    BY <1>1, <1>3 DEF Inv, TypeOK, LocksAreLive, StartBatch, Running
  <1>. QED BY <1>2, <1>4

LEMMA CheckInv ==
  ASSUME Inv, NEW b \in Batches, CheckRow(b)
  PROVE  (\A c \in Batches : Knows(c)') /\ LocksAreLive'
  <1>1. batch' = [batch EXCEPT ![b] = [batch[b] EXCEPT !.checked = TRUE]] /\ lock' = lock
    BY DEF Inv, TypeOK, CheckRow
  <1>2. batch[b] \in Batch /\ DeptOf[Row(b)] = batch[b].dept
    BY DEF Inv, TypeOK, CheckRow, Acceptable
  <1>3. /\ batch'[b].pc = batch[b].pc /\ batch'[b].ids = batch[b].ids
        /\ batch'[b].at = batch[b].at /\ batch'[b].dept = batch[b].dept
        /\ Row(b)' = Row(b)
    BY <1>1, <1>2 DEF Inv, TypeOK, Batch, Row
  <1>4. ASSUME NEW c \in Batches PROVE Knows(c)'
    <2>1. CASE c = b
      BY <1>1, <1>2, <1>3, <2>1 DEF Inv, Knows, Running
    <2>2. CASE c # b
      BY <1>1, <2>2, Frame DEF Inv, TypeOK
    <2>. QED BY <2>1, <2>2
  <1>5. \A c \in Batches : /\ batch'[c].pc = batch[c].pc /\ batch'[c].ids = batch[c].ids
                           /\ batch'[c].at = batch[c].at
    BY <1>1, <1>3 DEF Inv, TypeOK
  <1>6. LocksAreLive'
    BY <1>5 DEF Inv, TypeOK, LocksAreLive, CheckRow, Running
  <1>. QED BY <1>4, <1>6

LEMMA UpdateInv ==
  ASSUME ConstantsAssumption, Inv, NEW b \in Batches, UpdateRow(b)
  PROVE  (\A c \in Batches : Knows(c)') /\ LocksAreLive'
  <1>. DEFINE at == batch[b].at
  <1>1. /\ at \in DOMAIN batch[b].ids /\ at \in Nat
        /\ \A i \in DOMAIN batch[b].ids : i \in Nat
    BY BatchListsAreSequences DEF Inv, TypeOK, UpdateRow, Running, Batch
  <1>2. /\ batch'[b].pc = batch[b].pc /\ batch'[b].ids = batch[b].ids
        /\ batch'[b].at = batch[b].at + 1 /\ batch'[b].dept = batch[b].dept
        /\ batch'[b].checked = FALSE
        /\ \A c \in Batches \ {b} : batch'[c] = batch[c]
    BY DEF Inv, TypeOK, UpdateRow, Batch
  <1>3. lock' = [lock EXCEPT ![Row(b)] = b] /\ lock[Row(b)] = None /\ lock \in [Rids -> Batches \cup {None}]
    BY DEF UpdateRow, Inv, TypeOK
  <1>4. ASSUME NEW c \in Batches PROVE Knows(c)'
    <2>1. CASE c = b
      <3>1. \A i \in DOMAIN batch[b].ids : i < at + 1 => DeptOf[batch[b].ids[i]] = batch[b].dept
        BY <1>1 DEF Inv, Knows, UpdateRow, Row
      <3>2. \A i \in DOMAIN batch[b].ids : i < at + 1 => lock'[batch[b].ids[i]] = b
        <4>1. \A i \in DOMAIN batch[b].ids : batch[b].ids[i] \in Rids
          BY Positions DEF Inv
        <4>2. \A i \in DOMAIN batch[b].ids : i < at => lock[batch[b].ids[i]] = b
          BY DEF Inv, Knows, UpdateRow
        <4>. QED BY <1>1, <1>3, <4>1, <4>2 DEF Row
      <3>. QED BY <1>2, <2>1, <3>1, <3>2 DEF Knows
    <2>2. CASE c # b
      <3>1. \A r \in Rids : lock[r] = c => lock'[r] = c
        BY <1>3 DEF ConstantsAssumption
      <3>. QED BY <1>2, <2>2, <3>1, Frame
    <2>. QED BY <2>1, <2>2
  <1>5. ASSUME NEW r \in Rids, lock'[r] # None
        PROVE  /\ batch'[lock'[r]].pc = "running"
               /\ \E i \in DOMAIN batch'[lock'[r]].ids :
                     i < batch'[lock'[r]].at /\ batch'[lock'[r]].ids[i] = r
    <2>1. CASE r = Row(b)
      <3>1. lock'[r] = b
        BY <1>3, <2>1 DEF Inv, TypeOK
      <3>2. batch'[b].pc = "running"
        BY <1>2 DEF UpdateRow, Running
      <3>3. at < batch'[b].at /\ batch'[b].ids[at] = r
        BY <1>1, <1>2, <2>1 DEF Row
      <3>. QED BY <1>1, <1>2, <3>1, <3>2, <3>3
    <2>2. CASE r # Row(b)
      <3>1. lock'[r] = lock[r] /\ lock[r] \in Batches
        BY <1>3, <1>5, <2>2 DEF Inv, TypeOK
      <3>2. batch'[lock[r]].pc = "running"
        BY <1>2, <1>5, <3>1 DEF Inv, LocksAreLive, Running
      <3>3. PICK i \in DOMAIN batch[lock[r]].ids :
              i < batch[lock[r]].at /\ batch[lock[r]].ids[i] = r
        BY <1>5, <3>1 DEF Inv, LocksAreLive
      <3>4. /\ batch'[lock[r]].ids = batch[lock[r]].ids
            /\ i < batch'[lock[r]].at
        BY <1>1, <1>2, <3>1, <3>3
      <3>. QED BY <3>1, <3>2, <3>3, <3>4
    <2>. QED BY <2>1, <2>2
  <1>6. LocksAreLive'
    BY <1>5 DEF LocksAreLive, Running
  <1>. QED BY <1>4, <1>6

\* A transaction that ends gives up its locks, and only those.
LEMMA FinishLocks ==
  ASSUME Inv, NEW b \in Batches, NEW answer \in {"ok", "refused"}, Finish(b, answer)
  PROVE  LocksAreLive'
  <1>1. ASSUME NEW r \in Rids, lock'[r] # None
        PROVE  lock'[r] = lock[r] /\ lock[r] \in Batches \ {b} /\ lock[r] # None
    BY <1>1 DEF Inv, TypeOK, Finish, LocksWithout
  <1>2. \A c \in Batches \ {b} : batch'[c] = batch[c]
    BY DEF Inv, TypeOK, Finish
  <1>. QED BY <1>1, <1>2 DEF Inv, LocksAreLive, Running

LEMMA FinishOutcome ==
  ASSUME Inv, NEW b \in Batches, NEW answer \in {"ok", "refused"}, Finish(b, answer)
  PROVE  /\ batch'[b].pc = answer
         /\ \A c \in Batches \ {b} : batch'[c] = batch[c]
  BY DEF Inv, TypeOK, Finish, Batch, IdleBatch

\* A request that ends knows nothing any more, and the others keep their locks.
LEMMA FinishInv ==
  ASSUME ConstantsAssumption, Inv, NEW b \in Batches, NEW answer \in {"ok", "refused"}, Finish(b, answer)
  PROVE  (\A c \in Batches : Knows(c)') /\ LocksAreLive'
  <1>1. ASSUME NEW c \in Batches PROVE Knows(c)'
    <2>1. CASE c = b
      BY <2>1, FinishOutcome DEF Knows, Running
    <2>2. CASE c # b
      <3>1. \A r \in Rids : lock[r] = c => lock'[r] = c
        BY <2>2 DEF Finish, LocksWithout, Inv, TypeOK
      <3>. QED BY <2>2, <3>1, FinishOutcome, Frame
    <2>. QED BY <2>1, <2>2
  <1>. QED BY <1>1, FinishLocks

\* Every step keeps the invariant.
LEMMA NextInv ==
  ASSUME ConstantsAssumption, Inv, [Next]_vars PROVE Inv'
  <1>1. TypeOK'
    BY NextType DEF Inv
  <1>2. (\A c \in Batches : Knows(c)') /\ LocksAreLive'
    <2>1. CASE \E b \in Batches, ids \in BatchLists, to \in Decisions, dept \in Depts :
                  StartBatch(b, ids, to, dept)
      BY <2>1, StartInv
    <2>2. CASE \E b \in Batches : BatchStep(b) \/ Crash(b)
      <3>1. PICK b \in Batches : BatchStep(b) \/ Crash(b)
        BY <2>2
      <3>2. CASE CheckRow(b)
        BY <3>2, CheckInv
      <3>3. CASE UpdateRow(b)
        BY <3>3, UpdateInv
      <3>4. CASE Commit(b) \/ Rollback(b)
        BY <3>4, FinishInv DEF Commit, Rollback
      <3>. QED BY <3>1, <3>2, <3>3, <3>4 DEF BatchStep, Refuse, DeadlockVictim, Crash
    <2>3. CASE UNCHANGED <<lock, batch>>
      <3>1. \A c \in Batches : Knows(c)'
        BY <2>3, Frame
      <3>2. LocksAreLive'
        BY <2>3 DEF Inv, LocksAreLive, Running
      <3>. QED BY <3>1, <3>2
    <2>. QED BY <2>1, <2>2, <2>3 DEF Next, vars, ReadSingle, WriteSingle
  <1>. QED BY <1>1, <1>2 DEF Inv

\* The inductive invariant holds throughout.
THEOREM InvCorrect == Spec => []Inv
  <1>1. Init => Inv
    BY InitInv, ConstantsAssumption
  <1>2. Inv /\ [Next]_vars => Inv'
    BY NextInv, ConstantsAssumption
  <1>. QED BY <1>1, <1>2, PTL DEF Spec

\* A request that commits has passed its whole list.
LEMMA CommitHoldsList ==
  ASSUME Inv, NEW b \in Batches, Commit(b)
  PROVE  \A r \in Rids : /\ lock[r] = b <=> r \in Listed(b)
                         /\ r \in Listed(b) => DeptOf[r] = batch[b].dept
  <1>1. batch[b].ids \in BatchLists \cup {<<>>} /\ Running(b) /\ batch[b].at = Len(batch[b].ids) + 1
    BY DEF Inv, TypeOK, Commit, Batch
  <1>2. \A i \in DOMAIN batch[b].ids : i \in Nat /\ i < batch[b].at
    BY <1>1, BatchListsAreSequences
  <1>3. \A i \in DOMAIN batch[b].ids :
          lock[batch[b].ids[i]] = b /\ DeptOf[batch[b].ids[i]] = batch[b].dept
    BY <1>1, <1>2 DEF Inv, Knows
  <1>4. ASSUME NEW r \in Rids, lock[r] = b
        PROVE  r \in Listed(b)
    <2>1. CASE b # None
      BY <1>4, <2>1 DEF Inv, LocksAreLive, Listed
    <2>2. CASE b = None
      BY <2>2, ConstantsAssumption DEF ConstantsAssumption
    <2>. QED BY <2>1, <2>2
  <1>. QED BY <1>3, <1>4 DEF Listed

\* Only its commit lets a request change rows: all of its list, if no audit row
\* has failed.
LEMMA StepIsWhollyOrNot ==
  ASSUME Inv, [Next]_vars, NEW b \in Batches, Moves(b)
  PROVE  WhollyOrNot(b) /\ \A r \in Changed : DeptOf[r] = batch[b].dept
  <1>1. CASE \E c \in Batches, ids \in BatchLists, to \in Decisions, dept \in Depts :
                StartBatch(c, ids, to, dept)
    <2>1. PICK c \in Batches, ids \in BatchLists, to \in Decisions, dept \in Depts :
             StartBatch(c, ids, to, dept)
      BY <1>1
    <2>2. b = c
      BY <2>1 DEF StartBatch, Moves, Inv, TypeOK
    <2>. QED BY <2>1, <2>2 DEF StartBatch, WhollyOrNot, Changed
  <1>2. CASE \E c \in Batches : CheckRow(c) \/ UpdateRow(c)
    <2>1. PICK c \in Batches : CheckRow(c) \/ UpdateRow(c)
      BY <1>2
    <2>2. CASE CheckRow(c)
      BY <2>2 DEF CheckRow, WhollyOrNot, Changed, Running, Inv, TypeOK, Batch
    <2>3. CASE UpdateRow(c)
      <3>1. \E fails \in BOOLEAN :
              batch' = [batch EXCEPT ![c].at = batch[c].at + 1, ![c].checked = FALSE, ![c].broken = fails]
        BY <2>3 DEF UpdateRow
      <3>2. batch[b] \in Batch /\ batch[c] \in Batch
        BY DEF Inv, TypeOK
      <3>3. batch'[b].pc = batch[b].pc
        BY <3>1, <3>2 DEF Inv, TypeOK, Batch
      <3>. QED BY <2>3, <3>3 DEF UpdateRow, WhollyOrNot, Changed, Running
    <2>. QED BY <2>1, <2>2, <2>3
  <1>3. CASE \E c \in Batches : Rollback(c)
    <2>1. PICK c \in Batches : Rollback(c)
      BY <1>3
    <2>2. b = c /\ batch'[b].pc = "refused" /\ status' = status
      BY <2>1, FinishOutcome DEF Rollback, Moves
    <2>. QED BY <2>2 DEF WhollyOrNot, Changed
  <1>4. CASE \E c \in Batches : Commit(c)
    <2>1. PICK c \in Batches : Commit(c)
      BY <1>4
    <2>2. b = c /\ batch'[b].pc = "ok" /\ Running(b)
      BY <2>1, FinishOutcome DEF Commit, Moves
    <2>3. \A r \in Rids : /\ lock[r] = b <=> r \in Listed(b)
                          /\ r \in Listed(b) => DeptOf[r] = batch[b].dept
      BY <2>1, <2>2, CommitHoldsList
    <2>4. \A r \in Rids : status'[r] = IF lock[r] = b /\ ~batch[b].broken THEN batch[b].to ELSE status[r]
      BY <2>1, <2>2 DEF Commit
    <2>5. Listed(b) \subseteq Rids
      BY Positions DEF Listed, Inv
    <2>. QED BY <2>2, <2>3, <2>4, <2>5 DEF WhollyOrNot, Changed
  <1>5. CASE UNCHANGED batch
    BY <1>5 DEF Moves
  <1>. QED
    BY <1>1, <1>2, <1>3, <1>4, <1>5
    DEF Next, BatchStep, Refuse, DeadlockVictim, Crash, ReadSingle, WriteSingle, vars

\* A bulk request is applied wholly or not at all.
THEOREM AllOrNothingCorrect == Spec => AllOrNothing
  <1>1. Inv /\ [Next]_vars => [\A b \in Batches : Moves(b) => WhollyOrNot(b)]_vars
    BY StepIsWhollyOrNot
  <1>. QED BY <1>1, InvCorrect, PTL DEF Spec, AllOrNothing

\* A bulk request never reaches into another department.
THEOREM OwnDepartmentOnlyCorrect == Spec => OwnDepartmentOnly
  <1>1. Inv /\ [Next]_vars =>
          [\A b \in Batches : Moves(b) => \A r \in Changed : DeptOf[r] = batch[b].dept]_vars
    BY StepIsWhollyOrNot
  <1>. QED BY <1>1, InvCorrect, PTL DEF Spec, OwnDepartmentOnly

\* No lock outlives the transaction that took it.
THEOREM LocksAreLiveCorrect == Spec => []LocksAreLive
  <1>1. Inv => LocksAreLive
    BY DEF Inv
  <1>. QED BY <1>1, InvCorrect, PTL

-----------------------------------------------------------------------------
(* Requests that do not overlap *)

AllIdle == (\A b \in Batches : ~Running(b)) /\ \A d \in Singles : single[d] = IdleSingle

\* A step in which a request starts only when none is in flight.
SerialStep ==
  \/ \E b \in Batches :
       \/ \E ids \in BatchLists, to \in Decisions, dept \in Depts :
            AllIdle /\ StartBatch(b, ids, to, dept)
       \/ BatchStep(b)
       \/ Crash(b)
  \/ \E d \in Singles :
       \/ \E r \in Rids, to \in Decisions \cup {"CANCELLED"} : AllIdle /\ ReadSingle(d, r, to)
       \/ WriteSingle(d)

\* Whether the constant says so or the instance.
LEMMA StartsAlone ==
  /\ Serialized /\ Next => SerialStep
  /\ Serial!Next => SerialStep
  /\ SerialStep => Next
  <1>1. Serialized /\ Next => SerialStep
    BY DEF Next, SerialStep, AllIdle, StartBatch, ReadSingle, MayStart
  <1>2. ASSUME Serial!Next
        PROVE  SerialStep
    <2>1. ASSUME NEW b \in Batches, NEW ids \in BatchLists, NEW to \in Decisions, NEW dept \in Depts,
                 Serial!StartBatch(b, ids, to, dept)
          PROVE  AllIdle /\ StartBatch(b, ids, to, dept)
      BY <2>1 DEF Serial!StartBatch, StartBatch, Serial!MayStart, MayStart, AllIdle, Serial!Running,
                  Running, Serial!IdleSingle, IdleSingle, Serial!IdleBatch, IdleBatch
    <2>2. ASSUME NEW d \in Singles, NEW r \in Rids, NEW to \in Decisions \cup {"CANCELLED"},
                 Serial!ReadSingle(d, r, to)
          PROVE  AllIdle /\ ReadSingle(d, r, to)
      BY <2>2 DEF Serial!ReadSingle, ReadSingle, Serial!MayStart, MayStart, AllIdle, Serial!Running,
                  Running, Serial!IdleSingle, IdleSingle
    <2>3. ASSUME NEW d \in Singles, Serial!WriteSingle(d)
          PROVE  WriteSingle(d)
      BY <2>3 DEF Serial!WriteSingle, WriteSingle, Serial!IdleSingle, IdleSingle
    <2>4. ASSUME NEW b \in Batches, Serial!BatchStep(b) \/ Serial!Crash(b)
          PROVE  BatchStep(b) \/ Crash(b)
      <3>1. Serial!Deadlocked(b) = Deadlocked(b)
        BY DEF Serial!Deadlocked, Deadlocked, Serial!WaitsFor, WaitsFor, Serial!Running, Running,
               Serial!Row, Row
      <3>2. Serial!Rollback(b) = Rollback(b)
        BY DEF Serial!Rollback, Rollback, Serial!Finish, Finish, Serial!Running, Running,
               Serial!LocksWithout, LocksWithout, Serial!IdleBatch, IdleBatch
      <3>3. Serial!CheckRow(b) => CheckRow(b)
        BY DEF Serial!CheckRow, CheckRow, Serial!Running, Running, Serial!Row, Row, Serial!Acceptable,
               Acceptable
      <3>4. Serial!UpdateRow(b) => UpdateRow(b)
        BY DEF Serial!UpdateRow, UpdateRow, Serial!Running, Running, Serial!Row, Row
      <3>5. Serial!Commit(b) => Commit(b)
        BY DEF Serial!Commit, Commit, Serial!Finish, Finish, Serial!Running, Running,
               Serial!LocksWithout, LocksWithout, Serial!IdleBatch, IdleBatch
      <3>6. Serial!Refuse(b) => Refuse(b)
        BY <3>2 DEF Serial!Refuse, Refuse, Serial!Running, Running, Serial!Row, Row, Serial!Acceptable,
               Acceptable
      <3>7. Serial!DeadlockVictim(b) => DeadlockVictim(b)
        BY <3>1, <3>2 DEF Serial!DeadlockVictim, DeadlockVictim
      <3>8. Serial!Crash(b) => Crash(b)
        BY <3>2 DEF Serial!Crash, Crash
      <3>. QED BY <2>4, <3>3, <3>4, <3>5, <3>6, <3>7, <3>8 DEF Serial!BatchStep, BatchStep
    <2>5. Serial!BatchLists = BatchLists /\ Serial!Decisions = Decisions
      BY DEF Serial!BatchLists, BatchLists, Serial!Decisions, Decisions
    <2>. QED BY <1>2, <2>1, <2>2, <2>3, <2>4, <2>5 DEF Serial!Next, SerialStep
  <1>3. SerialStep => Next
    BY DEF Next, SerialStep
  <1>. QED BY <1>1, <1>2, <1>3

\* A bulk request runs alone, and every row that it has looked at still waits
\* for a decision: its own is not committed yet.
Alone(b) ==
  Running(b) =>
    /\ \A c \in Batches : Running(c) => c = b
    /\ \A d \in Singles : single[d] = IdleSingle
    /\ \A i \in DOMAIN batch[b].ids :
         i < batch[b].at \/ (batch[b].checked /\ i = batch[b].at) => status[batch[b].ids[i]] = "PENDING"

SerialInv == \A b \in Batches : Alone(b)

\* A request that ends, and one that only reads, leave the others alone.
LEMMA AloneKept ==
  ASSUME Inv, SerialInv, NEW b \in Batches,
         \A c \in Batches \ {b} : batch'[c] = batch[c],
         Running(b), UNCHANGED single,
         batch'[b].pc # "running" \/ Alone(b)'
  PROVE  SerialInv'
  <1>1. \A c \in Batches \ {b} : ~Running(c)
    BY DEF SerialInv, Alone
  <1>2. \A c \in Batches \ {b} : batch'[c].pc # "running"
    BY <1>1 DEF Running
  <1>. QED BY <1>1, <1>2 DEF SerialInv, Alone, Running

LEMMA SerialKept ==
  ASSUME Inv, SerialInv, SerialStep \/ UNCHANGED vars
  PROVE  SerialInv'
  <1>. USE DEF Inv
  <1>1. ASSUME NEW b \in Batches, NEW ids \in BatchLists, NEW to \in Decisions, NEW dept \in Depts,
               AllIdle, StartBatch(b, ids, to, dept)
        PROVE  SerialInv'
    <2>1. /\ \A c \in Batches \ {b} : batch'[c] = batch[c] /\ batch[c].pc # "running"
          /\ batch'[b].ids = ids /\ batch'[b].at = 1 /\ ~batch'[b].checked
          /\ \A d \in Singles : single'[d] = IdleSingle
      BY <1>1 DEF AllIdle, Running, StartBatch, TypeOK, IdleBatch
    <2>2. \A i \in DOMAIN ids : i \in Nat /\ ~(i < 1)
      BY BatchListsAreSequences
    <2>. QED BY <2>1, <2>2 DEF SerialInv, Alone, Running
  <1>2. ASSUME NEW b \in Batches, CheckRow(b)
        PROVE  SerialInv'
    <2>1. /\ batch'[b].ids = batch[b].ids /\ batch'[b].at = batch[b].at
          /\ \A c \in Batches \ {b} : batch'[c] = batch[c]
          /\ UNCHANGED <<single, status>> /\ Running(b) /\ Alone(b)
          /\ status[batch[b].ids[batch[b].at]] = "PENDING"
      BY <1>2 DEF CheckRow, Acceptable, Row, TypeOK, Batch, SerialInv
    <2>2. \A c \in Batches : Running(c)' => c = b
      BY <2>1 DEF Alone, Running
    <2>3. Alone(b)'
      BY <2>1, <2>2 DEF Alone
    <2>. QED BY <2>1, <2>3, AloneKept
  <1>3. ASSUME NEW b \in Batches, UpdateRow(b)
        PROVE  SerialInv'
    <2>1. /\ batch'[b].ids = batch[b].ids /\ batch'[b].at = batch[b].at + 1 /\ ~batch'[b].checked
          /\ \A c \in Batches \ {b} : batch'[c] = batch[c]
          /\ UNCHANGED <<single, status>> /\ Running(b) /\ Alone(b) /\ batch[b].checked
          /\ batch[b].at \in Nat
      BY <1>3 DEF UpdateRow, TypeOK, Batch, SerialInv
    <2>2. \A c \in Batches : Running(c)' => c = b
      BY <2>1 DEF Alone, Running
    <2>3. \A i \in DOMAIN batch[b].ids : i \in Nat /\ (i < batch[b].at + 1 => i < batch[b].at \/ i = batch[b].at)
      BY <2>1, BatchListsAreSequences DEF TypeOK, Batch
    <2>4. Alone(b)'
      BY <2>1, <2>2, <2>3 DEF Alone
    <2>. QED BY <2>1, <2>4, AloneKept
  <1>4. ASSUME NEW b \in Batches, Commit(b) \/ Rollback(b)
        PROVE  SerialInv'
    <2>1. /\ batch'[b].pc # "running" /\ \A c \in Batches \ {b} : batch'[c] = batch[c]
          /\ Running(b) /\ UNCHANGED single
      BY <1>4, FinishOutcome DEF Commit, Rollback
    <2>. QED BY <2>1, AloneKept
  <1>5. ASSUME NEW d \in Singles, NEW r \in Rids, NEW to \in Decisions \cup {"CANCELLED"},
               AllIdle, ReadSingle(d, r, to)
        PROVE  SerialInv'
    BY <1>5 DEF AllIdle, ReadSingle, SerialInv, Alone, Running
  <1>6. ASSUME NEW d \in Singles, WriteSingle(d)
        PROVE  SerialInv'
    <2>1. single[d] # IdleSingle /\ batch' = batch
      BY <1>6 DEF WriteSingle, IdleSingle
    <2>2. \A b \in Batches : ~Running(b)
      BY <2>1 DEF SerialInv, Alone
    <2>. QED BY <2>1, <2>2 DEF SerialInv, Alone, Running
  <1>7. CASE UNCHANGED vars
    BY <1>7 DEF vars, SerialInv, Alone, Running
  <1>. QED
    BY <1>1, <1>2, <1>3, <1>4, <1>5, <1>6, <1>7
    DEF SerialStep, BatchStep, Refuse, DeadlockVictim, Crash

\* What is committed was waiting for a decision, row by row.
LEMMA CommitsPending ==
  ASSUME Inv, SerialInv, SerialStep \/ UNCHANGED vars
  PROVE  AppliesToPendingOnly
  <1>. SUFFICES ASSUME NEW b \in Batches, Moves(b), Changed # {}
                PROVE  \A r \in Listed(b) : status[r] = "PENDING"
    BY DEF AppliesToPendingOnly
  <1>1. [Next]_vars
    BY StartsAlone
  <1>2. Running(b) /\ batch'[b].pc = "ok"
    BY <1>1, StepIsWhollyOrNot DEF WhollyOrNot
  <1>3. Commit(b)
    <2>1. ASSUME NEW c \in Batches, Commit(c)
          PROVE  c = b
      BY <1>2, <2>1 DEF Commit, SerialInv, Alone
    <2>2. ASSUME NEW c \in Batches, Rollback(c) \/ CheckRow(c) \/ UpdateRow(c)
          PROVE  FALSE
      BY <2>2 DEF Rollback, CheckRow, UpdateRow, Changed
    <2>3. ASSUME NEW c \in Batches, NEW ids \in BatchLists, NEW to \in Decisions, NEW dept \in Depts,
                 StartBatch(c, ids, to, dept)
          PROVE  FALSE
      BY <2>3 DEF StartBatch, Changed
    <2>. QED
      BY <2>1, <2>2, <2>3
      DEF SerialStep, BatchStep, Refuse, DeadlockVictim, Crash, ReadSingle, WriteSingle, vars, Moves
  <1>4. \A i \in DOMAIN batch[b].ids : i \in Nat /\ i < batch[b].at
    BY <1>3, BatchListsAreSequences DEF Inv, TypeOK, Commit, Running, Batch
  <1>. QED BY <1>2, <1>4 DEF SerialInv, Alone, Listed

\* One invalid id rolls back the whole batch, for any lists and departments, if
\* requests run one at a time: what is committed was waiting for a decision.
THEOREM AppliesToPendingOnlyCorrect ==
  ASSUME Serialized
  PROVE  Spec => [][AppliesToPendingOnly]_vars
  <1>1. Init => Inv /\ SerialInv
    BY InitInv, ConstantsAssumption DEF Init, SerialInv, Alone, Running, IdleBatch
  <1>2. Inv /\ SerialInv /\ [Next]_vars => Inv' /\ SerialInv'
    BY NextInv, SerialKept, StartsAlone, ConstantsAssumption
  <1>3. Inv /\ SerialInv /\ [Next]_vars => [AppliesToPendingOnly]_vars
    BY CommitsPending, StartsAlone
  <1>. QED BY <1>1, <1>2, <1>3, PTL DEF Spec

\* The same of the checked part in which requests run one at a time.
THEOREM AppliedToPendingOnlyCorrect == PartsSpec => AppliedToPendingOnly
  <1>. DEFINE SInv == Inv /\ (part = "serial" => SerialInv)
              Step == [PartsNext]_<<vars, views, asked, part>>
  <1>1. PartsInit => SInv
    BY InitInv, ConstantsAssumption DEF PartsInit, NoBulk, Init, SerialInv, Alone, Running, IdleBatch
  <1>2. SInv /\ Step => [Next]_vars /\ (part = "serial" => SerialStep \/ UNCHANGED vars) /\ part' = part
    BY StartsAlone DEF PartsNext, views
  <1>3. SInv /\ Step => SInv'
    BY <1>2, NextInv, SerialKept, ConstantsAssumption
  <1>4. SInv /\ Step => [part = "serial" => AppliesToPendingOnly]_<<vars, views, asked, part>>
    BY <1>2, CommitsPending
  <1>. QED BY <1>1, <1>3, <1>4, PTL DEF PartsSpec, AppliedToPendingOnly

-----------------------------------------------------------------------------
(* The dashboard, for any reservations, nodes, windows and department, days  *)
(* of any length and previews of any, and whenever its answers come          *)

\* A day begins no later than any of its instants, and the next one later.
LEMMA DayBounds ==
  ASSUME NEW t \in Int
  PROVE  /\ Dashboard!StartOfDay(t) \in Int
         /\ Dashboard!StartOfDay(t) <= t
         /\ t < Dashboard!StartOfDay(t) + Units
  <1>1. Units \in Nat \ {0}
    BY DashboardAssumption DEF DashboardAssumption
  <1>. QED BY <1>1 DEF Dashboard!StartOfDay, Dashboard!Day

\* ReservationViews counts as this module does.
LEMMA SameCardinality == \A S : Dashboard!Cardinality(S) = Cardinality(S)
  BY DEF Dashboard!Cardinality, Cardinality

\* A preview that leaves a row out is full of rows that begin no later.
LEMMA PreviewFull ==
  ASSUME NEW S \in SUBSET DashRids, NEW P \in Dashboard!Preview(S), NEW r \in S \ P
  PROVE  /\ Cardinality(P) >= PreviewLimit
         /\ \A u \in P : Dashboard!Starts(u) <= Dashboard!Starts(r)
  <1>1. IsFiniteSet(S) /\ P \subseteq S
    BY FS_Subset, DashboardAssumption DEF DashboardAssumption, Dashboard!Preview
  <1>2. Cardinality(P) < Cardinality(S) /\ Cardinality(P) \in Nat /\ Cardinality(S) \in Nat
    BY <1>1, FS_Subset, FS_CardinalityType
  <1>3. /\ Cardinality(P) = (IF Cardinality(S) < PreviewLimit THEN Cardinality(S) ELSE PreviewLimit)
        /\ \A u \in P, v \in S \ P : Dashboard!Starts(u) <= Dashboard!Starts(v)
    BY SameCardinality DEF Dashboard!Preview
  <1>. QED BY <1>2, <1>3, DashboardAssumption DEF DashboardAssumption

\* What half rounds to of a share that is no more than the whole.
LEMMA PercentBounds ==
  ASSUME NEW a \in Nat, NEW t \in Nat \ {0}, a <= t
  PROVE  (200 * a + t) \div (2 * t) \in 0 .. 100
  <1>. DEFINE y == 2 * t
              q == (200 * a + t) \div y
  <1>1. y \in Nat \ {0} /\ 200 * a + t \in Nat /\ 200 * a + t < 101 * y
    OBVIOUS
  <1>2. q \in Int /\ y * q <= 200 * a + t /\ 200 * a + t < y * q + y
    BY <1>1
  <1>. HIDE DEF y, q
  <1>3. q < 101
    <2>1. ASSUME q >= 101 PROVE y * q >= y * 101
      BY <1>1, <1>2, <2>1
    <2>. QED BY <1>1, <1>2, <2>1
  <1>4. q >= 0
    <2>1. ASSUME q <= -1 PROVE y * q <= y * (-1)
      BY <1>1, <1>2, <2>1
    <2>. QED BY <1>1, <1>2, <2>1
  <1>5. q \in 0 .. 100
    BY <1>2, <1>3, <1>4
  <1>. QED BY <1>5 DEF q, y

DashStatuses == {"NONE", "PENDING", "APPROVED", "ACTIVE", "COMPLETED", "REJECTED", "CANCELLED"}
DashRow == [status : DashStatuses, node : Nodes \cup {None}, start : Int, end : Int]

\* The reservations: one that there is has a node, and one in use has begun.
RowsOK ==
  /\ now \in Nat
  /\ booking \in [DashRids -> DashRow]
  /\ \A r \in DashRids : booking[r].status # "NONE" => booking[r].node \in Nodes
  /\ \A r \in DashRids : booking[r].status = "ACTIVE" => booking[r].start <= now

\* The answers a dashboard has, if it was asked for.
AnswersOK ==
  /\ dash \in [asked : Nat \cup {None},
               got : [Dashboard!Queries -> (SUBSET Dashboard!Rows) \cup {None}]]
  /\ dash.asked = None => dash = Dashboard!Unasked
  /\ dash.asked # None => dash.asked <= now
  /\ dash.got["active"] # None => \A r \in dash.got["active"] : Dashboard!InDepartment(r)

\* What hides r from today's sessions: it is not on, at any moment of that day.
TodayOK(r) ==
  dash.got["today"] # None =>
    \/ r \in dash.got["today"]
    \/ ~Dashboard!InPeriod(r, Dashboard!StartOfDay(Dashboard!Instant(dash.asked)),
                           Dashboard!PlusDays(Dashboard!StartOfDay(Dashboard!Instant(dash.asked)), 1))

\* What hides r from the upcoming sessions: it has begun, or is beyond the cut.
UpcomingOK(r) ==
  dash.got["upcoming"] # None =>
    \/ r \in dash.got["upcoming"]
    \/ Dashboard!Starts(r) < dash.asked
    \/ Dashboard!Starts(r) <= now
    \/ /\ Cardinality(dash.got["upcoming"]) >= PreviewLimit
       /\ \A u \in dash.got["upcoming"] : Dashboard!Starts(u) <= Dashboard!Starts(r)

\* The sessions that have been live since the dashboard was asked for.
SteadyOK ==
  /\ steady \subseteq {r \in DashRids : Dashboard!Live(r)}
  /\ dash.asked = None => steady = {}
  /\ \A r \in steady : Dashboard!InDepartment(r) => TodayOK(r) /\ UpcomingOK(r)

DashInv == RowsOK /\ AnswersOK /\ SteadyOK

\* Reservations come and go and change their status; what one is for stays.
LEMMA RowsChange ==
  ASSUME RowsOK, Dashboard!Life!Next
  PROVE  /\ RowsOK'
         /\ now <= now'
         /\ \A r \in DashRids : booking[r].status # "NONE" =>
              /\ booking'[r].status # "NONE"
              /\ booking'[r].node = booking[r].node
              /\ booking'[r].start = booking[r].start
              /\ booking'[r].end = booking[r].end
  <1>. USE DashboardAssumption DEF DashboardAssumption, RowsOK, DashRow, DashStatuses
  <1>1. ASSUME NEW r \in DashRids, NEW n \in Nodes, NEW start \in Times, NEW end \in Times,
               Dashboard!Life!Book(r, n, start, end)
        PROVE  /\ booking[r].status = "NONE"
               /\ booking' = [booking EXCEPT ![r] =
                    [status |-> "PENDING", node |-> n, start |-> start, end |-> end]]
               /\ now' = now /\ start \in Int /\ end \in Int
    <2>1. booking[r] = Dashboard!Life!NoBooking
      BY <1>1 DEF Dashboard!Life!Book
    <2>2. booking[r].status = "NONE"
      BY ONLY <2>1 DEF Dashboard!Life!NoBooking
    <2>3. /\ booking' = [booking EXCEPT ![r] =
                [status |-> "PENDING", node |-> n, start |-> start, end |-> end]]
          /\ now' = now
      BY ONLY <1>1, Zenon DEF Dashboard!Life!Book
    <2>4. start \in Int /\ end \in Int
      OBVIOUS
    <2>. QED BY ONLY <2>2, <2>3, <2>4
  <1>2. ASSUME NEW r \in DashRids, NEW to \in DashStatuses \ {"NONE", "ACTIVE"},
               booking[r].status # "NONE", booking' = [booking EXCEPT ![r].status = to], now' = now
        PROVE  RowsOK' /\ \A q \in DashRids : booking[q].status # "NONE" =>
                 /\ booking'[q].status # "NONE"
                 /\ booking'[q].node = booking[q].node
                 /\ booking'[q].start = booking[q].start
                 /\ booking'[q].end = booking[q].end
    BY <1>2
  <1>3. ASSUME NEW r \in DashRids, Dashboard!Life!Approve(r) \/ Dashboard!Life!Reject(r) \/ Dashboard!Life!Cancel(r)
        PROVE  \E to \in DashStatuses \ {"NONE", "ACTIVE"} :
                 booking[r].status # "NONE" /\ booking' = [booking EXCEPT ![r].status = to] /\ now' = now
    BY <1>3 DEF Dashboard!Life!Approve, Dashboard!Life!Reject, Dashboard!Life!Cancel, Dashboard!Life!Decide
  <1>4. ASSUME NEW r \in DashRids, NEW at \in Times, Dashboard!Life!Activate(r, at)
        PROVE  /\ booking[r].status = "APPROVED" /\ booking[r].start <= now
               /\ booking' = [booking EXCEPT ![r].status = "ACTIVE"] /\ now' = now
    BY <1>4 DEF Dashboard!Life!Activate
  <1>5. ASSUME NEW r \in DashRids, Dashboard!Life!Complete(r)
        PROVE  /\ booking[r].status # "NONE"
               /\ booking' = [booking EXCEPT ![r].status = "COMPLETED"] /\ now' = now
    BY <1>5 DEF Dashboard!Life!Complete
  <1>6. CASE Dashboard!Life!Tick
    BY <1>6 DEF Dashboard!Life!Tick
  <1>7. CASE \E r \in DashRids, n \in Nodes, start, end \in Times : Dashboard!Life!Book(r, n, start, end)
    BY <1>1, <1>7
  <1>8. CASE \E r \in DashRids, at \in Times : Dashboard!Life!Activate(r, at)
    BY <1>4, <1>8
  <1>9. CASE \E r \in DashRids : Dashboard!Life!Complete(r) \/ Dashboard!Life!Approve(r)
                                   \/ Dashboard!Life!Reject(r) \/ Dashboard!Life!Cancel(r)
    <2>1. PICK r \in DashRids : \E to \in DashStatuses \ {"NONE", "ACTIVE"} :
            booking[r].status # "NONE" /\ booking' = [booking EXCEPT ![r].status = to] /\ now' = now
      BY <1>3, <1>5, <1>9
    <2>. QED BY <1>2, <2>1
  <1>. QED BY <1>6, <1>7, <1>8, <1>9 DEF Dashboard!Life!Next

LEMMA DashStarts ==
  ASSUME Dashboard!Init
  PROVE  DashInv
  <1>1. RowsOK
    <2>1. booking = [r \in DashRids |-> [status |-> "NONE", node |-> None, start |-> 0, end |-> 0]] /\ now = 0
      BY DEF Dashboard!Init, Dashboard!Life!Init, Dashboard!Life!NoBooking
    <2>. QED BY <2>1 DEF RowsOK, DashRow, DashStatuses
  <1>2. AnswersOK
    BY DashboardAssumption DEF DashboardAssumption, Dashboard!Init, AnswersOK, Dashboard!Unasked, Dashboard!Queries
  <1>3. SteadyOK
    BY DEF Dashboard!Init, SteadyOK
  <1>. QED BY <1>1, <1>2, <1>3 DEF DashInv

LEMMA DashChange ==
  ASSUME DashInv, Dashboard!Change
  PROVE  DashInv'
  <1>1. /\ RowsOK /\ RowsOK' /\ now <= now' /\ dash' = dash
        /\ steady' = {r \in steady : Dashboard!Live(r)'}
        /\ now \in Int /\ now' \in Int
    BY RowsChange DEF DashInv, Dashboard!Change, RowsOK
  <1>2. \A r \in Dashboard!Rows :
          /\ r \in Dashboard!Rows' /\ r \in DashRids
          /\ Dashboard!Starts(r)' = Dashboard!Starts(r)
          /\ Dashboard!InDepartment(r)' <=> Dashboard!InDepartment(r)
          /\ \A from, to : Dashboard!InPeriod(r, from, to)' <=> Dashboard!InPeriod(r, from, to)
    BY RowsChange DEF DashInv, Dashboard!Change, Dashboard!Rows, Dashboard!Starts, Dashboard!InDepartment,
         Dashboard!InPeriod, Dashboard!Overlapping, Dashboard!Instant
  <1>3. AnswersOK'
    <2>1. dash' \in [asked : Nat \cup {None},
                     got : [Dashboard!Queries -> (SUBSET Dashboard!Rows') \cup {None}]]
      <3>1. Dashboard!Rows \subseteq Dashboard!Rows'
        BY <1>2
      <3>. QED BY <1>1, <3>1 DEF DashInv, AnswersOK
    <2>2. dash.asked # None => dash.asked \in Int /\ dash.asked <= now'
      BY <1>1, DashboardAssumption DEF DashInv, AnswersOK, DashboardAssumption
    <2>3. dash.got["active"] # None => \A r \in dash.got["active"] : Dashboard!InDepartment(r)'
      BY <1>2 DEF DashInv, AnswersOK, Dashboard!Queries
    <2>. QED BY <1>1, <2>1, <2>2, <2>3 DEF DashInv, AnswersOK, Dashboard!Unasked
  <1>4. ASSUME NEW r \in steady', Dashboard!InDepartment(r)'
        PROVE  TodayOK(r)' /\ UpcomingOK(r)'
    <2>1. /\ r \in steady /\ r \in Dashboard!Rows /\ TodayOK(r) /\ UpcomingOK(r)
          /\ Dashboard!Starts(r) \in Int
      BY <1>1, <1>2, <1>4 DEF DashInv, SteadyOK, Dashboard!Live, Dashboard!Rows, Dashboard!Starts, RowsOK, DashRow
    <2>2. TodayOK(r)'
      BY <1>1, <1>2, <2>1 DEF TodayOK, Dashboard!Instant, Dashboard!StartOfDay, Dashboard!Day, Dashboard!PlusDays
    <2>3. dash.got["upcoming"] # None => \A u \in dash.got["upcoming"] : u \in Dashboard!Rows
      BY DEF DashInv, AnswersOK, Dashboard!Queries
    <2>4. UpcomingOK(r)'
      BY <1>1, <1>2, <2>1, <2>3 DEF UpcomingOK
    <2>. QED BY <2>2, <2>4
  <1>5. SteadyOK'
    BY <1>1, <1>4 DEF DashInv, SteadyOK
  <1>. QED BY <1>1, <1>3, <1>5 DEF DashInv

LEMMA DashAsk ==
  ASSUME DashInv, Dashboard!Ask
  PROVE  DashInv'
  <1>1. /\ dash' = [asked |-> now, got |-> [q \in Dashboard!Queries |-> None]]
        /\ steady' = {r \in DashRids : Dashboard!Live(r)} /\ UNCHANGED <<now, booking>>
        /\ now \in Nat /\ now # None
    BY DashboardAssumption
    DEF DashboardAssumption, Dashboard!Ask, Dashboard!Unasked, DashInv, RowsOK
  <1>2. RowsOK' /\ Dashboard!Rows' = Dashboard!Rows
    BY <1>1 DEF DashInv, RowsOK, Dashboard!Rows
  <1>3. dash'.got["today"] = None /\ dash'.got["active"] = None /\ dash'.got["upcoming"] = None
    BY <1>1 DEF Dashboard!Queries
  <1>4. AnswersOK'
    BY <1>1, <1>2, <1>3 DEF AnswersOK
  <1>5. SteadyOK'
    <2>1. \A r : TodayOK(r)' /\ UpcomingOK(r)'
      BY <1>3 DEF TodayOK, UpcomingOK
    <2>. QED BY <1>1, <2>1 DEF SteadyOK, Dashboard!Live
  <1>. QED BY <1>2, <1>4, <1>5 DEF DashInv

LEMMA DashLeave ==
  ASSUME DashInv, Dashboard!Leave
  PROVE  DashInv'
  <1>1. /\ dash' = Dashboard!Unasked /\ steady' = {} /\ UNCHANGED <<now, booking>>
        /\ Dashboard!Unasked' = Dashboard!Unasked
    BY DEF Dashboard!Leave, Dashboard!Unasked
  <1>2. RowsOK'
    BY <1>1 DEF DashInv, RowsOK
  <1>3. AnswersOK'
    BY <1>1, DashboardAssumption DEF DashboardAssumption, AnswersOK, Dashboard!Unasked, Dashboard!Queries
  <1>4. SteadyOK'
    BY <1>1 DEF SteadyOK
  <1>. QED BY <1>2, <1>3, <1>4 DEF DashInv

\* What each question is answered with.
LEMMA AnswersAre ==
  ASSUME RowsOK, NEW q \in Dashboard!Queries, NEW at, NEW S \in Dashboard!Answers(q, at)
  PROVE  /\ S \subseteq Dashboard!Rows
         /\ q = "today" => S = Dashboard!Todays(at)
         /\ q = "active" => \A r \in S : Dashboard!InDepartment(r)
         /\ q = "upcoming" => S \in Dashboard!Preview(
              {r \in Dashboard!Listed({"APPROVED"}) : Dashboard!Starts(r) >= at})
  <1>1. CASE q = "pending"
    BY <1>1 DEF Dashboard!Answers, Dashboard!Preview, Dashboard!Listed
  <1>2. CASE q = "total"
    BY <1>2 DEF Dashboard!Answers, Dashboard!Listed
  <1>3. CASE q = "today"
    BY <1>3 DEF Dashboard!Answers, Dashboard!Todays, Dashboard!Listed
  <1>4. CASE q = "active"
    BY <1>4 DEF Dashboard!Answers, Dashboard!Listed
  <1>5. CASE q = "upcoming"
    BY <1>5 DEF Dashboard!Answers, Dashboard!Preview, Dashboard!Listed
  <1>. QED BY <1>1, <1>2, <1>3, <1>4, <1>5 DEF Dashboard!Queries

LEMMA DashAnswer ==
  ASSUME DashInv, NEW q \in Dashboard!Queries, Dashboard!Answer(q)
  PROVE  DashInv'
  <1>1. PICK S \in Dashboard!Answers(q, dash.asked) : dash' = [dash EXCEPT !.got[q] = S]
    BY DEF Dashboard!Answer
  <1>2. /\ dash.asked # None /\ UNCHANGED <<now, booking, steady>>
        /\ RowsOK /\ AnswersOK /\ SteadyOK
    BY DEF Dashboard!Answer, DashInv
  <1>3. /\ S \subseteq Dashboard!Rows
        /\ q = "today" => S = Dashboard!Todays(dash.asked)
        /\ q = "active" => \A r \in S : Dashboard!InDepartment(r)
        /\ q = "upcoming" => S \in Dashboard!Preview(
             {r \in Dashboard!Listed({"APPROVED"}) : Dashboard!Starts(r) >= dash.asked})
    BY <1>2, AnswersAre
  <1>4. /\ RowsOK' /\ Dashboard!Rows' = Dashboard!Rows
        /\ \A r : /\ Dashboard!Starts(r)' = Dashboard!Starts(r)
                  /\ Dashboard!Live(r)' <=> Dashboard!Live(r)
                  /\ Dashboard!InDepartment(r)' <=> Dashboard!InDepartment(r)
                  /\ \A from, to : Dashboard!InPeriod(r, from, to)' <=> Dashboard!InPeriod(r, from, to)
    BY <1>2 DEF RowsOK, Dashboard!Rows, Dashboard!Starts, Dashboard!Live, Dashboard!InDepartment,
         Dashboard!InPeriod, Dashboard!Overlapping, Dashboard!Instant
  <1>5. /\ dash' \in [asked : Nat \cup {None},
                      got : [Dashboard!Queries -> (SUBSET Dashboard!Rows) \cup {None}]]
        /\ dash'.asked = dash.asked /\ dash'.got[q] = S
        /\ \A p \in Dashboard!Queries \ {q} : dash'.got[p] = dash.got[p]
    BY <1>1, <1>2, <1>3 DEF AnswersOK
  <1>6. AnswersOK'
    BY <1>2, <1>3, <1>4, <1>5 DEF AnswersOK, Dashboard!Queries
  <1>7. ASSUME NEW r \in steady, Dashboard!InDepartment(r)
        PROVE  TodayOK(r)' /\ UpcomingOK(r)'
    <2>1. /\ r \in DashRids /\ Dashboard!Live(r) /\ TodayOK(r) /\ UpcomingOK(r)
          /\ r \in Dashboard!Listed({"APPROVED", "ACTIVE"})
      BY <1>2, <1>7 DEF SteadyOK, Dashboard!Live, Dashboard!Listed, Dashboard!Rows
    <2>2. TodayOK(r)'
      <3>1. CASE q = "today"
        BY <1>3, <1>4, <1>5, <2>1, <3>1
        DEF TodayOK, Dashboard!Todays, Dashboard!Instant, Dashboard!StartOfDay, Dashboard!Day, Dashboard!PlusDays
      <3>2. CASE q # "today"
        BY <1>4, <1>5, <2>1, <3>2
        DEF TodayOK, Dashboard!Queries, Dashboard!Instant, Dashboard!StartOfDay, Dashboard!Day, Dashboard!PlusDays
      <3>. QED BY <3>1, <3>2
    <2>3. UpcomingOK(r)'
      <3>1. CASE q = "upcoming" /\ booking[r].status = "APPROVED" /\ Dashboard!Starts(r) >= dash.asked
        <4>. DEFINE U == {u \in Dashboard!Listed({"APPROVED"}) : Dashboard!Starts(u) >= dash.asked}
        <4>1. r \in U /\ U \subseteq DashRids
          BY <1>7, <2>1, <3>1 DEF Dashboard!Listed, Dashboard!Rows
        <4>2. r \in S \/ (/\ Cardinality(S) >= PreviewLimit
                          /\ \A u \in S : Dashboard!Starts(u) <= Dashboard!Starts(r))
          <5>1. S \in Dashboard!Preview(U)
            BY <1>3, <3>1
          <5>. HIDE DEF U
          <5>. QED BY <4>1, <5>1, PreviewFull
        <4>. QED BY <1>4, <1>5, <3>1, <4>2 DEF UpcomingOK
      <3>2. CASE q = "upcoming" /\ ~(booking[r].status = "APPROVED" /\ Dashboard!Starts(r) >= dash.asked)
        <4>1. \/ Dashboard!Starts(r) <= now
              \/ Dashboard!Starts(r) < dash.asked
          BY <1>2, <2>1, <3>2, DashboardAssumption
          DEF DashboardAssumption, RowsOK, DashRow, AnswersOK, Dashboard!Live, Dashboard!Starts
        <4>. QED BY <1>2, <1>4, <1>5, <4>1 DEF UpcomingOK
      <3>3. CASE q # "upcoming"
        BY <1>2, <1>4, <1>5, <2>1, <3>3 DEF UpcomingOK, Dashboard!Queries
      <3>. QED BY <3>1, <3>2, <3>3
    <2>. QED BY <2>2, <2>3
  <1>8. SteadyOK'
    BY <1>2, <1>4, <1>5, <1>7 DEF SteadyOK
  <1>. QED BY <1>4, <1>6, <1>8 DEF DashInv

LEMMA DashKept ==
  ASSUME DashInv, Dashboard!Next \/ UNCHANGED views
  PROVE  DashInv'
  <1>1. CASE UNCHANGED views
    BY <1>1
    DEF views, DashInv, RowsOK, AnswersOK, SteadyOK, TodayOK, UpcomingOK, Dashboard!Rows, Dashboard!Starts,
        Dashboard!Live, Dashboard!InDepartment, Dashboard!InPeriod, Dashboard!Overlapping, Dashboard!Instant,
        Dashboard!StartOfDay, Dashboard!Day, Dashboard!PlusDays, Dashboard!Unasked
  <1>. QED BY <1>1, DashChange, DashAsk, DashAnswer, DashLeave DEF Dashboard!Next

\* On the day it was asked for, the dashboard has every session that is not over.
LEMMA DashShowsAll ==
  ASSUME DashInv
  PROVE  Dashboard!NoLiveSessionHidden
  <1>. SUFFICES ASSUME Dashboard!Shown,
                       Dashboard!StartOfDay(Dashboard!Instant(now)) =
                         Dashboard!StartOfDay(Dashboard!Instant(dash.asked)),
                       NEW r \in steady, Dashboard!InDepartment(r), r \notin dash.got["today"]
                PROVE  /\ Dashboard!Starts(r) >= dash.asked
                       /\ \/ r \in dash.got["upcoming"]
                          \/ /\ Cardinality(dash.got["upcoming"]) >= PreviewLimit
                             /\ \A u \in dash.got["upcoming"] : Dashboard!Starts(u) <= Dashboard!Starts(r)
    BY SameCardinality DEF Dashboard!NoLiveSessionHidden
  <1>1. /\ r \in DashRids /\ Dashboard!Live(r) /\ TodayOK(r) /\ UpcomingOK(r)
        /\ dash.asked # None /\ dash.got["today"] # None /\ dash.got["upcoming"] # None
    BY DEF DashInv, SteadyOK, Dashboard!Shown, Dashboard!Queries
  <1>2. /\ now \in Int /\ dash.asked \in Int /\ dash.asked <= now
        /\ booking[r].start \in Int /\ booking[r].end \in Int /\ booking[r].end > now
    BY <1>1 DEF DashInv, RowsOK, AnswersOK, DashRow, Dashboard!Live
  <1>. DEFINE d == Dashboard!StartOfDay(Origin + dash.asked)
  <1>3. /\ d \in Int /\ d <= Origin + dash.asked /\ Origin + now < d + Units
        /\ Origin \in Int /\ Units \in Int
    BY <1>2, DayBounds, DashboardAssumption DEF DashboardAssumption, Dashboard!Instant
  <1>4. ~(Origin + booking[r].start < d + Units /\ Origin + booking[r].end > d)
    <2>1. ~Dashboard!InPeriod(r, d, d + Units)
      <3>1. Dashboard!PlusDays(d, 1) = d + Units
        BY <1>3 DEF Dashboard!PlusDays
      <3>. QED BY ONLY <1>1, <3>1, r \notin dash.got["today"] DEF TodayOK, Dashboard!Instant
    <2>. QED BY <2>1 DEF Dashboard!InPeriod, Dashboard!Overlapping, Dashboard!Instant
  <1>. HIDE DEF d
  <1>5. booking[r].start > now
    BY <1>2, <1>3, <1>4
  <1>. QED BY <1>1, <1>2, <1>5 DEF UpcomingOK, Dashboard!Starts

\* The nodes in use are nodes of the department, each counted once.
LEMMA DashUtilization ==
  ASSUME DashInv
  PROVE  Dashboard!UtilizationIsAShare
  <1>. SUFFICES ASSUME Dashboard!Shown
                PROVE  Dashboard!UtilizationPercent(dash.got["active"]) \in 0 .. 100
    BY DEF Dashboard!UtilizationIsAShare
  <1>. DEFINE S == dash.got["active"]
              InUse == {booking[r].node : r \in S}
              All == {n \in Nodes : LabOf[n] \in Department}
  <1>1. S \subseteq Dashboard!Rows /\ \A r \in S : Dashboard!InDepartment(r)
    BY DEF DashInv, AnswersOK, Dashboard!Shown, Dashboard!Queries
  <1>2. InUse \subseteq All
    BY <1>1 DEF DashInv, RowsOK, Dashboard!Rows, Dashboard!InDepartment
  <1>3. IsFiniteSet(All)
    BY FS_Subset, DashboardAssumption DEF DashboardAssumption
  <1>4. Dashboard!ActiveNodes(S) = Cardinality(InUse) /\ Dashboard!TotalNodes = Cardinality(All)
    BY SameCardinality DEF Dashboard!ActiveNodes, Dashboard!TotalNodes
  <1>. HIDE DEF InUse, All, S
  <1>5. /\ Cardinality(InUse) \in Nat /\ Cardinality(All) \in Nat
        /\ Cardinality(InUse) <= Cardinality(All)
    BY <1>2, <1>3, FS_Subset, FS_CardinalityType
  <1>6. Dashboard!UtilizationPercent(S) \in 0 .. 100
    <2>1. CASE Cardinality(All) = 0
      BY <1>4, <2>1 DEF Dashboard!UtilizationPercent
    <2>2. CASE Cardinality(All) # 0
      <3>1. (200 * Cardinality(InUse) + Cardinality(All)) \div (2 * Cardinality(All)) \in 0 .. 100
        BY <1>5, <2>2, PercentBounds
      <3>. QED BY ONLY <1>4, <2>2, <3>1 DEF Dashboard!UtilizationPercent
    <2>. QED BY <2>1, <2>2
  <1>. QED BY <1>6 DEF S

\* A dashboard shows every session of the department that was approved or in use,
\* and not over, from the question until the last answer: nothing the engine does
\* between two of its answers, and no order of these, hides one; and it never
\* reports more nodes in use than the department has.
THEOREM DashboardCorrect ==
  Dashboard!Spec => [](Dashboard!NoLiveSessionHidden /\ Dashboard!UtilizationIsAShare)
  <1>1. DashInv /\ [Dashboard!Next]_Dashboard!vars => DashInv'
    BY DashKept DEF Dashboard!vars, views
  <1>. QED BY <1>1, DashStarts, DashShowsAll, DashUtilization, PTL DEF Dashboard!Spec

\* The same of the checked part that is a dashboard.
THEOREM DashboardIsWholeCorrect == PartsSpec => []DashboardIsWhole
  <1>. DEFINE DInv == part = "dashboard" => DashInv
  <1>1. PartsInit => DInv
    BY DashStarts DEF PartsInit
  <1>2. DInv /\ [PartsNext]_<<vars, views, asked, part>> => DInv'
    BY DashKept DEF PartsNext, views
  <1>3. DInv => DashboardIsWhole
    BY DashShowsAll, DashUtilization DEF DashboardIsWhole
  <1>. QED BY <1>1, <1>2, <1>3, PTL DEF PartsSpec

-----------------------------------------------------------------------------
(* Calendar, for any present, any month asked about and days of any length:  *)
(* years and months                                                          *)

\* A year has 366 days if it is a leap year, and 365 otherwise.
LEMMA YearLength ==
  ASSUME NEW y \in Int
  PROVE  /\ Periods!DayFromYear(y) \in Int
         /\ Periods!DayFromYear(y + 1) = Periods!DayFromYear(y) + (IF Periods!Leap(y) THEN 366 ELSE 365)
  BY SMT DEF Periods!DayFromYear, Periods!Leap

\* Years follow each other.
LEMMA YearsFollow ==
  ASSUME NEW x \in Int, NEW y \in Int, x < y
  PROVE  Periods!DayFromYear(x + 1) <= Periods!DayFromYear(y)
  <1>1. CASE y = x + 1
    BY SMT, <1>1, YearLength
  <1>2. CASE y >= x + 2
    BY SMT, <1>2 DEF Periods!DayFromYear
  <1>. QED BY SMT, <1>1, <1>2

\* How far a year is from 1970, in days.
LEMMA YearBounds ==
  ASSUME NEW y \in Int
  PROVE  /\ y >= 1970 => 365 * (y - 1970) <= Periods!DayFromYear(y) /\ Periods!DayFromYear(y) <= 366 * (y - 1970)
         /\ y <= 1970 => 366 * (y - 1970) <= Periods!DayFromYear(y) /\ Periods!DayFromYear(y) <= 365 * (y - 1970)
  BY SMT DEF Periods!DayFromYear

\* The first day of a year of a cycle of 400, which 1601 begins.
LEMMA DaysInCycle ==
  ASSUME NEW q \in Int, NEW c \in 0 .. 3, NEW f \in 0 .. 24, NEW g \in 0 .. 3,
         NEW y, y = 1601 + 400 * q + 100 * c + 4 * f + g
  PROVE  y \in Int /\ Periods!DayFromYear(y) = 146097 * q + 36524 * c + 1461 * f + 365 * g - 134774
  <1>1. (y - 1969) \div 4 = 100 * q + 25 * c + f - 92
    BY SMT
  <1>2. (y - 1901) \div 100 = 4 * q + c - 3
    BY SMT
  <1>3. (y - 1601) \div 400 = q
    BY SMT
  <1>. QED BY SMT, <1>1, <1>2, <1>3 DEF Periods!DayFromYear

\* Every day is in a year: the one that cycles, centuries, leap cycles and years lead to.
LEMMA YearExists ==
  ASSUME NEW d \in Int
  PROVE  \E y \in Int : Periods!DayFromYear(y) <= d /\ d < Periods!DayFromYear(y + 1)
  <1>1. PICK e \in Int : e = d + 134774
    BY SMT
  <1>2. PICK q \in Int : 146097 * q <= e /\ e < 146097 * q + 146097
    <2>1. /\ e \div 146097 \in Int
          /\ 146097 * (e \div 146097) <= e /\ e < 146097 * (e \div 146097) + 146097
      BY SMT
    <2>. QED BY SMT, <2>1
  <1>3. PICK r \in Int : r = e - 146097 * q
    BY SMT
  <1>4. PICK c \in 0 .. 3 : 36524 * c <= r /\ r <= 36524 * c + 36524 /\ (c < 3 => r < 36524 * c + 36524)
    BY SMT, <1>2, <1>3
  <1>5. PICK s \in Int : s = r - 36524 * c
    BY SMT
  <1>6. PICK f \in 0 .. 24 : 1461 * f <= s /\ s < 1461 * f + 1461
    <2>1. s \div 1461 \in 0..24 /\ 1461 * (s \div 1461) <= s /\ s < 1461 * (s \div 1461) + 1461
      BY SMT, <1>4, <1>5
    <2>. QED BY SMT, <2>1
  <1>7. PICK t \in Int : t = s - 1461 * f
    BY SMT
  <1>8. PICK g \in 0 .. 3 : 365 * g <= t /\ t <= 365 * g + 365 /\ (g < 3 => t < 365 * g + 365)
    BY SMT, <1>6, <1>7
  <1>9. PICK y \in Int : y = 1601 + 400 * q + 100 * c + 4 * f + g
    BY SMT
  <1>10. Periods!DayFromYear(y) = 146097 * q + 36524 * c + 1461 * f + 365 * g - 134774
    BY SMT, <1>9, DaysInCycle
  <1>11. d = Periods!DayFromYear(y) + t - 365 * g
    BY SMT, <1>1, <1>3, <1>5, <1>7, <1>10
  <1>12. t = 365 * g + 365 => Periods!Leap(y)
    <2>1. SUFFICES ASSUME t = 365 * g + 365 PROVE Periods!Leap(y)
      OBVIOUS
    <2>2. g = 3
      BY SMT, <1>8, <2>1
    <2>3. y % 4 = 0
      BY SMT, <1>9, <2>2
    <2>4. CASE f < 24
      <3>1. y % 100 # 0
        BY SMT, <1>9, <2>2, <2>4
      <3>. QED BY SMT, <2>3, <3>1 DEF Periods!Leap
    <2>5. CASE f = 24
      <3>1. c = 3
        BY SMT, <1>4, <1>5, <1>7, <2>1, <2>2, <2>5
      <3>2. y % 400 = 0
        BY SMT, <1>9, <2>2, <2>5, <3>1
      <3>. QED BY SMT, <2>3, <3>2 DEF Periods!Leap
    <2>. QED BY SMT, <2>4, <2>5
  <1>. QED BY SMT, <1>8, <1>11, <1>12, YearLength

\* YearOf finds the year of a day, which is the only one and in the bracket.
LEMMA YearOfCorrect ==
  ASSUME NEW t, Periods!Day(t) \in Int, NEW y \in Int, Periods!DayFromYear(y) <= Periods!Day(t), Periods!Day(t) < Periods!DayFromYear(y + 1)
  PROVE  Periods!YearOf(t) = y
  <1>. DEFINE a == 1970 + Periods!Day(t) \div 365
              b == 1970 + Periods!Day(t) \div 366
              Bracket == (IF a < b THEN a ELSE b) - 1 .. (IF a < b THEN b ELSE a)
  <1>1. y \in Bracket
    <2>1. /\ a \in Int /\ 365 * (a - 1970) <= Periods!Day(t) /\ Periods!Day(t) < 365 * (a - 1970) + 365
          /\ b \in Int /\ 366 * (b - 1970) <= Periods!Day(t) /\ Periods!Day(t) < 366 * (b - 1970) + 366
      BY SMT
    <2>. HIDE DEF a, b
    <2>2. /\ Periods!DayFromYear(y) \in Int /\ Periods!DayFromYear(y + 1) \in Int /\ y + 1 \in Int
      BY SMT, YearLength
    <2>3. CASE Periods!Day(t) >= 0
      <3>1. a >= 1970 /\ b >= 1970 /\ b <= a
        BY SMT, <2>1, <2>3
      <3>2. y <= a
        BY SMT, <2>1, <2>2, <3>1, YearBounds
      <3>3. y + 1 >= b
        BY SMT, <2>1, <2>2, <3>1, YearBounds
      <3>. QED BY SMT, <2>1, <3>1, <3>2, <3>3
    <2>4. CASE Periods!Day(t) < 0
      <3>1. a < 1970 /\ b < 1970 /\ a <= b
        BY SMT, <2>1, <2>4
      <3>2. y <= b
        BY SMT, <2>1, <2>2, <2>4, <3>1, YearBounds
      <3>3. y + 1 >= a
        BY SMT, <2>1, <2>2, <2>4, <3>1, YearBounds
      <3>. QED BY SMT, <2>1, <3>1, <3>2, <3>3
    <2>. QED BY SMT, <2>3, <2>4
  <1>2. \A x \in Bracket : Periods!DayFromYear(x) <= Periods!Day(t) /\ Periods!Day(t) < Periods!DayFromYear(x + 1) => x = y
    <2>1. ASSUME NEW x \in Int, Periods!DayFromYear(x) <= Periods!Day(t), Periods!Day(t) < Periods!DayFromYear(x + 1), x # y
          PROVE FALSE
      <3>1. Periods!DayFromYear(x + 1) <= Periods!DayFromYear(y) \/ Periods!DayFromYear(y + 1) <= Periods!DayFromYear(x)
        BY SMT, <2>1, YearsFollow
      <3>2. Periods!DayFromYear(x) \in Int /\ Periods!DayFromYear(y) \in Int
            /\ Periods!DayFromYear(x + 1) \in Int /\ Periods!DayFromYear(y + 1) \in Int
        BY SMT, YearLength
      <3>. QED BY SMT, <2>1, <3>1, <3>2
    <2>2. Bracket \subseteq Int
      BY SMT
    <2>. HIDE DEF Bracket
    <2>. QED BY SMT, <2>1, <2>2
  <1>3. Periods!YearOf(t) = CHOOSE x \in Bracket : Periods!DayFromYear(x) <= Periods!Day(t) /\ Periods!Day(t) < Periods!DayFromYear(x + 1)
    BY Zenon DEF Periods!YearOf
  <1>. HIDE DEF Bracket
  <1>. QED BY SMT, <1>1, <1>2, <1>3

\* The day that month j begins, counted from January of year y.
MonthDay(y, j) ==
  Periods!DayFromYear(y + j \div 12) + Periods!DaysBeforeMonth[(j % 12) + 1]
    + (IF j % 12 > 1 /\ Periods!Leap(y + j \div 12) THEN 1 ELSE 0)

\* The table of months.
LEMMA MonthTable ==
  /\ Periods!DaysBeforeMonth[1] = 0 /\ Periods!DaysBeforeMonth[2] = 31 /\ Periods!DaysBeforeMonth[3] = 59
  /\ Periods!DaysBeforeMonth[4] = 90 /\ Periods!DaysBeforeMonth[5] = 120 /\ Periods!DaysBeforeMonth[6] = 151
  /\ Periods!DaysBeforeMonth[7] = 181 /\ Periods!DaysBeforeMonth[8] = 212 /\ Periods!DaysBeforeMonth[9] = 243
  /\ Periods!DaysBeforeMonth[10] = 273 /\ Periods!DaysBeforeMonth[11] = 304 /\ Periods!DaysBeforeMonth[12] = 334
  BY SMT DEF Periods!DaysBeforeMonth

\* A month counted past a year is one of another year.
LEMMA MonthSplit ==
  ASSUME NEW y \in Int, NEW j \in Int
  PROVE  /\ y + j \div 12 \in Int /\ j % 12 \in 0 .. 11
         /\ MonthDay(y, j) = MonthDay(y + j \div 12, j % 12)
         /\ MonthDay(y, j + 1) = MonthDay(y + j \div 12, (j % 12) + 1)
  <1>1. j \div 12 \in Int /\ j % 12 = j - 12 * (j \div 12) /\ j % 12 \in 0 .. 11
    BY SMT
  <1>2. PICK m \in 0 .. 11, q \in Int : m = j % 12 /\ q = j \div 12
    BY SMT, <1>1
  <1>3. m \div 12 = 0 /\ m % 12 = m
    BY SMT
  <1>4. /\ (j + 1) % 12 = (m + 1) % 12
        /\ (j + 1) \div 12 = q + (m + 1) \div 12
    BY SMT, <1>1, <1>2
  <1>5. MonthDay(y, j) = MonthDay(y + q, m)
    BY SMT, <1>2, <1>3 DEF MonthDay
  <1>6. y + (q + (m + 1) \div 12) = (y + q) + (m + 1) \div 12
    BY SMT
  <1>7. MonthDay(y, j + 1) = MonthDay(y + q, m + 1)
    BY Zenon, <1>4, <1>6 DEF MonthDay
  <1>8. y + j \div 12 \in Int
    BY SMT, <1>1
  <1>. QED BY Zenon, <1>1, <1>2, <1>5, <1>7, <1>8

\* The months of a year, and the end of the last.
LEMMA MonthDays ==
  ASSUME NEW y \in Int, NEW m \in 0 .. 11
  PROVE  /\ MonthDay(y, m) = Periods!DayFromYear(y) + Periods!DaysBeforeMonth[m + 1] + (IF m > 1 /\ Periods!Leap(y) THEN 1 ELSE 0)
         /\ MonthDay(y, 12) = Periods!DayFromYear(y + 1)
         /\ MonthDay(y, 0) = Periods!DayFromYear(y)
  <1>1. /\ m \div 12 = 0 /\ m % 12 = m /\ 12 \div 12 = 1 /\ 12 % 12 = 0 /\ 0 \div 12 = 0 /\ 0 % 12 = 0
        /\ y + 0 = y
    BY SMT
  <1>2. MonthDay(y, m) = Periods!DayFromYear(y) + Periods!DaysBeforeMonth[m + 1] + (IF m > 1 /\ Periods!Leap(y) THEN 1 ELSE 0)
    BY SMT, <1>1 DEF MonthDay
  <1>3. MonthDay(y, 12) = Periods!DayFromYear(y + 1) /\ MonthDay(y, 0) = Periods!DayFromYear(y)
    BY SMT, <1>1, MonthTable, YearLength DEF MonthDay
  <1>. QED BY <1>2, <1>3

\* A year has its months one after the other.
LEMMA MonthOrder ==
  ASSUME NEW y \in Int, NEW m \in 0 .. 11
  PROVE  /\ MonthDay(y, m) \in Int /\ MonthDay(y, m + 1) \in Int
         /\ MonthDay(y, m) + 28 <= MonthDay(y, m + 1)
         /\ MonthDay(y, m + 1) <= MonthDay(y, m) + 31
         /\ Periods!DayFromYear(y) <= MonthDay(y, m)
         /\ MonthDay(y, m + 1) <= Periods!DayFromYear(y + 1)
         /\ \A k \in 0 .. 11 : m < k => MonthDay(y, m + 1) <= MonthDay(y, k)
  <1>1. PICK L \in {0, 1} : L = IF Periods!Leap(y) THEN 1 ELSE 0
    OBVIOUS
  <1>2. /\ Periods!DayFromYear(y) \in Int /\ Periods!DayFromYear(y + 1) = Periods!DayFromYear(y) + 365 + L
    BY SMT, <1>1, YearLength
  <1>3. /\ MonthDay(y, 0) = Periods!DayFromYear(y) /\ MonthDay(y, 1) = Periods!DayFromYear(y) + 31
        /\ MonthDay(y, 2) = Periods!DayFromYear(y) + 59 + L /\ MonthDay(y, 3) = Periods!DayFromYear(y) + 90 + L
        /\ MonthDay(y, 4) = Periods!DayFromYear(y) + 120 + L /\ MonthDay(y, 5) = Periods!DayFromYear(y) + 151 + L
        /\ MonthDay(y, 6) = Periods!DayFromYear(y) + 181 + L /\ MonthDay(y, 7) = Periods!DayFromYear(y) + 212 + L
        /\ MonthDay(y, 8) = Periods!DayFromYear(y) + 243 + L /\ MonthDay(y, 9) = Periods!DayFromYear(y) + 273 + L
        /\ MonthDay(y, 10) = Periods!DayFromYear(y) + 304 + L /\ MonthDay(y, 11) = Periods!DayFromYear(y) + 334 + L
        /\ MonthDay(y, 12) = Periods!DayFromYear(y) + 365 + L
    BY SMT, <1>1, <1>2, MonthDays, MonthTable
  <1>4. \/ m = 0 \/ m = 1 \/ m = 2 \/ m = 3 \/ m = 4 \/ m = 5
        \/ m = 6 \/ m = 7 \/ m = 8 \/ m = 9 \/ m = 10 \/ m = 11
    BY SMT
  <1>5. \A k \in 0 .. 11 : \/ k = 0 \/ k = 1 \/ k = 2 \/ k = 3 \/ k = 4 \/ k = 5
                           \/ k = 6 \/ k = 7 \/ k = 8 \/ k = 9 \/ k = 10 \/ k = 11
    BY SMT
  <1>6. /\ MonthDay(y, m) \in Int /\ MonthDay(y, m + 1) \in Int
        /\ MonthDay(y, m) + 28 <= MonthDay(y, m + 1)
        /\ MonthDay(y, m + 1) <= MonthDay(y, m) + 31
        /\ Periods!DayFromYear(y) <= MonthDay(y, m)
        /\ MonthDay(y, m + 1) <= Periods!DayFromYear(y + 1)
    BY SMT, <1>2, <1>3, <1>4
  <1>7. \A k \in 0 .. 11 : m < k => MonthDay(y, m + 1) <= MonthDay(y, k)
    BY SMT, <1>2, <1>3, <1>4, <1>5
  <1>. QED BY <1>6, <1>7

\* Every day is in a month.
LEMMA MonthExists ==
  ASSUME NEW d \in Int
  PROVE  \E y \in Int, m \in 0 .. 11 : MonthDay(y, m) <= d /\ d < MonthDay(y, m + 1)
  <1>1. PICK y \in Int : Periods!DayFromYear(y) <= d /\ d < Periods!DayFromYear(y + 1)
    BY YearExists
  <1>2. \A m \in 0 .. 11 : MonthDay(y, m) \in Int /\ MonthDay(y, m + 1) \in Int
    BY MonthOrder
  <1>3. MonthDay(y, 0) <= d /\ d < MonthDay(y, 12)
    BY SMT, <1>1, MonthDays
  <1>4. \E m \in 0 .. 11 : MonthDay(y, m) <= d /\ d < MonthDay(y, m + 1)
    <2>1. SUFFICES ASSUME \A m \in 0 .. 11 : MonthDay(y, m) <= d => MonthDay(y, m + 1) <= d
                   PROVE  FALSE
      BY SMT, <1>2
    <2>2. /\ MonthDay(y, 1) <= d /\ MonthDay(y, 2) <= d /\ MonthDay(y, 3) <= d
          /\ MonthDay(y, 4) <= d /\ MonthDay(y, 5) <= d /\ MonthDay(y, 6) <= d
      BY SMT, <1>3, <2>1
    <2>3. /\ MonthDay(y, 7) <= d /\ MonthDay(y, 8) <= d /\ MonthDay(y, 9) <= d
          /\ MonthDay(y, 10) <= d /\ MonthDay(y, 11) <= d /\ MonthDay(y, 12) <= d
      BY SMT, <2>1, <2>2
    <2>4. MonthDay(y, 12) \in Int
      BY SMT, MonthDays, YearLength
    <2>. QED BY SMT, <1>3, <2>3, <2>4
  <1>. QED BY <1>4

-----------------------------------------------------------------------------
(* Instants and days *)

\* A day lasts some time.
LEMMA UnitsPositive == Units \in Nat \ {0}
  BY DashboardAssumption DEF DashboardAssumption

\* An instant is of the day that has begun and not ended.
LEMMA Days ==
  ASSUME NEW t \in Int, NEW d \in Int
  PROVE  /\ Periods!Day(t) \in Int /\ Units * d \in Int
         /\ Units * d <= t <=> d <= Periods!Day(t)
         /\ t < Units * d <=> Periods!Day(t) < d
         /\ Periods!Day(Units * d) = d
  <1>1. Units \in Nat \ {0}
    BY UnitsPositive
  <1>2. PICK q \in Int : q = t \div Units
    BY SMT, <1>1
  <1>3. Units * q <= t /\ t < Units * q + Units /\ Units * q \in Int /\ Units * d \in Int
    BY SMT, <1>1, <1>2
  <1>4. d <= q => Units * d <= Units * q
    BY SMT, <1>1
  <1>5. q < d => Units * q + Units <= Units * d
    <2>1. q + 1 <= d => Units * (q + 1) <= Units * d
      BY SMT, <1>1
    <2>2. Units * (q + 1) = Units * q + Units
      BY SMT, <1>1
    <2>. QED BY SMT, <2>1, <2>2
  <1>6. Periods!Day(t) = q
    BY <1>2 DEF Periods!Day
  <1>7. (Units * d) \div Units = d
    BY SMT, <1>1
  <1>. QED BY SMT, <1>1, <1>3, <1>4, <1>5, <1>6, <1>7 DEF Periods!Day

\* Date.Periods!UTC of a year that is not written with two digits.
LEMMA UTCIs ==
  ASSUME NEW y \in Int, y \notin 0 .. 99, NEW j \in Int
  PROVE  Periods!UTC(y, j, 1) = Units * MonthDay(y, j)
  <1>1. PICK z \in Int : z = y + j \div 12
    BY SMT
  <1>2. Periods!DayFromYear(z) \in Int
    BY YearLength
  <1>3. j % 12 \in 0 .. 11
    BY SMT
  <1>4. Periods!DaysBeforeMonth[(j % 12) + 1] \in Int
    <2>1. \A m \in 0 .. 11 : Periods!DaysBeforeMonth[m + 1] \in Int
      BY SMT DEF Periods!DaysBeforeMonth
    <2>. QED BY <1>3, <2>1
  <1>5. \A a, b, c \in Int : a + b + c + 1 - 1 = a + b + c
    BY SMT
  <1>6. Periods!UTC(y, j, 1) = Units * (Periods!DayFromYear(z) + Periods!DaysBeforeMonth[(j % 12) + 1]
           + (IF j % 12 > 1 /\ Periods!Leap(z) THEN 1 ELSE 0) + 1 - 1)
    BY SMT, <1>1 DEF Periods!UTC
  <1>7. (IF j % 12 > 1 /\ Periods!Leap(z) THEN 1 ELSE 0) \in Int
    BY SMT
  <1>8. MonthDay(y, j) = Periods!DayFromYear(z) + Periods!DaysBeforeMonth[(j % 12) + 1]
           + (IF j % 12 > 1 /\ Periods!Leap(z) THEN 1 ELSE 0)
    BY Zenon, <1>1 DEF MonthDay
  <1>. HIDE DEF MonthDay
  <1>. QED BY Zenon, <1>2, <1>4, <1>5, <1>6, <1>7, <1>8

\* The date of an instant is the only year and month that it is in.
LEMMA DateCorrect ==
  ASSUME NEW t \in Int, NEW y \in Int, y \notin 0 .. 99, NEW m \in 0 .. 11,
         MonthDay(y, m) <= Periods!Day(t), Periods!Day(t) < MonthDay(y, m + 1)
  PROVE  Periods!YearOf(t) = y /\ Periods!MonthOf(t) = m
  <1>1. Periods!Day(t) \in Int
    BY Days, 0 \in Int
  <1>2. Periods!YearOf(t) = y
    <2>1. Periods!DayFromYear(y) <= Periods!Day(t) /\ Periods!Day(t) < Periods!DayFromYear(y + 1)
      <3>1. /\ MonthDay(y, m) \in Int /\ MonthDay(y, m + 1) \in Int
            /\ Periods!DayFromYear(y) <= MonthDay(y, m) /\ MonthDay(y, m + 1) <= Periods!DayFromYear(y + 1)
        BY MonthOrder
      <3>2. y + 1 \in Int
        BY SMT
      <3>3. Periods!DayFromYear(y) \in Int /\ Periods!DayFromYear(y + 1) \in Int
        BY <3>2, YearLength
      <3>. QED BY SMT, <1>1, <3>1, <3>3
    <2>. QED BY <1>1, <2>1, YearOfCorrect
  <1>3. \A k \in 0 .. 11 : (Periods!UTC(y, k, 1) <= t /\ t < Periods!UTC(y, k + 1, 1)) <=>
                             (MonthDay(y, k) <= Periods!Day(t) /\ Periods!Day(t) < MonthDay(y, k + 1))
    <2>1. SUFFICES ASSUME NEW k \in 0 .. 11
                   PROVE  (Periods!UTC(y, k, 1) <= t /\ t < Periods!UTC(y, k + 1, 1)) <=>
                             (MonthDay(y, k) <= Periods!Day(t) /\ Periods!Day(t) < MonthDay(y, k + 1))
      OBVIOUS
    <2>2. k \in Int /\ k + 1 \in Int
      BY SMT
    <2>3. MonthDay(y, k) \in Int /\ MonthDay(y, k + 1) \in Int
      BY MonthOrder
    <2>. QED BY Zenon, <2>2, <2>3, UTCIs, Days
  <1>4. \A k \in 0 .. 11 : MonthDay(y, k) <= Periods!Day(t) /\ Periods!Day(t) < MonthDay(y, k + 1) => k = m
    <2>1. SUFFICES ASSUME NEW k \in 0 .. 11, MonthDay(y, k) <= Periods!Day(t), Periods!Day(t) < MonthDay(y, k + 1), k # m
                   PROVE  FALSE
      OBVIOUS
    <2>2. /\ MonthDay(y, k) \in Int /\ MonthDay(y, k + 1) \in Int
          /\ MonthDay(y, m) \in Int /\ MonthDay(y, m + 1) \in Int
      BY MonthOrder
    <2>3. MonthDay(y, m + 1) <= MonthDay(y, k) \/ MonthDay(y, k + 1) <= MonthDay(y, m)
      <3>1. k < m \/ m < k
        BY SMT, <2>1
      <3>. QED BY <3>1, MonthOrder
    <2>. QED BY SMT, <1>1, <2>1, <2>2, <2>3
  <1>5. Periods!MonthOf(t) = CHOOSE k \in 0 .. 11 : Periods!UTC(y, k, 1) <= t /\ t < Periods!UTC(y, k + 1, 1)
    BY Zenon, <1>2 DEF Periods!MonthOf
  <1>. QED BY Zenon, <1>2, <1>3, <1>4, <1>5

\* A day begins at an instant of that day.
LEMMA DayStarts ==
  ASSUME NEW d \in Int
  PROVE  Periods!Day(Units * d) = d /\ Units * d \in Int
  <1>1. 0 \in Int
    OBVIOUS
  <1>. QED BY <1>1, Days

\* Days add up, in units, in order.
LEMMA Distributes ==
  ASSUME NEW a \in Int, NEW b \in Int
  PROVE  /\ Units * (a + b) = Units * a + Units * b
         /\ a < b => Units * a < Units * b
         /\ Units * a \in Int
  <1>1. Units \in Nat \ {0}
    BY UnitsPositive
  <1>2. Units * (a + b) = Units * a + Units * b /\ Units * a \in Int
    BY SMT, <1>1
  <1>3. a < b => Units * a < Units * b
    BY SMT, <1>1
  <1>. QED BY <1>2, <1>3

\* The first instant of a month, and of the one after it, wherever it is counted from.
LEMMA MonthStart ==
  ASSUME NEW y \in Int, NEW j \in Int, y >= 200, j >= -100
  PROVE  LET s == Periods!UTC(y, j, 1) IN
         /\ s = Units * MonthDay(y, j) /\ s \in Int /\ MonthDay(y, j) \in Int
         /\ Periods!YearOf(s) = y + j \div 12 /\ Periods!MonthOf(s) = j % 12
  <1>. DEFINE s == Periods!UTC(y, j, 1)
  <1>1. PICK z \in Int, w \in 0 .. 11 : z = y + j \div 12 /\ w = j % 12
    BY MonthSplit
  <1>2. z \notin 0 .. 99 /\ y \notin 0 .. 99
    BY SMT, <1>1
  <1>3. s = Units * MonthDay(y, j)
    BY <1>2, UTCIs
  <1>4. MonthDay(y, j) = MonthDay(z, w)
    BY <1>1, MonthSplit
  <1>5. MonthDay(z, w) \in Int /\ MonthDay(z, w + 1) \in Int /\ MonthDay(z, w) + 28 <= MonthDay(z, w + 1)
    BY MonthOrder
  <1>6. s \in Int /\ Periods!Day(s) = MonthDay(z, w)
    BY <1>3, <1>4, <1>5, DayStarts
  <1>. HIDE DEF s
  <1>7. MonthDay(z, w) <= Periods!Day(s) /\ Periods!Day(s) < MonthDay(z, w + 1)
    BY SMT, <1>5, <1>6
  <1>8. Periods!YearOf(s) = z /\ Periods!MonthOf(s) = w
    BY <1>2, <1>6, <1>7, DateCorrect
  <1>. QED BY <1>1, <1>3, <1>4, <1>5, <1>6, <1>8 DEF s

\* From the first of a month to the first of the next, as monthlyBuckets writes it.
LEMMA MonthPeriod ==
  ASSUME NEW y \in Int, NEW j \in Int, y >= 200, j >= -100, NEW s, NEW e,
         s = Periods!UTC(y, j, 1), e = Periods!UTC(Periods!YearOf(s), Periods!MonthOf(s) + 1, 1)
  PROVE  /\ s \in Int /\ e \in Int /\ s < e
         /\ e = Periods!UTC(y, j + 1, 1)
         /\ s = Periods!StartOfDay(s)
         /\ s = Periods!UTC(Periods!YearOf(s), Periods!MonthOf(s), 1)
         /\ Periods!MonthOf(e - 1) = Periods!MonthOf(s)
         /\ Periods!MonthOf(e) # Periods!MonthOf(s)
  <1>1. PICK z \in Int, w \in 0 .. 11 : z = y + j \div 12 /\ w = j % 12
    BY MonthSplit
  <1>2. /\ z \notin 0 .. 99 /\ y \notin 0 .. 99
        /\ w \in Int /\ w + 1 \in Int /\ j + 1 \in Int /\ j + 1 >= -100
        /\ (j + 1) % 12 # w
    BY SMT, <1>1
  <1>3. s \in Int /\ Periods!YearOf(s) = z /\ Periods!MonthOf(s) = w /\ s = Units * MonthDay(y, j)
    BY <1>1, MonthStart
  <1>4. MonthDay(y, j) = MonthDay(z, w) /\ MonthDay(y, j + 1) = MonthDay(z, w + 1)
    BY <1>1, MonthSplit
  <1>5. MonthDay(z, w) \in Int /\ MonthDay(z, w + 1) \in Int /\ MonthDay(z, w) + 28 <= MonthDay(z, w + 1)
    BY MonthOrder
  <1>6. e = Units * MonthDay(z, w + 1) /\ s = Periods!UTC(z, w, 1)
    BY <1>2, <1>3, <1>4, UTCIs
  <1>7. e = Periods!UTC(y, j + 1, 1)
    BY <1>2, <1>4, <1>6, UTCIs
  <1>8. e \in Int /\ Periods!MonthOf(e) = (j + 1) % 12
    BY <1>2, <1>7, MonthStart
  <1>9. s < e
    <2>1. MonthDay(z, w) < MonthDay(z, w + 1)
      BY SMT, <1>5
    <2>2. Units * MonthDay(z, w) < Units * MonthDay(z, w + 1)
      BY <1>5, <2>1, Distributes
    <2>. QED BY <1>3, <1>4, <1>6, <2>2
  <1>10. Periods!MonthOf(e - 1) = w
    <2>1. e - 1 \in Int /\ s <= e - 1 /\ e - 1 < e
      BY SMT, <1>3, <1>8, <1>9
    <2>2. Units * MonthDay(z, w) <= e - 1 /\ e - 1 < Units * MonthDay(z, w + 1)
      BY <1>3, <1>4, <1>6, <2>1
    <2>3. MonthDay(z, w) <= Periods!Day(e - 1) /\ Periods!Day(e - 1) < MonthDay(z, w + 1)
      BY <1>5, <2>1, <2>2, Days
    <2>. QED BY <1>2, <2>1, <2>3, DateCorrect
  <1>11. s = Periods!StartOfDay(s)
    BY <1>3, <1>4, <1>5, DayStarts DEF Periods!StartOfDay
  <1>. QED BY <1>2, <1>3, <1>6, <1>7, <1>8, <1>9, <1>10, <1>11

\* A week starts on the Monday no more than six days ago.
LEMMA WeekStart ==
  ASSUME NEW t \in Int
  PROVE  \E d \in Int : /\ Periods!StartOfWeekUTC(t) = Units * d
                        /\ (d + 4) % 7 = 1
                        /\ d <= Periods!Day(t) /\ Periods!Day(t) < d + 7
  <1>1. PICK h \in Int : h = Periods!Day(t)
    BY Days, 0 \in Int
  <1>2. PICK w \in 0 .. 6, q \in Int : w = (h + 4) % 7 /\ h + 4 = 7 * q + w
    <2>1. /\ (h + 4) % 7 \in 0 .. 6 /\ (h + 4) \div 7 \in Int
          /\ (h + 4) % 7 = h + 4 - 7 * ((h + 4) \div 7)
      BY SMT
    <2>. QED BY SMT, <2>1
  <1>3. PICK o \in Int : o = IF w = 0 THEN -6 ELSE 1 - w
    BY SMT
  <1>4. Periods!StartOfWeekUTC(t) = Units * h + Units * o
    BY <1>1, <1>2, <1>3 DEF Periods!StartOfWeekUTC, Periods!PlusDays, Periods!StartOfDay, Periods!WeekDay
  <1>5. h + o \in Int /\ h + o <= h /\ h < h + o + 7
    BY SMT, <1>3
  <1>6. (h + o + 4) % 7 = 1
    <2>1. h + o + 4 = 7 * q + 1 \/ h + o + 4 = 7 * (q - 1) + 1
      BY SMT, <1>2, <1>3
    <2>. QED BY SMT, <2>1
  <1>7. Periods!StartOfWeekUTC(t) = Units * (h + o)
    BY <1>4, Distributes
  <1>. QED BY <1>1, <1>5, <1>6, <1>7

-----------------------------------------------------------------------------
(* Reports *)

\* Periods!Buckets that follow each other up to the one that holds the anchor.
Tile(b, n, anchor) ==
  /\ Len(b) = n
  /\ \A k \in 1 .. Len(b) : b[k].start \in Int /\ b[k].end \in Int /\ b[k].start < b[k].end
  /\ \A k \in 1 .. Len(b) - 1 : b[k].end = b[k + 1].start
  /\ b[Len(b)].start <= anchor /\ anchor < b[Len(b)].end

\* The end of one bucket is the start of the next if both are looked up in f.
LEMMA TilesIf ==
  ASSUME NEW n \in 1 .. 90, NEW f, NEW anchor, NEW b,
         b = [k \in 1 .. n |-> [start |-> f[k], end |-> f[k + 1]]],
         \A k \in 1 .. n : f[k] \in Int /\ f[k + 1] \in Int /\ f[k] < f[k + 1],
         f[n] <= anchor, anchor < f[n + 1]
  PROVE  Tile(b, n, anchor)
  <1>1. Len(b) = n /\ n \in 1 .. n /\ \A k \in 1 .. n - 1 : k \in 1 .. n /\ k + 1 \in 1 .. n
    OBVIOUS
  <1>2. \A k \in 1 .. n : b[k].start = f[k] /\ b[k].end = f[k + 1]
    OBVIOUS
  <1>. QED BY <1>1, <1>2 DEF Tile

\* A day, the days from a Monday to the next, or those of a month.
WholePeriod(granularity, s, e) ==
  /\ s = Periods!StartOfDay(s)
  /\ CASE granularity = "daily"  -> e = s + Units
       [] granularity = "weekly" -> Periods!WeekDay(s) = 1 /\ e = s + 7 * Units
       [] granularity = "monthly" ->
            /\ s = Periods!UTC(Periods!YearOf(s), Periods!MonthOf(s), 1)
            /\ Periods!MonthOf(e - 1) = Periods!MonthOf(s)
            /\ Periods!MonthOf(e) # Periods!MonthOf(s)

\* Buckets of days tile and are days.
LEMMA DailyBucketsTile ==
  ASSUME NEW a \in Int, NEW n \in 1 .. 90, NEW b, b = Periods!DailyBuckets(a, n)
  PROVE  Tile(b, n, a) /\ \A k \in 1 .. n : WholePeriod("daily", b[k].start, b[k].end)
  <1>1. PICK d \in Int : d = Periods!Day(a) /\ Units * d <= a /\ a < Units * (d + 1)
    <2>1. Periods!Day(a) \in Int
      BY DayStarts, Days
    <2>2. Periods!Day(a) + 1 \in Int /\ Periods!Day(a) <= Periods!Day(a) /\ Periods!Day(a) < Periods!Day(a) + 1
      BY SMT, <2>1
    <2>. QED BY <2>1, <2>2, Days
  <1>. DEFINE f == [k \in 1 .. n + 1 |-> Units * (d + (k - n))]
  <1>2. \A k \in 1 .. n : /\ f[k] = Units * (d + (k - n)) /\ f[k + 1] = f[k] + Units * 1 /\ f[k] < f[k + 1]
                          /\ f[k] \in Int /\ f[k + 1] \in Int /\ Units * 1 = Units
                          /\ f[k] = Units * d + Units * (k - n)
                          /\ k \in 1 .. n + 1 /\ k + 1 \in 1 .. n + 1
    <2>1. SUFFICES ASSUME NEW k \in 1 .. n
                   PROVE  /\ f[k] = Units * (d + (k - n)) /\ f[k + 1] = f[k] + Units * 1 /\ f[k] < f[k + 1]
                          /\ f[k] \in Int /\ f[k + 1] \in Int /\ Units * 1 = Units
                          /\ f[k] = Units * d + Units * (k - n)
                          /\ k \in 1 .. n + 1 /\ k + 1 \in 1 .. n + 1
      OBVIOUS
    <2>2. /\ k \in 1 .. n + 1 /\ k + 1 \in 1 .. n + 1 /\ k - n \in Int
          /\ d + (k - n) \in Int /\ d + (k + 1 - n) = d + (k - n) + 1 /\ d + (k - n) < d + (k - n) + 1
      BY SMT
    <2>3. f[k] = Units * (d + (k - n)) /\ f[k + 1] = Units * (d + (k - n) + 1)
      BY <2>2
    <2>4. Units * 1 = Units
      BY SMT, UnitsPositive
    <2>. HIDE DEF f
    <2>. QED BY <2>2, <2>3, <2>4, Distributes
  <1>3. b = [k \in 1 .. n |-> [start |-> f[k], end |-> f[k + 1]]]
    <2>1. \A k \in 1 .. n : Periods!PlusDays(Periods!StartOfDay(a), k - n) = f[k] /\ Periods!PlusDays(f[k], 1) = f[k + 1]
      BY <1>1, <1>2 DEF Periods!PlusDays, Periods!StartOfDay
    <2>. HIDE DEF f
    <2>. QED BY <2>1 DEF Periods!DailyBuckets
  <1>4. f[n] <= a /\ a < f[n + 1]
    <2>1. n \in 1 .. n + 1 /\ n + 1 \in 1 .. n + 1 /\ d + (n - n) = d /\ d + (n + 1 - n) = d + 1
      BY SMT
    <2>. QED BY <1>1, <2>1
  <1>5. ASSUME NEW k \in 1 .. n PROVE WholePeriod("daily", f[k], f[k + 1])
    <2>1. d + (k - n) \in Int
      BY SMT
    <2>2. Periods!StartOfDay(f[k]) = f[k]
      BY <1>2, <2>1, DayStarts DEF Periods!StartOfDay
    <2>. QED BY <1>2, <2>2 DEF WholePeriod
  <1>. HIDE DEF f
  <1>6. Tile(b, n, a)
    BY <1>2, <1>3, <1>4, TilesIf
  <1>7. \A k \in 1 .. n : b[k].start = f[k] /\ b[k].end = f[k + 1]
    BY <1>3
  <1>. QED BY <1>5, <1>6, <1>7

\* Buckets of weeks tile and are weeks.
LEMMA WeeklyBucketsTile ==
  ASSUME NEW a \in Int, NEW n \in 1 .. 90, NEW b, b = Periods!WeeklyBuckets(a, n)
  PROVE  Tile(b, n, a) /\ \A k \in 1 .. n : WholePeriod("weekly", b[k].start, b[k].end)
  <1>1. PICK d \in Int : /\ Periods!StartOfWeekUTC(a) = Units * d /\ (d + 4) % 7 = 1
                         /\ Units * d <= a /\ a < Units * (d + 7)
    <2>1. PICK d \in Int : /\ Periods!StartOfWeekUTC(a) = Units * d /\ (d + 4) % 7 = 1
                           /\ d <= Periods!Day(a) /\ Periods!Day(a) < d + 7
      BY WeekStart
    <2>2. d + 7 \in Int
      BY SMT
    <2>. QED BY <2>1, <2>2, Days
  <1>. DEFINE f == [k \in 1 .. n + 1 |-> Units * (d + 7 * (k - n))]
  <1>2. ASSUME NEW k \in 1 .. n
        PROVE  /\ f[k] = Units * (d + 7 * (k - n)) /\ f[k + 1] = f[k] + Units * 7 /\ f[k] < f[k + 1]
               /\ f[k] \in Int /\ f[k + 1] \in Int
               /\ f[k] = Units * d + Units * (7 * (k - n))
               /\ k \in 1 .. n + 1 /\ k + 1 \in 1 .. n + 1
    <2>1. /\ k \in 1 .. n + 1 /\ k + 1 \in 1 .. n + 1 /\ 7 * (k - n) \in Int
          /\ d + 7 * (k - n) \in Int /\ d + 7 * (k + 1 - n) = d + 7 * (k - n) + 7
          /\ d + 7 * (k - n) < d + 7 * (k - n) + 7 /\ d + 7 * (k - n) + 7 \in Int
      BY SMT
    <2>2. f[k] = Units * (d + 7 * (k - n)) /\ f[k + 1] = Units * (d + 7 * (k - n) + 7)
      BY <2>1
    <2>. HIDE DEF f
    <2>3. f[k] < f[k + 1]
      BY <2>1, <2>2, Distributes
    <2>4. f[k + 1] = f[k] + Units * 7
      <3>1. 7 \in Int
        OBVIOUS
      <3>. QED BY <2>1, <2>2, <3>1, Distributes
    <2>. QED BY <2>1, <2>2, <2>3, <2>4, Distributes
  <1>3. b = [k \in 1 .. n |-> [start |-> f[k], end |-> f[k + 1]]]
    <2>1. \A k \in 1 .. n : Periods!PlusDays(Periods!StartOfWeekUTC(a), 7 * (k - n)) = f[k] /\ Periods!EndOfWeekUTC(f[k]) = f[k + 1]
      BY <1>1, <1>2 DEF Periods!PlusDays, Periods!EndOfWeekUTC
    <2>. HIDE DEF f
    <2>. QED BY <2>1 DEF Periods!WeeklyBuckets
  <1>4. f[n] <= a /\ a < f[n + 1]
    <2>1. n \in 1 .. n + 1 /\ n + 1 \in 1 .. n + 1 /\ d + 7 * (n - n) = d /\ d + 7 * (n + 1 - n) = d + 7
      BY SMT
    <2>. QED BY <1>1, <2>1
  <1>5. ASSUME NEW k \in 1 .. n PROVE WholePeriod("weekly", f[k], f[k + 1])
    <2>1. d + 7 * (k - n) \in Int /\ (d + 7 * (k - n) + 4) % 7 = 1
      BY SMT, <1>1
    <2>2. Periods!StartOfDay(f[k]) = f[k] /\ Periods!WeekDay(f[k]) = 1
      BY <1>2, <2>1, DayStarts DEF Periods!StartOfDay, Periods!WeekDay
    <2>3. Units * 7 = 7 * Units
      BY SMT, UnitsPositive
    <2>. QED BY <1>2, <2>2, <2>3 DEF WholePeriod
  <1>. HIDE DEF f
  <1>6. Tile(b, n, a)
    BY <1>2, <1>3, <1>4, TilesIf
  <1>7. \A k \in 1 .. n : b[k].start = f[k] /\ b[k].end = f[k + 1]
    BY <1>3
  <1>. QED BY <1>5, <1>6, <1>7

\* Buckets of months tile and are months.
LEMMA MonthlyBucketsTile ==
  ASSUME NEW a \in Int, NEW n \in 1 .. 90, NEW b, b = Periods!MonthlyBuckets(a, n),
         NEW y \in Int, y >= 200, NEW m \in 0 .. 11, MonthDay(y, m) <= Periods!Day(a), Periods!Day(a) < MonthDay(y, m + 1)
  PROVE  Tile(b, n, a) /\ \A k \in 1 .. n : WholePeriod("monthly", b[k].start, b[k].end)
  <1>1. Periods!YearOf(a) = y /\ Periods!MonthOf(a) = m
    <2>1. y \notin 0 .. 99
      BY SMT
    <2>. QED BY <2>1, DateCorrect
  <1>. DEFINE f == [k \in 1 .. n + 1 |-> Periods!UTC(y, m + k - n, 1)]
  <1>2. ASSUME NEW k \in 1 .. n
        PROVE  /\ f[k] = Periods!UTC(y, m + k - n, 1)
               /\ f[k + 1] = Periods!UTC(Periods!YearOf(f[k]), Periods!MonthOf(f[k]) + 1, 1)
               /\ f[k] \in Int /\ f[k + 1] \in Int /\ f[k] < f[k + 1]
               /\ WholePeriod("monthly", f[k], f[k + 1])
    <2>1. /\ k \in 1 .. n + 1 /\ k + 1 \in 1 .. n + 1
          /\ m + k - n \in Int /\ m + k - n >= -100 /\ m + (k + 1) - n = m + k - n + 1
      BY SMT
    <2>2. f[k] = Periods!UTC(y, m + k - n, 1) /\ f[k + 1] = Periods!UTC(y, m + k - n + 1, 1)
      BY <2>1
    <2>. HIDE DEF f
    <2>3. PICK e : e = Periods!UTC(Periods!YearOf(f[k]), Periods!MonthOf(f[k]) + 1, 1)
      OBVIOUS
    <2>4. /\ f[k] \in Int /\ e \in Int /\ f[k] < e /\ e = Periods!UTC(y, m + k - n + 1, 1) /\ f[k] = Periods!StartOfDay(f[k])
          /\ f[k] = Periods!UTC(Periods!YearOf(f[k]), Periods!MonthOf(f[k]), 1)
          /\ Periods!MonthOf(e - 1) = Periods!MonthOf(f[k]) /\ Periods!MonthOf(e) # Periods!MonthOf(f[k])
      BY <2>1, <2>2, <2>3, MonthPeriod
    <2>. QED BY <2>2, <2>3, <2>4 DEF WholePeriod
  <1>3. b = [k \in 1 .. n |-> [start |-> f[k], end |-> f[k + 1]]]
    <2>. HIDE DEF f
    <2>. QED BY <1>1, <1>2 DEF Periods!MonthlyBuckets
  <1>4. f[n] <= a /\ a < f[n + 1]
    <2>1. /\ n \in 1 .. n + 1 /\ n + 1 \in 1 .. n + 1 /\ m + n - n = m /\ m + (n + 1) - n = m + 1
          /\ y \notin 0 .. 99 /\ m \in Int /\ m + 1 \in Int
      BY SMT
    <2>2. f[n] = Units * MonthDay(y, m) /\ f[n + 1] = Units * MonthDay(y, m + 1)
      BY <2>1, UTCIs
    <2>3. MonthDay(y, m) \in Int /\ MonthDay(y, m + 1) \in Int
      BY MonthOrder
    <2>. QED BY <2>2, <2>3, Days
  <1>. HIDE DEF f
  <1>6. Tile(b, n, a)
    BY <1>2, <1>3, <1>4, TilesIf
  <1>7. \A k \in 1 .. n : b[k].start = f[k] /\ b[k].end = f[k + 1]
    BY <1>3
  <1>. QED BY <1>2, <1>6, <1>7

\* The month of an instant after 1970.
LEMMA MonthOfPresent ==
  ASSUME NEW a \in Int, a >= 0
  PROVE  \E y \in Int, m \in 0 .. 11 :
           y >= 200 /\ MonthDay(y, m) <= Periods!Day(a) /\ Periods!Day(a) < MonthDay(y, m + 1)
  <1>1. Periods!Day(a) \in Int /\ Periods!Day(a) >= 0
    <2>1. 0 \in Int /\ Units * 0 = 0
      BY SMT, UnitsPositive
    <2>. QED BY <2>1, Days
  <1>2. PICK y \in Int, m \in 0 .. 11 : MonthDay(y, m) <= Periods!Day(a) /\ Periods!Day(a) < MonthDay(y, m + 1)
    BY <1>1, MonthExists
  <1>3. Periods!DayFromYear(y + 1) > 0
    <2>1. MonthDay(y, m + 1) \in Int /\ MonthDay(y, m + 1) <= Periods!DayFromYear(y + 1)
      BY MonthOrder
    <2>2. Periods!DayFromYear(y + 1) \in Int
      <3>1. y + 1 \in Int
        OBVIOUS
      <3>. QED BY <3>1, YearLength
    <2>. QED BY SMT, <1>1, <1>2, <2>1, <2>2
  <1>4. y >= 1970
    <2>1. y + 1 \in Int /\ (y + 1 <= 1970 => 365 * (y + 1 - 1970) <= 0)
      BY SMT
    <2>2. y + 1 <= 1970 => Periods!DayFromYear(y + 1) <= 365 * (y + 1 - 1970)
      BY <2>1, YearBounds
    <2>3. Periods!DayFromYear(y + 1) \in Int
      BY <2>1, YearLength
    <2>. QED BY SMT, <1>3, <2>1, <2>2, <2>3
  <1>5. y >= 200
    BY SMT, <1>4
  <1>. QED BY <1>2, <1>5

\* Buckets of any granularity, anchored in a month.
LEMMA AnyBucketsTile ==
  ASSUME NEW a \in Int, NEW n \in 1 .. 90, NEW g \in Periods!Granularities, NEW b, b = Periods!Buckets(g, a, n),
         \E y \in Int, m \in 0 .. 11 :
           y >= 200 /\ MonthDay(y, m) <= Periods!Day(a) /\ Periods!Day(a) < MonthDay(y, m + 1)
  PROVE  Tile(b, n, a) /\ \A k \in 1 .. n : WholePeriod(g, b[k].start, b[k].end)
  <1>1. CASE g = "daily"
    <2>1. b = Periods!DailyBuckets(a, n)
      BY <1>1 DEF Periods!Buckets
    <2>. QED BY <1>1, <2>1, DailyBucketsTile
  <1>2. CASE g = "weekly"
    <2>1. b = Periods!WeeklyBuckets(a, n)
      BY <1>2 DEF Periods!Buckets
    <2>. QED BY <1>2, <2>1, WeeklyBucketsTile
  <1>3. CASE g = "monthly"
    <2>1. b = Periods!MonthlyBuckets(a, n)
      BY <1>3 DEF Periods!Buckets
    <2>. QED BY <1>3, <2>1, MonthlyBucketsTile
  <1>. QED BY <1>1, <1>2, <1>3 DEF Periods!Granularities

-----------------------------------------------------------------------------
(* Reports while time passes *)

\* The last report is about a moment since 1970, or about a month of a year that
\* is not written with two digits.
CalendarOK ==
  /\ now \in Int /\ now >= 0
  /\ \E g \in Periods!Granularities, n \in 1 .. MaxCount, month \in Months \cup {Periods!NoMonth}, a \in Int :
       /\ asked = Periods!Report(g, n, month, a, Periods!Buckets(g, a, n))
       /\ \/ month = Periods!NoMonth /\ a >= 0
          \/ month \in Months /\ Periods!ValidMonth(month) /\ a = Periods!ParseYearMonth(month) /\ g = "monthly"

LEMMA CalendarStarts ==
  ASSUME Periods!Init
  PROVE  CalendarOK
  <1>1. now \in Int /\ now >= 0
    <2>1. FirstDay \in Nat
      BY CalendarAssumption DEF CalendarAssumption
    <2>2. now = Units * FirstDay
      BY DEF Periods!Init
    <2>. QED BY SMT, <2>1, <2>2, UnitsPositive
  <1>2. /\ "daily" \in Periods!Granularities /\ 1 \in 1 .. MaxCount
        /\ Periods!Buckets("daily", now, 1) = Periods!DailyBuckets(now, 1)
    BY CalendarAssumption DEF CalendarAssumption, Periods!Granularities, Periods!Buckets
  <1>3. asked = Periods!Report("daily", 1, Periods!NoMonth, now, Periods!Buckets("daily", now, 1))
    BY <1>2 DEF Periods!Init
  <1>. QED BY <1>1, <1>2, <1>3 DEF CalendarOK

\* A month that is asked about is anchored at its first instant.
LEMMA MonthAnchor ==
  ASSUME NEW x \in Months, Periods!ValidMonth(x), NEW a, a = Periods!ParseYearMonth(x)
  PROVE  /\ a \in Int /\ x.y \in Int /\ x.y >= 200 /\ x.m - 1 \in 0 .. 11
         /\ Periods!YearOf(a) = x.y /\ Periods!MonthOf(a) = x.m - 1
         /\ MonthDay(x.y, x.m - 1) <= Periods!Day(a) /\ Periods!Day(a) < MonthDay(x.y, x.m - 1 + 1)
  <1>1. /\ x.y \in Int /\ x.y >= 200 /\ x.m \in 1 .. 12
    BY CalendarAssumption DEF CalendarAssumption, Periods!ValidMonth
  <1>2. PICK y \in Int, j \in 0 .. 11 : y = x.y /\ j = x.m - 1
    BY SMT, <1>1
  <1>3. j \in Int /\ j >= -100 /\ y + j \div 12 = y /\ j % 12 = j /\ y >= 200
    BY SMT, <1>1, <1>2
  <1>4. a = Periods!UTC(y, j, 1)
    BY <1>2 DEF Periods!ParseYearMonth
  <1>5. /\ a = Units * MonthDay(y, j) /\ a \in Int
        /\ Periods!YearOf(a) = y /\ Periods!MonthOf(a) = j
    BY <1>3, <1>4, MonthStart
  <1>6. MonthDay(y, j) \in Int /\ MonthDay(y, j + 1) \in Int /\ MonthDay(y, j) + 28 <= MonthDay(y, j + 1)
    BY MonthOrder
  <1>7. Periods!Day(a) = MonthDay(y, j)
    BY <1>5, <1>6, DayStarts
  <1>8. MonthDay(y, j) <= Periods!Day(a) /\ Periods!Day(a) < MonthDay(y, j + 1)
    BY SMT, <1>6, <1>7
  <1>. QED BY <1>1, <1>2, <1>3, <1>5, <1>8

LEMMA CalendarKept ==
  ASSUME CalendarOK, Periods!Next \/ UNCHANGED <<now, asked>>
  PROVE  CalendarOK'
  <1>1. CASE Periods!Tick
    <2>1. now' \in Int /\ now' >= 0 /\ asked' = asked
      BY <1>1 DEF Periods!Tick, CalendarOK
    <2>. QED BY <2>1 DEF CalendarOK
  <1>2. ASSUME NEW n \in 1 .. MaxCount, NEW g \in Periods!Granularities, Periods!Ask(g, n)
        PROVE  CalendarOK'
    BY <1>2 DEF Periods!Ask, CalendarOK
  <1>3. ASSUME NEW n \in 1 .. MaxCount, NEW x \in Months, Periods!AskMonth(x, n)
        PROVE  CalendarOK'
    <2>1. PICK a : a = Periods!ParseYearMonth(x)
      OBVIOUS
    <2>2. /\ Periods!ValidMonth(x) /\ now' = now
          /\ asked' = Periods!Report("monthly", n, x, a, Periods!MonthlyBuckets(a, n))
      BY <1>3, <2>1 DEF Periods!AskMonth
    <2>3. /\ "monthly" \in Periods!Granularities
          /\ Periods!Buckets("monthly", a, n) = Periods!MonthlyBuckets(a, n)
      BY DEF Periods!Granularities, Periods!Buckets
    <2>4. a \in Int
      BY <2>1, <2>2, MonthAnchor
    <2>. QED BY <2>1, <2>2, <2>3, <2>4 DEF CalendarOK
  <1>4. CASE UNCHANGED <<now, asked>>
    BY <1>4 DEF CalendarOK
  <1>. QED BY <1>1, <1>2, <1>3, <1>4 DEF Periods!Next

LEMMA CalendarTiles ==
  ASSUME CalendarOK
  PROVE  Periods!BucketsTile /\ Periods!BucketsAreWholePeriods /\ Periods!MonthParsedIsMonthAsked
  <1>1. PICK g \in Periods!Granularities, n \in 1 .. MaxCount, month \in Months \cup {Periods!NoMonth}, a \in Int :
          /\ asked = Periods!Report(g, n, month, a, Periods!Buckets(g, a, n))
          /\ \/ month = Periods!NoMonth /\ a >= 0
             \/ month \in Months /\ Periods!ValidMonth(month) /\ a = Periods!ParseYearMonth(month) /\ g = "monthly"
    BY DEF CalendarOK
  <1>2. PICK b : b = Periods!Buckets(g, a, n)
    OBVIOUS
  <1>3. /\ asked.granularity = g /\ asked.n = n /\ asked.month = month
        /\ asked.anchor = a /\ asked.buckets = b
    BY <1>1, <1>2 DEF Periods!Report
  <1>4. n \in 1 .. 90
    BY SMT, CalendarAssumption DEF CalendarAssumption
  <1>5. PICK y \in Int, m \in 0 .. 11 :
          y >= 200 /\ MonthDay(y, m) <= Periods!Day(a) /\ Periods!Day(a) < MonthDay(y, m + 1)
    <2>1. CASE month \in Months /\ Periods!ValidMonth(month) /\ a = Periods!ParseYearMonth(month)
      BY <2>1, MonthAnchor
    <2>2. CASE a >= 0
      BY <2>2, MonthOfPresent
    <2>. QED BY <1>1, <2>1, <2>2
  <1>6. Tile(b, n, a) /\ \A k \in 1 .. n : WholePeriod(g, b[k].start, b[k].end)
    BY <1>2, <1>4, <1>5, AnyBucketsTile
  <1>7. Periods!BucketsTile
    BY <1>3, <1>6 DEF Periods!BucketsTile, Tile
  <1>8. Periods!BucketsAreWholePeriods
    BY <1>3, <1>6 DEF Periods!BucketsAreWholePeriods, WholePeriod, Tile
  <1>9. Periods!MonthParsedIsMonthAsked
    BY <1>1, <1>3, MonthAnchor DEF Periods!MonthParsedIsMonthAsked
  <1>. QED BY <1>7, <1>8, <1>9

\* Whatever the present is and whichever month is asked about, the buckets of a
\* report are whole days, weeks or months that follow each other up to the one that
\* holds its anchor: over ends of months and years, leap days and centuries.
THEOREM CalendarCorrect ==
  Periods!Spec => [](Periods!BucketsTile /\ Periods!BucketsAreWholePeriods /\ Periods!MonthParsedIsMonthAsked)
  <1>1. CalendarOK /\ [Periods!Next]_Periods!vars => CalendarOK'
    BY CalendarKept DEF Periods!vars
  <1>. QED BY <1>1, CalendarStarts, CalendarTiles, PTL DEF Periods!Spec

\* The same of the checked part that is about periods.
THEOREM PeriodsTileCorrect == PartsSpec => []PeriodsTile
  <1>. DEFINE CInv == part = "periods" => CalendarOK
  <1>1. PartsInit => CInv
    BY CalendarStarts DEF PartsInit
  <1>2. CInv /\ [PartsNext]_<<vars, views, asked, part>> => CInv'
    BY CalendarKept DEF PartsNext, views
  <1>3. CInv => PeriodsTile
    BY CalendarTiles DEF PeriodsTile
  <1>. QED BY <1>1, <1>2, <1>3, PTL DEF PartsSpec

-----------------------------------------------------------------------------
(* Sums.  What MapThenSumSet adds up by choosing one element after the other *)
(* does not depend on the choice: by the least counterexample, a set of      *)
(* subsets of a finite set being well-founded.                               *)

\* The function that MapThenSumSet defines to add up v over the subsets of S.
Element(s) == CHOOSE x \in s : TRUE
Summed(it, v, S) == it = [s \in SUBSET S |-> IF s = {} THEN 0 ELSE v[Element(s)] + it[s \ {Element(s)}]]

\* Of some subsets of a finite set one is smallest.
LEMMA SmallestSubset ==
  ASSUME NEW S, IsFiniteSet(S), NEW P, P \subseteq SUBSET S, P # {}
  PROVE  \E s \in P : \A t \in P : t \subseteq s => t = s
<1>1. \A s \in P : IsFiniteSet(s) /\ Cardinality(s) \in Nat
  BY FS_Subset, FS_CardinalityType
<1> DEFINE N == {Cardinality(s) : s \in P}
<1>2. N \subseteq Nat /\ N # {}
  BY <1>1
<1> HIDE DEF N
<1>3. PICK n \in N : \A m \in N : ~(<<m, n>> \in OpToRel(<, Nat))
  BY <1>2, WFMin, NatLessThanWellFounded, Zenon
<1> USE DEF N
<1>4. PICK s \in P : n = Cardinality(s)
  OBVIOUS
<1>5. ASSUME NEW t \in P, t \subseteq s PROVE t = s
  <2>1. Cardinality(t) <= Cardinality(s) /\ (Cardinality(s) = Cardinality(t) => s = t)
    BY <1>1, <1>5, FS_Subset
  <2>2. Cardinality(t) \in N /\ Cardinality(t) \in Nat /\ n \in Nat
    BY <1>1, <1>4
  <2>3. ~(<<Cardinality(t), n>> \in OpToRel(<, Nat))
    BY <1>3, <2>2
  <2>4. ~(Cardinality(t) < n)
    BY <2>2, <2>3 DEF OpToRel
  <2> QED
    BY <1>4, <2>1, <2>2, <2>4
<1> QED
  BY <1>5

\* One of the elements of a set that has some.
LEMMA ElementOf == \A s : s # {} => Element(s) \in s
BY DEF Element

\* A sum depends on the values of what is added up, and on nothing else.
LEMMA SumCongruent ==
  ASSUME NEW S, NEW T, NEW v, NEW w, NEW it, NEW jt, Summed(it, v, S), Summed(jt, w, T),
         NEW s, s \subseteq S, s \subseteq T, IsFiniteSet(s), \A x \in s : v[x] = w[x]
  PROVE  it[s] = jt[s]
<1> DEFINE P == {t \in SUBSET s : it[t] # jt[t]}
<1>1. ASSUME P # {} PROVE FALSE
  <2>1. P \subseteq SUBSET s
    OBVIOUS
  <2> HIDE DEF P
  <2>2. PICK t \in P : \A u \in P : u \subseteq t => u = t
    BY <1>1, <2>1, SmallestSubset
  <2> USE DEF P
  <2>3. t \in SUBSET S /\ t \in SUBSET T /\ t \subseteq s /\ it[t] # jt[t]
    OBVIOUS
  <2>4. /\ it[t] = IF t = {} THEN 0 ELSE v[Element(t)] + it[t \ {Element(t)}]
        /\ jt[t] = IF t = {} THEN 0 ELSE w[Element(t)] + jt[t \ {Element(t)}]
    BY <2>3 DEF Summed
  <2>5. t # {}
    BY <2>3, <2>4
  <2>6. Element(t) \in t
    BY <2>5, ElementOf
  <2>7. t \ {Element(t)} \notin P
    BY <2>2, <2>6
  <2>8. it[t \ {Element(t)}] = jt[t \ {Element(t)}]
    BY <2>3, <2>7
  <2>9. v[Element(t)] = w[Element(t)]
    BY <2>3, <2>6
  <2> QED
    BY <2>3, <2>4, <2>8, <2>9
<1> QED
  BY <1>1

\* There is such a function for every finite set.
LEMMA SumExists ==
  ASSUME NEW S, IsFiniteSet(S), NEW v
  PROVE  \E it : Summed(it, v, S)
<1> DEFINE P == {T \in SUBSET S : ~\E it : Summed(it, v, T)}
<1>1. ASSUME P # {} PROVE FALSE
  <2>1. P \subseteq SUBSET S
    OBVIOUS
  <2> HIDE DEF P
  <2>2. PICK T \in P : \A U \in P : U \subseteq T => U = T
    BY <1>1, <2>1, SmallestSubset
  <2> USE DEF P
  <2>3. ASSUME NEW U \in SUBSET T, U # T PROVE \E it : Summed(it, v, U)
    BY <2>2, <2>3
  <2> DEFINE Of(s) == CHOOSE n : \E it : Summed(it, v, s) /\ n = it[s]
             F(s) == IF s = {} THEN 0 ELSE v[Element(s)] + Of(s \ {Element(s)})
  <2>a. PICK ft : ft = [s \in SUBSET T |-> F(s)]
    OBVIOUS
  <2>b. \A s \in SUBSET T : ft[s] = F(s)
    BY <2>a
  <2>4. ASSUME NEW U \in SUBSET T, U # T, NEW s \in SUBSET U, NEW it, Summed(it, v, U)
        PROVE  it[s] = Of(s)
    <3>1. IsFiniteSet(s)
      BY FS_Subset
    <3>2. \E jt : Summed(jt, v, s)
      BY <2>3, <2>4
    <3>3. \A jt : Summed(jt, v, s) => jt[s] = it[s]
      BY <2>4, <3>1, SumCongruent
    <3> QED
      BY <3>2, <3>3
  <2>5. ASSUME NEW s \in SUBSET T, s # T PROVE ft[s] = Of(s)
    <3>1. PICK it : Summed(it, v, s)
      BY <2>3, <2>5
    <3>2. it[s] = Of(s)
      BY <2>4, <2>5, <3>1
    <3>3. it[s] = IF s = {} THEN 0 ELSE v[Element(s)] + it[s \ {Element(s)}]
      BY <3>1 DEF Summed
    <3>4. s # {} => it[s \ {Element(s)}] = Of(s \ {Element(s)})
      BY <2>4, <2>5, <3>1
    <3> QED
      BY <2>b, <3>2, <3>3, <3>4
  <2>6. ASSUME NEW s \in SUBSET T
        PROVE  ft[s] = IF s = {} THEN 0 ELSE v[Element(s)] + ft[s \ {Element(s)}]
    <3>1. CASE s = {}
      BY <2>b, <3>1
    <3>2. CASE s # {}
      <4>1. Element(s) \in s
        BY <3>2, ElementOf
      <4>2. s \ {Element(s)} \in SUBSET T /\ s \ {Element(s)} # T
        BY <4>1
      <4>3. ft[s \ {Element(s)}] = Of(s \ {Element(s)})
        BY <2>5, <4>2
      <4>4. ft[s] = v[Element(s)] + Of(s \ {Element(s)})
        BY <2>b, <3>2
      <4> HIDE DEF Of
      <4> QED
        BY <3>2, <4>3, <4>4
    <3> QED
      BY <3>1, <3>2
  <2> HIDE DEF Of, F
  <2>7. ft = [s \in SUBSET T |-> IF s = {} THEN 0 ELSE v[Element(s)] + ft[s \ {Element(s)}]]
    BY <2>a, <2>6
  <2>8. Summed(ft, v, T)
    BY <2>7 DEF Summed
  <2> QED
    BY <2>2, <2>8
<1> QED
  BY <1>1

\* What is added up may be taken out in any order.
LEMMA SumRemoves ==
  ASSUME NEW S, IsFiniteSet(S), NEW v, \A x \in S : v[x] \in Nat, NEW it, Summed(it, v, S)
  PROVE  \A s \in SUBSET S : it[s] \in Nat /\ \A x \in s : it[s] = v[x] + it[s \ {x}]
<1>0. ASSUME NEW s \in SUBSET S
      PROVE  /\ s = {} => it[s] = 0
             /\ s # {} => it[s] = v[Element(s)] + it[s \ {Element(s)}] /\ Element(s) \in s
  BY <1>0, ElementOf DEF Summed
<1>1. \A s \in SUBSET S : it[s] \in Nat
  <2> DEFINE P == {s \in SUBSET S : it[s] \notin Nat}
  <2>1. ASSUME P # {} PROVE FALSE
    <3>1. P \subseteq SUBSET S
      OBVIOUS
    <3> HIDE DEF P
    <3>2. PICK s \in P : \A u \in P : u \subseteq s => u = s
      BY <2>1, <3>1, SmallestSubset
    <3> USE DEF P
    <3>3. s # {} /\ Element(s) \in s /\ it[s] = v[Element(s)] + it[s \ {Element(s)}]
      <4>1. s \in SUBSET S /\ it[s] \notin Nat
        BY <3>2
      <4>2. s # {}
        BY <1>0, <4>1
      <4> QED
        BY <1>0, <4>1, <4>2
    <3>4. s \ {Element(s)} \notin P
      BY <3>2, <3>3
    <3>5. it[s \ {Element(s)}] \in Nat /\ v[Element(s)] \in Nat
      BY <3>2, <3>3, <3>4
    <3> QED
      BY <3>2, <3>3, <3>5
  <2> QED
    BY <2>1
<1>2. \A s \in SUBSET S : \A x \in s : it[s] = v[x] + it[s \ {x}]
  <2> DEFINE P == {s \in SUBSET S : \E x \in s : it[s] # v[x] + it[s \ {x}]}
  <2>1. ASSUME P # {} PROVE FALSE
    <3>1. P \subseteq SUBSET S
      OBVIOUS
    <3> HIDE DEF P
    <3>2. PICK s \in P : \A u \in P : u \subseteq s => u = s
      BY <2>1, <3>1, SmallestSubset
    <3> USE DEF P
    <3>3. PICK x \in s : it[s] # v[x] + it[s \ {x}]
      BY <3>2
    <3>4. PICK c \in s : c = Element(s) /\ it[s] = v[c] + it[s \ {c}]
      BY <1>0, <3>2, <3>3
    <3>5. c # x
      BY <3>3, <3>4
    <3>6. s \ {c} \notin P /\ s \ {x} \notin P
      BY <3>2
    <3>7. s \ {c} \in SUBSET S /\ s \ {x} \in SUBSET S /\ x \in s \ {c} /\ c \in s \ {x}
      BY <3>2, <3>5
    <3>8. /\ it[s \ {c}] = v[x] + it[(s \ {c}) \ {x}]
          /\ it[s \ {x}] = v[c] + it[(s \ {x}) \ {c}]
      BY <3>6, <3>7
    <3>9. PICK u \in SUBSET S : u = (s \ {c}) \ {x} /\ u = (s \ {x}) \ {c}
      BY <3>2
    <3>10. it[u] \in Nat /\ v[x] \in Nat /\ v[c] \in Nat
      BY <1>1, <3>2
    <3>11. it[s] = v[c] + (v[x] + it[u]) /\ it[s \ {x}] = v[c] + it[u]
      BY <3>4, <3>8, <3>9
    <3> QED
      BY <3>3, <3>10, <3>11
  <2> QED
    BY <2>1
<1> QED
  BY <1>1, <1>2

\* The sum of v over S, and its laws.
Sum(v, S) == CHOOSE n : \E it : Summed(it, v, S) /\ n = it[S]

\* A sum over a part, by the function of the whole.
LEMMA SumIs ==
  ASSUME NEW S, IsFiniteSet(S), NEW T \in SUBSET S, NEW v, NEW it, Summed(it, v, S)
  PROVE  Sum(v, T) = it[T]
<1>1. IsFiniteSet(T)
  BY FS_Subset
<1>2. \E jt : Summed(jt, v, T)
  BY <1>1, SumExists
<1>3. \A jt : Summed(jt, v, T) => jt[T] = it[T]
  BY <1>1, SumCongruent
<1> QED
  BY <1>2, <1>3 DEF Sum

\* A sum of numbers is a number.
LEMMA SumNat ==
  ASSUME NEW S, IsFiniteSet(S), NEW v, \A x \in S : v[x] \in Nat
  PROVE  Sum(v, S) \in Nat
<1>1. PICK it : Summed(it, v, S)
  BY SumExists
<1>2. it[S] \in Nat
  BY <1>1, SumRemoves
<1> QED
  BY <1>1, <1>2, SumIs

\* One element is added to the sum of the others.
LEMMA SumAdds ==
  ASSUME NEW S, IsFiniteSet(S), NEW v, \A x \in S : v[x] \in Nat, NEW y \in S
  PROVE  Sum(v, S) = v[y] + Sum(v, S \ {y})
<1>1. PICK it : Summed(it, v, S)
  BY SumExists
<1>2. it[S] = v[y] + it[S \ {y}]
  BY <1>1, SumRemoves
<1> QED
  BY <1>1, <1>2, SumIs

\* Equal values have one sum.
LEMMA SumSame ==
  ASSUME NEW S, IsFiniteSet(S), NEW v, NEW w, \A x \in S : v[x] = w[x]
  PROVE  Sum(v, S) = Sum(w, S)
<1>1. PICK it : Summed(it, v, S)
  BY SumExists
<1>2. PICK jt : Summed(jt, w, S)
  BY SumExists
<1>3. it[S] = jt[S]
  BY <1>1, <1>2, SumCongruent
<1> QED
  BY <1>1, <1>2, <1>3, SumIs

\* It is what SumFunction of Functions computes.
LEMMA SumOfFunction ==
  ASSUME NEW S, IsFiniteSet(S), NEW v, DOMAIN v = S
  PROVE  Stats!SumFunction(v) = Sum(v, S)
<1> DEFINE Sums(it) == it = [s \in SUBSET S |-> IF s = {} THEN 0
                             ELSE v[CHOOSE x \in s : TRUE] + it[s \ {CHOOSE x \in s : TRUE}]]
<1>1. ASSUME NEW it PROVE Sums(it) <=> Summed(it, v, S)
  BY DEF Summed, Element
<1>2. \E it : Sums(it)
  <2>1. PICK it : Summed(it, v, S)
    BY SumExists
  <2> HIDE DEF Sums
  <2> QED
    BY <1>1, <2>1
<1>3. \E it : Sums(it) /\ Stats!SumFunction(v) = it[S]
  <2> DEFINE summed == CHOOSE it : Sums(it)
  <2>1. Stats!SumFunction(v) = summed[S]
    BY DEF Stats!SumFunction, Stats!SumFunctionOnSet, Stats!FoldFunctionOnSet, Stats!MapThenFoldSet
  <2> HIDE DEF Sums
  <2>2. Sums(summed)
    BY <1>2, Zenon
  <2> HIDE DEF summed
  <2> QED
    BY <2>1, <2>2, Zenon
<1> HIDE DEF Sums
<1>4. PICK it : Sums(it) /\ Stats!SumFunction(v) = it[S]
  BY <1>3
<1>5. it[S] = Sum(v, S)
  BY <1>1, <1>4, SumIs
<1> QED
  BY <1>4, <1>5, Zenon

\* What holds of no elements, and of one more if it holds of some, holds of all.
LEMMA FiniteInduction ==
  ASSUME NEW S, IsFiniteSet(S), NEW P, {} \in P,
         \A A \in SUBSET S : A \in P => \A x \in S \ A : A \cup {x} \in P
  PROVE  S \in P
<1> DEFINE Bad == (SUBSET S) \ P
<1>1. ASSUME Bad # {} PROVE FALSE
  <2>1. Bad \subseteq SUBSET S
    OBVIOUS
  <2> HIDE DEF Bad
  <2>2. PICK B \in Bad : \A A \in Bad : A \subseteq B => A = B
    BY <1>1, <2>1, SmallestSubset
  <2> USE DEF Bad
  <2>3. PICK x \in B : TRUE
    OBVIOUS
  <2>4. B \ {x} \in P
    BY <2>2, <2>3
  <2>5. (B \ {x}) \cup {x} = B
    BY <2>3
  <2>6. x \in S \ (B \ {x})
    BY <2>2, <2>3
  <2> QED
    BY <2>2, <2>4, <2>5, <2>6
<1> QED
  BY <1>1

\* Nothing adds up to nothing.
LEMMA SumEmpty == \A v : Sum(v, {}) = 0
<1> SUFFICES ASSUME NEW v PROVE Sum(v, {}) = 0
  OBVIOUS
<1>1. IsFiniteSet({})
  BY FS_EmptySet
<1>2. PICK it : Summed(it, v, {})
  BY <1>1, SumExists
<1>3. it[{}] = 0
  BY <1>2 DEF Summed
<1>4. Sum(v, {}) = it[{}]
  BY <1>1, <1>2, SumIs
<1> QED
  BY <1>3, <1>4

\* One more element adds its value.
LEMMA SumOneMore ==
  ASSUME NEW S, IsFiniteSet(S), NEW v, \A x \in S : v[x] \in Nat,
         NEW A \in SUBSET S, NEW x \in S \ A
  PROVE  /\ Sum(v, A \cup {x}) = v[x] + Sum(v, A)
         /\ Sum(v, A) \in Nat /\ v[x] \in Nat
<1>1. IsFiniteSet(A \cup {x}) /\ IsFiniteSet(A) /\ (A \cup {x}) \ {x} = A
  BY FS_Subset
<1>2. Sum(v, A \cup {x}) = v[x] + Sum(v, (A \cup {x}) \ {x})
  <2>1. \A y \in A \cup {x} : v[y] \in Nat
    OBVIOUS
  <2> QED
    BY <1>1, <2>1, SumAdds
<1> QED
  BY <1>1, <1>2, SumNat

\* What adding up one element after the other needs to know.
LEMMA SumSteps ==
  ASSUME NEW S, IsFiniteSet(S), NEW v, \A x \in S : v[x] \in Nat
  PROVE  \A A \in SUBSET S :
           /\ IsFiniteSet(A) /\ Sum(v, A) \in Nat
           /\ \A x \in S \ A : Sum(v, A \cup {x}) = v[x] + Sum(v, A)
<1> SUFFICES ASSUME NEW A \in SUBSET S
             PROVE  /\ IsFiniteSet(A) /\ Sum(v, A) \in Nat
                    /\ \A x \in S \ A : Sum(v, A \cup {x}) = v[x] + Sum(v, A)
  OBVIOUS
<1>1. IsFiniteSet(A) /\ Sum(v, A) \in Nat
  <2>1. IsFiniteSet(A)
    BY FS_Subset
  <2> QED
    BY <2>1, SumNat
<1>2. ASSUME NEW x \in S \ A PROVE Sum(v, A \cup {x}) = v[x] + Sum(v, A)
  BY SumOneMore
<1> QED
  BY <1>1, <1>2

\* Less of less adds up to less.
LEMMA SumLeq ==
  ASSUME NEW T, IsFiniteSet(T), NEW S \in SUBSET T, NEW v, NEW w,
         \A x \in T : w[x] \in Nat, \A x \in S : v[x] \in Nat /\ v[x] <= w[x]
  PROVE  Sum(v, S) <= Sum(w, T)
<1> DEFINE P == {A \in SUBSET T : Sum(v, A \cap S) <= Sum(w, A)}
<1>a. \A A \in SUBSET T : /\ Sum(w, A) \in Nat
                          /\ \A x \in T \ A : Sum(w, A \cup {x}) = w[x] + Sum(w, A)
  BY SumSteps
<1>b. \A A \in SUBSET S : /\ Sum(v, A) \in Nat
                          /\ \A x \in S \ A : Sum(v, A \cup {x}) = v[x] + Sum(v, A)
  <2>1. IsFiniteSet(S) /\ \A x \in S : v[x] \in Nat
    BY FS_Subset
  <2> QED
    BY <2>1, SumSteps
<1>1. {} \in P
  <2>1. {} \cap S = {}
    OBVIOUS
  <2>2. Sum(v, {} \cap S) = 0 /\ Sum(w, {}) = 0
    BY <2>1, SumEmpty
  <2> QED
    BY <2>2
<1>2. ASSUME NEW A \in SUBSET T, A \in P, NEW x \in T \ A PROVE A \cup {x} \in P
  <2>1. Sum(w, A \cup {x}) = w[x] + Sum(w, A) /\ Sum(w, A) \in Nat /\ w[x] \in Nat
    BY <1>a
  <2>2. CASE x \in S
    <3>1. A \cap S \in SUBSET S /\ x \in S \ (A \cap S) /\ (A \cup {x}) \cap S = (A \cap S) \cup {x}
      BY <2>2
    <3>2. Sum(v, (A \cap S) \cup {x}) = v[x] + Sum(v, A \cap S) /\ Sum(v, A \cap S) \in Nat /\ v[x] \in Nat
      BY <1>b, <2>2, <3>1
    <3>3. Sum(v, A \cap S) <= Sum(w, A) /\ v[x] <= w[x]
      BY <1>2, <2>2
    <3>4. Sum(v, (A \cup {x}) \cap S) <= Sum(w, A \cup {x})
      <4>1. Sum(v, (A \cup {x}) \cap S) = v[x] + Sum(v, A \cap S)
        BY Zenon, <3>1, <3>2
      <4>2. \A a, b, c, d \in Nat : a <= b /\ c <= d => a + c <= b + d
        OBVIOUS
      <4> QED
        BY <2>1, <3>2, <3>3, <4>1, <4>2
    <3> QED
      BY <3>4
  <2>3. CASE x \notin S
    <3>1. (A \cup {x}) \cap S = A \cap S
      BY <2>3
    <3>2. Sum(v, A \cap S) \in Nat
      BY <1>b
    <3>3. Sum(v, (A \cup {x}) \cap S) <= Sum(w, A \cup {x})
      <4>1. Sum(v, (A \cup {x}) \cap S) = Sum(v, A \cap S)
        BY Zenon, <3>1
      <4>2. Sum(v, A \cap S) <= Sum(w, A)
        BY <1>2
      <4>3. \A a, b, c \in Nat : a <= b => a <= c + b
        OBVIOUS
      <4> QED
        BY <2>1, <3>2, <4>1, <4>2, <4>3
    <3> QED
      BY <3>3
  <2> QED
    BY <2>2, <2>3
<1> HIDE DEF P
<1>3. T \in P
  BY <1>1, <1>2, FiniteInduction
<1> USE DEF P
<1>4. T \cap S = S
  OBVIOUS
<1> QED
  BY <1>3, <1>4

\* What is zero adds nothing.
LEMMA SumZeros ==
  ASSUME NEW T, IsFiniteSet(T), NEW S \in SUBSET T, NEW v,
         \A x \in T : v[x] \in Nat, \A x \in T \ S : v[x] = 0
  PROVE  Sum(v, T) = Sum(v, S)
<1> DEFINE P == {A \in SUBSET T : Sum(v, A \cap S) = Sum(v, A)}
<1>a. \A A \in SUBSET T : /\ Sum(v, A) \in Nat
                          /\ \A x \in T \ A : Sum(v, A \cup {x}) = v[x] + Sum(v, A)
  BY SumSteps
<1>1. {} \in P
  <2>1. {} \cap S = {}
    OBVIOUS
  <2> QED
    BY <2>1, SumEmpty
<1>2. ASSUME NEW A \in SUBSET T, A \in P, NEW x \in T \ A PROVE A \cup {x} \in P
  <2>1. Sum(v, A \cup {x}) = v[x] + Sum(v, A) /\ Sum(v, A) \in Nat /\ v[x] \in Nat
    BY <1>a
  <2>2. CASE x \in S
    <3>1. A \cap S \in SUBSET S /\ x \in S \ (A \cap S) /\ (A \cup {x}) \cap S = (A \cap S) \cup {x}
      BY <2>2
    <3>2. Sum(v, (A \cap S) \cup {x}) = v[x] + Sum(v, A \cap S)
      <4>1. A \cap S \in SUBSET T /\ x \in T \ (A \cap S)
        OBVIOUS
      <4> QED
        BY <1>a, <4>1
    <3>3. Sum(v, (A \cup {x}) \cap S) = Sum(v, A \cup {x})
      BY <1>2, <2>1, <3>1, <3>2
    <3> QED
      BY <3>3
  <2>3. CASE x \notin S
    <3>1. (A \cup {x}) \cap S = A \cap S /\ v[x] = 0
      BY <2>3
    <3>2. Sum(v, (A \cup {x}) \cap S) = Sum(v, A \cup {x})
      <4>1. Sum(v, (A \cup {x}) \cap S) = Sum(v, A \cap S)
        BY Zenon, <3>1
      <4>2. Sum(v, A \cap S) = Sum(v, A)
        BY <1>2
      <4> QED
        BY <2>1, <3>1, <4>1, <4>2
    <3> QED
      BY <3>2
  <2> QED
    BY <2>2, <2>3
<1> HIDE DEF P
<1>3. T \in P
  BY <1>1, <1>2, FiniteInduction
<1> USE DEF P
<1>4. T \cap S = S
  OBVIOUS
<1> QED
  BY <1>3, <1>4

\* Ones add up to how many they are.
LEMMA SumOnes ==
  ASSUME NEW S, IsFiniteSet(S), NEW v, \A x \in S : v[x] = 1
  PROVE  Sum(v, S) = Cardinality(S)
<1> DEFINE P == {A \in SUBSET S : Sum(v, A) = Cardinality(A)}
<1>1. {} \in P
  BY SumEmpty, FS_EmptySet
<1>2. ASSUME NEW A \in SUBSET S, A \in P, NEW x \in S \ A PROVE A \cup {x} \in P
  <2>1. Sum(v, A \cup {x}) = 1 + Sum(v, A)
    BY SumOneMore
  <2>2. Cardinality(A \cup {x}) = Cardinality(A) + 1 /\ Cardinality(A) \in Nat
    BY FS_Subset, FS_AddElement, FS_CardinalityType
  <2> QED
    BY <1>2, <2>1, <2>2
<1> HIDE DEF P
<1>3. S \in P
  BY <1>1, <1>2, FiniteInduction
<1> USE DEF P
<1> QED
  BY <1>3

\* Adding up by parts that share the whole out among them adds up everything, once.
Parts(share, K, S) ==
  /\ \A k \in K : share[k] \subseteq S
  /\ \A x \in S : \E k \in K : x \in share[k]
  /\ \A j, k \in K : \A x \in S : x \in share[j] /\ x \in share[k] => j = k

\* Added up share by share, everything is added up once.
LEMMA SumByParts ==
  ASSUME NEW S, IsFiniteSet(S), NEW v, \A x \in S : v[x] \in Nat,
         NEW K, IsFiniteSet(K), NEW share, Parts(share, K, S),
         NEW g, \A k \in K : g[k] = Sum(v, share[k])
  PROVE  Sum(g, K) = Sum(v, S)
<1> DEFINE Of(A) == [k \in K |-> Sum(v, share[k] \cap A)]
           P == {A \in SUBSET S : Sum(Of(A), K) = Sum(v, A)}
<1>a. \A A \in SUBSET S : /\ IsFiniteSet(A) /\ Sum(v, A) \in Nat
                          /\ \A x \in S \ A : Sum(v, A \cup {x}) = v[x] + Sum(v, A)
  BY SumSteps
<1>0. ASSUME NEW A \in SUBSET S PROVE \A k \in K : Of(A)[k] = Sum(v, share[k] \cap A) /\ Of(A)[k] \in Nat
  <2>1. ASSUME NEW k \in K PROVE Sum(v, share[k] \cap A) \in Nat
    <3>1. share[k] \cap A \in SUBSET S
      OBVIOUS
    <3> QED
      BY Zenon, <3>1, <1>a
  <2> QED
    BY <2>1
<1>1. {} \in P
  <2>1. \A k \in K : Of({})[k] = 0
    <3>1. \A k \in K : share[k] \cap {} = {}
      OBVIOUS
    <3> QED
      BY <3>1, SumEmpty
  <2> HIDE DEF Of
  <2>2. Sum(Of({}), K) = Sum(Of({}), {})
    BY <2>1, SumZeros
  <2> QED
    BY <2>2, SumEmpty
<1>2. ASSUME NEW A \in SUBSET S, A \in P, NEW y \in S \ A PROVE A \cup {y} \in P
  <2>1. PICK k \in K : y \in share[k]
    BY DEF Parts
  <2>2. Of(A \cup {y})[k] = v[y] + Of(A)[k]
    <3>1. share[k] \cap (A \cup {y}) = (share[k] \cap A) \cup {y}
      BY <2>1
    <3>2. share[k] \cap A \in SUBSET S /\ y \in S \ (share[k] \cap A)
      OBVIOUS
    <3>3. Sum(v, (share[k] \cap A) \cup {y}) = v[y] + Sum(v, share[k] \cap A)
      BY Zenon, <1>a, <3>2
    <3> QED
      BY Zenon, <3>1, <3>3
  <2>3. \A j \in K \ {k} : Of(A \cup {y})[j] = Of(A)[j]
    <3>1. \A j \in K \ {k} : share[j] \cap (A \cup {y}) = share[j] \cap A
      BY <2>1 DEF Parts
    <3> QED
      BY <3>1
  <2>4. /\ \A j \in K : Of(A)[j] \in Nat /\ Of(A \cup {y})[j] \in Nat
        /\ v[y] \in Nat /\ Sum(v, A \cup {y}) = v[y] + Sum(v, A)
    <3>1. A \cup {y} \in SUBSET S
      OBVIOUS
    <3> QED
      BY <1>0, <1>a, <3>1
  <2> HIDE DEF Of
  <2>5. /\ Sum(Of(A), K) = Of(A)[k] + Sum(Of(A), K \ {k})
        /\ Sum(Of(A \cup {y}), K) = Of(A \cup {y})[k] + Sum(Of(A \cup {y}), K \ {k})
    BY <2>4, SumAdds
  <2>6. /\ Sum(Of(A \cup {y}), K \ {k}) = Sum(Of(A), K \ {k})
        /\ Sum(Of(A), K \ {k}) \in Nat
    <3>1. IsFiniteSet(K \ {k})
      BY FS_Subset
    <3> QED
      BY <2>3, <2>4, <3>1, SumSame, SumNat
  <2>7. Sum(Of(A \cup {y}), K) = Sum(v, A \cup {y})
    BY <1>2, <2>2, <2>4, <2>5, <2>6
  <2> QED
    BY <2>7
<1> HIDE DEF P
<1>3. S \in P
  BY <1>1, <1>2, FiniteInduction
<1> USE DEF P
<1>4. \A k \in K : g[k] = Of(S)[k]
  <2>1. \A k \in K : share[k] \cap S = share[k]
    BY DEF Parts
  <2> QED
    BY <2>1
<1> HIDE DEF Of
<1>5. Sum(g, K) = Sum(Of(S), K)
  BY <1>4, SumSame
<1> QED
  BY <1>3, <1>5

\* And counted share by share, everything is counted once.
LEMMA CountByParts ==
  ASSUME NEW S, IsFiniteSet(S), NEW K, IsFiniteSet(K), NEW share, Parts(share, K, S),
         NEW g, \A k \in K : g[k] = Cardinality(share[k])
  PROVE  Sum(g, K) = Cardinality(S)
<1>1. PICK one : one = [x \in S |-> 1]
  OBVIOUS
<1>2. \A x \in S : one[x] = 1 /\ one[x] \in Nat
  BY <1>1
<1>3. ASSUME NEW k \in K PROVE g[k] = Sum(one, share[k])
  <2>1. share[k] \subseteq S
    BY DEF Parts
  <2>2. IsFiniteSet(share[k])
    BY <2>1, FS_Subset
  <2>3. Sum(one, share[k]) = Cardinality(share[k])
    BY <1>2, <2>1, <2>2, SumOnes
  <2> QED
    BY <2>3
<1>4. Sum(g, K) = Sum(one, S)
  <2>1. \A x \in S : one[x] \in Nat
    BY <1>2
  <2> QED
    BY <1>3, <2>1, SumByParts
<1> QED
  BY <1>2, <1>4, SumOnes

-----------------------------------------------------------------------------
(* Analytics, for any reservations, users, departments, courses and nodes,   *)
(* whatever goes on while a request is answered: the tables                  *)

\* The rows of the tables.
StatStatuses == {"NONE"} \cup Stats!Statuses
StatBooking == [status : StatStatuses, node : Nodes \cup {None}, start : Nat, end : Nat]
Sessions == [status : {"RUNNING", "COMPLETED"}, startedAt : Nat, endedAt : Nat]
MadeRow == [user : Users \cup {None}, course : Courses \cup {None}, at : Nat \cup {None}]

\* A use of a reservation that is over.
Ended(u) == u # <<>> /\ u[1].status = "COMPLETED"

\* A reservation b with its sessions u, made as m says, at the moment t or before:
\* it has sessions once it is in use, and those of its use that is over are of the past.
RowOK(b, u, m, t) ==
  /\ b \in StatBooking /\ u \in Seq(Sessions) /\ m \in MadeRow
  /\ m.at = None <=> b.status = "NONE"
  /\ m.at # None => m.at <= t /\ m.user \in Users /\ b.node \in Nodes /\ b.start < b.end
  /\ u # <<>> => /\ u[1] \in Sessions
                 /\ u[1].status = "RUNNING" => b.status = "ACTIVE" /\ u[1].startedAt < b.end
                 /\ u[1].status = "COMPLETED" =>
                      b.status = "COMPLETED" /\ u[1].startedAt <= u[1].endedAt /\ u[1].endedAt <= t

\* The tables db at the moment t.
TablesOK(db, t) ==
  /\ DOMAIN db.booking = ReportRids /\ db.booking = [r \in ReportRids |-> db.booking[r]]
  /\ DOMAIN db.used = ReportRids /\ db.used = [r \in ReportRids |-> db.used[r]]
  /\ DOMAIN db.made = ReportRids /\ db.made = [r \in ReportRids |-> db.made[r]]
  /\ \A r \in ReportRids : RowOK(db.booking[r], db.used[r], db.made[r], t)
  /\ db.role \in [Users -> {"STUDENT", "FACULTY"}]

\* What was made stays, and what is over stays as it was; what was not made by the
\* moment at is made after it.
RowGrew(b, u, m, b2, v2, m2, at) ==
  /\ m.at # None => m2 = m /\ b2.node = b.node
  /\ m.at = None /\ m2.at # None => m2.at >= at
  /\ Ended(u) => v2 = u

\* The tables old became db, beginning at the moment at.
Grew(old, db, at) ==
  \A r \in ReportRids :
    RowGrew(old.booking[r], old.used[r], old.made[r], db.booking[r], db.used[r], db.made[r], at)

\* What the constants of Analytics are.
LEMMA StatConstants ==
  /\ IsFiniteSet(ReportRids) /\ IsFiniteSet(Users) /\ IsFiniteSet(Departments)
  /\ Times \subseteq Nat /\ Epoch \in Nat /\ SoonDegraded \in Int /\ SoonOffline \in Int
  /\ NodeDept \in [Nodes -> Departments]
  /\ UserDept \in [Users -> Departments \cup {None}]
  /\ RoleAtFirst \in [Users -> {"STUDENT", "FACULTY"}]
  /\ Count \in 1 .. 90
  /\ None \notin Nodes /\ None \notin Departments /\ None \notin Courses /\ None \notin Int
<1>1. \A S : Stats!IsFiniteSet(S) <=> IsFiniteSet(S)
  BY DEF Stats!IsFiniteSet, IsFiniteSet
<1> QED
  BY <1>1, StatsAssumption DEF StatsAssumption, Stats!WellFormed

-----------------------------------------------------------------------------
(* One reservation, action by action *)

\* Time passes.
LEMMA RowTicks ==
  ASSUME NEW b, NEW u, NEW m, NEW t \in Nat, NEW t2 \in Nat, t <= t2, RowOK(b, u, m, t)
  PROVE  RowOK(b, u, m, t2) /\ RowGrew(b, u, m, b, u, m, t)
<1>1. m.at # None => m.at \in Nat
  BY DEF RowOK, MadeRow
<1>2. u # <<>> => u[1].endedAt \in Nat
  BY DEF RowOK, Sessions
<1> QED
  BY <1>1, <1>2 DEF RowOK, RowGrew

\* A reservation is made.
LEMMA RowIsBooked ==
  ASSUME NEW b, NEW u, NEW m, NEW t \in Nat, RowOK(b, u, m, t), b.status = "NONE",
         NEW n \in Nodes, NEW start \in Nat, NEW end \in Nat, start < end,
         NEW user \in Users, NEW c \in Courses \cup {None}, NEW b2, NEW m2,
         b2 = [status |-> "PENDING", node |-> n, start |-> start, end |-> end],
         m2 = [user |-> user, course |-> c, at |-> t]
  PROVE  RowOK(b2, u, m2, t) /\ RowGrew(b, u, m, b2, u, m2, t)
<1>1. u = <<>> /\ m.at = None
  BY DEF RowOK, Sessions
<1>2. b2 \in StatBooking /\ m2 \in MadeRow /\ m2.at = t /\ t # None
  BY StatConstants DEF StatBooking, MadeRow, StatStatuses, Stats!Statuses
<1>3. u \in Seq(Sessions)
  BY DEF RowOK
<1> QED
  BY <1>1, <1>2, <1>3 DEF RowOK, RowGrew, Ended

\* It is approved, rejected or cancelled.
LEMMA RowIsDecided ==
  ASSUME NEW b, NEW u, NEW m, NEW t \in Nat, RowOK(b, u, m, t), b.status \in {"PENDING", "APPROVED"},
         NEW to \in {"APPROVED", "REJECTED", "CANCELLED"}, NEW b2, b2 = [b EXCEPT !.status = to]
  PROVE  RowOK(b2, u, m, t) /\ RowGrew(b, u, m, b2, u, m, t)
<1>1. u = <<>> /\ m.at # None
  BY DEF RowOK, Sessions
<1>2. b2 \in StatBooking /\ b2.status = to /\ b2.node = b.node /\ b2.start = b.start /\ b2.end = b.end
  BY DEF RowOK, StatBooking, StatStatuses, Stats!Statuses
<1> QED
  BY <1>1, <1>2 DEF RowOK, RowGrew, Ended

\* Its use begins.
LEMMA RowIsActivated ==
  ASSUME NEW b, NEW u, NEW m, NEW t \in Nat, RowOK(b, u, m, t), b.status = "APPROVED", t < b.end,
         NEW b2, b2 = [b EXCEPT !.status = "ACTIVE"],
         NEW v2, v2 = <<[status |-> "RUNNING", startedAt |-> t, endedAt |-> 0]>>
  PROVE  RowOK(b2, v2, m, t) /\ RowGrew(b, u, m, b2, v2, m, t)
<1>1. u = <<>> /\ m.at # None
  BY DEF RowOK, Sessions
<1>2. b2 \in StatBooking /\ b2.status = "ACTIVE" /\ b2.node = b.node /\ b2.start = b.start /\ b2.end = b.end
  BY DEF RowOK, StatBooking, StatStatuses, Stats!Statuses
<1>3. PICK s \in Sessions : s = [status |-> "RUNNING", startedAt |-> t, endedAt |-> 0]
  BY DEF Sessions
<1>4. v2 \in Seq(Sessions) /\ v2 # <<>> /\ v2[1] = s /\ s.status = "RUNNING" /\ s.startedAt = t
  BY <1>3
<1> QED
  BY <1>1, <1>2, <1>4 DEF RowOK, RowGrew, Ended

\* Its use is over.
LEMMA RowIsCompleted ==
  ASSUME NEW b, NEW u, NEW m, NEW t \in Nat, RowOK(b, u, m, t), b.status \in {"APPROVED", "ACTIVE"}, b.end <= t,
         NEW b2, b2 = [b EXCEPT !.status = "COMPLETED"],
         NEW v2, v2 = <<[status |-> "COMPLETED",
                         startedAt |-> IF u = <<>> THEN b.start ELSE u[1].startedAt, endedAt |-> b.end]>>
  PROVE  RowOK(b2, v2, m, t) /\ RowGrew(b, u, m, b2, v2, m, t)
<1>1. m.at # None /\ ~Ended(u) /\ b.start < b.end /\ b.start \in Nat /\ b.end \in Nat
  BY DEF RowOK, Sessions, Ended, StatBooking
<1>2. b2 \in StatBooking /\ b2.status = "COMPLETED" /\ b2.node = b.node /\ b2.start = b.start /\ b2.end = b.end
  BY DEF RowOK, StatBooking, StatStatuses, Stats!Statuses
<1>3. PICK from \in Nat : from = (IF u = <<>> THEN b.start ELSE u[1].startedAt) /\ from <= b.end
  <2>1. CASE u = <<>>
    BY <1>1, <2>1
  <2>2. CASE u # <<>>
    <3>1. u[1] \in Sessions /\ u[1].status = "RUNNING" /\ u[1].startedAt < b.end
      BY <1>1, <2>2 DEF RowOK, Ended, Sessions
    <3> QED
      BY <1>1, <2>2, <3>1 DEF Sessions
  <2> QED
    BY <2>1, <2>2
<1>4. PICK s \in Sessions : s = [status |-> "COMPLETED", startedAt |-> from, endedAt |-> b.end]
  BY <1>1 DEF Sessions
<1>5. v2 \in Seq(Sessions) /\ v2 # <<>> /\ v2[1] = s /\ s.status = "COMPLETED" /\ s.startedAt = from /\ s.endedAt = b.end
  BY <1>3, <1>4
<1> QED
  BY <1>1, <1>2, <1>3, <1>5 DEF RowOK, RowGrew

-----------------------------------------------------------------------------
(* What goes on while a request is answered *)

\* The tables at first.
LEMMA StatsStart ==
  ASSUME Stats!Init
  PROVE  now \in Nat /\ TablesOK(Stats!Tables, now) /\ begun = Stats!Tables /\ req = Stats!Idle
<1>1. /\ now = 0 /\ begun = Stats!Tables /\ req = Stats!Idle
      /\ booking = [r \in ReportRids |-> [status |-> "NONE", node |-> None, start |-> 0, end |-> 0]]
      /\ used = [r \in ReportRids |-> <<>>]
      /\ made = [r \in ReportRids |-> [user |-> None, course |-> None, at |-> None]]
      /\ role = RoleAtFirst
  BY DEF Stats!Init, Stats!Life!Init, Stats!Life!NoBooking, Stats!NotMade
<1>2. \A r \in ReportRids : RowOK(booking[r], used[r], made[r], now)
  <2>1. [status |-> "NONE", node |-> None, start |-> 0, end |-> 0] \in StatBooking
    BY DEF StatBooking, StatStatuses
  <2>2. [user |-> None, course |-> None, at |-> None] \in MadeRow
    BY DEF MadeRow
  <2> QED
    BY <1>1, <2>1, <2>2 DEF RowOK
<1>3. TablesOK(Stats!Tables, now)
  BY <1>1, <1>2, StatConstants DEF TablesOK, Stats!Tables
<1> QED
  BY <1>1, <1>3

\* One row of the tables changes, or none.
LEMMA OneRowChanges ==
  ASSUME TablesOK(Stats!Tables, now), now \in Nat, UNCHANGED <<now, role>>,
         NEW r \in ReportRids, NEW b2, NEW v2, NEW m2,
         booking' = [booking EXCEPT ![r] = b2], used' = [used EXCEPT ![r] = v2], made' = [made EXCEPT ![r] = m2],
         RowOK(b2, v2, m2, now) /\ RowGrew(booking[r], used[r], made[r], b2, v2, m2, now)
  PROVE  TablesOK(Stats!Tables', now') /\ Grew(Stats!Tables, Stats!Tables', now)
<1>1. /\ DOMAIN booking' = ReportRids /\ booking' = [q \in ReportRids |-> booking'[q]]
      /\ DOMAIN used' = ReportRids /\ used' = [q \in ReportRids |-> used'[q]]
      /\ DOMAIN made' = ReportRids /\ made' = [q \in ReportRids |-> made'[q]]
  BY DEF TablesOK, Stats!Tables
<1>2. /\ booking'[r] = b2 /\ used'[r] = v2 /\ made'[r] = m2
      /\ \A q \in ReportRids \ {r} : booking'[q] = booking[q] /\ used'[q] = used[q] /\ made'[q] = made[q]
  BY DEF TablesOK, Stats!Tables
<1>3. \A q \in ReportRids : RowOK(booking[q], used[q], made[q], now) /\ RowOK(booking'[q], used'[q], made'[q], now)
  BY <1>2 DEF TablesOK, Stats!Tables
<1>4. \A q \in ReportRids : RowGrew(booking[q], used[q], made[q], booking'[q], used'[q], made'[q], now)
  <2>1. \A q \in ReportRids : RowGrew(booking[q], used[q], made[q], booking[q], used[q], made[q], now)
    BY <1>3, RowTicks
  <2> QED
    BY <1>2, <2>1
<1>6. TablesOK(Stats!Tables', now')
  BY <1>1, <1>3 DEF TablesOK, Stats!Tables
<1>7. Grew(Stats!Tables, Stats!Tables', now)
  BY <1>4 DEF Grew, Stats!Tables
<1> QED
  BY <1>6, <1>7

\* The tables stay as they are while time passes.
LEMMA NothingGrows ==
  ASSUME NEW db, NEW t \in Nat, TablesOK(db, t), NEW t2 \in Nat, t <= t2
  PROVE  TablesOK(db, t2) /\ Grew(db, db, t)
<1>1. \A r \in ReportRids :
        /\ RowOK(db.booking[r], db.used[r], db.made[r], t2)
        /\ RowGrew(db.booking[r], db.used[r], db.made[r], db.booking[r], db.used[r], db.made[r], t)
  BY RowTicks DEF TablesOK
<1> QED
  BY <1>1 DEF TablesOK, Grew

\* Growing goes on.
LEMMA GrewOn ==
  ASSUME NEW x, NEW y, NEW z, NEW t \in Nat, NEW at \in Nat, NEW at2 \in Nat, at <= at2,
         TablesOK(x, t), TablesOK(y, t), TablesOK(z, t), Grew(x, y, at), Grew(y, z, at2)
  PROVE  Grew(x, z, at)
<1>1. ASSUME NEW r \in ReportRids
      PROVE  RowGrew(x.booking[r], x.used[r], x.made[r], z.booking[r], z.used[r], z.made[r], at)
  <2>1. /\ RowGrew(x.booking[r], x.used[r], x.made[r], y.booking[r], y.used[r], y.made[r], at)
        /\ RowGrew(y.booking[r], y.used[r], y.made[r], z.booking[r], z.used[r], z.made[r], at2)
    BY DEF Grew
  <2>2. z.made[r].at \in Nat \cup {None} /\ y.made[r].at \in Nat \cup {None} /\ None \notin Nat
    BY StatConstants DEF TablesOK, RowOK, MadeRow
  <2> QED
    BY <2>1, <2>2 DEF RowGrew
<1> QED
  BY <1>1 DEF Grew

\* A booking: one new row.
LEMMA BookGrows ==
  ASSUME TablesOK(Stats!Tables, now), now \in Nat, UNCHANGED role,
         NEW r \in ReportRids, NEW user \in Users, NEW n \in Nodes, NEW c \in Courses \cup {None},
         NEW start \in Times, NEW end \in Times, Stats!Book(r, user, n, c, start, end)
  PROVE  now' = now /\ TablesOK(Stats!Tables', now') /\ Grew(Stats!Tables, Stats!Tables', now)
<1> DEFINE b2 == [status |-> "PENDING", node |-> n, start |-> start, end |-> end]
           m2 == [user |-> user, course |-> c, at |-> now]
<1>1. /\ booking[r] = Stats!Life!NoBooking /\ start < end
      /\ booking' = [booking EXCEPT ![r] = b2]
      /\ made' = [made EXCEPT ![r] = m2] /\ used' = used /\ now' = now
  BY Zenon DEF Stats!Book, Stats!Life!Book
<1>2. used' = [used EXCEPT ![r] = used[r]]
  BY <1>1 DEF TablesOK, Stats!Tables
<1>3. RowOK(booking[r], used[r], made[r], now) /\ booking[r].status = "NONE"
  BY <1>1 DEF TablesOK, Stats!Tables, Stats!Life!NoBooking
<1>4. start \in Nat /\ end \in Nat
  BY StatConstants
<1>5. RowOK(b2, used[r], m2, now) /\ RowGrew(booking[r], used[r], made[r], b2, used[r], m2, now)
  BY <1>1, <1>3, <1>4, RowIsBooked
<1> HIDE DEF b2, m2
<1> QED
  BY <1>1, <1>2, <1>5, OneRowChanges

\* Approved, rejected or cancelled.
LEMMA DecideGrows ==
  ASSUME TablesOK(Stats!Tables, now), now \in Nat, UNCHANGED <<role, made>>,
         NEW r \in ReportRids, Stats!Life!Approve(r) \/ Stats!Life!Reject(r) \/ Stats!Life!Cancel(r)
  PROVE  now' = now /\ TablesOK(Stats!Tables', now') /\ Grew(Stats!Tables, Stats!Tables', now)
<1>1. PICK from \in {"PENDING", "APPROVED"}, to \in {"APPROVED", "REJECTED", "CANCELLED"} :
        /\ booking[r].status = from
        /\ booking' = [booking EXCEPT ![r].status = to] /\ used' = used /\ now' = now
  BY DEF Stats!Life!Approve, Stats!Life!Reject, Stats!Life!Cancel, Stats!Life!Decide
<1> DEFINE b2 == [booking[r] EXCEPT !.status = to]
<1>2. /\ booking' = [booking EXCEPT ![r] = b2]
      /\ used' = [used EXCEPT ![r] = used[r]] /\ made' = [made EXCEPT ![r] = made[r]]
  BY <1>1 DEF TablesOK, Stats!Tables
<1>3. RowOK(booking[r], used[r], made[r], now)
  BY DEF TablesOK, Stats!Tables
<1>4. RowOK(b2, used[r], made[r], now) /\ RowGrew(booking[r], used[r], made[r], b2, used[r], made[r], now)
  BY <1>1, <1>3, RowIsDecided
<1> HIDE DEF b2
<1> QED
  BY <1>1, <1>2, <1>4, OneRowChanges

\* A session that begins.
LEMMA ActivateGrows ==
  ASSUME TablesOK(Stats!Tables, now), now \in Nat, UNCHANGED <<role, made>>,
         NEW r \in ReportRids, Stats!Life!Activate(r, now)
  PROVE  now' = now /\ TablesOK(Stats!Tables', now') /\ Grew(Stats!Tables, Stats!Tables', now)
<1> DEFINE b2 == [booking[r] EXCEPT !.status = "ACTIVE"]
           v2 == <<[status |-> "RUNNING", startedAt |-> now, endedAt |-> 0]>>
<1>1. /\ booking[r].status = "APPROVED" /\ now < booking[r].end
      /\ booking' = [booking EXCEPT ![r] = b2] /\ used' = [used EXCEPT ![r] = v2] /\ now' = now
      /\ made' = [made EXCEPT ![r] = made[r]]
  BY DEF Stats!Life!Activate, TablesOK, Stats!Tables
<1>2. RowOK(booking[r], used[r], made[r], now)
  BY DEF TablesOK, Stats!Tables
<1>3. RowOK(b2, v2, made[r], now) /\ RowGrew(booking[r], used[r], made[r], b2, v2, made[r], now)
  BY <1>1, <1>2, RowIsActivated
<1> HIDE DEF b2, v2
<1> QED
  BY <1>1, <1>3, OneRowChanges

\* A session that is completed.
LEMMA CompleteGrows ==
  ASSUME TablesOK(Stats!Tables, now), now \in Nat, UNCHANGED <<role, made>>,
         NEW r \in ReportRids, Stats!Life!Complete(r)
  PROVE  now' = now /\ TablesOK(Stats!Tables', now') /\ Grew(Stats!Tables, Stats!Tables', now)
<1> DEFINE b2 == [booking[r] EXCEPT !.status = "COMPLETED"]
           v2 == <<[status |-> "COMPLETED",
                    startedAt |-> IF used[r] = <<>> THEN booking[r].start ELSE used[r][1].startedAt,
                    endedAt |-> booking[r].end]>>
<1>1. /\ booking[r].status \in {"APPROVED", "ACTIVE"} /\ booking[r].end <= now
      /\ booking' = [booking EXCEPT ![r] = b2] /\ used' = [used EXCEPT ![r] = v2] /\ now' = now
      /\ made' = [made EXCEPT ![r] = made[r]]
  <2>1. made' = [made EXCEPT ![r] = made[r]]
    BY DEF TablesOK, Stats!Tables
  <2>2. booking' = [booking EXCEPT ![r] = b2]
    BY DEF Stats!Life!Complete, TablesOK, Stats!Tables
  <2>3. used' = [used EXCEPT ![r] = v2]
    BY Zenon DEF Stats!Life!Complete
  <2> QED
    BY <2>1, <2>2, <2>3 DEF Stats!Life!Complete
<1>2. RowOK(booking[r], used[r], made[r], now)
  BY DEF TablesOK, Stats!Tables
<1>3. RowOK(b2, v2, made[r], now) /\ RowGrew(booking[r], used[r], made[r], b2, v2, made[r], now)
  BY <1>1, <1>2, RowIsCompleted
<1> HIDE DEF b2, v2
<1> QED
  BY <1>1, <1>3, OneRowChanges

\* Whatever is done between two statements, the tables only grow.
LEMMA MeanwhileGrows ==
  ASSUME TablesOK(Stats!Tables, now), now \in Nat, Stats!Meanwhile
  PROVE  /\ now' \in Nat /\ now <= now'
         /\ TablesOK(Stats!Tables', now') /\ Grew(Stats!Tables, Stats!Tables', now)
<1>1. CASE Stats!Life!Tick /\ UNCHANGED <<made, role>>
  <2>1. now' = now + 1 /\ Stats!Tables' = Stats!Tables
    BY <1>1 DEF Stats!Life!Tick, Stats!Tables
  <2> QED
    BY <2>1, NothingGrows
<1>2. CASE \E n \in Beating, at \in Times : Stats!UpsertSnapshot(n, at) \/ Stats!UpdateLastHeartbeat(n, at)
  <2>1. now' = now /\ Stats!Tables' = Stats!Tables
    BY <1>2 DEF Stats!UpsertSnapshot, Stats!UpdateLastHeartbeat, Stats!life, Stats!Tables
  <2> QED
    BY <2>1, NothingGrows
<1>3. CASE \E user \in Movers : Stats!ChangeRole(user)
  <2>1. PICK user \in Movers : /\ role' = [role EXCEPT ![user] = IF role[user] = "STUDENT" THEN "FACULTY" ELSE "STUDENT"]
                               /\ UNCHANGED <<now, booking, used, made>>
    BY <1>3 DEF Stats!ChangeRole, Stats!life
  <2>2. role' \in [Users -> {"STUDENT", "FACULTY"}]
    BY <2>1 DEF TablesOK, Stats!Tables
  <2>3. TablesOK(Stats!Tables, now) /\ Grew(Stats!Tables, Stats!Tables, now)
    BY NothingGrows
  <2> QED
    BY <2>1, <2>2, <2>3 DEF TablesOK, Grew, Stats!Tables
<1>4. CASE Stats!Live /\ UNCHANGED role
  <2>1. CASE \E r \in ReportRids, user \in Users, n \in Nodes, c \in Courses \cup {None}, start, end \in Times :
               Stats!Book(r, user, n, c, start, end)
    BY <1>4, <2>1, BookGrows
  <2>2. CASE UNCHANGED made /\ \E r \in ReportRids : \/ Stats!Life!Approve(r) \/ Stats!Life!Reject(r)
                                                    \/ Stats!Life!Cancel(r) \/ Stats!Life!Complete(r)
    BY <1>4, <2>2, DecideGrows, CompleteGrows
  <2>3. CASE UNCHANGED made /\ \E r \in ReportRids : Stats!Life!Activate(r, now)
    BY <1>4, <2>3, ActivateGrows
  <2> QED
    BY <1>1, <1>4, <2>1, <2>2, <2>3 DEF Stats!Live
<1> QED
  BY <1>2, <1>3, <1>4 DEF Stats!Meanwhile

-----------------------------------------------------------------------------
(* What the statements count, and what they add up, only grows *)

\* What the instance counts is the cardinality.
LEMMA StatsCount == \A S : Stats!Cardinality(S) = Cardinality(S)
BY DEF Stats!Cardinality, Cardinality

\* Everything counted is a set of reservations.
LEMMA RowSets ==
  ASSUME NEW db, NEW range, NEW d, NEW c
  PROVE  /\ Stats!Made(db) \subseteq ReportRids /\ Stats!CreatedIn(db, range) \subseteq ReportRids
         /\ Stats!EndedIn(db, range) \subseteq ReportRids
         /\ Stats!OfDepartment(db, d) \subseteq ReportRids /\ Stats!OfCourse(db, c) \subseteq ReportRids
BY DEF Stats!Made, Stats!CreatedIn, Stats!EndedIn, Stats!OfDepartment, Stats!OfCourse

\* Counting some of the reservations.
LEMMA CountRows ==
  ASSUME NEW T \in SUBSET ReportRids, NEW S \in SUBSET T
  PROVE  /\ IsFiniteSet(T) /\ IsFiniteSet(S)
         /\ Stats!Cardinality(S) \in Nat /\ Stats!Cardinality(T) \in Nat
         /\ Stats!Cardinality(S) <= Stats!Cardinality(T)
<1>1. IsFiniteSet(T) /\ IsFiniteSet(S)
  BY FS_Subset, StatConstants
<1>2. Cardinality(S) \in Nat /\ Cardinality(T) \in Nat /\ Cardinality(S) <= Cardinality(T)
  BY <1>1, FS_Subset, FS_CardinalityType
<1> QED
  BY <1>1, <1>2, StatsCount

\* Each of these sets grows with the tables.
LEMMA MadeGrows ==
  ASSUME NEW x, NEW y, NEW t \in Nat, TablesOK(x, t), TablesOK(y, t), NEW at \in Nat, Grew(x, y, at),
         NEW range, NEW d, NEW c
  PROVE  /\ Stats!Made(x) \subseteq Stats!Made(y)
         /\ Stats!CreatedIn(x, range) \subseteq Stats!CreatedIn(y, range)
         /\ Stats!OfDepartment(x, d) \subseteq Stats!OfDepartment(y, d)
         /\ Stats!OfCourse(x, c) \subseteq Stats!OfCourse(y, c)
         /\ Stats!EndedIn(x, range) \subseteq Stats!EndedIn(y, range)
<1>1. ASSUME NEW r \in ReportRids, x.made[r].at # None
      PROVE  y.made[r] = x.made[r] /\ y.booking[r].node = x.booking[r].node
  BY <1>1 DEF Grew, RowGrew
<1>2. ASSUME NEW r \in ReportRids, Ended(x.used[r])
      PROVE  y.used[r] = x.used[r]
  BY <1>2 DEF Grew, RowGrew
<1>3. Stats!Made(x) \subseteq Stats!Made(y)
  BY <1>1 DEF Stats!Made
<1>4. Stats!CreatedIn(x, range) \subseteq Stats!CreatedIn(y, range)
  BY <1>1, <1>3 DEF Stats!CreatedIn, Stats!Made
<1>5. Stats!OfDepartment(x, d) \subseteq Stats!OfDepartment(y, d) /\ Stats!OfCourse(x, c) \subseteq Stats!OfCourse(y, c)
  BY <1>1, <1>3 DEF Stats!OfDepartment, Stats!OfCourse, Stats!Made
<1>6. Stats!EndedIn(x, range) \subseteq Stats!EndedIn(y, range)
  BY <1>2 DEF Stats!EndedIn, Ended
<1> QED
  BY <1>3, <1>4, <1>5, <1>6

\* Nothing is made in a period that is over.
LEMMA PastIsClosed ==
  ASSUME NEW x, NEW y, NEW t \in Nat, TablesOK(x, t), TablesOK(y, t), NEW at \in Nat, Grew(x, y, at),
         NEW range, range.end \in Int, range.end <= Stats!Clock(at)
  PROVE  Stats!CreatedIn(y, range) = Stats!CreatedIn(x, range)
<1>1. ASSUME NEW r \in Stats!CreatedIn(y, range) PROVE r \in Stats!CreatedIn(x, range)
  <2>1. r \in ReportRids /\ y.made[r].at # None /\ y.made[r].at \in Nat /\ Epoch \in Nat
    BY StatConstants DEF Stats!CreatedIn, Stats!Made, TablesOK, RowOK, MadeRow
  <2>2. y.made[r].at < at
    <3>1. Epoch + y.made[r].at < range.end
      BY DEF Stats!CreatedIn, Stats!InRange, Stats!Clock
    <3> QED
      BY <2>1, <3>1 DEF Stats!Clock
  <2>3. x.made[r].at # None
    BY <2>1, <2>2 DEF Grew, RowGrew
  <2>4. y.made[r] = x.made[r]
    BY <2>1, <2>3 DEF Grew, RowGrew
  <2> QED
    BY <2>1, <2>3, <2>4 DEF Stats!CreatedIn, Stats!Made
<1> QED
  BY <1>1, MadeGrows

\* The hours each reservation adds.
HoursOf(db) ==
  [r \in ReportRids |-> IF db.used[r] # <<>> /\ db.used[r][1].status = "COMPLETED"
                        THEN db.used[r][1].endedAt - db.used[r][1].startedAt ELSE 0]

\* The hours of some reservations are a sum.
LEMMA HoursAre ==
  ASSUME NEW db, NEW t \in Nat, TablesOK(db, t), NEW S \in SUBSET ReportRids
  PROVE  /\ \A r \in ReportRids : HoursOf(db)[r] \in Nat
         /\ Stats!Hours(db, S) = Sum(HoursOf(db), S)
         /\ Sum(HoursOf(db), S) \in Nat
<1>1. \A r \in ReportRids : HoursOf(db)[r] \in Nat
  BY DEF HoursOf, TablesOK, RowOK, Sessions
<1>2. IsFiniteSet(S)
  BY FS_Subset, StatConstants
<1> DEFINE h == [r \in S |-> IF db.used[r] # <<>> /\ db.used[r][1].status = "COMPLETED"
                             THEN db.used[r][1].endedAt - db.used[r][1].startedAt ELSE 0]
<1>3. DOMAIN h = S /\ \A r \in S : h[r] = HoursOf(db)[r]
  BY DEF HoursOf
<1>4. Stats!Hours(db, S) = Stats!SumFunction(h)
  BY DEF Stats!Hours
<1> HIDE DEF h
<1>5. Stats!SumFunction(h) = Sum(h, S) /\ Sum(h, S) = Sum(HoursOf(db), S)
  BY <1>2, <1>3, SumOfFunction, SumSame
<1>6. Sum(HoursOf(db), S) \in Nat
  BY <1>1, <1>2, SumNat
<1> QED
  BY <1>1, <1>4, <1>5, <1>6

\* More reservations of grown tables have no fewer hours.
LEMMA HoursGrow ==
  ASSUME NEW x, NEW y, NEW t \in Nat, TablesOK(x, t), TablesOK(y, t), NEW at \in Nat, Grew(x, y, at),
         NEW T \in SUBSET ReportRids, NEW S \in SUBSET T
  PROVE  /\ Stats!Hours(x, S) <= Stats!Hours(y, T)
         /\ Stats!Hours(x, S) \in Nat /\ Stats!Hours(y, T) \in Nat
<1>1. S \in SUBSET ReportRids /\ IsFiniteSet(T)
  BY FS_Subset, StatConstants
<1>2. \A r \in ReportRids : HoursOf(x)[r] \in Nat /\ HoursOf(y)[r] \in Nat
  BY HoursAre
<1>3. \A r \in ReportRids : HoursOf(x)[r] <= HoursOf(y)[r]
  <2>1. \A r \in ReportRids : Ended(x.used[r]) => y.used[r] = x.used[r]
    BY DEF Grew, RowGrew
  <2>2. \A r \in ReportRids : ~Ended(x.used[r]) => HoursOf(x)[r] = 0
    BY DEF HoursOf, Ended
  <2>3. \A r \in ReportRids : Ended(x.used[r]) => HoursOf(x)[r] = HoursOf(y)[r]
    BY <2>1 DEF HoursOf
  <2> QED
    BY <1>2, <2>2, <2>3
<1>4. Sum(HoursOf(x), S) <= Sum(HoursOf(y), T)
  <2>1. \A r \in T : HoursOf(y)[r] \in Nat
    BY <1>2
  <2>2. \A r \in S : HoursOf(x)[r] \in Nat /\ HoursOf(x)[r] <= HoursOf(y)[r]
    BY <1>1, <1>2, <1>3
  <2> QED
    BY <1>1, <2>1, <2>2, SumLeq
<1> QED
  BY <1>1, <1>4, HoursAre

\* Those without hours add none.
LEMMA HoursOfMade ==
  ASSUME NEW db, NEW t \in Nat, TablesOK(db, t)
  PROVE  Stats!Hours(db, ReportRids) = Stats!Hours(db, Stats!Made(db))
<1>1. Stats!Made(db) \in SUBSET ReportRids /\ IsFiniteSet(ReportRids)
  BY StatConstants DEF Stats!Made
<1>2. \A r \in ReportRids \ Stats!Made(db) : HoursOf(db)[r] = 0
  BY DEF HoursOf, Stats!Made, TablesOK, RowOK, Sessions
<1>3. Sum(HoursOf(db), ReportRids) = Sum(HoursOf(db), Stats!Made(db))
  <2>1. \A r \in ReportRids : HoursOf(db)[r] \in Nat
    BY HoursAre
  <2> QED
    BY <1>1, <1>2, <2>1, SumZeros
<1> QED
  BY <1>1, <1>3, HoursAre

-----------------------------------------------------------------------------
(* The buckets of a report share its span out *)

\* A set of naturals has a least one.
LEMMA LeastOf ==
  ASSUME NEW N, N \subseteq Nat, N # {}
  PROVE  \E n \in N : \A m \in N : n <= m
<1>1. PICK n \in N : \A m \in N : ~(<<m, n>> \in OpToRel(<, Nat))
  BY WFMin, NatLessThanWellFounded, Zenon
<1>2. ASSUME NEW m \in N PROVE n <= m
  <2>1. n \in Nat /\ m \in Nat /\ ~(<<m, n>> \in OpToRel(<, Nat))
    BY <1>1
  <2>2. ~(m < n)
    BY <2>1 DEF OpToRel
  <2>3. n \in Nat /\ m \in Nat
    OBVIOUS
  <2> QED
    BY <2>2, <2>3
<1> QED
  BY <1>2

\* An earlier bucket has ended when a later one starts.
LEMMA TileOrder ==
  ASSUME NEW n \in 1 .. 90, NEW b, NEW a \in Int, Tile(b, n, a), NEW j \in 1 .. n
  PROVE  \A k \in 1 .. n : j < k => b[j].end <= b[k].start
<1> DEFINE Bad == {k \in 1 .. n : j < k /\ ~(b[j].end <= b[k].start)}
<1>1. ASSUME Bad # {} PROVE FALSE
  <2>1. Bad \subseteq Nat
    OBVIOUS
  <2> HIDE DEF Bad
  <2>2. PICK k \in Bad : \A m \in Bad : k <= m
    BY <1>1, <2>1, LeastOf
  <2> USE DEF Bad
  <2>3. k \in 1 .. n /\ j < k /\ ~(b[j].end <= b[k].start)
    BY <2>2
  <2>4. k - 1 \in 1 .. n - 1 /\ k - 1 \in 1 .. n /\ k - 1 + 1 = k /\ j <= k - 1
    BY <2>3
  <2>5. /\ b[k - 1].end = b[k].start /\ b[k - 1].start < b[k - 1].end
        /\ b[j].end \in Int /\ b[k - 1].end \in Int /\ b[k - 1].start \in Int
    BY <2>4 DEF Tile
  <2>6. k - 1 \notin Bad
    BY <2>2, <2>4
  <2>7. CASE j = k - 1
    BY <2>3, <2>5, <2>7
  <2>8. CASE j < k - 1
    <3>1. b[j].end <= b[k - 1].start
      BY <2>4, <2>6, <2>8
    <3> QED
      BY <2>3, <2>5, <3>1
  <2> QED
    BY <2>4, <2>7, <2>8
<1> QED
  BY <1>1

\* An instant of the span is in exactly one bucket, and what is in one is in the span.
LEMMA TileCovers ==
  ASSUME NEW n \in 1 .. 90, NEW b, NEW a \in Int, Tile(b, n, a), NEW t \in Int
  PROVE  /\ b[1].start <= t /\ t < b[n].end <=> \E k \in 1 .. n : b[k].start <= t /\ t < b[k].end
         /\ \A j, k \in 1 .. n : b[j].start <= t /\ t < b[j].end /\ b[k].start <= t /\ t < b[k].end => j = k
<1>0. /\ 1 \in 1 .. n /\ n \in 1 .. n
      /\ \A k \in 1 .. n : b[k].start \in Int /\ b[k].end \in Int /\ b[k].start < b[k].end
  BY DEF Tile
<1>1. ASSUME NEW j \in 1 .. n, NEW k \in 1 .. n, j < k,
             b[j].start <= t, t < b[j].end, b[k].start <= t, t < b[k].end
      PROVE  FALSE
  <2>1. b[j].end <= b[k].start
    BY <1>1, TileOrder
  <2> QED
    BY <1>0, <1>1, <2>1
<1>2. ASSUME NEW k \in 1 .. n, b[k].start <= t, t < b[k].end
      PROVE  b[1].start <= t /\ t < b[n].end
  <2>1. b[1].start <= t
    <3>1. 1 < k => b[1].end <= b[k].start
      BY <1>0, TileOrder
    <3>2. k = 1 \/ 1 < k
      OBVIOUS
    <3> QED
      BY <1>0, <1>2, <3>1, <3>2
  <2>2. t < b[n].end
    <3>1. k < n => b[k].end <= b[n].start
      BY <1>0, TileOrder
    <3>2. k = n \/ k < n
      OBVIOUS
    <3> QED
      BY <1>0, <1>2, <3>1, <3>2
  <2> QED
    BY <2>1, <2>2
<1>3. ASSUME b[1].start <= t, t < b[n].end
      PROVE  \E k \in 1 .. n : b[k].start <= t /\ t < b[k].end
  <2> DEFINE N == {k \in 1 .. n : t < b[k].end}
  <2>1. N \subseteq Nat /\ N # {}
    BY <1>0, <1>3
  <2> HIDE DEF N
  <2>2. PICK k \in N : \A m \in N : k <= m
    BY <2>1, LeastOf
  <2> USE DEF N
  <2>3. k \in 1 .. n /\ t < b[k].end
    OBVIOUS
  <2>4. b[k].start <= t
    <3>1. CASE k = 1
      BY <1>3, <3>1
    <3>2. CASE k # 1
      <4>1. k - 1 \in 1 .. n /\ k - 1 \in 1 .. n - 1 /\ k - 1 + 1 = k /\ k - 1 < k
        BY <2>3, <3>2
      <4>2. k - 1 \notin N
        BY <2>2, <4>1
      <4>3. b[k - 1].end = b[k].start
        BY <4>1 DEF Tile
      <4> QED
        BY <1>0, <4>1, <4>2, <4>3
    <3> QED
      BY <3>1, <3>2
  <2> QED
    BY <2>3, <2>4
<1>4. ASSUME NEW j \in 1 .. n, NEW k \in 1 .. n,
             b[j].start <= t, t < b[j].end, b[k].start <= t, t < b[k].end
      PROVE  j = k
  <2>1. j < k \/ k < j \/ j = k
    OBVIOUS
  <2> QED
    BY <1>1, <1>4, <2>1
<1> QED
  BY <1>2, <1>3, <1>4

\* The calendar of Analytics is this one.
LEMMA SameDays ==
  /\ \A t : Stats!Day(t) = Periods!Day(t)
  /\ \A t : Stats!StartOfDay(t) = Periods!StartOfDay(t)
  /\ \A t : Stats!WeekDay(t) = Periods!WeekDay(t)
  /\ \A t, n : Stats!PlusDays(t, n) = Periods!PlusDays(t, n)
<1>1. \A t : Stats!Day(t) = Periods!Day(t)
  BY Zenon DEF Stats!Day, Periods!Day
<1>2. \A t : Stats!StartOfDay(t) = Periods!StartOfDay(t)
  BY Zenon, <1>1 DEF Stats!StartOfDay, Periods!StartOfDay
<1>3. \A t : Stats!WeekDay(t) = Periods!WeekDay(t)
  BY Zenon, <1>1 DEF Stats!WeekDay, Periods!WeekDay
<1>4. \A t, n : Stats!PlusDays(t, n) = Periods!PlusDays(t, n)
  BY Zenon DEF Stats!PlusDays, Periods!PlusDays
<1> QED
  BY <1>1, <1>2, <1>3, <1>4

\* So are its weeks,
LEMMA SameWeeks ==
  /\ \A t : Stats!StartOfWeekUTC(t) = Periods!StartOfWeekUTC(t)
  /\ \A t : Stats!EndOfWeekUTC(t) = Periods!EndOfWeekUTC(t)
<1>1. \A t : Stats!StartOfWeekUTC(t) = Periods!StartOfWeekUTC(t)
  <2> SUFFICES ASSUME NEW t PROVE Stats!StartOfWeekUTC(t) = Periods!StartOfWeekUTC(t)
    OBVIOUS
  <2>1. /\ Stats!WeekDay(t) = Periods!WeekDay(t) /\ Stats!StartOfDay(t) = Periods!StartOfDay(t)
        /\ \A s, n : Stats!PlusDays(s, n) = Periods!PlusDays(s, n)
    BY SameDays
  <2> QED
    BY Zenon, <2>1 DEF Stats!StartOfWeekUTC, Periods!StartOfWeekUTC
<1>2. \A t : Stats!EndOfWeekUTC(t) = Periods!EndOfWeekUTC(t)
  BY Zenon, SameDays DEF Stats!EndOfWeekUTC, Periods!EndOfWeekUTC
<1> QED
  BY <1>1, <1>2

\* its months
LEMMA SameMonths ==
  /\ \A y, m, d : Stats!UTC(y, m, d) = Periods!UTC(y, m, d)
  /\ \A t : Stats!YearOf(t) = Periods!YearOf(t)
  /\ \A t : Stats!MonthOf(t) = Periods!MonthOf(t)
<1>1. \A y : Stats!Leap(y) = Periods!Leap(y) /\ Stats!DayFromYear(y) = Periods!DayFromYear(y)
  <2>1. \A y : Stats!Leap(y) = Periods!Leap(y)
    BY Zenon DEF Stats!Leap, Periods!Leap
  <2>2. \A y : Stats!DayFromYear(y) = Periods!DayFromYear(y)
    BY Zenon DEF Stats!DayFromYear, Periods!DayFromYear
  <2> QED
    BY <2>1, <2>2
<1>2. Stats!DaysBeforeMonth = Periods!DaysBeforeMonth
  BY Zenon DEF Stats!DaysBeforeMonth, Periods!DaysBeforeMonth
<1>3. \A y, m, d : Stats!UTC(y, m, d) = Periods!UTC(y, m, d)
  <2> SUFFICES ASSUME NEW y, NEW m, NEW d PROVE Stats!UTC(y, m, d) = Periods!UTC(y, m, d)
    OBVIOUS
  <2>1. PICK year, month : /\ year = (IF y \in 0 .. 99 THEN 1900 + y ELSE y) + m \div 12
                           /\ month = m % 12
    OBVIOUS
  <2>2. Stats!UTC(y, m, d) = Units * (Stats!DayFromYear(year) + Stats!DaysBeforeMonth[month + 1]
                                      + (IF month > 1 /\ Stats!Leap(year) THEN 1 ELSE 0) + d - 1)
    BY SMT, <2>1 DEF Stats!UTC
  <2>3. Periods!UTC(y, m, d) = Units * (Periods!DayFromYear(year) + Periods!DaysBeforeMonth[month + 1]
                                        + (IF month > 1 /\ Periods!Leap(year) THEN 1 ELSE 0) + d - 1)
    BY SMT, <2>1 DEF Periods!UTC
  <2> QED
    BY Zenon, <1>1, <1>2, <2>2, <2>3
<1>4. \A t : Stats!YearOf(t) = Periods!YearOf(t)
  <2> SUFFICES ASSUME NEW t PROVE Stats!YearOf(t) = Periods!YearOf(t)
    OBVIOUS
  <2>1. PICK d : d = Stats!Day(t) /\ d = Periods!Day(t)
    BY SameDays
  <2>2. PICK a, b : a = 1970 + d \div 365 /\ b = 1970 + d \div 366
    OBVIOUS
  <2>3. Stats!YearOf(t) = CHOOSE y \in (IF a < b THEN a ELSE b) - 1 .. (IF a < b THEN b ELSE a) :
                            Stats!DayFromYear(y) <= d /\ d < Stats!DayFromYear(y + 1)
    BY SMT, <2>1, <2>2 DEF Stats!YearOf
  <2>4. Periods!YearOf(t) = CHOOSE y \in (IF a < b THEN a ELSE b) - 1 .. (IF a < b THEN b ELSE a) :
                              Periods!DayFromYear(y) <= d /\ d < Periods!DayFromYear(y + 1)
    BY SMT, <2>1, <2>2 DEF Periods!YearOf
  <2> QED
    BY Zenon, <1>1, <2>3, <2>4
<1>5. \A t : Stats!MonthOf(t) = Periods!MonthOf(t)
  BY Zenon, <1>3, <1>4 DEF Stats!MonthOf, Periods!MonthOf
<1> QED
  BY <1>3, <1>4, <1>5

\* and its buckets.
LEMMA SameBuckets ==
  ASSUME NEW g, NEW a, NEW n
  PROVE  Stats!Buckets(g, a, n) = Periods!Buckets(g, a, n)
<1>1. Stats!DailyBuckets(a, n) = Periods!DailyBuckets(a, n)
  BY Zenon, SameDays DEF Stats!DailyBuckets, Periods!DailyBuckets
<1>2. Stats!WeeklyBuckets(a, n) = Periods!WeeklyBuckets(a, n)
  BY Zenon, SameDays, SameWeeks DEF Stats!WeeklyBuckets, Periods!WeeklyBuckets
<1>3. Stats!MonthlyBuckets(a, n) = Periods!MonthlyBuckets(a, n)
  BY Zenon, SameMonths DEF Stats!MonthlyBuckets, Periods!MonthlyBuckets
<1> QED
  BY Zenon, <1>1, <1>2, <1>3 DEF Stats!Buckets, Periods!Buckets

\* Those of a report tile.
LEMMA ReportTiles ==
  ASSUME NEW g \in Stats!Reports, NEW at \in Nat, NEW b, b = Stats!Buckets(g, Stats!Clock(at), Count)
  PROVE  Stats!Clock(at) \in Int /\ Tile(b, Count, Stats!Clock(at))
<1>1. Stats!Clock(at) \in Int /\ Stats!Clock(at) >= 0 /\ Count \in 1 .. 90
  BY StatConstants DEF Stats!Clock
<1>2. g \in Periods!Granularities /\ b = Periods!Buckets(g, Stats!Clock(at), Count)
  BY SameBuckets DEF Stats!Reports, Stats!Granularities, Periods!Granularities
<1> HIDE DEF Stats!Clock
<1> QED
  BY <1>1, <1>2, MonthOfPresent, AnyBucketsTile

\* The span of n buckets.
SpanOf(b, n) == [start |-> b[1].start, end |-> b[n].end]

\* What is in the span is in one bucket.
LEMMA TileParts ==
  ASSUME NEW n \in 1 .. 90, NEW b, NEW a \in Int, Tile(b, n, a), NEW S, NEW tau, NEW share,
         \A r \in S : tau[r] \in Int /\ b[1].start <= tau[r] /\ tau[r] < b[n].end,
         \A k \in 1 .. n : share[k] \subseteq S,
         \A k \in 1 .. n : \A r \in S : r \in share[k] <=> b[k].start <= tau[r] /\ tau[r] < b[k].end
  PROVE  Parts(share, 1 .. n, S)
<1>1. ASSUME NEW r \in S
      PROVE  /\ \E k \in 1 .. n : r \in share[k]
             /\ \A j, k \in 1 .. n : r \in share[j] /\ r \in share[k] => j = k
  <2>1. PICK t \in Int : t = tau[r]
    OBVIOUS
  <2>2. b[1].start <= t /\ t < b[n].end
    BY <2>1
  <2>3. \A k \in 1 .. n : r \in share[k] <=> b[k].start <= t /\ t < b[k].end
    BY <2>1
  <2>4. /\ \E k \in 1 .. n : b[k].start <= t /\ t < b[k].end
        /\ \A j, k \in 1 .. n : b[j].start <= t /\ t < b[j].end /\ b[k].start <= t /\ t < b[k].end => j = k
    BY <2>2, TileCovers
  <2> QED
    BY Zenon, <2>3, <2>4
<1> QED
  BY <1>1 DEF Parts

\* What was made in the span is what was made in its buckets.
LEMMA CreatedShares ==
  ASSUME NEW n \in 1 .. 90, NEW b, NEW a \in Int, Tile(b, n, a), NEW db, NEW t \in Nat, TablesOK(db, t),
         NEW g, \A k \in 1 .. n : g[k] = Stats!Cardinality(Stats!CreatedIn(db, b[k]))
  PROVE  Sum(g, 1 .. n) = Stats!Cardinality(Stats!CreatedIn(db, SpanOf(b, n)))
<1> DEFINE S == Stats!CreatedIn(db, SpanOf(b, n))
           tau == [r \in ReportRids |-> Stats!Clock(db.made[r].at)]
           share == [k \in 1 .. n |-> Stats!CreatedIn(db, b[k])]
<1>1. \A r \in Stats!Made(db) : r \in ReportRids /\ tau[r] \in Int /\ tau[r] = Stats!Clock(db.made[r].at)
  BY StatConstants DEF Stats!Made, Stats!Clock, TablesOK, RowOK, MadeRow
<1> HIDE DEF tau
<1>2. /\ S \subseteq Stats!Made(db)
      /\ \A r \in S : tau[r] \in Int /\ b[1].start <= tau[r] /\ tau[r] < b[n].end
  BY <1>1 DEF Stats!CreatedIn, Stats!InRange, SpanOf
<1>3. \A k \in 1 .. n : \A r \in Stats!Made(db) : r \in share[k] <=> b[k].start <= tau[r] /\ tau[r] < b[k].end
  BY <1>1 DEF Stats!CreatedIn, Stats!InRange
<1>4. \A k \in 1 .. n : share[k] \subseteq S
  <2> SUFFICES ASSUME NEW k \in 1 .. n, NEW r \in share[k] PROVE r \in S
    OBVIOUS
  <2>1. r \in Stats!Made(db)
    BY DEF Stats!CreatedIn
  <2>2. tau[r] \in Int /\ b[k].start <= tau[r] /\ tau[r] < b[k].end
    BY <1>1, <1>3, <2>1
  <2>3. b[1].start <= tau[r] /\ tau[r] < b[n].end
    BY <2>2, TileCovers
  <2> QED
    BY <1>1, <2>1, <2>3 DEF Stats!CreatedIn, Stats!InRange, SpanOf
<1>5. IsFiniteSet(S)
  BY <1>2, FS_Subset, StatConstants DEF Stats!Made
<1>6. \A k \in 1 .. n : g[k] = Cardinality(share[k])
  BY StatsCount
<1> HIDE DEF S, share
<1>7. Parts(share, 1 .. n, S)
  BY <1>2, <1>3, <1>4, TileParts
<1>8. Sum(g, 1 .. n) = Cardinality(S)
  <2>1. IsFiniteSet(1 .. n)
    BY FS_Interval
  <2> QED
    BY <1>5, <1>6, <1>7, <2>1, CountByParts
<1> QED
  BY <1>8, StatsCount DEF S

\* So are the hours that ended in it.
LEMMA HoursShare ==
  ASSUME NEW n \in 1 .. 90, NEW b, NEW a \in Int, Tile(b, n, a), NEW db, NEW t \in Nat, TablesOK(db, t),
         NEW g, \A k \in 1 .. n : g[k] = Stats!Hours(db, Stats!EndedIn(db, b[k]))
  PROVE  Sum(g, 1 .. n) = Stats!Hours(db, Stats!EndedIn(db, SpanOf(b, n)))
<1> DEFINE R == {r \in ReportRids : db.used[r] # <<>> /\ db.used[r][1].status = "COMPLETED"}
           S == Stats!EndedIn(db, SpanOf(b, n))
           tau == [r \in ReportRids |-> Stats!Clock(db.used[r][1].endedAt)]
           share == [k \in 1 .. n |-> Stats!EndedIn(db, b[k])]
<1>1. \A r \in R : r \in ReportRids /\ tau[r] \in Int /\ tau[r] = Stats!Clock(db.used[r][1].endedAt)
  BY StatConstants DEF Stats!Clock, TablesOK, RowOK, Sessions
<1> HIDE DEF tau
<1>2. /\ S \subseteq R
      /\ \A r \in S : tau[r] \in Int /\ b[1].start <= tau[r] /\ tau[r] < b[n].end
  <2>1. S \subseteq R
    BY DEF Stats!EndedIn
  <2> QED
    BY <1>1, <2>1 DEF Stats!EndedIn, Stats!InRange, SpanOf
<1>3. \A k \in 1 .. n : \A r \in R : r \in share[k] <=> b[k].start <= tau[r] /\ tau[r] < b[k].end
  BY <1>1 DEF Stats!EndedIn, Stats!InRange
<1>4. \A k \in 1 .. n : share[k] \subseteq S
  <2> SUFFICES ASSUME NEW k \in 1 .. n, NEW r \in share[k] PROVE r \in S
    OBVIOUS
  <2>1. r \in R
    BY DEF Stats!EndedIn
  <2>2. tau[r] \in Int /\ b[k].start <= tau[r] /\ tau[r] < b[k].end
    BY <1>1, <1>3, <2>1
  <2>3. b[1].start <= tau[r] /\ tau[r] < b[n].end
    BY <2>2, TileCovers
  <2> QED
    BY <1>1, <2>1, <2>3 DEF Stats!EndedIn, Stats!InRange, SpanOf
<1>5. IsFiniteSet(S) /\ S \in SUBSET ReportRids /\ IsFiniteSet(1 .. n)
  <2>1. S \subseteq ReportRids
    BY <1>2
  <2> HIDE DEF S
  <2>2. IsFiniteSet(S)
    BY <2>1, FS_Subset, StatConstants
  <2> QED
    BY <2>1, <2>2, FS_Interval
<1>6. \A k \in 1 .. n : g[k] = Sum(HoursOf(db), share[k])
  <2>1. \A k \in 1 .. n : share[k] \in SUBSET ReportRids
    BY <1>4, <1>5
  <2> QED
    BY <2>1, HoursAre
<1>7. \A r \in S : HoursOf(db)[r] \in Nat
  BY <1>5, HoursAre
<1>8. Stats!Hours(db, S) = Sum(HoursOf(db), S)
  BY <1>5, HoursAre
<1> HIDE DEF S, share, R
<1>9. Parts(share, 1 .. n, S)
  <2>1. \A k \in 1 .. n : \A r \in S : r \in share[k] <=> b[k].start <= tau[r] /\ tau[r] < b[k].end
    BY <1>2, <1>3
  <2> QED
    BY <1>2, <1>4, <2>1, TileParts
<1>10. Sum(g, 1 .. n) = Sum(HoursOf(db), S)
  BY <1>5, <1>6, <1>7, <1>9, SumByParts
<1> QED
  BY <1>8, <1>10 DEF S

\* Every reservation is of the department of its node.
LEMMA DepartmentsShare ==
  ASSUME NEW db, NEW t \in Nat, TablesOK(db, t), NEW g, NEW h,
         \A d \in Departments : /\ g[d] = Stats!Cardinality(Stats!OfDepartment(db, d))
                                /\ h[d] = Stats!Hours(db, Stats!OfDepartment(db, d))
  PROVE  /\ Sum(g, Departments) = Stats!Cardinality(Stats!Made(db))
         /\ Sum(h, Departments) = Stats!Hours(db, ReportRids)
<1> DEFINE S == Stats!Made(db)
           share == [d \in Departments |-> Stats!OfDepartment(db, d)]
<1>1. S \in SUBSET ReportRids /\ IsFiniteSet(S) /\ IsFiniteSet(Departments)
  BY FS_Subset, StatConstants DEF Stats!Made
<1>2. Parts(share, Departments, S)
  <2>1. \A r \in S : NodeDept[db.booking[r].node] \in Departments
    BY StatConstants DEF Stats!Made, TablesOK, RowOK
  <2> QED
    BY <2>1 DEF Parts, Stats!OfDepartment
<1>3. \A d \in Departments : share[d] \in SUBSET ReportRids
  BY <1>1 DEF Stats!OfDepartment
<1>4. \A d \in Departments : g[d] = Cardinality(share[d]) /\ h[d] = Sum(HoursOf(db), share[d])
  BY <1>3, StatsCount, HoursAre
<1> HIDE DEF share, S
<1>5. Sum(g, Departments) = Cardinality(S)
  BY <1>1, <1>2, <1>4, CountByParts
<1>6. Sum(h, Departments) = Sum(HoursOf(db), S)
  <2>1. \A r \in S : HoursOf(db)[r] \in Nat
    BY <1>1, HoursAre
  <2> QED
    BY <1>1, <1>2, <1>4, <2>1, SumByParts
<1> QED
  BY <1>1, <1>5, <1>6, HoursAre, HoursOfMade, StatsCount DEF S

-----------------------------------------------------------------------------
(* The answer to one statement, read of tables db of a request that began    *)
(* with the tables old, and what of it stays true when the tables grow       *)

\* The answer a is from low to high.
Between(low, a, high) == a \in Nat /\ low <= a /\ a <= high

\* Of one bucket of a report: no fewer than at first, no more than now, and of a
\* bucket that is over exactly those of the beginning.
BucketAnswer(q, a, at, b, old, db) ==
  /\ q.name = "total" =>
       /\ Between(Stats!Cardinality(Stats!CreatedIn(old, b)), a, Stats!Cardinality(Stats!CreatedIn(db, b)))
       /\ b.end <= Stats!Clock(at) => a = Stats!Cardinality(Stats!CreatedIn(old, b))
  /\ q.name = "byStatus" /\ b.end <= Stats!Clock(at) =>
       Stats!SumFunction(a) = Stats!Cardinality(Stats!CreatedIn(old, b))
  /\ q.name = "hours" =>
       Between(Stats!Hours(old, Stats!EndedIn(old, b)), a, Stats!Hours(db, Stats!EndedIn(db, b)))

\* Of one department.
DepartmentAnswer(q, a, old, db) ==
  /\ q.name = "total" => Between(Stats!Cardinality(Stats!OfDepartment(old, q.of)), a,
                                 Stats!Cardinality(Stats!OfDepartment(db, q.of)))
  /\ q.name = "hours" => Between(Stats!Hours(old, Stats!OfDepartment(old, q.of)), a,
                                 Stats!Hours(db, Stats!OfDepartment(db, q.of)))

\* Of one course.
CourseAnswer(q, a, old, db) ==
  q.name = "total" => Between(Stats!Cardinality(Stats!OfCourse(old, q.of)), a,
                              Stats!Cardinality(Stats!OfCourse(db, q.of)))

\* Of a request of any kind.
AnswerOK(q, a, kind, at, b, old, db) ==
  /\ kind \in Stats!Reports => BucketAnswer(q, a, at, b[q.of], old, db)
  /\ kind = "departments" => DepartmentAnswer(q, a, old, db)
  /\ kind = "courses" => CourseAnswer(q, a, old, db)

\* It stays true when the tables grow.
LEMMA AnswerStays ==
  ASSUME NEW t \in Nat, NEW old, NEW x, NEW y, TablesOK(old, t), TablesOK(x, t), TablesOK(y, t),
         NEW at \in Nat, Grew(x, y, at),
         NEW q, NEW a, NEW kind, NEW since, NEW b, AnswerOK(q, a, kind, since, b, old, x)
  PROVE  AnswerOK(q, a, kind, since, b, old, y)
<1>1. ASSUME NEW S \in SUBSET ReportRids, NEW T \in SUBSET ReportRids, S \subseteq T
      PROVE  /\ Stats!Cardinality(S) \in Nat /\ Stats!Cardinality(T) \in Nat
             /\ Stats!Cardinality(S) <= Stats!Cardinality(T)
             /\ Stats!Hours(x, S) \in Nat /\ Stats!Hours(y, T) \in Nat /\ Stats!Hours(x, S) <= Stats!Hours(y, T)
  BY <1>1, CountRows, HoursGrow
<1>2. ASSUME NEW S \in SUBSET ReportRids
      PROVE  Stats!Cardinality(S) \in Nat /\ Stats!Hours(old, S) \in Nat
  BY CountRows, HoursAre
<1>3. CASE kind \in Stats!Reports
  <2>1. PICK c : c = b[q.of]
    OBVIOUS
  <2>2. BucketAnswer(q, a, since, c, old, x)
    BY <1>3, <2>1 DEF AnswerOK
  <2>3. /\ Stats!CreatedIn(x, c) \in SUBSET ReportRids /\ Stats!CreatedIn(y, c) \in SUBSET ReportRids
        /\ Stats!EndedIn(x, c) \in SUBSET ReportRids /\ Stats!EndedIn(y, c) \in SUBSET ReportRids
        /\ Stats!CreatedIn(x, c) \subseteq Stats!CreatedIn(y, c) /\ Stats!EndedIn(x, c) \subseteq Stats!EndedIn(y, c)
        /\ Stats!CreatedIn(old, c) \in SUBSET ReportRids /\ Stats!EndedIn(old, c) \in SUBSET ReportRids
    BY RowSets, MadeGrows
  <2>4. BucketAnswer(q, a, since, c, old, y)
    BY <1>1, <1>2, <2>2, <2>3 DEF BucketAnswer, Between
  <2> QED
    BY <1>3, <2>1, <2>4 DEF AnswerOK, Stats!Reports, Stats!Granularities
<1>4. CASE kind = "departments"
  <2>1. PICK d : d = q.of
    OBVIOUS
  <2>3. /\ Stats!OfDepartment(x, d) \in SUBSET ReportRids /\ Stats!OfDepartment(y, d) \in SUBSET ReportRids
        /\ Stats!OfDepartment(x, d) \subseteq Stats!OfDepartment(y, d)
        /\ Stats!OfDepartment(old, d) \in SUBSET ReportRids
    BY RowSets, MadeGrows
  <2>4. DepartmentAnswer(q, a, old, y)
    BY <1>1, <1>2, <1>4, <2>1, <2>3 DEF DepartmentAnswer, Between, AnswerOK
  <2> QED
    BY <1>4, <2>4 DEF AnswerOK, Stats!Reports, Stats!Granularities
<1>5. CASE kind = "courses"
  <2>1. PICK d : d = q.of
    OBVIOUS
  <2>3. /\ Stats!OfCourse(x, d) \in SUBSET ReportRids /\ Stats!OfCourse(y, d) \in SUBSET ReportRids
        /\ Stats!OfCourse(x, d) \subseteq Stats!OfCourse(y, d)
        /\ Stats!OfCourse(old, d) \in SUBSET ReportRids
    BY RowSets, MadeGrows
  <2>4. CourseAnswer(q, a, old, y)
    BY <1>1, <1>2, <1>5, <2>1, <2>3 DEF CourseAnswer, Between, AnswerOK
  <2> QED
    BY <1>5, <2>4 DEF AnswerOK, Stats!Reports, Stats!Granularities
<1>7. CASE kind \notin Stats!Reports \cup {"departments", "courses"}
  BY <1>7 DEF AnswerOK
<1> QED
  BY <1>3, <1>4, <1>5, <1>7

\* By status: every reservation has one.
LEMMA StatusesShare ==
  ASSUME NEW db, NEW t \in Nat, TablesOK(db, t), NEW S, S \subseteq Stats!Made(db)
  PROVE  Stats!SumFunction(Stats!CountStatus(db, S)) = Stats!Cardinality(S)
<1> DEFINE share == [s \in Stats!Statuses |-> {r \in S : db.booking[r].status = s}]
           g == Stats!CountStatus(db, S)
<1>1. DOMAIN g = Stats!Statuses /\ \A s \in Stats!Statuses : g[s] = Cardinality(share[s])
  BY StatsCount DEF Stats!CountStatus
<1>2. IsFiniteSet(S)
  BY FS_Subset, StatConstants DEF Stats!Made
<1>3. IsFiniteSet(Stats!Statuses)
  <2>1. /\ IsFiniteSet({"PENDING"}) /\ IsFiniteSet({"APPROVED"}) /\ IsFiniteSet({"ACTIVE"})
        /\ IsFiniteSet({"REJECTED"}) /\ IsFiniteSet({"CANCELLED"}) /\ IsFiniteSet({"COMPLETED"})
    BY FS_Singleton
  <2>2. IsFiniteSet(({"PENDING"} \cup {"APPROVED"}) \cup {"ACTIVE"})
    BY Zenon, <2>1, FS_Union
  <2>3. IsFiniteSet(({"REJECTED"} \cup {"CANCELLED"}) \cup {"COMPLETED"})
    BY Zenon, <2>1, FS_Union
  <2>4. IsFiniteSet((({"PENDING"} \cup {"APPROVED"}) \cup {"ACTIVE"})
                    \cup (({"REJECTED"} \cup {"CANCELLED"}) \cup {"COMPLETED"}))
    BY Zenon, <2>2, <2>3, FS_Union
  <2>5. Stats!Statuses = (({"PENDING"} \cup {"APPROVED"}) \cup {"ACTIVE"})
                         \cup (({"REJECTED"} \cup {"CANCELLED"}) \cup {"COMPLETED"})
    BY DEF Stats!Statuses
  <2> QED
    BY Zenon, <2>4, <2>5
<1>4. Parts(share, Stats!Statuses, S)
  <2>1. \A r \in S : db.booking[r].status \in Stats!Statuses
    BY DEF Stats!Made, TablesOK, RowOK, StatBooking, StatStatuses
  <2> QED
    BY <2>1 DEF Parts
<1> HIDE DEF g, share
<1>5. Sum(g, Stats!Statuses) = Cardinality(S)
  BY <1>1, <1>2, <1>3, <1>4, CountByParts
<1>6. Stats!SumFunction(g) = Sum(g, Stats!Statuses)
  BY <1>1, <1>3, SumOfFunction
<1> QED
  BY <1>5, <1>6, StatsCount DEF g

\* What each statement evaluates to.
LEMMA EvalTotal ==
  ASSUME NEW q, NEW r
  PROVE  /\ q.name = "total" => Stats!Eval(q, r) = Stats!Cardinality(Stats!Selected(q, r))
         /\ q.name = "byStatus" => Stats!Eval(q, r) = Stats!CountStatus(Stats!Tables, Stats!Selected(q, r))
         /\ q.name = "hours" =>
              Stats!Eval(q, r) = Stats!Hours(Stats!Tables, IF r.kind \in Stats!Reports
                                                           THEN Stats!EndedIn(Stats!Tables, r.buckets[q.of])
                                                           ELSE Stats!Selected(q, r))
BY DEF Stats!Eval

\* What each statement counts, by the kind of its request.
LEMMA SelectedAre ==
  ASSUME NEW q, NEW r
  PROVE  /\ r.kind \in Stats!Reports => Stats!Selected(q, r) = Stats!CreatedIn(Stats!Tables, r.buckets[q.of])
         /\ r.kind = "departments" => Stats!Selected(q, r) = Stats!OfDepartment(Stats!Tables, q.of)
         /\ r.kind = "courses" => Stats!Selected(q, r) = Stats!OfCourse(Stats!Tables, q.of)
<1>1. r.kind \in Stats!Reports => r.kind # "departments" /\ r.kind # "courses"
  BY DEF Stats!Reports, Stats!Granularities
<1> QED
  BY <1>1 DEF Stats!Selected

\* An answer is right when it is given.
LEMMA AnswerIsOK ==
  ASSUME now \in Nat, NEW old, TablesOK(old, now), TablesOK(Stats!Tables, now),
         NEW r, r.at \in Nat, Grew(old, Stats!Tables, r.at),
         NEW q, r.kind \in Stats!Reports => r.buckets[q.of].end \in Int
  PROVE  AnswerOK(q, Stats!Eval(q, r), r.kind, r.at, r.buckets, old, Stats!Tables)
<1> DEFINE a == Stats!Eval(q, r)
           db == Stats!Tables
<1>0. /\ q.name = "total" => a = Stats!Cardinality(Stats!Selected(q, r))
      /\ q.name = "byStatus" => a = Stats!CountStatus(db, Stats!Selected(q, r))
      /\ q.name = "hours" => a = Stats!Hours(db, IF r.kind \in Stats!Reports
                                                 THEN Stats!EndedIn(db, r.buckets[q.of]) ELSE Stats!Selected(q, r))
  BY EvalTotal
<1>d. db = Stats!Tables
  OBVIOUS
<1> HIDE DEF a, db
<1>g. now \in Nat /\ TablesOK(old, now) /\ TablesOK(db, now) /\ r.at \in Nat /\ Grew(old, db, r.at)
  BY <1>d
<1>s. /\ r.kind \in Stats!Reports => Stats!Selected(q, r) = Stats!CreatedIn(db, r.buckets[q.of])
      /\ r.kind = "departments" => Stats!Selected(q, r) = Stats!OfDepartment(db, q.of)
      /\ r.kind = "courses" => Stats!Selected(q, r) = Stats!OfCourse(db, q.of)
  BY <1>d, SelectedAre
<1>1. ASSUME NEW S \in SUBSET ReportRids, NEW T \in SUBSET ReportRids, S \subseteq T
      PROVE  /\ Between(Stats!Cardinality(S), Stats!Cardinality(T), Stats!Cardinality(T))
             /\ Between(Stats!Hours(old, S), Stats!Hours(db, T), Stats!Hours(db, T))
  BY <1>g, <1>1, CountRows, HoursGrow DEF Between
<1>3. CASE r.kind \in Stats!Reports
  <2>1. PICK b : b = r.buckets[q.of]
    OBVIOUS
  <2>2. /\ Stats!CreatedIn(old, b) \in SUBSET ReportRids /\ Stats!CreatedIn(db, b) \in SUBSET ReportRids
        /\ Stats!EndedIn(old, b) \in SUBSET ReportRids /\ Stats!EndedIn(db, b) \in SUBSET ReportRids
        /\ Stats!CreatedIn(old, b) \subseteq Stats!CreatedIn(db, b)
        /\ Stats!EndedIn(old, b) \subseteq Stats!EndedIn(db, b)
        /\ Stats!CreatedIn(db, b) \subseteq Stats!Made(db)
    BY <1>g, RowSets, MadeGrows DEF Stats!CreatedIn
  <2>3. b.end <= Stats!Clock(r.at) => Stats!CreatedIn(db, b) = Stats!CreatedIn(old, b)
    BY <1>3, <1>g, <2>1, PastIsClosed
  <2>4. ASSUME q.name = "total"
        PROVE  /\ Between(Stats!Cardinality(Stats!CreatedIn(old, b)), a, Stats!Cardinality(Stats!CreatedIn(db, b)))
               /\ b.end <= Stats!Clock(r.at) => a = Stats!Cardinality(Stats!CreatedIn(old, b))
    <3>1. a = Stats!Cardinality(Stats!CreatedIn(db, b))
      BY <1>0, <1>3, <1>s, <2>1, <2>4
    <3>2. Between(Stats!Cardinality(Stats!CreatedIn(old, b)), Stats!Cardinality(Stats!CreatedIn(db, b)),
                  Stats!Cardinality(Stats!CreatedIn(db, b)))
      BY <1>1, <2>2
    <3> QED
      BY Zenon, <2>3, <3>1, <3>2
  <2>5. ASSUME q.name = "byStatus", b.end <= Stats!Clock(r.at)
        PROVE  Stats!SumFunction(a) = Stats!Cardinality(Stats!CreatedIn(old, b))
    <3>1. a = Stats!CountStatus(db, Stats!CreatedIn(db, b))
      BY <1>0, <1>3, <1>s, <2>1, <2>5
    <3>2. Stats!SumFunction(Stats!CountStatus(db, Stats!CreatedIn(db, b))) = Stats!Cardinality(Stats!CreatedIn(db, b))
      BY <1>g, <2>2, StatusesShare
    <3> QED
      BY Zenon, <2>3, <2>5, <3>1, <3>2
  <2>6. ASSUME q.name = "hours"
        PROVE  Between(Stats!Hours(old, Stats!EndedIn(old, b)), a, Stats!Hours(db, Stats!EndedIn(db, b)))
    <3>1. a = Stats!Hours(db, Stats!EndedIn(db, b))
      BY <1>0, <1>3, <2>1, <2>6
    <3>2. Between(Stats!Hours(old, Stats!EndedIn(old, b)), Stats!Hours(db, Stats!EndedIn(db, b)),
                  Stats!Hours(db, Stats!EndedIn(db, b)))
      BY <1>1, <2>2
    <3> QED
      BY Zenon, <3>1, <3>2
  <2>7. BucketAnswer(q, a, r.at, b, old, db)
    BY Zenon, <2>4, <2>5, <2>6 DEF BucketAnswer
  <2> QED
    BY <1>3, <2>1, <2>7 DEF AnswerOK, Stats!Reports, Stats!Granularities, a, db
<1>4. CASE r.kind = "departments"
  <2>0. r.kind \notin Stats!Reports
    BY <1>4 DEF Stats!Reports, Stats!Granularities
  <2>1. PICK d : d = q.of
    OBVIOUS
  <2>2. /\ Stats!OfDepartment(old, d) \in SUBSET ReportRids /\ Stats!OfDepartment(db, d) \in SUBSET ReportRids
        /\ Stats!OfDepartment(old, d) \subseteq Stats!OfDepartment(db, d)
    BY <1>g, RowSets, MadeGrows
  <2>3. /\ q.name = "total" => a = Stats!Cardinality(Stats!OfDepartment(db, d))
        /\ q.name = "hours" => a = Stats!Hours(db, Stats!OfDepartment(db, d))
    BY <1>0, <1>4, <1>s, <2>0, <2>1
  <2>4. DepartmentAnswer(q, a, old, db)
    BY <1>1, <2>1, <2>2, <2>3 DEF DepartmentAnswer
  <2> QED
    BY <1>4, <2>0, <2>4 DEF AnswerOK, a, db
<1>5. CASE r.kind = "courses"
  <2>0. r.kind \notin Stats!Reports
    BY <1>5 DEF Stats!Reports, Stats!Granularities
  <2>1. PICK d : d = q.of
    OBVIOUS
  <2>2. /\ Stats!OfCourse(old, d) \in SUBSET ReportRids /\ Stats!OfCourse(db, d) \in SUBSET ReportRids
        /\ Stats!OfCourse(old, d) \subseteq Stats!OfCourse(db, d)
    BY <1>g, RowSets, MadeGrows
  <2>3. q.name = "total" => a = Stats!Cardinality(Stats!OfCourse(db, d))
    BY <1>0, <1>5, <1>s, <2>0, <2>1
  <2>4. CourseAnswer(q, a, old, db)
    BY <1>1, <2>1, <2>2, <2>3 DEF CourseAnswer
  <2> QED
    BY <1>5, <2>0, <2>4 DEF AnswerOK, a, db
<1>7. CASE r.kind \notin Stats!Reports \cup {"departments", "courses"}
  BY <1>7 DEF AnswerOK
<1> QED
  BY <1>3, <1>4, <1>5, <1>7

-----------------------------------------------------------------------------
(* The request, from its first statement to its answer *)

\* All answers so far are right.
Answers(kind, at, b, got, old, db) ==
  \A q \in DOMAIN got : AnswerOK(q, got[q], kind, at, b, old, db)

\* What a request asks is fixed when it comes; what it has not been answered yet, it asks still.
RequestOK(r, old, db, t) ==
  /\ r = [kind |-> r.kind, at |-> r.at, buckets |-> r.buckets, todo |-> r.todo, got |-> r.got, pc |-> r.pc]
  /\ r.pc \in {"idle", "reading", "answered"}
  /\ r.pc # "idle" =>
       /\ r.kind \in Kinds /\ r.at \in Nat /\ r.at <= t
       /\ r.todo \subseteq Stats!Statements(r.kind)
       /\ DOMAIN r.got = Stats!Statements(r.kind) \ r.todo
       /\ r.pc = "answered" => r.todo = {}
       /\ r.kind \in Stats!Reports => r.buckets = Stats!Buckets(r.kind, Stats!Clock(r.at), Count)
       /\ TablesOK(old, t) /\ Grew(old, db, r.at)
       /\ Answers(r.kind, r.at, r.buckets, r.got, old, db)

\* The inductive invariant of Analytics.
StatInv == now \in Nat /\ TablesOK(Stats!Tables, now) /\ RequestOK(req, begun, Stats!Tables, now)

\* The statements of a kind.
LEMMA StatementsAre ==
  ASSUME NEW kind
  PROVE  /\ kind \in Stats!Reports =>
              Stats!Statements(kind) = {Stats!Q(name, k) : name \in {"total", "byStatus", "hours"}, k \in 1 .. Count}
         /\ kind = "departments" =>
              Stats!Statements(kind) = {Stats!Q(name, d) : name \in {"students", "faculty", "total", "hours", "active"},
                                                           d \in Departments}
         /\ kind = "courses" =>
              Stats!Statements(kind) = {Stats!Q(name, c) : name \in {"total", "active", "hours"}, c \in Courses}
         /\ kind \in {"university", "gpu"} =>
              {Stats!Q("nodes", None), Stats!Q("connectivity", None)} \subseteq Stats!Statements(kind)
         /\ kind = "gpu" => Stats!Q("snapshots", None) \in Stats!Statements(kind)
         /\ kind \in {"university", "gpu"} => \A q \in Stats!Statements(kind) : q = Stats!Q(q.name, None)
<1>1. CASE kind \in Stats!Reports
  <2>1. kind \notin {"university", "departments", "gpu", "students", "courses"}
    BY <1>1 DEF Stats!Reports, Stats!Granularities
  <2>2. Stats!Statements(kind) = Stats!buildReport
    BY <1>1, <2>1 DEF Stats!Statements
  <2> QED
    BY <2>1, <2>2 DEF Stats!buildReport, Stats!Each
<1>2. CASE kind \notin Stats!Reports
  <2>1. /\ kind = "departments" => Stats!Statements(kind) = Stats!listDepartmentAnalytics
        /\ kind = "courses" => Stats!Statements(kind) = Stats!listTopCourses
        /\ kind = "gpu" => Stats!Statements(kind) = Stats!getGpuUtilization
        /\ kind = "university" => Stats!Statements(kind) = Stats!getUniversityAnalytics
    BY <1>2 DEF Stats!Statements
  <2>2. /\ {Stats!Q("nodes", None), Stats!Q("connectivity", None)} \subseteq Stats!getGpuUtilization
        /\ {Stats!Q("nodes", None), Stats!Q("connectivity", None)} \subseteq Stats!getUniversityAnalytics
        /\ Stats!Q("snapshots", None) \in Stats!getGpuUtilization
    BY DEF Stats!getGpuUtilization, Stats!getUniversityAnalytics, Stats!listNodeConnectivity, Stats!Each
  <2>3. /\ \A q \in Stats!getGpuUtilization : q = Stats!Q(q.name, None)
        /\ \A q \in Stats!getUniversityAnalytics : q = Stats!Q(q.name, None)
    BY DEF Stats!getGpuUtilization, Stats!getUniversityAnalytics, Stats!listNodeConnectivity, Stats!Each, Stats!Q
  <2> QED
    BY <1>2, <2>1, <2>2, <2>3 DEF Stats!listDepartmentAnalytics, Stats!listTopCourses, Stats!Each
<1> QED
  BY <1>1, <1>2

\* The end of every bucket of a report is a moment.
LEMMA BucketsAreMoments ==
  ASSUME NEW r, r.kind \in Stats!Reports, r.at \in Nat,
         r.buckets = Stats!Buckets(r.kind, Stats!Clock(r.at), Count),
         NEW q \in Stats!Statements(r.kind)
  PROVE  q.of \in 1 .. Count /\ r.buckets[q.of].end \in Int
<1>1. q.of \in 1 .. Count
  BY StatementsAre DEF Stats!Q
<1>2. Tile(r.buckets, Count, Stats!Clock(r.at))
  BY ReportTiles
<1> QED
  BY <1>1, <1>2 DEF Tile

\* Right answers stay right while the tables grow.
LEMMA AnswersStay ==
  ASSUME NEW t \in Nat, NEW old, NEW x, NEW y, TablesOK(old, t), TablesOK(x, t), TablesOK(y, t),
         NEW at \in Nat, Grew(x, y, at),
         NEW kind, NEW since, NEW b, NEW got, Answers(kind, since, b, got, old, x)
  PROVE  Answers(kind, since, b, got, old, y)
BY AnswerStays DEF Answers

\* The invariant holds after a request comes,
LEMMA AskKeeps ==
  ASSUME StatInv, NEW kind \in Kinds, Stats!Ask(kind)
  PROVE  StatInv'
<1>1. UNCHANGED <<now, booking, used, made, role>> /\ begun' = Stats!Tables
  BY DEF Stats!Ask, Stats!tables, Stats!life
<1>2. Stats!Tables' = Stats!Tables
  BY <1>1 DEF Stats!Tables
<1>3. PICK b : /\ b = IF kind \in Stats!Reports THEN Stats!Buckets(kind, Stats!Clock(now), Count) ELSE <<>>
               /\ req' = [kind |-> kind, at |-> now, buckets |-> b, todo |-> Stats!Statements(kind),
                          got |-> <<>>, pc |-> "reading"]
  BY DEF Stats!Ask, Stats!Idle
<1>4. DOMAIN req'.got = {}
  BY <1>3
<1>5. now \in Nat /\ TablesOK(Stats!Tables, now) /\ Grew(Stats!Tables, Stats!Tables, now)
  BY NothingGrows DEF StatInv
<1>6. Answers(req'.kind, req'.at, req'.buckets, req'.got, begun', Stats!Tables')
  BY <1>4 DEF Answers
<1>7. RequestOK(req', begun', Stats!Tables', now')
  BY <1>1, <1>2, <1>3, <1>4, <1>5, <1>6 DEF RequestOK
<1> QED
  BY <1>1, <1>2, <1>5, <1>7 DEF StatInv

\* after it has been answered,
LEMMA DoneKeeps ==
  ASSUME StatInv, Stats!Done
  PROVE  StatInv'
<1>1. UNCHANGED <<now, booking, used, made, role>> /\ req' = Stats!Idle
  BY DEF Stats!Done, Stats!tables, Stats!life
<1>2. Stats!Tables' = Stats!Tables
  BY <1>1 DEF Stats!Tables
<1>3. RequestOK(req', begun', Stats!Tables', now')
  BY <1>1 DEF RequestOK, Stats!Idle
<1> QED
  BY <1>1, <1>2, <1>3 DEF StatInv

\* after anything that goes on besides,
LEMMA MeanwhileKeeps ==
  ASSUME StatInv, Stats!Meanwhile
  PROVE  StatInv'
<1>1. /\ now' \in Nat /\ now <= now' /\ TablesOK(Stats!Tables', now') /\ Grew(Stats!Tables, Stats!Tables', now)
      /\ UNCHANGED <<req, begun>>
  BY MeanwhileGrows DEF StatInv, Stats!Meanwhile
<1>2. CASE req.pc = "idle"
  BY <1>1, <1>2 DEF StatInv, RequestOK
<1>3. CASE req.pc # "idle"
  <2>1. /\ now \in Nat /\ req.at \in Nat /\ req.at <= now
        /\ TablesOK(begun, now) /\ TablesOK(Stats!Tables, now) /\ Grew(begun, Stats!Tables, req.at)
        /\ Answers(req.kind, req.at, req.buckets, req.got, begun, Stats!Tables)
    BY <1>3 DEF StatInv, RequestOK
  <2>2. TablesOK(begun, now') /\ TablesOK(Stats!Tables, now')
    BY <1>1, <2>1, NothingGrows
  <2>3. Grew(begun, Stats!Tables', req.at)
    BY <1>1, <2>1, <2>2, GrewOn
  <2>4. Answers(req.kind, req.at, req.buckets, req.got, begun, Stats!Tables')
    BY <1>1, <2>1, <2>2, AnswersStay
  <2>5. req.at <= now'
    BY <1>1, <2>1
  <2>6. RequestOK(req, begun, Stats!Tables', now')
    BY <1>3, <2>2, <2>3, <2>4, <2>5 DEF StatInv, RequestOK
  <2> QED
    BY <1>1, <2>6 DEF StatInv
<1> QED
  BY <1>2, <1>3

\* after the answer to one statement,
LEMMA ReadKeeps ==
  ASSUME StatInv, NEW q \in req.todo, Stats!Read(q)
  PROVE  StatInv'
<1> DEFINE a == Stats!Eval(q, req)
<1>1. /\ UNCHANGED <<now, booking, used, made, role, begun>> /\ req.pc = "reading"
      /\ Stats!After(req.kind, q) \cap req.todo = {}
  BY DEF Stats!Read, Stats!tables, Stats!life
<1>2. Stats!Tables' = Stats!Tables
  BY <1>1 DEF Stats!Tables
<1>3. /\ req = [kind |-> req.kind, at |-> req.at, buckets |-> req.buckets, todo |-> req.todo,
                got |-> req.got, pc |-> req.pc]
      /\ now \in Nat /\ TablesOK(Stats!Tables, now)
      /\ req.kind \in Kinds /\ req.at \in Nat /\ req.at <= now
      /\ req.todo \subseteq Stats!Statements(req.kind)
      /\ DOMAIN req.got = Stats!Statements(req.kind) \ req.todo
      /\ req.kind \in Stats!Reports => req.buckets = Stats!Buckets(req.kind, Stats!Clock(req.at), Count)
      /\ TablesOK(begun, now) /\ Grew(begun, Stats!Tables, req.at)
      /\ Answers(req.kind, req.at, req.buckets, req.got, begun, Stats!Tables)
  BY <1>1 DEF StatInv, RequestOK
<1>4. PICK got, pc :
        /\ got = [x \in DOMAIN req.got \cup {q} |-> IF x = q THEN a ELSE req.got[x]]
        /\ pc = IF req.todo = {q} THEN "answered" ELSE req.pc
        /\ req' = [kind |-> req.kind, at |-> req.at, buckets |-> req.buckets, todo |-> req.todo \ {q},
                   got |-> got, pc |-> pc]
  <2>1. req' = [req EXCEPT !.todo = @ \ {q},
                          !.got = [x \in DOMAIN @ \cup {q} |-> IF x = q THEN a ELSE @[x]],
                          !.pc = IF req.todo = {q} THEN "answered" ELSE @]
    BY DEF Stats!Read
  <2> HIDE DEF a
  <2> QED
    BY <1>3, <2>1
<1>5. AnswerOK(q, a, req.kind, req.at, req.buckets, begun, Stats!Tables)
  <2>1. req.kind \in Stats!Reports => req.buckets[q.of].end \in Int
    BY <1>3, BucketsAreMoments
  <2> QED
    BY <1>3, <2>1, AnswerIsOK
<1> HIDE DEF a
<1>6. DOMAIN got = Stats!Statements(req.kind) \ (req.todo \ {q})
  BY <1>3, <1>4
<1>7. Answers(req.kind, req.at, req.buckets, got, begun, Stats!Tables)
  <2> SUFFICES ASSUME NEW x \in DOMAIN got
               PROVE  AnswerOK(x, got[x], req.kind, req.at, req.buckets, begun, Stats!Tables)
    BY DEF Answers
  <2>1. CASE x = q
    BY <1>4, <1>5, <2>1
  <2>2. CASE x # q
    <3>1. x \in DOMAIN req.got /\ got[x] = req.got[x]
      BY <1>4, <2>2
    <3> QED
      BY <1>3, <3>1 DEF Answers
  <2> QED
    BY <2>1, <2>2
<1>8. /\ pc \in {"idle", "reading", "answered"} /\ (pc = "answered" => req.todo \ {q} = {})
  BY <1>1, <1>4
<1>9. RequestOK(req', begun, Stats!Tables, now)
  <2>1. req'.kind = req.kind /\ req'.at = req.at /\ req'.buckets = req.buckets
        /\ req'.todo = req.todo \ {q} /\ req'.got = got /\ req'.pc = pc
    BY <1>4
  <2>2. req' = [kind |-> req'.kind, at |-> req'.at, buckets |-> req'.buckets, todo |-> req'.todo,
                got |-> req'.got, pc |-> req'.pc]
    BY <1>4
  <2> QED
    BY <1>3, <1>6, <1>7, <1>8, <2>1, <2>2 DEF RequestOK
<1> QED
  BY <1>1, <1>2, <1>3, <1>9 DEF StatInv

\* after any step,
LEMMA StatNextKeeps ==
  ASSUME StatInv, [Stats!Next]_Stats!vars
  PROVE  StatInv'
<1>1. CASE UNCHANGED Stats!vars
  <2>1. UNCHANGED <<now, booking, used, made, role, req, begun>>
    BY <1>1 DEF Stats!vars, Stats!tables, Stats!life
  <2>2. Stats!Tables' = Stats!Tables
    BY <2>1 DEF Stats!Tables
  <2> QED
    BY <2>1, <2>2 DEF StatInv
<1> QED
  BY <1>1, MeanwhileKeeps, AskKeeps, ReadKeeps, DoneKeeps DEF Stats!Next

\* and at first.
LEMMA StatInitHolds ==
  ASSUME Stats!Init
  PROVE  StatInv
<1>1. now \in Nat /\ TablesOK(Stats!Tables, now) /\ req = Stats!Idle
  BY StatsStart
<1>2. RequestOK(req, begun, Stats!Tables, now)
  BY <1>1 DEF RequestOK, Stats!Idle
<1> QED
  BY <1>1, <1>2 DEF StatInv

-----------------------------------------------------------------------------
(* What the invariant says of an answer *)

\* A total of answers is their sum.
LEMMA TotalIsSum ==
  ASSUME NEW name, NEW S, IsFiniteSet(S), NEW g, g = [x \in S |-> Stats!Got(name, x)]
  PROVE  Stats!Total(name, S) = Sum(g, S)
<1>1. Stats!Total(name, S) = Stats!SumFunction(g) /\ DOMAIN g = S
  BY DEF Stats!Total
<1> QED
  BY <1>1, SumOfFunction

\* Sums between sums.
LEMMA SumBetween ==
  ASSUME NEW S, IsFiniteSet(S), NEW g, NEW low, NEW high,
         \A x \in S : low[x] \in Nat /\ high[x] \in Nat /\ Between(low[x], g[x], high[x])
  PROVE  Sum(low, S) <= Sum(g, S) /\ Sum(g, S) <= Sum(high, S)
<1>1. \A x \in S : /\ low[x] \in Nat /\ g[x] \in Nat /\ high[x] \in Nat
                   /\ low[x] <= g[x] /\ g[x] <= high[x]
  BY DEF Between
<1>2. S \in SUBSET S
  OBVIOUS
<1>3. Sum(low, S) <= Sum(g, S)
  <2>1. \A x \in S : low[x] \in Nat /\ low[x] <= g[x]
    BY <1>1
  <2>2. \A x \in S : g[x] \in Nat
    BY <1>1
  <2> QED
    BY <1>2, <2>1, <2>2, SumLeq
<1>4. Sum(g, S) <= Sum(high, S)
  <2>1. \A x \in S : g[x] \in Nat /\ g[x] <= high[x]
    BY <1>1
  <2>2. \A x \in S : high[x] \in Nat
    BY <1>1
  <2> QED
    BY <1>2, <2>1, <2>2, SumLeq
<1> QED
  BY <1>3, <1>4

\* What an answered request has been told.
LEMMA AnswersRead ==
  ASSUME StatInv, req.pc = "answered"
  PROVE  /\ now \in Nat /\ TablesOK(Stats!Tables, now) /\ TablesOK(begun, now)
         /\ req.at \in Nat /\ Grew(begun, Stats!Tables, req.at)
         /\ req.kind \in Stats!Reports => req.buckets = Stats!Buckets(req.kind, Stats!Clock(req.at), Count)
         /\ \A q \in Stats!Statements(req.kind) :
              AnswerOK(q, req.got[q], req.kind, req.at, req.buckets, begun, Stats!Tables)
<1>1. DOMAIN req.got = Stats!Statements(req.kind)
  BY DEF StatInv, RequestOK
<1> QED
  BY <1>1 DEF StatInv, RequestOK, Answers

\* What a report has been told of one bucket.
LEMMA BucketsRead ==
  ASSUME StatInv, req.pc = "answered", req.kind \in Stats!Reports, NEW k \in 1 .. Count
  PROVE  /\ BucketAnswer(Stats!Q("total", k), Stats!Got("total", k), req.at, req.buckets[k], begun, Stats!Tables)
         /\ BucketAnswer(Stats!Q("byStatus", k), Stats!Got("byStatus", k), req.at, req.buckets[k], begun, Stats!Tables)
         /\ BucketAnswer(Stats!Q("hours", k), Stats!Got("hours", k), req.at, req.buckets[k], begun, Stats!Tables)
<1>1. ASSUME NEW name \in {"total", "byStatus", "hours"}
      PROVE  BucketAnswer(Stats!Q(name, k), Stats!Got(name, k), req.at, req.buckets[k], begun, Stats!Tables)
  <2>1. Stats!Q(name, k) \in Stats!Statements(req.kind) /\ Stats!Q(name, k).of = k
    BY StatementsAre DEF Stats!Q
  <2>2. AnswerOK(Stats!Q(name, k), req.got[Stats!Q(name, k)], req.kind, req.at, req.buckets, begun, Stats!Tables)
    BY <2>1, AnswersRead
  <2> QED
    BY <2>1, <2>2 DEF AnswerOK, Stats!Got
<1> QED
  BY <1>1

\* Reports count everything once: the answers of the buckets add up.
LEMMA ReportsCounted ==
  ASSUME StatInv
  PROVE  Stats!ReportsCountOnce
<1> SUFFICES ASSUME req.pc = "answered", req.kind \in Stats!Reports
             PROVE  /\ Stats!Cardinality(Stats!CreatedIn(begun, Stats!Span)) <= Stats!Total("total", 1 .. Count)
                    /\ Stats!Total("total", 1 .. Count) <= Stats!Cardinality(Stats!CreatedIn(Stats!Tables, Stats!Span))
                    /\ Stats!Hours(begun, Stats!EndedIn(begun, Stats!Span)) <= Stats!Total("hours", 1 .. Count)
                    /\ Stats!Total("hours", 1 .. Count) <= Stats!Hours(Stats!Tables, Stats!EndedIn(Stats!Tables, Stats!Span))
  BY DEF Stats!ReportsCountOnce, Stats!Answered
<1>1. PICK b : b = req.buckets /\ Tile(b, Count, Stats!Clock(req.at)) /\ Stats!Clock(req.at) \in Int
  BY AnswersRead, ReportTiles
<1>2. Stats!Span = SpanOf(b, Count)
  BY <1>1 DEF Stats!Span, SpanOf, Tile
<1>3. PICK db : db = Stats!Tables /\ now \in Nat /\ TablesOK(db, now) /\ TablesOK(begun, now)
  BY AnswersRead
<1>f. IsFiniteSet(1 .. Count) /\ Count \in 1 .. 90
  BY StatConstants, FS_Interval
<1>4. /\ Stats!Cardinality(Stats!CreatedIn(begun, SpanOf(b, Count))) <= Stats!Total("total", 1 .. Count)
      /\ Stats!Total("total", 1 .. Count) <= Stats!Cardinality(Stats!CreatedIn(db, SpanOf(b, Count)))
  <2>1. PICK g, low, high :
          /\ g = [k \in 1 .. Count |-> Stats!Got("total", k)]
          /\ low = [k \in 1 .. Count |-> Stats!Cardinality(Stats!CreatedIn(begun, b[k]))]
          /\ high = [k \in 1 .. Count |-> Stats!Cardinality(Stats!CreatedIn(db, b[k]))]
    OBVIOUS
  <2>2. /\ \A k \in 1 .. Count : low[k] = Stats!Cardinality(Stats!CreatedIn(begun, b[k]))
        /\ \A k \in 1 .. Count : high[k] = Stats!Cardinality(Stats!CreatedIn(db, b[k]))
    BY <2>1
  <2>3. /\ Sum(low, 1 .. Count) = Stats!Cardinality(Stats!CreatedIn(begun, SpanOf(b, Count)))
        /\ Sum(high, 1 .. Count) = Stats!Cardinality(Stats!CreatedIn(db, SpanOf(b, Count)))
    BY <1>1, <1>3, <1>f, <2>2, CreatedShares
  <2>4. \A k \in 1 .. Count : low[k] \in Nat /\ high[k] \in Nat /\ Between(low[k], g[k], high[k])
    <3> SUFFICES ASSUME NEW k \in 1 .. Count
                 PROVE  low[k] \in Nat /\ high[k] \in Nat /\ Between(low[k], g[k], high[k])
      OBVIOUS
    <3>1. low[k] \in Nat /\ high[k] \in Nat
      BY <2>2, RowSets, CountRows
    <3>2. BucketAnswer(Stats!Q("total", k), Stats!Got("total", k), req.at, b[k], begun, db)
      BY <1>1, <1>3, BucketsRead
    <3> QED
      BY <2>1, <2>2, <3>1, <3>2 DEF BucketAnswer, Stats!Q
  <2>5. Sum(low, 1 .. Count) <= Sum(g, 1 .. Count) /\ Sum(g, 1 .. Count) <= Sum(high, 1 .. Count)
    BY <1>f, <2>4, SumBetween
  <2>6. Stats!Total("total", 1 .. Count) = Sum(g, 1 .. Count)
    BY <1>f, <2>1, TotalIsSum
  <2> QED
    BY <2>3, <2>5, <2>6
<1>5. /\ Stats!Hours(begun, Stats!EndedIn(begun, SpanOf(b, Count))) <= Stats!Total("hours", 1 .. Count)
      /\ Stats!Total("hours", 1 .. Count) <= Stats!Hours(db, Stats!EndedIn(db, SpanOf(b, Count)))
  <2>1. PICK g, low, high :
          /\ g = [k \in 1 .. Count |-> Stats!Got("hours", k)]
          /\ low = [k \in 1 .. Count |-> Stats!Hours(begun, Stats!EndedIn(begun, b[k]))]
          /\ high = [k \in 1 .. Count |-> Stats!Hours(db, Stats!EndedIn(db, b[k]))]
    OBVIOUS
  <2>2. /\ \A k \in 1 .. Count : low[k] = Stats!Hours(begun, Stats!EndedIn(begun, b[k]))
        /\ \A k \in 1 .. Count : high[k] = Stats!Hours(db, Stats!EndedIn(db, b[k]))
    BY <2>1
  <2>3. /\ Sum(low, 1 .. Count) = Stats!Hours(begun, Stats!EndedIn(begun, SpanOf(b, Count)))
        /\ Sum(high, 1 .. Count) = Stats!Hours(db, Stats!EndedIn(db, SpanOf(b, Count)))
    BY <1>1, <1>3, <1>f, <2>2, HoursShare
  <2>4. \A k \in 1 .. Count : low[k] \in Nat /\ high[k] \in Nat /\ Between(low[k], g[k], high[k])
    <3> SUFFICES ASSUME NEW k \in 1 .. Count
                 PROVE  low[k] \in Nat /\ high[k] \in Nat /\ Between(low[k], g[k], high[k])
      OBVIOUS
    <3>1. low[k] \in Nat /\ high[k] \in Nat
      <4>1. Stats!EndedIn(begun, b[k]) \in SUBSET ReportRids /\ Stats!EndedIn(db, b[k]) \in SUBSET ReportRids
        BY RowSets
      <4> QED
        BY <1>3, <2>2, <4>1, HoursAre
    <3>2. BucketAnswer(Stats!Q("hours", k), Stats!Got("hours", k), req.at, b[k], begun, db)
      BY <1>1, <1>3, BucketsRead
    <3> QED
      BY <2>1, <2>2, <3>1, <3>2 DEF BucketAnswer, Stats!Q
  <2>5. Sum(low, 1 .. Count) <= Sum(g, 1 .. Count) /\ Sum(g, 1 .. Count) <= Sum(high, 1 .. Count)
    BY <1>f, <2>4, SumBetween
  <2>6. Stats!Total("hours", 1 .. Count) = Sum(g, 1 .. Count)
    BY <1>f, <2>1, TotalIsSum
  <2> QED
    BY <2>3, <2>5, <2>6
<1> QED
  BY <1>2, <1>3, <1>4, <1>5

\* Periods that are over are as they were when the request came.
LEMMA PastClosed ==
  ASSUME StatInv
  PROVE  Stats!PastPeriodsAreClosed
<1> SUFFICES ASSUME req.pc = "answered", req.kind \in Stats!Reports, NEW k \in 1 .. Count,
                    req.buckets[k].end <= Stats!Clock(req.at)
             PROVE  Stats!Got("total", k) = Stats!SumFunction(Stats!Got("byStatus", k))
  BY DEF Stats!PastPeriodsAreClosed, Stats!Answered
<1>1. Stats!Got("total", k) = Stats!Cardinality(Stats!CreatedIn(begun, req.buckets[k]))
  BY BucketsRead DEF BucketAnswer, Stats!Q
<1>2. Stats!SumFunction(Stats!Got("byStatus", k)) = Stats!Cardinality(Stats!CreatedIn(begun, req.buckets[k]))
  BY BucketsRead DEF BucketAnswer, Stats!Q
<1> QED
  BY <1>1, <1>2

\* The departments add up to the whole.
LEMMA DepartmentsAdded ==
  ASSUME StatInv
  PROVE  Stats!DepartmentsAddUp
<1> SUFFICES ASSUME req.pc = "answered", req.kind = "departments"
             PROVE  /\ Stats!Cardinality(Stats!Made(begun)) <= Stats!Total("total", Departments)
                    /\ Stats!Total("total", Departments) <= Stats!Cardinality(Stats!Made(Stats!Tables))
                    /\ Stats!Hours(begun, ReportRids) <= Stats!Total("hours", Departments)
                    /\ Stats!Total("hours", Departments) <= Stats!Hours(Stats!Tables, ReportRids)
  BY DEF Stats!DepartmentsAddUp, Stats!Answered
<1>1. PICK db : db = Stats!Tables /\ now \in Nat /\ TablesOK(db, now) /\ TablesOK(begun, now)
  BY AnswersRead
<1>f. IsFiniteSet(Departments)
  BY StatConstants
<1>2. ASSUME NEW name \in {"total", "hours"}, NEW d \in Departments
      PROVE  DepartmentAnswer(Stats!Q(name, d), Stats!Got(name, d), begun, db)
  <2>1. Stats!Q(name, d) \in Stats!Statements(req.kind)
    BY StatementsAre
  <2>2. AnswerOK(Stats!Q(name, d), req.got[Stats!Q(name, d)], req.kind, req.at, req.buckets, begun, db)
    BY <1>1, <2>1, AnswersRead
  <2> QED
    BY <2>2 DEF AnswerOK, Stats!Got
<1>3. PICK g, low, high, h, lowest, highest :
        /\ g = [d \in Departments |-> Stats!Got("total", d)]
        /\ low = [d \in Departments |-> Stats!Cardinality(Stats!OfDepartment(begun, d))]
        /\ high = [d \in Departments |-> Stats!Cardinality(Stats!OfDepartment(db, d))]
        /\ h = [d \in Departments |-> Stats!Got("hours", d)]
        /\ lowest = [d \in Departments |-> Stats!Hours(begun, Stats!OfDepartment(begun, d))]
        /\ highest = [d \in Departments |-> Stats!Hours(db, Stats!OfDepartment(db, d))]
  OBVIOUS
<1>4. /\ \A d \in Departments : /\ low[d] = Stats!Cardinality(Stats!OfDepartment(begun, d))
                                /\ lowest[d] = Stats!Hours(begun, Stats!OfDepartment(begun, d))
      /\ \A d \in Departments : /\ high[d] = Stats!Cardinality(Stats!OfDepartment(db, d))
                                /\ highest[d] = Stats!Hours(db, Stats!OfDepartment(db, d))
  BY <1>3
<1>5. /\ Sum(low, Departments) = Stats!Cardinality(Stats!Made(begun))
      /\ Sum(lowest, Departments) = Stats!Hours(begun, ReportRids)
      /\ Sum(high, Departments) = Stats!Cardinality(Stats!Made(db))
      /\ Sum(highest, Departments) = Stats!Hours(db, ReportRids)
  BY <1>1, <1>4, DepartmentsShare
<1>6. ASSUME NEW d \in Departments
      PROVE  /\ low[d] \in Nat /\ high[d] \in Nat /\ Between(low[d], g[d], high[d])
             /\ lowest[d] \in Nat /\ highest[d] \in Nat /\ Between(lowest[d], h[d], highest[d])
  <2>1. Stats!OfDepartment(begun, d) \in SUBSET ReportRids /\ Stats!OfDepartment(db, d) \in SUBSET ReportRids
    BY RowSets
  <2>2. low[d] \in Nat /\ high[d] \in Nat /\ lowest[d] \in Nat /\ highest[d] \in Nat
    BY <1>1, <1>4, <2>1, CountRows, HoursAre
  <2>3. g[d] = Stats!Got("total", d) /\ h[d] = Stats!Got("hours", d)
    BY <1>3
  <2>4. Between(low[d], g[d], high[d]) /\ Between(lowest[d], h[d], highest[d])
    BY <1>2, <1>4, <2>3 DEF DepartmentAnswer, Stats!Q
  <2> QED
    BY <2>2, <2>4
<1>7. /\ Sum(low, Departments) <= Sum(g, Departments) /\ Sum(g, Departments) <= Sum(high, Departments)
      /\ Sum(lowest, Departments) <= Sum(h, Departments) /\ Sum(h, Departments) <= Sum(highest, Departments)
  BY <1>6, <1>f, SumBetween
<1>8. Stats!Total("total", Departments) = Sum(g, Departments) /\ Stats!Total("hours", Departments) = Sum(h, Departments)
  BY <1>3, <1>f, TotalIsSum
<1> QED
  BY <1>1, <1>5, <1>7, <1>8

\* The courses listed are those with the most reservations told of.
LEMMA TopsAreTop ==
  ASSUME StatInv
  PROVE  Stats!TopCoursesAreTop
<1> SUFFICES ASSUME req.pc = "answered", req.kind = "courses",
                    NEW top \in Stats!TopCourses(req.got), NEW c \in top, NEW d \in Courses \ top
             PROVE  Stats!Cardinality(Stats!OfCourse(Stats!Tables, c)) >= Stats!Cardinality(Stats!OfCourse(begun, d))
  BY DEF Stats!TopCoursesAreTop, Stats!Answered
<1>1. /\ c \in Courses /\ d \in Courses
      /\ req.got[Stats!Q("total", c)] >= req.got[Stats!Q("total", d)]
  BY DEF Stats!TopCourses
<1>2. ASSUME NEW x \in Courses
      PROVE  CourseAnswer(Stats!Q("total", x), req.got[Stats!Q("total", x)], begun, Stats!Tables)
  <2>1. Stats!Q("total", x) \in Stats!Statements(req.kind)
    BY StatementsAre
  <2> QED
    BY <2>1, AnswersRead DEF AnswerOK
<1>3. ASSUME NEW x \in Courses
      PROVE  /\ req.got[Stats!Q("total", x)] \in Nat
             /\ Stats!Cardinality(Stats!OfCourse(begun, x)) <= req.got[Stats!Q("total", x)]
             /\ req.got[Stats!Q("total", x)] <= Stats!Cardinality(Stats!OfCourse(Stats!Tables, x))
             /\ Stats!Cardinality(Stats!OfCourse(begun, x)) \in Nat
             /\ Stats!Cardinality(Stats!OfCourse(Stats!Tables, x)) \in Nat
  BY <1>2, RowSets, CountRows DEF CourseAnswer, Between, Stats!Q
<1>4. PICK m, n, x, y : /\ m = req.got[Stats!Q("total", c)] /\ n = req.got[Stats!Q("total", d)]
                        /\ x = Stats!Cardinality(Stats!OfCourse(begun, d))
                        /\ y = Stats!Cardinality(Stats!OfCourse(Stats!Tables, c))
  OBVIOUS
<1>5. m \in Nat /\ n \in Nat /\ x \in Nat /\ y \in Nat /\ x <= n /\ n <= m /\ m <= y
  BY <1>1, <1>3, <1>4
<1> QED
  BY <1>4, <1>5

-----------------------------------------------------------------------------
(* Nodes                                                                     *)

Known(n) == Stats!LastHeartbeat(beat[n].node, beat[n].snapshot)
Answer(name) == req.got[Stats!Q(name, None)]
Given(name) == Stats!Q(name, None) \in DOMAIN req.got
Beats == [node : Times \cup {None}, snapshot : Times \cup {None}]

\* What has been read of the nodes: a node that has no snapshot yet had the
\* heartbeat of its row when that was read, and is shown by it.
NodeOK(n) ==
  /\ Known(n) \in lately[n]
  /\ Given("nodes") /\ beat[n].snapshot = None => Answer("nodes")[n] \in lately[n]
  /\ Given("connectivity") =>
       /\ Given("nodes")
       /\ \E last \in lately[n] : Answer("connectivity")[n] = Stats!ConnectivityStatus(last, req.at)
       /\ beat[n].snapshot = None =>
            Answer("connectivity")[n] = Stats!ConnectivityStatus(Answer("nodes")[n], req.at)
  /\ Given("snapshots") =>
       /\ Given("connectivity")
       /\ n \notin Answer("snapshots") =>
            Answer("connectivity")[n] = Stats!ConnectivityStatus(Answer("nodes")[n], req.at)
NodesInv ==
  /\ beat \in [Nodes -> Beats]
  /\ req.kind \in {"university", "gpu"} /\ req.pc # "idle" => \A n \in Nodes : NodeOK(n)

\* A heartbeat is stored while the request is answered, or none.
LEMMA NodesBeat ==
  ASSUME NodesInv, UNCHANGED req, beat' \in [Nodes -> Beats],
         lately' = [n \in Nodes |-> IF req.pc = "idle" THEN {} ELSE lately[n] \cup {Stats!Heartbeats(beat')[n]}],
         \A n \in Nodes : beat'[n].snapshot = None => beat[n].snapshot = None
  PROVE  NodesInv'
<1> SUFFICES ASSUME req.kind \in {"university", "gpu"}, req.pc # "idle", NEW n \in Nodes
             PROVE  NodeOK(n)'
  BY DEF NodesInv
<1>1. Known(n)' \in lately'[n] /\ lately[n] \subseteq lately'[n]
  BY DEF Known, Stats!Heartbeats
<1>2. NodeOK(n)
  BY DEF NodesInv
<1>3. \A name : Given(name)' = Given(name) /\ Answer(name)' = Answer(name)
  BY DEF Given, Answer
<1>4. req'.at = req.at
  OBVIOUS
<1> QED
  BY <1>1, <1>2, <1>3, <1>4 DEF NodeOK

LEMMA NodesMeanwhile ==
  ASSUME NodesInv, Stats!Meanwhile
  PROVE  NodesInv'
<1>1. /\ UNCHANGED req
      /\ lately' = [n \in Nodes |-> IF req.pc = "idle" THEN {} ELSE lately[n] \cup {Stats!Heartbeats(beat')[n]}]
  BY DEF Stats!Meanwhile
<1>2. beat \in [Nodes -> Beats] /\ None \notin Times
  <2>1. Times \subseteq Int
    BY StatConstants
  <2>2. None \notin Int
    BY StatConstants
  <2> QED
    BY <2>1, <2>2 DEF NodesInv
<1>3. CASE UNCHANGED beat
  BY <1>1, <1>2, <1>3, NodesBeat
<1>4. ASSUME NEW k \in Beating, NEW at \in Times, Stats!UpsertSnapshot(k, at) PROVE NodesInv'
  <2>1. beat' = [beat EXCEPT ![k].snapshot = at]
    BY <1>4 DEF Stats!UpsertSnapshot
  <2>2. beat' \in [Nodes -> Beats]
    BY <1>2, <2>1 DEF Beats
  <2>3. \A n \in Nodes : beat'[n].snapshot = None => beat[n].snapshot = None
    BY <1>2, <2>1 DEF Beats
  <2> QED
    BY <1>1, <2>2, <2>3, NodesBeat
<1>5. ASSUME NEW k \in Beating, NEW at \in Times, Stats!UpdateLastHeartbeat(k, at) PROVE NodesInv'
  <2>1. beat' = [beat EXCEPT ![k].node = at]
    BY <1>5 DEF Stats!UpdateLastHeartbeat
  <2>2. beat' \in [Nodes -> Beats]
    BY <1>2, <2>1 DEF Beats
  <2>3. \A n \in Nodes : beat'[n].snapshot = None => beat[n].snapshot = None
    BY <1>2, <2>1 DEF Beats
  <2> QED
    BY <1>1, <2>2, <2>3, NodesBeat
<1>6. \A user : Stats!ChangeRole(user) => UNCHANGED beat
  BY DEF Stats!ChangeRole
<1> QED
  BY <1>3, <1>4, <1>5, <1>6 DEF Stats!Meanwhile

\* The request comes.
LEMMA NodesAsk ==
  ASSUME NodesInv, NEW kind \in Kinds, Stats!Ask(kind)
  PROVE  NodesInv'
<1>1. /\ UNCHANGED beat /\ lately' = [n \in Nodes |-> {Stats!Heartbeats(beat)[n]}]
      /\ req'.got = <<>>
  BY DEF Stats!Ask, Stats!tables, Stats!Idle
<1>2. \A name : ~Given(name)'
  BY <1>1 DEF Given
<1>3. ASSUME NEW n \in Nodes PROVE NodeOK(n)'
  <2>1. Known(n)' \in lately'[n]
    BY <1>1 DEF Known, Stats!Heartbeats
  <2> QED
    BY <1>2, <2>1 DEF NodeOK
<1> QED
  BY <1>1, <1>3 DEF NodesInv

\* What the statements about nodes evaluate to, and which go before them.
LEMMA EvalNodes ==
  ASSUME NEW q, NEW r
  PROVE  /\ q.name = "nodes" => Stats!Eval(q, r) = [n \in Nodes |-> beat[n].node]
         /\ q.name = "connectivity" =>
              Stats!Eval(q, r) =
                [n \in Nodes |-> Stats!ConnectivityStatus(
                   Stats!LastHeartbeat(r.got[Stats!Q("nodes", None)][n], beat[n].snapshot), r.at)]
         /\ q.name = "snapshots" => Stats!Eval(q, r) = {n \in Nodes : beat[n].snapshot # None}
BY DEF Stats!Eval, Stats!ConnectivityAt

LEMMA NodesFirst ==
  ASSUME NEW kind \in {"university", "gpu"}
  PROVE  /\ Stats!After(kind, Stats!Q("connectivity", None)) = {Stats!Q("nodes", None)}
         /\ Stats!After("gpu", Stats!Q("snapshots", None)) = {Stats!Q("connectivity", None)}
BY DEF Stats!After, Stats!Q

\* One statement is answered.
LEMMA NodesRead ==
  ASSUME StatInv, NodesInv, NEW q \in req.todo, Stats!Read(q)
  PROVE  NodesInv'
<1> DEFINE a == Stats!Eval(q, req)
<1>1. /\ UNCHANGED <<beat, lately>> /\ req.pc = "reading"
      /\ Stats!After(req.kind, q) \cap req.todo = {}
  BY DEF Stats!Read, Stats!tables
<1>2. /\ req = [kind |-> req.kind, at |-> req.at, buckets |-> req.buckets, todo |-> req.todo,
                got |-> req.got, pc |-> req.pc]
      /\ req.todo \subseteq Stats!Statements(req.kind)
      /\ DOMAIN req.got = Stats!Statements(req.kind) \ req.todo
  BY <1>1 DEF StatInv, RequestOK
<1>3. /\ req'.kind = req.kind /\ req'.at = req.at
      /\ req'.got = [x \in DOMAIN req.got \cup {q} |-> IF x = q THEN a ELSE req.got[x]]
  <2>1. req' = [req EXCEPT !.todo = @ \ {q},
                          !.got = [x \in DOMAIN @ \cup {q} |-> IF x = q THEN a ELSE @[x]],
                          !.pc = IF req.todo = {q} THEN "answered" ELSE @]
    BY DEF Stats!Read
  <2> HIDE DEF a
  <2> QED
    BY <1>2, <2>1
<1> SUFFICES ASSUME req.kind \in {"university", "gpu"}, NEW n \in Nodes
             PROVE  NodeOK(n)'
  BY <1>1, <1>3 DEF NodesInv
<1>4. NodeOK(n) /\ beat'[n] = beat[n] /\ Known(n)' = Known(n) /\ lately'[n] = lately[n]
  BY <1>1 DEF NodesInv, Known
<1>5. q = Stats!Q(q.name, None)
  BY <1>2, StatementsAre
<1>6. /\ \A name : Given(name)' <=> (Given(name) \/ name = q.name)
      /\ \A name : name # q.name /\ Given(name) => Answer(name)' = Answer(name)
      /\ Answer(q.name)' = a /\ ~Given(q.name)
  <2>1. \A name : (Stats!Q(name, None) = q <=> name = q.name)
    BY <1>5 DEF Stats!Q
  <2>2. q \notin DOMAIN req.got
    BY <1>2
  <2> HIDE DEF a
  <2> QED
    BY <1>3, <1>5, <2>1, <2>2 DEF Given, Answer
<1>7. q.name = "connectivity" => Given("nodes")
  <2>1. Stats!Q("nodes", None) \in Stats!Statements(req.kind)
    BY StatementsAre
  <2>2. q.name = "connectivity" => Stats!Q("nodes", None) \notin req.todo
    BY <1>1, <1>5, NodesFirst
  <2> QED
    BY <1>2, <2>1, <2>2 DEF Given
<1>8. q.name = "snapshots" => Given("connectivity")
  <2>1. Stats!Q("connectivity", None) \in Stats!Statements(req.kind)
    BY StatementsAre
  <2>2. q.name = "snapshots" => req.kind = "gpu"
    <3>1. \A x \in Stats!Statements("university") : x.name # "snapshots"
      <4>1. Stats!Statements("university") = Stats!getUniversityAnalytics
        BY DEF Stats!Statements, Stats!Reports, Stats!Granularities
      <4> QED
        BY <4>1 DEF Stats!getUniversityAnalytics, Stats!listNodeConnectivity, Stats!Each, Stats!Q
    <3> QED
      BY <1>2, <3>1
  <2>3. q.name = "snapshots" => Stats!Q("connectivity", None) \notin req.todo
    BY <1>1, <1>5, <2>2, NodesFirst
  <2> QED
    BY <1>2, <2>1, <2>3 DEF Given
<1>9. CASE q.name = "nodes"
  <2>1. a[n] = beat[n].node
    BY <1>9, EvalNodes
  <2>2. beat[n].snapshot = None => a[n] \in lately[n]
    BY <1>4, <2>1 DEF NodeOK, Known, Stats!LastHeartbeat
  <2> HIDE DEF a
  <2> QED
    BY <1>3, <1>4, <1>6, <1>9, <2>2 DEF NodeOK
<1>10. CASE q.name = "connectivity"
  <2>1. a[n] = Stats!ConnectivityStatus(Stats!LastHeartbeat(Answer("nodes")[n], beat[n].snapshot), req.at)
    BY <1>10, EvalNodes DEF Answer
  <2>2. Stats!LastHeartbeat(Answer("nodes")[n], beat[n].snapshot) \in lately[n]
    BY <1>4, <1>7, <1>10 DEF NodeOK, Known, Stats!LastHeartbeat
  <2>3. beat[n].snapshot = None => a[n] = Stats!ConnectivityStatus(Answer("nodes")[n], req.at)
    BY <2>1 DEF Stats!LastHeartbeat
  <2>4. \E last \in lately[n] : a[n] = Stats!ConnectivityStatus(last, req.at)
    BY <2>1, <2>2
  <2> HIDE DEF a
  <2> QED
    BY <1>3, <1>4, <1>6, <1>7, <1>10, <2>3, <2>4 DEF NodeOK
<1>11. CASE q.name = "snapshots"
  <2>1. n \notin a => beat[n].snapshot = None
    BY <1>11, EvalNodes
  <2> HIDE DEF a
  <2> QED
    BY <1>3, <1>4, <1>6, <1>8, <1>11, <2>1 DEF NodeOK
<1>12. CASE q.name \notin {"nodes", "connectivity", "snapshots"}
  <2> HIDE DEF a
  <2> QED
    BY <1>3, <1>4, <1>6, <1>12 DEF NodeOK
<1> QED
  BY <1>9, <1>10, <1>11, <1>12

LEMMA NodesKept ==
  ASSUME StatInv, NodesInv, [Stats!Next]_Stats!vars
  PROVE  NodesInv'
<1>1. CASE UNCHANGED Stats!vars
  <2>1. UNCHANGED <<beat, req, lately>>
    BY <1>1 DEF Stats!vars, Stats!tables
  <2> QED
    BY <2>1 DEF NodesInv, NodeOK, Known, Given, Answer
<1>2. CASE Stats!Done
  <2>1. UNCHANGED beat /\ req'.pc = "idle"
    BY <1>2 DEF Stats!Done, Stats!tables, Stats!Idle
  <2> QED
    BY <2>1 DEF NodesInv
<1> QED
  BY <1>1, <1>2, NodesMeanwhile, NodesAsk, NodesRead DEF Stats!Next

LEMMA NodesStart ==
  ASSUME Stats!Init
  PROVE  NodesInv
BY DEF Stats!Init, Stats!Idle, NodesInv, Beats

\* A node is shown as it was at some moment since the request came.
LEMMA NodesShown ==
  ASSUME StatInv, NodesInv
  PROVE  Stats!ConnectivityWasSo
<1> SUFFICES ASSUME req.pc = "answered", req.kind \in {"university", "gpu"}, NEW n \in Nodes
             PROVE  /\ \E last \in lately[n] :
                         Answer("connectivity")[n] = Stats!ConnectivityStatus(last, req.at)
                    /\ req.kind = "gpu" /\ n \notin Answer("snapshots") =>
                         Answer("connectivity")[n] = Stats!ConnectivityStatus(Answer("nodes")[n], req.at)
  BY DEF Stats!ConnectivityWasSo, Stats!Answered, Stats!Got, Answer
<1>1. DOMAIN req.got = Stats!Statements(req.kind)
  BY DEF StatInv, RequestOK
<1>2. Given("connectivity") /\ (req.kind = "gpu" => Given("snapshots"))
  BY <1>1, StatementsAre DEF Given
<1> QED
  BY <1>2 DEF NodesInv, NodeOK

\* Reports, departments, courses and nodes, for any reservations, users, nodes,
\* thresholds and times, whatever else is done while the statements are
\* answered: the interleaving of Promise.all with bookings, sweep passes,
\* reports, heartbeats set by hand and role changes (analytics.service.ts).
THEOREM RequestsFitTogether ==
  Stats!Spec => [](/\ Stats!ReportsCountOnce /\ Stats!PastPeriodsAreClosed /\ Stats!DepartmentsAddUp
                   /\ Stats!TopCoursesAreTop /\ Stats!ConnectivityWasSo)
<1>1. Stats!Init => StatInv /\ NodesInv
  BY StatInitHolds, NodesStart
<1>2. (StatInv /\ NodesInv) /\ [Stats!Next]_Stats!vars => (StatInv /\ NodesInv)'
  BY StatNextKeeps, NodesKept
<1>3. StatInv /\ NodesInv =>
        /\ Stats!ReportsCountOnce /\ Stats!PastPeriodsAreClosed /\ Stats!DepartmentsAddUp
        /\ Stats!TopCoursesAreTop /\ Stats!ConnectivityWasSo
  BY ReportsCounted, PastClosed, DepartmentsAdded, TopsAreTop, NodesShown
<1> QED
  BY <1>1, <1>2, <1>3, PTL DEF Stats!Spec

-----------------------------------------------------------------------------
(* Students: nothing else happens while their request is answered            *)

\* The students, those of a department, those among them with reservations, and
\* what students reserved.
Students(db) == Stats!WithRole(db, "STUDENT")
StudentsOf(db, d) == {u \in Students(db) : d = None \/ UserDept[u] = d}
ActiveOf(db, d) == {u \in Students(db) : UserDept[u] = d /\ u \in Stats!StudentIds(db)}
ByStudents(db) == {x \in Stats!Made(db) : db.role[db.made[x].user] = "STUDENT"}

\* The answer to one statement is that of the tables db.
StudentAnswer(q, a, db) ==
  /\ q.name = "students" => a = Stats!Cardinality(StudentsOf(db, q.of))
  /\ q.name = "ids" => a = Stats!StudentIds(db)
  /\ q.name = "studentHours" => a = Stats!Hours(db, ByStudents(db))
  /\ q.name = "activeStudents" => a = Stats!Cardinality(ActiveOf(db, q.of))

\* The tables are those of the beginning while the request is read, and so is
\* every answer.
StudentsInv ==
  req.kind = "students" /\ req.pc # "idle" =>
    /\ req.pc = "reading" => Stats!Tables = begun
    /\ \A q \in DOMAIN req.got : StudentAnswer(q, req.got[q], begun)

\* The statements of a students request, and the one that goes before others.
LEMMA StudentStatements ==
  /\ \A q \in Stats!Statements("students") :
       \/ q \in {Stats!Q("ids", None), Stats!Q("students", None), Stats!Q("studentHours", None)}
       \/ \E d \in Departments : q \in {Stats!Q("students", d), Stats!Q("activeStudents", d)}
  /\ {Stats!Q("ids", None), Stats!Q("students", None), Stats!Q("studentHours", None)}
       \subseteq Stats!Statements("students")
  /\ \A d \in Departments :
       /\ {Stats!Q("students", d), Stats!Q("activeStudents", d)} \subseteq Stats!Statements("students")
       /\ \A name \in {"students", "activeStudents"} :
            Stats!Q("ids", None) \in Stats!After("students", Stats!Q(name, d))
<1>1. Stats!Statements("students") = Stats!getStudentsAnalytics
  BY DEF Stats!Statements, Stats!Reports, Stats!Granularities
<1>2. ASSUME NEW d \in Departments, NEW name \in {"students", "activeStudents"}
      PROVE  Stats!After("students", Stats!Q(name, d)) = Stats!Each({"ids", "students", "studentHours"}, {None})
  <2>1. d # None
    BY StatConstants
  <2>2. Stats!Q(name, d).of = d /\ Stats!Q(name, d).name # "connectivity"
    BY DEF Stats!Q
  <2> QED
    BY <2>1, <2>2 DEF Stats!After
<1> QED
  BY <1>1, <1>2 DEF Stats!getStudentsAnalytics, Stats!Each

\* An answer read of the tables is theirs.
LEMMA StudentIsAnswered ==
  ASSUME NEW q, NEW r,
         q.name = "activeStudents" => r.got[Stats!Q("ids", None)] = Stats!StudentIds(Stats!Tables)
  PROVE  StudentAnswer(q, Stats!Eval(q, r), Stats!Tables)
<1>1. ASSUME q.name = "students" PROVE Stats!Eval(q, r) = Stats!Cardinality(StudentsOf(Stats!Tables, q.of))
  <2>1. Stats!Eval(q, r) = Stats!Cardinality({u \in Stats!WithRole(Stats!Tables, IF q.name = "students" THEN "STUDENT" ELSE "FACULTY") :
                                                q.of = None \/ UserDept[u] = q.of})
    BY <1>1 DEF Stats!Eval
  <2> QED
    BY <1>1, <2>1 DEF StudentsOf, Students
<1>2. ASSUME q.name = "ids" PROVE Stats!Eval(q, r) = Stats!StudentIds(Stats!Tables)
  BY <1>2 DEF Stats!Eval
<1>3. ASSUME q.name = "studentHours" PROVE Stats!Eval(q, r) = Stats!Hours(Stats!Tables, ByStudents(Stats!Tables))
  <2>1. Stats!Eval(q, r) = Stats!Hours(Stats!Tables, {x \in Stats!Made(Stats!Tables) : role[made[x].user] = "STUDENT"})
    BY <1>3 DEF Stats!Eval
  <2>2. Stats!Tables.role = role /\ Stats!Tables.made = made
    BY DEF Stats!Tables
  <2> QED
    BY <2>1, <2>2 DEF ByStudents
<1>4. ASSUME q.name = "activeStudents" PROVE Stats!Eval(q, r) = Stats!Cardinality(ActiveOf(Stats!Tables, q.of))
  <2>1. Stats!Eval(q, r) = Stats!Cardinality({u \in Stats!WithRole(Stats!Tables, "STUDENT") :
                                                UserDept[u] = q.of /\ u \in r.got[Stats!Q("ids", None)]})
    BY <1>4 DEF Stats!Eval
  <2> QED
    BY <1>4, <2>1 DEF ActiveOf, Students
<1> QED
  BY <1>1, <1>2, <1>3, <1>4 DEF StudentAnswer

\* The invariant is kept when nothing happens between the statements.
LEMMA StudentsKept ==
  ASSUME StatInv, StudentsInv, [Stats!Next]_Stats!vars,
         req.pc = "reading" /\ req.kind = "students" => UNCHANGED Stats!tables
  PROVE  StudentsInv'
<1>u. ASSUME UNCHANGED Stats!tables PROVE Stats!Tables' = Stats!Tables
  <2>1. UNCHANGED <<now, booking, used, made, role>>
    BY <1>u DEF Stats!tables, Stats!life
  <2> QED
    BY <2>1 DEF Stats!Tables
<1>1. CASE UNCHANGED <<req, begun>>
  <2>1. req.pc = "reading" /\ req.kind = "students" => Stats!Tables' = Stats!Tables
    BY <1>u
  <2> QED
    BY <1>1, <2>1 DEF StudentsInv
<1>2. ASSUME NEW kind \in Kinds, Stats!Ask(kind) PROVE StudentsInv'
  <2>1. /\ begun' = Stats!Tables /\ Stats!Tables' = Stats!Tables
    BY <1>2, <1>u DEF Stats!Ask
  <2>2. req'.got = <<>> /\ DOMAIN req'.got = {}
    BY <1>2 DEF Stats!Ask, Stats!Idle
  <2> QED
    BY <2>1, <2>2 DEF StudentsInv
<1>3. ASSUME Stats!Done PROVE StudentsInv'
  <2>1. req'.pc = "idle"
    BY <1>3 DEF Stats!Done, Stats!Idle
  <2> QED
    BY <2>1 DEF StudentsInv
<1>4. ASSUME NEW q \in req.todo, Stats!Read(q) PROVE StudentsInv'
  <2> DEFINE a == Stats!Eval(q, req)
             ids == Stats!Q("ids", None)
  <2>1. /\ req.pc = "reading" /\ Stats!After(req.kind, q) \cap req.todo = {}
        /\ begun' = begun /\ Stats!Tables' = Stats!Tables
    BY <1>4, <1>u DEF Stats!Read
  <2>2. /\ req = [kind |-> req.kind, at |-> req.at, buckets |-> req.buckets, todo |-> req.todo,
                  got |-> req.got, pc |-> req.pc]
        /\ req.todo \subseteq Stats!Statements(req.kind)
        /\ DOMAIN req.got = Stats!Statements(req.kind) \ req.todo
    BY <2>1 DEF StatInv, RequestOK
  <2>3. /\ req'.kind = req.kind
        /\ req'.got = [x \in DOMAIN req.got \cup {q} |-> IF x = q THEN a ELSE req.got[x]]
    <3>1. req' = [req EXCEPT !.todo = @ \ {q},
                            !.got = [x \in DOMAIN @ \cup {q} |-> IF x = q THEN a ELSE @[x]],
                            !.pc = IF req.todo = {q} THEN "answered" ELSE @]
      BY <1>4 DEF Stats!Read
    <3> HIDE DEF a
    <3> QED
      BY <2>2, <3>1
  <2>4. ASSUME req.kind = "students" PROVE StudentAnswer(q, a, begun)
    <3>1. Stats!Tables = begun /\ \A x \in DOMAIN req.got : StudentAnswer(x, req.got[x], begun)
      BY <2>1, <2>4 DEF StudentsInv
    <3>2. q.name = "activeStudents" => ids \in DOMAIN req.got
      <4>1. ASSUME q.name = "activeStudents" PROVE ids \in Stats!After("students", q)
        <5>1. q \notin {Stats!Q("ids", None), Stats!Q("students", None), Stats!Q("studentHours", None)}
          BY <4>1 DEF Stats!Q
        <5> QED
          BY <2>2, <2>4, <5>1, StudentStatements
      <4>2. q.name = "activeStudents" => ids \notin req.todo
        BY <2>1, <2>4, <4>1
      <4> QED
        BY <2>2, <2>4, <4>2, StudentStatements
    <3>3. ids \in DOMAIN req.got => req.got[ids] = Stats!StudentIds(begun)
      BY <3>1 DEF StudentAnswer, Stats!Q
    <3>4. q.name = "activeStudents" => req.got[Stats!Q("ids", None)] = Stats!StudentIds(Stats!Tables)
      BY <3>1, <3>2, <3>3
    <3> HIDE DEF ids
    <3>5. StudentAnswer(q, Stats!Eval(q, req), Stats!Tables)
      BY <3>4, StudentIsAnswered
    <3> QED
      BY <3>1, <3>5
  <2> HIDE DEF a
  <2>5. ASSUME req.kind = "students", NEW x \in DOMAIN req'.got PROVE StudentAnswer(x, req'.got[x], begun)
    <3>1. CASE x = q
      BY <2>3, <2>4, <2>5, <3>1
    <3>2. CASE x # q
      <4>1. x \in DOMAIN req.got /\ req'.got[x] = req.got[x]
        BY <2>3, <2>5, <3>2
      <4> QED
        BY <2>1, <2>5, <4>1 DEF StudentsInv
    <3> QED
      BY <3>1, <3>2
  <2>6. req.kind = "students" => Stats!Tables = begun
    BY <2>1 DEF StudentsInv
  <2> QED
    BY <2>1, <2>3, <2>5, <2>6 DEF StudentsInv
<1> QED
  BY <1>1, <1>2, <1>3, <1>4 DEF Stats!Next, Stats!Meanwhile, Stats!vars

\* Its answers fit together.
LEMMA SomeAreStudents ==
  ASSUME StatInv, StudentsInv
  PROVE  Stats!ActiveStudentsAreStudents
<1> SUFFICES ASSUME req.pc = "answered", req.kind = "students"
             PROVE  /\ Stats!Cardinality(Stats!Got("ids", None)) <= Stats!Got("students", None)
                    /\ Stats!Got("studentHours", None) > 0 => Stats!Got("ids", None) # {}
                    /\ Stats!Total("activeStudents", Departments) <= Stats!Cardinality(Stats!Got("ids", None))
                    /\ \A d \in Departments : Stats!Got("activeStudents", d) <= Stats!Got("students", d)
  BY DEF Stats!ActiveStudentsAreStudents, Stats!Answered
<1>0. DOMAIN req.got = Stats!Statements("students")
  BY DEF StatInv, RequestOK
<1>1. \A q \in Stats!Statements("students") : StudentAnswer(q, req.got[q], begun)
  BY <1>0 DEF StudentsInv
<1>2. /\ Stats!Got("ids", None) = Stats!StudentIds(begun)
      /\ Stats!Got("students", None) = Cardinality(Students(begun))
      /\ Stats!Got("studentHours", None) = Stats!Hours(begun, ByStudents(begun))
  <2>1. StudentsOf(begun, None) = Students(begun)
    BY DEF StudentsOf
  <2> QED
    BY <1>1, <2>1, StatsCount, StudentStatements DEF Stats!Got, StudentAnswer, Stats!Q
<1>3. ASSUME NEW d \in Departments
      PROVE  /\ Stats!Got("activeStudents", d) = Cardinality(ActiveOf(begun, d))
             /\ Stats!Got("students", d) = Cardinality(StudentsOf(begun, d))
  BY <1>1, StatsCount, StudentStatements DEF Stats!Got, StudentAnswer, Stats!Q
<1>4. now \in Nat /\ TablesOK(begun, now)
  BY AnswersRead
<1> DEFINE ids == Stats!StudentIds(begun)
<1>5. ids \subseteq Students(begun) /\ IsFiniteSet(Students(begun)) /\ IsFiniteSet(ids)
  <2>1. ids \subseteq Students(begun)
    BY <1>4 DEF Stats!StudentIds, Students, Stats!WithRole, Stats!Made, TablesOK, RowOK
  <2>2. Students(begun) \subseteq Users
    BY DEF Students, Stats!WithRole
  <2>3. IsFiniteSet(Students(begun))
    BY <2>2, FS_Subset, StatConstants
  <2> QED
    BY <2>1, <2>3, FS_Subset
<1>6. ids = {} => ByStudents(begun) = {}
  BY DEF Stats!StudentIds, ByStudents
<1> HIDE DEF ids
<1>7. Cardinality(ids) <= Cardinality(Students(begun))
  BY <1>5, FS_Subset
<1>8. ids = {} => Stats!Hours(begun, ByStudents(begun)) = 0
  <2>1. {} \in SUBSET ReportRids
    OBVIOUS
  <2>2. Stats!Hours(begun, {}) = 0
    BY <1>4, <2>1, HoursAre, SumEmpty
  <2> QED
    BY <1>6, <2>2
<1>9. ASSUME NEW d \in Departments
      PROVE  Cardinality(ActiveOf(begun, d)) <= Cardinality(StudentsOf(begun, d))
  <2>1. ActiveOf(begun, d) \subseteq StudentsOf(begun, d) /\ StudentsOf(begun, d) \subseteq Students(begun)
    BY DEF ActiveOf, StudentsOf
  <2>2. IsFiniteSet(StudentsOf(begun, d))
    BY <1>5, <2>1, FS_Subset
  <2> QED
    BY <2>1, <2>2, FS_Subset
<1>10. Stats!Total("activeStudents", Departments) <= Cardinality(ids)
  <2> DEFINE S == {u \in ids : UserDept[u] \in Departments}
             share == [d \in Departments |-> ActiveOf(begun, d)]
  <2>1. PICK g : g = [d \in Departments |-> Stats!Got("activeStudents", d)]
    OBVIOUS
  <2>2. \A d \in Departments : g[d] = Cardinality(share[d])
    BY <1>3, <2>1
  <2>3. Parts(share, Departments, S)
    BY <1>5 DEF Parts, ActiveOf, ids
  <2>4. IsFiniteSet(S) /\ IsFiniteSet(Departments) /\ Cardinality(S) <= Cardinality(ids)
    <3>1. S \subseteq ids
      OBVIOUS
    <3> HIDE DEF S
    <3> QED
      BY <1>5, <3>1, FS_Subset, StatConstants
  <2> HIDE DEF S, share
  <2>5. Sum(g, Departments) = Cardinality(S)
    BY <2>2, <2>3, <2>4, CountByParts
  <2>6. Stats!Total("activeStudents", Departments) = Sum(g, Departments)
    BY <2>1, <2>4, TotalIsSum
  <2> QED
    BY <2>4, <2>5, <2>6
<1> QED
  BY <1>2, <1>3, <1>7, <1>8, <1>9, <1>10, StatsCount DEF ids

\* No request, nothing to answer.
LEMMA StudentsStart ==
  ASSUME Stats!Init
  PROVE  StudentsInv
<1>1. req.pc = "idle"
  BY DEF Stats!Init, Stats!Idle
<1> QED
  BY <1>1 DEF StudentsInv

\* The numbers of a students request fit together when nothing else happens
\* while it is answered (getStudentsAnalytics of analytics.service.ts sends its
\* statements in two Promise.alls, the second with the ids the first has found,
\* and in no transaction; otherwise they may not).
THEOREM ActiveStudentsCorrect ==
  ASSUME Serialized
  PROVE  Stats!Spec => []Stats!ActiveStudentsAreStudents
<1>1. Stats!Init => StatInv /\ StudentsInv
  BY StatInitHolds, StudentsStart
<1>2. (StatInv /\ StudentsInv) /\ [Stats!Next]_Stats!vars => (StatInv /\ StudentsInv)'
  <2> SUFFICES ASSUME StatInv, StudentsInv, [Stats!Next]_Stats!vars PROVE StatInv' /\ StudentsInv'
    OBVIOUS
  <2>1. ASSUME req.pc = "reading" PROVE UNCHANGED Stats!tables
    <3>1. ~Stats!Free
      BY <2>1 DEF Stats!Free
    <3> QED
      BY <3>1 DEF Stats!Next, Stats!Meanwhile, Stats!Ask, Stats!Read, Stats!Done, Stats!vars
  <2> QED
    BY <2>1, StatNextKeeps, StudentsKept
<1>3. StatInv /\ StudentsInv => Stats!ActiveStudentsAreStudents
  BY SomeAreStudents
<1> QED
  BY <1>1, <1>2, <1>3, PTL DEF Stats!Spec

-----------------------------------------------------------------------------
(* The instances that TLC checks *)

\* The invariants of Analytics, in each part that has it.
ReportsInv ==
  part \in DOMAIN KindsOf => StatInv /\ NodesInv /\ StudentsInv /\ req.kind \in KindsOf[part] \cup {"idle"}

\* They hold in every part.
LEMMA ReportsInvHolds == ReportsSpec => []ReportsInv
<1>1. ReportsInit => ReportsInv
  <2> SUFFICES ASSUME ReportsInit, part \in DOMAIN KindsOf
               PROVE  StatInv /\ NodesInv /\ StudentsInv /\ req.kind = "idle"
    BY DEF ReportsInv
  <2>1. Stats!Init
    BY DEF ReportsInit, KindsOf
  <2>2. req.kind = "idle"
    BY <2>1 DEF Stats!Init, Stats!Idle
  <2> QED
    BY <2>1, <2>2, StatInitHolds, NodesStart, StudentsStart
<1>2. ReportsInv /\ [ReportsNext]_allVars => ReportsInv'
  <2> SUFFICES ASSUME ReportsInv, [ReportsNext]_allVars, part \in DOMAIN KindsOf
               PROVE  StatInv' /\ NodesInv' /\ StudentsInv' /\ req'.kind \in KindsOf[part] \cup {"idle"}
    <3>1. [ReportsNext]_allVars => part' = part
      BY Zenon DEF ReportsNext, allVars
    <3> QED
      BY <3>1 DEF ReportsInv
  <2>1. StatInv /\ NodesInv /\ StudentsInv /\ req.kind \in KindsOf[part] \cup {"idle"}
    BY DEF ReportsInv
  <2>2. CASE UNCHANGED allVars
    <3>1. UNCHANGED Stats!vars
      BY <2>2 DEF allVars, analytics, Stats!vars, Stats!tables, Stats!life
    <3>2. StatInv' /\ NodesInv' /\ StudentsInv'
      <4>1. req.pc = "reading" /\ req.kind = "students" => UNCHANGED Stats!tables
        BY <3>1 DEF Stats!vars
      <4> QED
        BY <2>1, <3>1, <4>1, StatNextKeeps, NodesKept, StudentsKept
    <3> QED
      BY <2>1, <2>2, <3>2 DEF allVars, analytics
  <2>3. CASE ReportsNext
    <3>1. /\ part' = part /\ Stats!Next /\ Besides'
          /\ part = "students" /\ req.pc = "reading" => UNCHANGED tables
      BY <2>3 DEF ReportsNext, KindsOf
    <3>2. req'.kind \in KindsOf[part] \cup {"idle"}
      BY <3>1 DEF Besides
    <3>3. req.kind = "students" => part = "students"
      BY <2>1 DEF KindsOf
    <3>4. req.pc = "reading" /\ req.kind = "students" => UNCHANGED Stats!tables
      BY <3>1, <3>3 DEF tables, Stats!tables, Stats!life
    <3> QED
      BY <2>1, <3>1, <3>2, <3>4, StatNextKeeps, NodesKept, StudentsKept
  <2> QED
    BY <2>2, <2>3
<1> QED
  BY <1>1, <1>2, PTL DEF ReportsSpec

\* A report counts everything once while reservations change under it, and the
\* periods that are over are closed (analytics.service.ts, buildReport).
THEOREM ReportsAreConsistentCorrect == ReportsSpec => []ReportsAreConsistent
<1>1. ReportsInv => ReportsAreConsistent
  BY ReportsCounted, PastClosed DEF ReportsInv, ReportsAreConsistent, KindsOf
<1> QED
  BY <1>1, ReportsInvHolds, PTL

\* What one request says of departments, students, courses and nodes from many
\* statements fits together.
THEOREM BreakdownsAgreeCorrect == ReportsSpec => []BreakdownsAgree
<1>1. ReportsInv => BreakdownsAgree
  BY DepartmentsAdded, SomeAreStudents, TopsAreTop, NodesShown DEF ReportsInv, BreakdownsAgree, KindsOf
<1> QED
  BY <1>1, ReportsInvHolds, PTL

-----------------------------------------------------------------------------
(* The other views of the reservations, for any reservations, nodes,         *)
(* maintenance windows and moments                                           *)

\* Today is within its week, and every reservation in one laboratory.
LEMMA TodaysInWeek ==
  ASSUME RowsOK
  PROVE  Dashboard!TodayInWeek
<1> DEFINE t == Dashboard!Instant(now)
           from == Dashboard!StartOfWeekUTC(t)
           week == Dashboard!WeeklySchedule(t)
           day == Dashboard!StartOfDay(t)
<1> SUFFICES ASSUME NEW r \in Dashboard!Todays(now)
             PROVE  Dashboard!Cardinality({lab \in DOMAIN week : r \in week[lab]}) = 1
  BY DEF Dashboard!TodayInWeek
<1>1. t \in Int /\ Units \in Nat \ {0}
  BY DashboardAssumption DEF DashboardAssumption, RowsOK, Dashboard!Instant
<1> HIDE DEF t
<1>2. from \in Int /\ day \in Int /\ from <= day /\ day + Units <= from + Units * 7
  <2>1. Dashboard!StartOfWeekUTC(t) = Periods!StartOfWeekUTC(t)
    <3>1. /\ \A s : Dashboard!Day(s) = Periods!Day(s)
      BY Zenon DEF Dashboard!Day, Periods!Day
    <3>2. \A s : Dashboard!StartOfDay(s) = Periods!StartOfDay(s)
      BY Zenon, <3>1 DEF Dashboard!StartOfDay, Periods!StartOfDay
    <3>3. \A s : Dashboard!WeekDay(s) = Periods!WeekDay(s)
      BY Zenon, <3>1 DEF Dashboard!WeekDay, Periods!WeekDay
    <3>4. \A s, n : Dashboard!PlusDays(s, n) = Periods!PlusDays(s, n)
      BY Zenon DEF Dashboard!PlusDays, Periods!PlusDays
    <3> QED
      BY Zenon, <3>2, <3>3, <3>4 DEF Dashboard!StartOfWeekUTC, Periods!StartOfWeekUTC
  <2>2. PICK d \in Int : from = Units * d /\ d <= Periods!Day(t) /\ Periods!Day(t) < d + 7
    BY <1>1, <2>1, WeekStart
  <2>3. PICK h : h = Periods!Day(t) /\ h \in Int /\ day = Units * h
    BY <1>1, Days DEF Dashboard!StartOfDay, Dashboard!Day, Periods!Day
  <2> HIDE DEF from, day
  <2>4. Units * d <= Units * h /\ Units * (h + 1) <= Units * (d + 7)
    <3>1. PICK u \in Nat : u = Units /\ u > 0
      BY <1>1
    <3>2. \A x, y \in Int : x <= y => u * x <= u * y
      <4> SUFFICES ASSUME NEW x \in Int, NEW y \in Int, x <= y PROVE u * x <= u * y
        OBVIOUS
      <4>1. u * (y - x) >= 0
        BY SMT, <3>1
      <4>2. u * (y - x) = u * y - u * x
        BY SMT
      <4> QED
        BY SMT, <4>1, <4>2
    <3> QED
      BY <2>2, <2>3, <3>1, <3>2
  <2>5. Units * (h + 1) = Units * h + Units /\ Units * (d + 7) = Units * d + Units * 7
    BY SMT, <1>1, <2>2, <2>3
  <2>6. Units * d \in Int /\ Units * h \in Int
    BY SMT, <1>1, <2>2, <2>3
  <2> QED
    BY <1>1, <2>2, <2>3, <2>4, <2>5, <2>6
<1>3. /\ r \in Dashboard!Rows /\ r \in DashRids /\ Dashboard!InDepartment(r)
      /\ Dashboard!InPeriod(r, day, Dashboard!PlusDays(day, 1))
  BY DEF Dashboard!Todays, Dashboard!Listed, Dashboard!Rows, t
<1>4. Dashboard!EndOfWeekUTC(from) = from + Units * 7 /\ Dashboard!PlusDays(day, 1) = day + Units
  BY <1>1 DEF Dashboard!EndOfWeekUTC, Dashboard!PlusDays
<1> HIDE DEF day
<1>5. Dashboard!InPeriod(r, from, Dashboard!EndOfWeekUTC(from))
  <2>1. PICK x, y : /\ x = Dashboard!Instant(booking[r].start) /\ y = Dashboard!Instant(booking[r].end)
                    /\ x \in Int /\ y \in Int
    BY <1>3, DashboardAssumption DEF DashboardAssumption, Dashboard!Instant, RowsOK, DashRow
  <2>2. x < day + Units /\ y > day
    BY <1>3, <1>4, <2>1 DEF Dashboard!InPeriod, Dashboard!Overlapping
  <2>3. x < from + Units * 7 /\ y > from
    <3>1. PICK z \in Int : z = Units * 7
      BY <1>1
    <3> HIDE DEF from
    <3> QED
      BY <1>1, <1>2, <2>1, <2>2, <3>1
  <2> QED
    BY <1>4, <2>1, <2>3 DEF Dashboard!InPeriod, Dashboard!Overlapping
<1> DEFINE rows == {q \in Dashboard!Rows : /\ Dashboard!InDepartment(q)
                                           /\ Dashboard!InPeriod(q, from, Dashboard!EndOfWeekUTC(from))}
<1>6. week = [lab \in {LabOf[booking[q].node] : q \in rows} |-> {q \in rows : LabOf[booking[q].node] = lab}]
  BY DEF Dashboard!WeeklySchedule
<1>7. r \in rows
  BY <1>3, <1>5
<1> HIDE DEF rows, week, from
<1>8. {lab \in DOMAIN week : r \in week[lab]} = {LabOf[booking[r].node]}
  BY <1>6, <1>7
<1> QED
  BY <1>8, FS_Singleton, SameCardinality

\* Availability and calendar are the conflict check of the engine.
LEMMA ViewsAgreed ==
  ASSUME RowsOK
  PROVE  Dashboard!ViewsAgree
<1> SUFFICES ASSUME NEW n \in Nodes, NEW from \in Times, NEW to \in Times, from < to,
                    NEW w, w = [node |-> n, start |-> from, end |-> to],
                    NEW claims, claims = {r \in Dashboard!CalendarRows(n, from, to) :
                                            booking[r].status \in {"PENDING", "APPROVED", "ACTIVE"}},
                    NEW closed, closed = {m \in Dashboard!CalendarWindows(n, from, to) : m.status # "COMPLETED"}
             PROVE  /\ Dashboard!Available(n, [from |-> from, to |-> to]) <=> Dashboard!Life!Free(w)
                    /\ claims \cup closed = {} <=> Dashboard!Life!Free(w)
  BY DEF Dashboard!ViewsAgree
<1>1. [from |-> from, to |-> to] # None /\ \A m \in Windows : m.status \in {"SCHEDULED", "IN_PROGRESS", "COMPLETED"}
  BY DashboardAssumption DEF DashboardAssumption
<1>2. Dashboard!Life!Free(w) <=>
        /\ \A r \in DashRids : booking[r].status \in {"PENDING", "APPROVED", "ACTIVE"} /\ booking[r].node = n
                               => ~Dashboard!Overlapping(booking[r], from, to)
        /\ \A m \in Dashboard!Blocking : m.node = n => ~Dashboard!Overlapping(m, from, to)
  BY DEF Dashboard!Life!Free, Dashboard!Life!Meet, Dashboard!Life!Claims, Dashboard!Overlapping
<1>3. Dashboard!Available(n, [from |-> from, to |-> to]) <=> ~Dashboard!CheckConflicts(n, from, to)
  BY <1>1 DEF Dashboard!Available, Dashboard!Available_ForWindow
<1>4. Dashboard!CheckConflicts(n, from, to) <=>
        \/ \E r \in DashRids : /\ booking[r].status \in {"PENDING", "APPROVED", "ACTIVE"} /\ booking[r].node = n
                               /\ Dashboard!Overlapping(booking[r], from, to)
        \/ \E m \in Dashboard!Blocking : m.node = n /\ Dashboard!Overlapping(m, from, to)
  BY DEF Dashboard!CheckConflicts, Dashboard!Rows
<1>5. \A r : r \in claims <=> /\ r \in DashRids /\ booking[r].status \in {"PENDING", "APPROVED", "ACTIVE"}
                              /\ booking[r].node = n /\ Dashboard!Overlapping(booking[r], from, to)
  BY DEF Dashboard!CalendarRows, Dashboard!Rows
<1>6. \A m : m \in closed <=> m \in Dashboard!Blocking /\ m.node = n /\ Dashboard!Overlapping(m, from, to)
  BY <1>1 DEF Dashboard!CalendarWindows, Dashboard!Blocking
<1> QED
  BY <1>2, <1>3, <1>4, <1>5, <1>6

-----------------------------------------------------------------------------
(* Lists in pages, of any rows and any size *)

\* Of finitely many whole numbers one is greatest.
LEMMA HasGreatest ==
  ASSUME NEW S, IsFiniteSet(S), S # {}, NEW v, \A x \in S : v[x] \in Int
  PROVE  \E x \in S : \A y \in S : v[y] <= v[x]
<1> DEFINE P == {A \in SUBSET S : A = {} \/ \E x \in A : \A y \in A : v[y] <= v[x]}
<1>1. {} \in P
  OBVIOUS
<1>2. ASSUME NEW A \in SUBSET S, A \in P, NEW z \in S \ A PROVE A \cup {z} \in P
  <2>1. CASE A = {}
    <3>1. \A y \in A \cup {z} : v[y] <= v[z]
      BY <2>1
    <3> QED
      BY <3>1
  <2>2. CASE A # {}
    <3>1. PICK x \in A : \A y \in A : v[y] <= v[x]
      BY <1>2, <2>2
    <3>2. \A y \in A \cup {z} : v[y] \in Int
      OBVIOUS
    <3>3. CASE v[z] <= v[x]
      <4>1. \A y \in A \cup {z} : v[y] <= v[x]
        BY <3>1, <3>2, <3>3
      <4> QED
        BY <4>1
    <3>4. CASE ~(v[z] <= v[x])
      <4>1. \A y \in A \cup {z} : v[y] <= v[z]
        BY <3>1, <3>2, <3>4
      <4> QED
        BY <4>1
    <3> QED
      BY <3>3, <3>4
  <2> QED
    BY <2>1, <2>2
<1> HIDE DEF P
<1>3. S \in P
  BY <1>1, <1>2, FiniteInduction
<1> QED
  BY <1>3 DEF P

\* Finitely many rows can be listed in order: the last of them is put at the end.
InOrder(list, S, v) ==
  /\ list \in [1 .. Cardinality(S) -> S]
  /\ \A i, j \in 1 .. Cardinality(S) : i # j => list[i] # list[j]
  /\ \A i, j \in 1 .. Cardinality(S) : i < j => v[list[i]] <= v[list[j]]

\* There is such a list: by the least counterexample, taking the greatest last.
LEMMA OrderExists ==
  ASSUME NEW S, IsFiniteSet(S), NEW v, \A x \in S : v[x] \in Int
  PROVE  \E list : InOrder(list, S, v)
<1> DEFINE P == {A \in SUBSET S : ~\E list : InOrder(list, A, v)}
<1>1. ASSUME P # {} PROVE FALSE
  <2>1. P \subseteq SUBSET S
    OBVIOUS
  <2> HIDE DEF P
  <2>2. PICK A \in P : \A B \in P : B \subseteq A => B = A
    BY <1>1, <2>1, SmallestSubset
  <2> USE DEF P
  <2>3. A \subseteq S /\ ~\E list : InOrder(list, A, v)
    OBVIOUS
  <2>4. IsFiniteSet(A) /\ \A x \in A : v[x] \in Int
    BY <2>3, FS_Subset
  <2>5. A # {}
    <3>1. ASSUME A = {} PROVE InOrder(<<>>, A, v)
      <4>1. Cardinality(A) = 0 /\ 1 .. 0 = {}
        BY <3>1, FS_EmptySet
      <4> QED
        BY <4>1 DEF InOrder
    <3> QED
      BY <2>3, <3>1
  <2>6. PICK x \in A : \A y \in A : v[y] <= v[x]
    BY <2>4, <2>5, HasGreatest
  <2>7. A \ {x} \notin P
    BY <2>2, <2>6
  <2>8. PICK list : InOrder(list, A \ {x}, v)
    BY <2>3, <2>7
  <2>9. PICK n \in Nat : n = Cardinality(A \ {x}) /\ Cardinality(A) = n + 1
    <3>1. IsFiniteSet(A \ {x}) /\ Cardinality(A \ {x}) = Cardinality(A) - 1
      BY <2>4, <2>6, FS_RemoveElement
    <3>2. Cardinality(A) \in Nat /\ Cardinality(A \ {x}) \in Nat
      BY <2>4, <3>1, FS_CardinalityType
    <3> QED
      BY <3>1, <3>2
  <2>10. PICK more : more = [i \in 1 .. n + 1 |-> IF i <= n THEN list[i] ELSE x]
    OBVIOUS
  <2>11. InOrder(more, A, v)
    <3>1. /\ list \in [1 .. n -> A \ {x}]
          /\ \A i, j \in 1 .. n : i # j => list[i] # list[j]
          /\ \A i, j \in 1 .. n : i < j => v[list[i]] <= v[list[j]]
      BY <2>8, <2>9 DEF InOrder
    <3>2. \A i \in 1 .. n + 1 : (i \in 1 .. n /\ more[i] = list[i] /\ more[i] \in A \ {x}) \/ (i = n + 1 /\ more[i] = x)
      <4> SUFFICES ASSUME NEW i \in 1 .. n + 1
                   PROVE  (i \in 1 .. n /\ more[i] = list[i] /\ more[i] \in A \ {x}) \/ (i = n + 1 /\ more[i] = x)
        OBVIOUS
      <4>1. CASE i <= n
        <5>1. i \in 1 .. n /\ more[i] = list[i]
          BY <2>10, <4>1
        <5>2. \A j \in 1 .. n : list[j] \in A \ {x}
          BY Zenon, <3>1
        <5> QED
          BY Zenon, <5>1, <5>2
      <4>2. CASE ~(i <= n)
        BY <2>10, <4>2
      <4> QED
        BY <4>1, <4>2
    <3>3. more \in [1 .. n + 1 -> A]
      BY <2>6, <2>10, <3>2
    <3>4. \A i, j \in 1 .. n + 1 : i # j => more[i] # more[j]
      BY <3>1, <3>2
    <3>5. ASSUME NEW i \in 1 .. n + 1, NEW j \in 1 .. n + 1, i < j PROVE v[more[i]] <= v[more[j]]
      <4>1. i \in 1 .. n /\ more[i] = list[i] /\ more[i] \in A
        BY <3>2, <3>5
      <4>2. CASE j = n + 1
        BY <2>6, <3>2, <4>1, <4>2
      <4>3. CASE j # n + 1
        <5>1. j \in 1 .. n /\ more[j] = list[j]
          BY <3>2, <4>3
        <5> QED
          BY <3>1, <3>5, <4>1, <5>1
      <4> QED
        BY <4>2, <4>3
    <3> QED
      BY <2>9, <3>3, <3>4, <3>5 DEF InOrder
  <2> QED
    BY <2>3, <2>11
<1>2. S \in SUBSET S
  OBVIOUS
<1> QED
  BY <1>1, <1>2

\* The list that is shown has each row once.
LEMMA AscendingIs ==
  ASSUME RowsOK, NEW S \in SUBSET DashRids
  PROVE  /\ Dashboard!Ascending(S) \in Seq(S) /\ Len(Dashboard!Ascending(S)) = Cardinality(S)
         /\ Cardinality(S) \in Nat
<1>1. IsFiniteSet(S) /\ Cardinality(S) \in Nat
  BY FS_Subset, FS_CardinalityType, DashboardAssumption DEF DashboardAssumption
<1>2. PICK v : v = [r \in DashRids |-> booking[r].start]
  OBVIOUS
<1>3. \A r \in S : v[r] \in Int /\ v[r] = Dashboard!Starts(r)
  BY <1>2 DEF RowsOK, DashRow, Dashboard!Starts
<1>4. PICK list : InOrder(list, S, v)
  BY <1>1, <1>3, OrderExists
<1> DEFINE Sorted(l) == \A i, j \in DOMAIN l : i < j => Dashboard!Starts(l[i]) <= Dashboard!Starts(l[j])
<1>5. Dashboard!SetToSeqs(S) = {f \in [1 .. Cardinality(S) -> S] :
                                  \A i, j \in 1 .. Cardinality(S) : i # j => f[i] # f[j]}
  BY SameCardinality DEF Dashboard!SetToSeqs
<1>6. list \in Dashboard!SetToSeqs(S) /\ Sorted(list)
  BY <1>3, <1>4, <1>5 DEF InOrder
<1>7. Dashboard!Ascending(S) = CHOOSE l \in Dashboard!SetToSeqs(S) : Sorted(l)
  BY DEF Dashboard!Ascending
<1> HIDE DEF Sorted
<1>8. Dashboard!Ascending(S) \in Dashboard!SetToSeqs(S)
  BY <1>6, <1>7
<1>9. Dashboard!Ascending(S) \in [1 .. Cardinality(S) -> S]
  BY <1>5, <1>8
<1> QED
  BY <1>1, <1>9

\* The smaller of two numbers.
LEMMA MinOfTwo ==
  ASSUME NEW x \in Int, NEW y \in Int
  PROVE  Dashboard!Min({x, y}) = IF x <= y THEN x ELSE y
<1> DEFINE Least(z) == \A w \in {x, y} : z <= w
<1>1. Dashboard!Min({x, y}) = CHOOSE z \in {x, y} : Least(z)
  BY DEF Dashboard!Min
<1>2. PICK m \in {x, y} : m = IF x <= y THEN x ELSE y
  OBVIOUS
<1>3. Least(m)
  BY <1>2
<1>4. \A z \in {x, y} : Least(z) => z = m
  BY <1>2
<1> HIDE DEF Least
<1>5. (CHOOSE z \in {x, y} : Least(z)) = m
  BY <1>3, <1>4
<1> QED
  BY <1>1, <1>2, <1>5

\* The last page is the first that reaches the end of the list.
LEMMA PagesReach ==
  ASSUME NEW total \in Nat, NEW size \in Nat \ {0}, NEW n, n = Dashboard!TotalPages(total, size)
  PROVE  /\ n \in Nat \ {0} /\ total <= n * size
         /\ \A p \in 1 .. n - 1 : p * size < total
<1>1. PICK q \in Int : q = (total + size - 1) \div size
  OBVIOUS
<1>2. n = IF q < 1 THEN 1 ELSE q
  BY <1>1 DEF Dashboard!TotalPages
<1>3. /\ q * size <= total + size - 1 /\ total + size - 1 < q * size + size
      /\ q * size \in Int
  BY SMT, <1>1
<1>4. q >= 0
  <2>1. ASSUME q <= -1 PROVE FALSE
    <3>1. (-1 - q) * size >= 0
      BY SMT, <2>1
    <3>2. (-1 - q) * size = -size - q * size
      BY SMT
    <3> QED
      BY SMT, <1>3, <3>1, <3>2
  <2> QED
    BY SMT, <2>1
<1>5. total <= n * size
  <2>1. CASE q < 1
    <3>1. q = 0 /\ q * size = 0 /\ n * size = size
      BY SMT, <1>2, <1>4, <2>1
    <3> QED
      BY SMT, <1>3, <3>1
  <2>2. CASE ~(q < 1)
    BY SMT, <1>2, <1>3, <2>2
  <2> QED
    BY <2>1, <2>2
<1>6. ASSUME NEW p \in 1 .. n - 1 PROVE p * size < total
  <2>1. n = q /\ p + 1 <= q
    BY SMT, <1>2, <1>4, <1>6
  <2>2. (q - (p + 1)) * size >= 0
    BY SMT, <2>1
  <2>3. (q - (p + 1)) * size = q * size - p * size - size
    BY SMT
  <2>4. p * size \in Int
    BY SMT
  <2> QED
    BY SMT, <1>3, <2>2, <2>3, <2>4
<1> QED
  BY <1>2, <1>4, <1>5, <1>6

\* Page p of a list.
LEMMA PageIs ==
  ASSUME NEW T, NEW list \in Seq(T), NEW size \in Nat \ {0}, NEW p \in Nat \ {0}
  PROVE  LET from == (p - 1) * size
             to == IF p * size <= Len(list) THEN p * size ELSE Len(list)
         IN  Dashboard!Page(list, p, size) = SubSeq(list, from + 1, to)
<1>1. PICK k \in Nat : k = (p - 1) * size /\ k + size = p * size
  <2>1. (p - 1) * size \in Nat /\ (p - 1) * size + size = p * size
    BY SMT
  <2> QED
    BY <2>1
<1>2. Len(list) \in Int /\ k + size \in Int
  BY LenProperties
<1>3. Dashboard!Min({Len(list), k + size}) = IF k + size <= Len(list) THEN k + size ELSE Len(list)
  BY <1>2, MinOfTwo
<1>4. Dashboard!Skip(p, size) = k
  BY <1>1 DEF Dashboard!Skip
<1>5. Dashboard!Page(list, p, size) = SubSeq(list, k + 1, IF k + size <= Len(list) THEN k + size ELSE Len(list))
  BY <1>3, <1>4 DEF Dashboard!Page
<1> QED
  BY <1>1, <1>5

\* joined has, for each page, that page and those before it.
JoinsTo(pages, joined) ==
  /\ Len(pages) \in Nat \ {0}
  /\ joined[1] = pages[1]
  /\ \A p \in 2 .. Len(pages) : joined[p] = joined[p - 1] \o pages[p]

\* What FlattenSeq joins, one page after the other.
LEMMA FlattenIs ==
  ASSUME NEW pages, NEW joined, JoinsTo(pages, joined)
  PROVE  Dashboard!FlattenSeq(pages) = joined[Len(pages)]
<1>0. PICK n \in Nat \ {0} :
        /\ n = Len(pages) /\ joined[1] = pages[1]
        /\ \A p \in 2 .. n : joined[p] = joined[p - 1] \o pages[p]
  BY DEF JoinsTo
<1> DEFINE Joins(f) == f = [i \in 1 .. n |-> IF i = 1 THEN pages[i] ELSE f[i - 1] \o pages[i]]
<1>1. Dashboard!FlattenSeq(pages) = (CHOOSE f : Joins(f))[n]
  BY <1>0 DEF Dashboard!FlattenSeq
<1>2. Joins([p \in 1 .. n |-> joined[p]])
  <2>1. \A i \in 1 .. n : joined[i] = IF i = 1 THEN pages[i] ELSE joined[i - 1] \o pages[i]
    <3>1. \A i \in 1 .. n : i = 1 \/ i \in 2 .. n
      OBVIOUS
    <3> QED
      BY <1>0, <3>1
  <2>2. \A i \in 1 .. n : i # 1 => i - 1 \in 1 .. n
    OBVIOUS
  <2> QED
    BY <2>1, <2>2
<1>3. PICK f : f = (CHOOSE g : Joins(g)) /\ Joins(f)
  <2> HIDE DEF Joins
  <2>1. Joins(CHOOSE g : Joins(g))
    BY <1>2
  <2> QED
    BY <2>1
<1>4. \A p \in 1 .. n : f[p] = joined[p]
  <2> DEFINE Bad == {p \in 1 .. n : f[p] # joined[p]}
  <2>1. ASSUME Bad # {} PROVE FALSE
    <3>1. Bad \subseteq Nat
      OBVIOUS
    <3> HIDE DEF Bad
    <3>2. PICK p \in Bad : \A q \in Bad : p <= q
      BY <2>1, <3>1, LeastOf
    <3> USE DEF Bad
    <3>3. p \in 1 .. n /\ f[p] # joined[p] /\ f[p] = (IF p = 1 THEN pages[p] ELSE f[p - 1] \o pages[p])
      BY <1>3
    <3>4. p # 1
      BY <1>0, <3>3
    <3>5. p \in 2 .. n /\ p - 1 \in 1 .. n /\ ~(p <= p - 1)
      BY <3>3, <3>4
    <3>6. f[p - 1] = joined[p - 1]
      BY <3>2, <3>5
    <3> QED
      BY <1>0, <3>3, <3>4, <3>5, <3>6
  <2> QED
    BY <2>1
<1>5. n \in 1 .. n
  OBVIOUS
<1> QED
  BY <1>0, <1>1, <1>3, <1>4, <1>5

\* The pages of a list, joined, are that list, and only the last is short.
LEMMA PagesJoin ==
  ASSUME NEW T, NEW list \in Seq(T), NEW size \in Nat \ {0}
  PROVE  LET pages == [p \in 1 .. Dashboard!TotalPages(Len(list), size) |-> Dashboard!Page(list, p, size)]
         IN  /\ Dashboard!FlattenSeq(pages) = list
             /\ \A p \in 1 .. Len(pages) - 1 : Len(pages[p]) = size
<1>0. PICK pages :
        pages = [p \in 1 .. Dashboard!TotalPages(Len(list), size) |-> Dashboard!Page(list, p, size)]
  OBVIOUS
<1>1. PICK total \in Nat : total = Len(list)
  BY LenProperties
<1>2. PICK n : n = Dashboard!TotalPages(total, size)
  OBVIOUS
<1>3. /\ n \in Nat \ {0} /\ total <= n * size
      /\ \A p \in 1 .. n - 1 : p * size < total
  BY <1>2, PagesReach
<1>4. pages = [p \in 1 .. n |-> Dashboard!Page(list, p, size)] /\ Len(pages) = n
  BY <1>0, <1>1, <1>2, <1>3
<1>5. PICK at, to : /\ at = [p \in 1 .. n |-> (p - 1) * size]
                    /\ to = [p \in 1 .. n |-> IF p * size <= total THEN p * size ELSE total]
  OBVIOUS
<1>6. \A p \in 1 .. n : pages[p] = SubSeq(list, at[p] + 1, to[p])
  <2> SUFFICES ASSUME NEW p \in 1 .. n PROVE pages[p] = SubSeq(list, at[p] + 1, to[p])
    OBVIOUS
  <2>1. p \in Nat \ {0} /\ pages[p] = Dashboard!Page(list, p, size)
    <3>1. p \in Nat \ {0}
      BY <1>3
    <3> QED
      BY Zenon, <1>4, <3>1
  <2>2. Dashboard!Page(list, p, size)
          = SubSeq(list, (p - 1) * size + 1, IF p * size <= Len(list) THEN p * size ELSE Len(list))
    BY <2>1, PageIs
  <2>3. at[p] = (p - 1) * size /\ to[p] = IF p * size <= Len(list) THEN p * size ELSE Len(list)
    BY <1>1, <1>5
  <2> QED
    BY Zenon, <2>1, <2>2, <2>3
\* A page starts where the one before it ends, and ends within the list.
<1>7. /\ at[1] = 0 /\ to[n] = total
      /\ \A p \in 1 .. n : at[p] \in Nat /\ to[p] \in Nat /\ at[p] <= to[p] /\ to[p] <= total
      /\ \A p \in 1 .. n - 1 : to[p] = at[p] + size
      /\ \A p \in 2 .. n : at[p] = to[p - 1]
  <2>0. /\ 1 \in 1 .. n /\ n \in 1 .. n
        /\ \A p \in 1 .. n : at[p] = (p - 1) * size /\ to[p] = IF p * size <= total THEN p * size ELSE total
    BY <1>3, <1>5
  <2>1. at[1] = 0
    <3>1. (1 - 1) * size = 0
      BY SMT
    <3> QED
      BY Zenon, <2>0, <3>1
  <2>2. \A p \in Nat : p * size \in Nat /\ (p + 1) * size = p * size + size
    BY SMT
  <2>3. to[n] = total
    <3>1. PICK m \in Nat : m = n * size
      BY <1>3, <2>2
    <3>2. to[n] = IF m <= total THEN m ELSE total
      BY Zenon, <2>0, <3>1
    <3>3. total <= m
      BY Zenon, <1>3, <3>1
    <3> QED
      BY <3>2, <3>3
  <2>4. ASSUME NEW p \in 1 .. n
        PROVE  /\ at[p] \in Nat /\ to[p] \in Nat /\ at[p] <= to[p] /\ to[p] <= total
               /\ p # n => to[p] = at[p] + size
    <3>1. PICK k \in Nat : k = (p - 1) * size /\ p * size = k + size
      <4>1. p - 1 \in Nat /\ p - 1 + 1 = p
        OBVIOUS
      <4>2. (p - 1) * size \in Nat /\ (p - 1 + 1) * size = (p - 1) * size + size
        BY <2>2, <4>1
      <4> QED
        BY <4>1, <4>2
    <3>2. k <= total
      <4>1. CASE p = 1
        BY <2>0, <2>1, <3>1, <4>1
      <4>2. CASE p # 1
        <5>1. p - 1 \in 1 .. n - 1
          BY <1>3, <4>2
        <5>2. (p - 1) * size < total
          BY <1>3, <5>1
        <5> QED
          BY <3>1, <5>2
      <4> QED
        BY <4>1, <4>2
    <3>3. p # n => k + size < total
      <4>1. p # n => p \in 1 .. n - 1
        BY <1>3
      <4>2. p # n => p * size < total
        BY <1>3, <4>1
      <4> QED
        BY <3>1, <4>2
    <3>4. at[p] = k /\ to[p] = IF k + size <= total THEN k + size ELSE total
      BY <2>0, <3>1
    <3> QED
      BY <3>2, <3>3, <3>4
  <2>5. ASSUME NEW p \in 2 .. n PROVE at[p] = to[p - 1]
    <3>1. p \in 1 .. n /\ p - 1 \in 1 .. n /\ p - 1 # n /\ p - 2 \in Nat /\ p - 2 + 1 = p - 1 /\ p - 1 - 1 = p - 2
      BY <1>3
    <3>2. (p - 2 + 1) * size = (p - 2) * size + size
      BY <2>2, <3>1
    <3>3. at[p] = (p - 1) * size /\ at[p - 1] = (p - 2) * size /\ to[p - 1] = at[p - 1] + size
      <4>1. at[p] = (p - 1) * size /\ at[p - 1] = (p - 1 - 1) * size
        BY Zenon, <2>0, <3>1
      <4>2. to[p - 1] = at[p - 1] + size
        BY <2>4, <3>1
      <4> QED
        BY Zenon, <3>1, <4>1, <4>2
    <3> QED
      BY Zenon, <3>1, <3>2, <3>3
  <2>6. \A p \in 1 .. n - 1 : p \in 1 .. n /\ p # n
    BY <1>3
  <2> QED
    BY <2>1, <2>3, <2>4, <2>5, <2>6
<1>8. PICK joined : joined = [p \in 1 .. n |-> SubSeq(list, 1, to[p])]
  OBVIOUS
<1>9. ASSUME NEW p \in 2 .. n PROVE joined[p] = joined[p - 1] \o pages[p]
  <2>1. p \in 1 .. n /\ p - 1 \in 1 .. n
    BY <1>3
  <2>2. joined[p] = SubSeq(list, 1, to[p]) /\ joined[p - 1] = SubSeq(list, 1, at[p])
    BY <1>7, <1>8, <2>1
  <2>3. at[p] \in 1 - 1 .. Len(list) /\ to[p] \in at[p] .. Len(list) /\ 1 \in 1 .. Len(list) + 1
    BY <1>1, <1>7, <2>1
  <2>4. SubSeq(list, 1, at[p]) \o SubSeq(list, at[p] + 1, to[p]) = SubSeq(list, 1, to[p])
    BY <2>3, ConcatAdjacentSubSeq
  <2> QED
    BY Zenon, <1>6, <2>1, <2>2, <2>4
<1>10. joined[1] = pages[1] /\ joined[n] = list
  <2>1. 1 \in 1 .. n /\ n \in 1 .. n
    BY <1>3
  <2>2. joined[1] = SubSeq(list, 1, to[1]) /\ pages[1] = SubSeq(list, 1, to[1])
    <3>1. at[1] + 1 = 1
      BY <1>7
    <3> QED
      BY Zenon, <1>6, <1>8, <2>1, <3>1
  <2>3. joined[n] = SubSeq(list, 1, Len(list))
    BY Zenon, <1>1, <1>7, <1>8, <2>1
  <2> QED
    BY Zenon, <2>2, <2>3, SubSeqFull
<1>11. Dashboard!FlattenSeq(pages) = joined[n]
  <2>1. JoinsTo(pages, joined)
    BY <1>3, <1>4, <1>9, <1>10 DEF JoinsTo
  <2> QED
    BY <1>4, <2>1, FlattenIs
<1>12. ASSUME NEW p \in 1 .. Len(pages) - 1 PROVE Len(pages[p]) = size
  <2>0. p \in 1 .. n - 1
    BY Zenon, <1>4, <1>12
  <2>1. p \in 1 .. n - 1 /\ p \in 1 .. n
    BY <1>3, <2>0
  <2>2. PICK k \in Nat : k = at[p] /\ to[p] = k + size /\ k + size <= total
    BY <1>7, <2>1
  <2>3. pages[p] = SubSeq(list, k + 1, k + size)
    BY <1>6, <2>1, <2>2
  <2>4. \A i \in k + 1 .. k + size : list[i] \in T
    <3>1. \A i \in k + 1 .. k + size : i \in 1 .. Len(list)
      BY <1>1, <2>2
    <3> QED
      BY <3>1, ElementOfSeq
  <2>5. Len(SubSeq(list, k + 1, k + size)) = IF k + 1 <= k + size THEN k + size - (k + 1) + 1 ELSE 0
    <3>1. k + 1 \in Int /\ k + size \in Int
      OBVIOUS
    <3> QED
      BY <2>4, <3>1, SubSeqProperties
  <2> QED
    BY <2>3, <2>5
<1> QED
  BY Zenon, <1>0, <1>10, <1>11, <1>12

\* So they are for the pending queue and one's own reservations.
LEMMA PagesCovered ==
  ASSUME RowsOK
  PROVE  Dashboard!PagesCover
<1>2. Dashboard!PendingList \in Seq(DashRids)
  <2>1. Dashboard!Listed({"PENDING"}) \in SUBSET DashRids
    BY DEF Dashboard!Listed, Dashboard!Rows
  <2>2. Dashboard!PendingList \in Seq(Dashboard!Listed({"PENDING"}))
    BY <2>1, AscendingIs DEF Dashboard!PendingList
  <2> QED
    BY <2>1, <2>2, SeqMonotonic
<1>3. Dashboard!MyList \in Seq(DashRids)
  <2>1. Dashboard!Rows \in SUBSET DashRids
    BY DEF Dashboard!Rows
  <2>2. PICK list : list = Dashboard!Ascending(Dashboard!Rows) /\ list \in Seq(DashRids)
    <3>1. Dashboard!Ascending(Dashboard!Rows) \in Seq(Dashboard!Rows)
      BY <2>1, AscendingIs
    <3> QED
      BY <2>1, <3>1, SeqMonotonic
  <2>3. PICK n \in Nat : n = Len(list) /\ \A i \in 1 .. n : list[i] \in DashRids
    BY <2>2, LenProperties, ElementOfSeq
  <2>4. Dashboard!MyList = [i \in 1 .. n |-> list[n - i + 1]]
    BY <2>2, <2>3 DEF Dashboard!MyList, Dashboard!Reverse
  <2>5. \A i \in 1 .. n : n - i + 1 \in 1 .. n
    OBVIOUS
  <2>6. Dashboard!MyList \in [1 .. n -> DashRids]
    BY <2>3, <2>4, <2>5
  <2> QED
    BY <2>3, <2>6
<1>4. \A size \in 1 .. Dashboard!Cardinality(DashRids) : size \in Nat \ {0}
  OBVIOUS
<1>5. ASSUME NEW list \in {Dashboard!PendingList, Dashboard!MyList},
             NEW size \in 1 .. Dashboard!Cardinality(DashRids)
      PROVE  LET pages == [p \in 1 .. Dashboard!TotalPages(Len(list), size) |-> Dashboard!Page(list, p, size)]
             IN  /\ Dashboard!FlattenSeq(pages) = list
                 /\ \A p \in 1 .. Len(pages) - 1 : Len(pages[p]) = size
  <2>1. list \in Seq(DashRids) /\ size \in Nat \ {0}
    BY <1>2, <1>3, <1>4
  <2> QED
    BY Zenon, <2>1, PagesJoin
<1> QED
  BY <1>5 DEF Dashboard!PagesCover

-----------------------------------------------------------------------------
\* Availability, calendar, schedule and lists agree with what can be booked and
\* with each other, whatever is booked, decided and swept
\* (getGpuNodeAvailability and getLaboratoryCalendar of reservation.service.ts,
\* getWeeklyLabSchedule of faculty.service.ts and common/pagination.ts).
THEOREM ViewsAgreeCorrect == ReportsSpec => []ViewsAgree
<1> DEFINE LInv == part = "lists" => RowsOK
<1>1. ReportsInit => LInv
  <2> SUFFICES ASSUME ReportsInit, part = "lists" PROVE RowsOK
    OBVIOUS
  <2>1. Dashboard!Init
    BY DEF ReportsInit, KindsOf
  <2> QED
    BY <2>1, DashStarts DEF DashInv
<1>2. LInv /\ [ReportsNext]_allVars => LInv'
  <2> SUFFICES ASSUME LInv, [ReportsNext]_allVars, part' = "lists" PROVE RowsOK'
    OBVIOUS
  <2>1. part = "lists" /\ RowsOK
    <3>1. [ReportsNext]_allVars => part' = part
      BY Zenon DEF ReportsNext, allVars
    <3> QED
      BY <3>1
  <2>2. CASE UNCHANGED allVars
    BY <2>1, <2>2 DEF allVars, RowsOK
  <2>3. CASE ReportsNext
    <3>1. Dashboard!Life!Next
      BY <2>1, <2>3 DEF ReportsNext, KindsOf, Dashboard!Change
    <3> QED
      BY <2>1, <3>1, RowsChange
  <2> QED
    BY <2>2, <2>3
<1>3. LInv => ViewsAgree
  BY TodaysInWeek, ViewsAgreed, PagesCovered DEF ViewsAgree
<1> QED
  BY <1>1, <1>2, <1>3, PTL DEF ReportsSpec
=============================================================================
