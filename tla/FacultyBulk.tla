----------------------------- MODULE FacultyBulk -----------------------------
(***************************************************************************)
(* PATCH /reservations/bulk-approve and /bulk-reject of apps/api: a list of *)
(* reservations decided inside one interactive Postgres transaction, next  *)
(* to the single decisions of the booking engine.                          *)
(*                                                                         *)
(* Postgres runs the transaction at READ COMMITTED: a read sees what is    *)
(* committed at that moment and locks nothing, an update takes the row's   *)
(* lock and keeps it to the end of the transaction, and an update of a     *)
(* locked row waits, then applies whatever the row has become.             *)
(***************************************************************************)
EXTENDS Integers, Sequences, FiniteSets

CONSTANTS
  Rids,              \* reservation ids, whether or not the row exists
  Depts,             \* the departments
  DeptOf,            \* the department that owns each reservation's node
  Batches,           \* slots for bulk requests in flight
  Singles,           \* slots for single decisions in flight
  MaxBatch,          \* the longest list (100 in the code)
  MaxAuditFailures,  \* how many audit rows may fail to be written
  Serialized,        \* TRUE: a request starts only when none is in flight
  None               \* no batch, no reservation

ASSUME ConstantsAssumption ==
  /\ DeptOf \in [Rids -> Depts]
  /\ MaxBatch \in Nat
  /\ MaxAuditFailures \in Nat
  /\ Serialized \in BOOLEAN
  /\ None \notin Batches
  /\ None \notin Rids

VARIABLES
  status,       \* the committed status of each reservation, "NONE" without a row
  lock,         \* the batch whose open transaction has updated the row
  batch,        \* each bulk request: its input, its progress, its answer
  single,       \* each single decision between its read and its update
  auditFailures \* how many audit rows have failed

vars == <<status, lock, batch, single, auditFailures>>

Statuses == {"PENDING", "APPROVED", "ACTIVE", "COMPLETED", "REJECTED", "CANCELLED"}
Decisions == {"APPROVED", "REJECTED"}

\* The lists the request schema lets through: not empty, no reservation twice.
BatchLists ==
  {ids \in UNION {[1..n -> Rids] : n \in 1..MaxBatch} :
     \A i, j \in DOMAIN ids : ids[i] = ids[j] => i = j}

IdleBatch == [pc |-> "idle", dept |-> None, ids |-> <<>>, to |-> "NONE",
              at |-> 1, checked |-> FALSE, broken |-> FALSE]
IdleSingle == [rid |-> None, to |-> "NONE"]

Batch == [pc : {"idle", "running", "ok", "refused"}, dept : Depts \cup {None},
          ids : BatchLists \cup {<<>>}, to : Decisions \cup {"NONE"},
          at : Nat, checked : BOOLEAN, broken : BOOLEAN]
Single == [rid : Rids \cup {None}, to : Decisions \cup {"CANCELLED", "NONE"}]

\* The table, and what is known of each request: its position is one of its
\* list while it runs, and a row can only be checked at such a position.
TypeOK ==
  /\ status \in [Rids -> Statuses \cup {"NONE"}]
  /\ lock \in [Rids -> Batches \cup {None}]
  /\ batch \in [Batches -> Batch]
  /\ \A b \in Batches : batch[b].pc = "running" =>
       /\ batch[b].at \in 1..Len(batch[b].ids) + 1
       /\ batch[b].checked => batch[b].at \in DOMAIN batch[b].ids
       /\ batch[b].to \in Decisions
       /\ batch[b].dept \in Depts
  /\ single \in [Singles -> Single]
  /\ \A d \in Singles : single[d].to = "NONE" <=> single[d].rid = None
  /\ auditFailures \in Nat

Init ==
  /\ status \in [Rids -> {"NONE", "PENDING", "APPROVED"}]
  /\ lock = [r \in Rids |-> None]
  /\ batch = [b \in Batches |-> IdleBatch]
  /\ single = [d \in Singles |-> IdleSingle]
  /\ auditFailures = 0

-----------------------------------------------------------------------------
(* The bulk request *)

Running(b) == batch[b].pc = "running"
Listed(b) == {batch[b].ids[i] : i \in DOMAIN batch[b].ids}
Row(b) == batch[b].ids[batch[b].at]

MayStart ==
  Serialized => /\ \A b \in Batches : ~Running(b)
                /\ \A d \in Singles : single[d] = IdleSingle

\* A faculty member without a department is refused before anything is read.
StartBatch(b, ids, to, dept) ==
  /\ MayStart
  /\ ~Running(b)
  /\ batch' = [batch EXCEPT ![b] = [IdleBatch EXCEPT
                 !.pc = "running", !.ids = ids, !.to = to, !.dept = dept]]
  /\ UNCHANGED <<status, lock, single, auditFailures>>

Acceptable_AnyDept(r, dept) == status[r] = "PENDING"  \* mutant
Acceptable_AnyStatus(r, dept) == DeptOf[r] = dept  \* mutant
\* The row exists, is in the department and is waiting for a decision.
Acceptable(r, dept) == DeptOf[r] = dept /\ status[r] = "PENDING"

CheckRow(b) ==
  /\ Running(b)
  /\ ~batch[b].checked
  /\ ~batch[b].broken
  /\ batch[b].at \in DOMAIN batch[b].ids
  /\ Acceptable(Row(b), batch[b].dept)
  /\ batch' = [batch EXCEPT ![b].checked = TRUE]
  /\ UNCHANGED <<status, lock, single, auditFailures>>

\* The update waits for the row's lock.  The audit row follows in the same
\* transaction; when writing it fails the error is swallowed, but Postgres has
\* by then marked the transaction as failed (`broken`).
UpdateRow(b) ==
  /\ Running(b)
  /\ batch[b].checked
  /\ lock[Row(b)] = None
  /\ lock' = [lock EXCEPT ![Row(b)] = b]
  /\ \E fails \in {FALSE} \cup (IF auditFailures < MaxAuditFailures THEN {TRUE} ELSE {}) :
       /\ batch' = [batch EXCEPT ![b].at = batch[b].at + 1,
                                 ![b].checked = FALSE, ![b].broken = fails]
       /\ auditFailures' = IF fails THEN auditFailures + 1 ELSE auditFailures
  /\ UNCHANGED <<status, single>>

LocksWithout_None(b) == lock  \* mutant
LocksWithout(b) == [r \in Rids |-> IF lock[r] = b THEN None ELSE lock[r]]

Finish(b, answer) ==
  /\ batch' = [batch EXCEPT ![b] = [IdleBatch EXCEPT !.pc = answer]]
  /\ lock' = LocksWithout(b)

\* Postgres answers the COMMIT of a failed transaction by rolling it back,
\* which is no error: the request is answered with the rows it has updated.
Commit(b) ==
  /\ Running(b)
  /\ batch[b].at = Len(batch[b].ids) + 1
  /\ Finish(b, "ok")
  /\ status' = [r \in Rids |-> IF lock[r] = b /\ ~batch[b].broken THEN batch[b].to
                                                                  ELSE status[r]]
  /\ UNCHANGED <<single, auditFailures>>

Rollback_Keeping(b) ==  \* mutant
  /\ Running(b)
  /\ Finish(b, "refused")
  /\ status' = [r \in Rids |-> IF lock[r] = b THEN batch[b].to ELSE status[r]]
  /\ UNCHANGED <<single, auditFailures>>
Rollback(b) ==
  /\ Running(b)
  /\ Finish(b, "refused")
  /\ UNCHANGED <<status, single, auditFailures>>

\* 404, 403 or 409 at the row that is looked at, or a statement that is refused
\* because the transaction has already failed.
Refuse(b) ==
  /\ Running(b)
  /\ ~batch[b].checked
  /\ batch[b].at \in DOMAIN batch[b].ids
  /\ batch[b].broken \/ ~Acceptable(Row(b), batch[b].dept)
  /\ Rollback(b)

WaitsFor(b) == IF Running(b) /\ batch[b].checked THEN lock[Row(b)] ELSE None

\* b waits for a batch that waits ... for b.
Deadlocked(b) == \E S \in SUBSET Batches : b \in S /\ \A c \in S : WaitsFor(c) \in S

\* Postgres finds the cycle and fails the update of one of the waiting requests.
DeadlockVictim(b) == Deadlocked(b) /\ Rollback(b)

\* The process exits, its connection is lost or the transaction times out.
Crash(b) == Rollback(b)

-----------------------------------------------------------------------------
(* The single decisions: one read, one update of its own, as committed *)

ReadSingle(d, r, to) ==
  /\ MayStart
  /\ single[d] = IdleSingle
  /\ status[r] \in IF to = "CANCELLED" THEN {"PENDING", "APPROVED"} ELSE {"PENDING"}
  /\ single' = [single EXCEPT ![d] = [rid |-> r, to |-> to]]
  /\ UNCHANGED <<status, lock, batch, auditFailures>>

WriteSingle(d) ==
  /\ single[d].to # "NONE"
  /\ lock[single[d].rid] = None
  /\ status' = [status EXCEPT ![single[d].rid] = single[d].to]
  /\ single' = [single EXCEPT ![d] = IdleSingle]
  /\ UNCHANGED <<lock, batch, auditFailures>>

-----------------------------------------------------------------------------
BatchStep(b) ==
  \/ CheckRow(b)
  \/ UpdateRow(b)
  \/ Commit(b)
  \/ Refuse(b)
  \/ DeadlockVictim(b)

Next ==
  \/ \E b \in Batches :
       \/ \E ids \in BatchLists, to \in Decisions, dept \in Depts : StartBatch(b, ids, to, dept)
       \/ BatchStep(b)
       \/ Crash(b)
  \/ \E d \in Singles :
       \/ \E r \in Rids, to \in Decisions \cup {"CANCELLED"} : ReadSingle(d, r, to)
       \/ WriteSingle(d)

Spec == Init /\ [][Next]_vars

\* Postgres runs the statements of a request that is being served and breaks
\* deadlocks, and the api sends the next one when it has the answer.  Crashes
\* and single decisions need not happen.
Fairness ==
  /\ \A b \in Batches : WF_vars(CheckRow(b) \/ Commit(b) \/ Refuse(b))
  /\ \A b \in Batches : SF_vars(UpdateRow(b)) /\ WF_vars(DeadlockVictim(b))

FairSpec == Spec /\ Fairness

-----------------------------------------------------------------------------
(* Properties *)

\* The committed rows that a step changes, and whether it is a step of b.
Changed == {r \in Rids : status'[r] # status[r]}
Moves(b) == batch'[b] # batch[b]

\* Of b's steps only the one that answers "ok" changes committed rows: then each
\* of its list has the decision, and no other row is touched.  It may be answered
\* "ok" with nothing changed, if an audit row has failed.
WhollyOrNot(b) ==
  /\ Changed # {} => Running(b) /\ batch'[b].pc = "ok" /\ Changed \subseteq Listed(b)
  /\ Running(b) /\ batch'[b].pc = "ok" =>
       \/ \A r \in Listed(b) : status'[r] = batch[b].to
       \/ batch[b].broken /\ Changed = {}

\* All or nothing: whatever overtakes it, wherever it fails, crashes or is the
\* victim of a deadlock, a bulk request changes every reservation of its list
\* or none, and none if it is refused.
AllOrNothing == [][\A b \in Batches : Moves(b) => WhollyOrNot(b)]_vars

\* A bulk request changes reservations of the faculty member's department only,
\* even when a list mixes departments and other requests interfere.
OwnDepartmentOnly ==
  [][\A b \in Batches : Moves(b) => \A r \in Changed : DeptOf[r] = batch[b].dept]_vars

\* A row is locked only by a request that is still running and has updated it:
\* no outcome of a transaction leaves a row that later decisions wait for.
LocksAreLive ==
  \A r \in Rids : lock[r] # None =>
    /\ Running(lock[r])
    /\ \E i \in DOMAIN batch[lock[r]].ids : i < batch[lock[r]].at /\ batch[lock[r]].ids[i] = r

\* Every bulk request is answered, although requests lock rows in the order of
\* their lists and may wait for each other in a cycle.
EveryBatchAnswered == \A b \in Batches : Running(b) ~> ~Running(b)

\* One invalid id rolls back the whole batch: when a request is committed, each
\* of its reservations is still waiting for a decision.  (No overlaps.)
AppliesToPendingOnly ==
  \A b \in Batches : Moves(b) /\ Changed # {} => \A r \in Listed(b) : status[r] = "PENDING"
=============================================================================
