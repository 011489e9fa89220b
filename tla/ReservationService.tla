------------------------- MODULE ReservationService -------------------------
(***************************************************************************)
(* The reservation booking engine of apps/api: POST /reservations, the     *)
(* approve, reject and cancel endpoints, and the status sweep that moves   *)
(* reservations through ACTIVE to COMPLETED on wall-clock time.            *)
(*                                                                         *)
(* Every database statement is one atomic step.  A Node process may run    *)
(* any other callback at an `await`, and several api replicas share one    *)
(* Postgres database, so a request or a sweep may be overtaken between any *)
(* two of its statements.  Requests run in slots (Bookers, Deciders),      *)
(* sweep passes in slots of their own (Sweepers).                          *)
(*                                                                         *)
(* A request that dies between two statements is one whose next step is    *)
(* RequestAbort.  Heartbeats live in another component: whether a node is  *)
(* ONLINE when it is asked is left open here.                              *)
(***************************************************************************)
EXTENDS Integers, Sequences, FiniteSets

CONSTANTS
  Nodes,        \* the GPU nodes
  Labs,         \* the laboratories
  LabOf,        \* the laboratory of each node
  GpuCount,     \* each node's gpuCount
  MemoryGB,     \* each node's totalMemoryGB
  Demands,      \* the requirements a request by laboratory may state
  Maintenance,  \* blocking maintenance windows (SCHEDULED or IN_PROGRESS)
  Rids,         \* reservation ids
  Bookers,      \* slots for POST /reservations requests in flight
  Deciders,     \* slots for approve, reject and cancel requests in flight
  Sweepers,     \* slots for sweep passes in flight
  MaxTime,      \* the clock's bound
  MaxAborts,    \* how many sweep passes may die half-way
  Serialized,   \* TRUE: a request or a pass starts only when none is in flight
  None          \* no reservation, no node

Window(S) == {w \in S : w.start < w.end}

ASSUME ConstantsAssumption ==
  /\ LabOf \in [Nodes -> Labs]
  /\ GpuCount \in [Nodes -> Nat]
  /\ MemoryGB \in [Nodes -> Nat]
  /\ Demands \subseteq [gpus : Nat, memGB : Nat]
  /\ Maintenance \subseteq Window([node : Nodes, start : Nat, end : Nat])
  /\ MaxTime \in Nat
  /\ MaxAborts \in Nat
  /\ Serialized \in BOOLEAN
  /\ None \notin Rids
  /\ None \notin Nodes

VARIABLES
  clock,     \* wall-clock time, shared by all processes
  res,       \* the reservations table
  sess,      \* the allocation_sessions rows of each reservation, oldest first
  booker,    \* local state of each booking request
  decider,   \* local state of each approve, reject or cancel request
  sweeper,   \* local state of each sweep pass
  approved,  \* history: the reservations a faculty member has ever approved
  aborts     \* how many passes have died so far

vars == <<clock, res, sess, booker, decider, sweeper, approved, aborts>>
requests == <<booker, decider>>

Statuses == {"PENDING", "APPROVED", "ACTIVE", "COMPLETED", "REJECTED", "CANCELLED"}
SettledStatuses == {"COMPLETED", "REJECTED", "CANCELLED"}

NoRow == [status |-> "NONE", node |-> None, start |-> 0, end |-> 0]
IdleBooker == [busy |-> FALSE, start |-> 0, end |-> 0, todo |-> {}, eligible |-> {}]
IdleDecider == [rid |-> None, to |-> "NONE"]
IdleSweeper == [pc |-> "idle", phase |-> "activate", now |-> 0, todo |-> {},
                cur |-> None, ses |-> 0]

Row == [status : Statuses \cup {"NONE"}, node : Nodes \cup {None}, start : Nat, end : Nat]
Session == [status : {"RUNNING", "COMPLETED"}, startedAt : Nat, endedAt : Nat]
Booker == [busy : BOOLEAN, start : Nat, end : Nat,
           todo : SUBSET Nodes, eligible : SUBSET Nodes]
Decider == [rid : Rids \cup {None}, to : {"NONE", "APPROVED", "REJECTED", "CANCELLED"}]
Sweeper == [pc : {"idle", "list", "row", "open", "find", "close"},
            phase : {"activate", "complete"}, now : Nat, todo : SUBSET Rids,
            cur : Rids \cup {None}, ses : Nat]

\* The tables, and what each request and pass in flight remembers of them: a
\* request has a reservation exactly while it decides, a pass one exactly while
\* it writes it.
TypeOK ==
  /\ clock \in Nat
  /\ res \in [Rids -> Row]
  /\ sess \in [Rids -> Seq(Session)]
  /\ booker \in [Bookers -> Booker]
  /\ decider \in [Deciders -> Decider]
  /\ \A d \in Deciders : decider[d].to = "NONE" <=> decider[d].rid = None
  /\ sweeper \in [Sweepers -> Sweeper]
  /\ \A s \in Sweepers : sweeper[s].pc \in {"open", "find", "close"} <=> sweeper[s].cur # None
  /\ approved \subseteq Rids
  /\ aborts \in Nat

Init ==
  /\ clock = 0
  /\ res = [r \in Rids |-> NoRow]
  /\ sess = [r \in Rids |-> <<>>]
  /\ booker = [b \in Bookers |-> IdleBooker]
  /\ decider = [d \in Deciders |-> IdleDecider]
  /\ sweeper = [s \in Sweepers |-> IdleSweeper]
  /\ approved = {}
  /\ aborts = 0

-----------------------------------------------------------------------------
(* Queries and pure helpers *)

Exists(r) == res[r].status # "NONE"

HoldingStatuses_NoPending == {"APPROVED", "ACTIVE"}  \* mutant
HoldingStatuses == {"PENDING", "APPROVED", "ACTIVE"}

\* [w.start, w.end) and [start, end) share a moment.
Overlaps(w, start, end) == w.start < end /\ w.end > start

HasReservationConflict(n, start, end) ==
  \E r \in Rids : /\ res[r].status \in HoldingStatuses
                  /\ res[r].node = n
                  /\ Overlaps(res[r], start, end)

HasMaintenanceConflict(n, start, end) ==
  \E w \in Maintenance : w.node = n /\ Overlaps(w, start, end)

IsConflictFree_ReservationsOnly(n, start, end) ==  \* mutant
  ~HasReservationConflict(n, start, end)
IsConflictFree(n, start, end) ==
  /\ ~HasReservationConflict(n, start, end)
  /\ ~HasMaintenanceConflict(n, start, end)

Satisfies(n, demand) == GpuCount[n] >= demand.gpus /\ MemoryGB[n] >= demand.memGB

\* The smallest candidates by gpuCount, then by memory.
BestFit(candidates) ==
  {n \in candidates : \A m \in candidates :
      \/ GpuCount[n] < GpuCount[m]
      \/ GpuCount[n] = GpuCount[m] /\ MemoryGB[n] <= MemoryGB[m]}

ToActivate_WithPending(now) ==  \* mutant
  {r \in Rids : res[r].status \in {"PENDING", "APPROVED"} /\ res[r].start <= now}
ToActivate_AnyTime(now) ==  \* mutant
  {r \in Rids : res[r].status = "APPROVED"}
ToActivate_InWindow(now) ==  \* mutant
  {r \in Rids : res[r].status = "APPROVED" /\ res[r].start <= now /\ res[r].end > now}
ToActivate(now) == {r \in Rids : res[r].status = "APPROVED" /\ res[r].start <= now}

ToComplete(now) == {r \in Rids : res[r].status = "ACTIVE" /\ res[r].end <= now}

\* The running sessions of r that started last.
LatestRunning_Never(r) ==  \* mutant
  {i \in DOMAIN sess[r] : sess[r][i].status = "ACTIVE"}
LatestRunning(r) ==
  {i \in DOMAIN sess[r] :
      /\ sess[r][i].status = "RUNNING"
      /\ \A j \in DOMAIN sess[r] :
            sess[r][j].status = "RUNNING" => sess[r][j].startedAt <= sess[r][i].startedAt}

AllIdle ==
  /\ \A b \in Bookers : booker[b] = IdleBooker
  /\ \A d \in Deciders : decider[d] = IdleDecider
  /\ \A s \in Sweepers : sweeper[s] = IdleSweeper

MayStart == Serialized => AllIdle

-----------------------------------------------------------------------------
(* POST /reservations *)

StartBooking(b, start, end, candidates) ==
  booker' = [booker EXCEPT ![b] = [busy |-> TRUE, start |-> start, end |-> end,
                                   todo |-> candidates, eligible |-> {}]]

\* A request that names a window: it starts no earlier than now and is not empty.
NewRequest(b, start, end) ==
  /\ MayStart
  /\ booker[b] = IdleBooker
  /\ start >= clock
  /\ start < end

BookNode(b, n, start, end) ==
  /\ NewRequest(b, start, end)
  /\ StartBooking(b, start, end, {n})
  /\ UNCHANGED <<clock, res, sess, decider, sweeper, approved, aborts>>

BookLab(b, lab, demand, start, end) ==
  /\ NewRequest(b, start, end)
  /\ StartBooking(b, start, end, {n \in Nodes : LabOf[n] = lab /\ Satisfies(n, demand)})
  /\ UNCHANGED <<clock, res, sess, decider, sweeper, approved, aborts>>

\* One node's health and conflicts are read.  Nothing in this module depends
\* on health afterwards, so both reads are one step.
CheckNode(b, n, online) ==
  /\ booker[b].busy
  /\ n \in booker[b].todo
  /\ booker' = [booker EXCEPT ![b] = [@ EXCEPT
       !.todo = booker[b].todo \ {n},
       !.eligible = IF online /\ IsConflictFree(n, booker[b].start, booker[b].end)
                      THEN booker[b].eligible \cup {n} ELSE booker[b].eligible]]
  /\ UNCHANGED <<clock, res, sess, decider, sweeper, approved, aborts>>

CreateReservation(b, n, r) ==
  /\ booker[b].busy
  /\ booker[b].todo = {}
  /\ n \in BestFit(booker[b].eligible)
  /\ ~Exists(r)
  /\ res' = [res EXCEPT ![r] = [status |-> "PENDING", node |-> n,
                                start |-> booker[b].start, end |-> booker[b].end]]
  /\ booker' = [booker EXCEPT ![b] = IdleBooker]
  /\ UNCHANGED <<clock, sess, decider, sweeper, approved, aborts>>

\* 409: no candidate is left.
RefuseBooking(b) ==
  /\ booker[b].busy
  /\ booker[b].todo = {}
  /\ booker[b].eligible = {}
  /\ booker' = [booker EXCEPT ![b] = IdleBooker]
  /\ UNCHANGED <<clock, res, sess, decider, sweeper, approved, aborts>>

-----------------------------------------------------------------------------
(* PATCH /:id/approve, PATCH /:id/reject, DELETE /:id *)

DecidableStatuses == {"PENDING"}
CancellableStatuses_Active == {"PENDING", "APPROVED", "ACTIVE"}  \* mutant
CancellableStatuses == {"PENDING", "APPROVED"}

\* The reservation is read and its status found to allow the change.
ReadAndValidate(d, r, allowed, to) ==
  /\ MayStart
  /\ decider[d] = IdleDecider
  /\ res[r].status \in allowed
  /\ decider' = [decider EXCEPT ![d] = [rid |-> r, to |-> to]]
  /\ UNCHANGED <<clock, res, sess, booker, sweeper, approved, aborts>>

Approve(d, r) == ReadAndValidate(d, r, DecidableStatuses, "APPROVED")
Reject(d, r) == ReadAndValidate(d, r, DecidableStatuses, "REJECTED")
Cancel(d, r) == ReadAndValidate(d, r, CancellableStatuses, "CANCELLED")

\* The update names the row by its id alone, whatever its status is by now.
WriteDecision(d) ==
  /\ decider[d].to # "NONE"
  /\ res' = [res EXCEPT ![decider[d].rid].status = decider[d].to]
  /\ approved' = IF decider[d].to = "APPROVED" THEN approved \cup {decider[d].rid}
                                               ELSE approved
  /\ decider' = [decider EXCEPT ![d] = IdleDecider]
  /\ UNCHANGED <<clock, sess, booker, sweeper, aborts>>

\* A statement of a request fails, its connection is lost or its process exits.
RequestAbort ==
  /\ \/ /\ \E b \in Bookers : booker[b].busy /\ booker' = [booker EXCEPT ![b] = IdleBooker]
        /\ UNCHANGED decider
     \/ /\ \E d \in Deciders : /\ decider[d].to # "NONE"
                               /\ decider' = [decider EXCEPT ![d] = IdleDecider]
        /\ UNCHANGED booker
  /\ UNCHANGED <<clock, res, sess, sweeper, approved, aborts>>

-----------------------------------------------------------------------------
(* The status sweep *)

SweepBegin(s) ==
  /\ MayStart
  /\ sweeper[s] = IdleSweeper
  /\ sweeper' = [sweeper EXCEPT ![s] = [IdleSweeper EXCEPT !.pc = "list", !.now = clock]]
  /\ UNCHANGED <<clock, res, sess, requests, approved, aborts>>

SweepList(s) ==
  /\ sweeper[s].pc = "list"
  /\ sweeper' = [sweeper EXCEPT ![s] = [@ EXCEPT
       !.pc = "row",
       !.todo = IF sweeper[s].phase = "activate" THEN ToActivate(sweeper[s].now)
                                                 ELSE ToComplete(sweeper[s].now)]]
  /\ UNCHANGED <<clock, res, sess, requests, approved, aborts>>

\* The whole window has already passed.
WindowElapsed_Never(r, now) == FALSE  \* mutant
WindowElapsed(r, now) == res[r].end <= now

SweepActivate(s, r) ==
  /\ sweeper[s].pc = "row"
  /\ sweeper[s].phase = "activate"
  /\ r \in sweeper[s].todo
  /\ ~WindowElapsed(r, sweeper[s].now)
  /\ res' = [res EXCEPT ![r].status = "ACTIVE"]
  /\ sweeper' = [sweeper EXCEPT ![s] =
                     [@ EXCEPT !.pc = "open", !.cur = r, !.todo = sweeper[s].todo \ {r}]]
  /\ UNCHANGED <<clock, sess, requests, approved, aborts>>

OpenSession_Active(now) ==  \* mutant
  [status |-> "ACTIVE", startedAt |-> now, endedAt |-> 0]
OpenSession(now) == [status |-> "RUNNING", startedAt |-> now, endedAt |-> 0]

SweepOpenSession(s) ==
  /\ sweeper[s].pc = "open"
  /\ sess' = [sess EXCEPT ![sweeper[s].cur] = Append(@, OpenSession(sweeper[s].now))]
  /\ sweeper' = [sweeper EXCEPT ![s] = [@ EXCEPT !.pc = "row", !.cur = None]]
  /\ UNCHANGED <<clock, res, requests, approved, aborts>>

SweepComplete(s, r) ==
  /\ sweeper[s].pc = "row"
  /\ r \in sweeper[s].todo
  /\ sweeper[s].phase = "complete" \/ WindowElapsed(r, sweeper[s].now)
  /\ res' = [res EXCEPT ![r].status = "COMPLETED"]
  /\ sweeper' = [sweeper EXCEPT ![s] =
                     [@ EXCEPT !.pc = "find", !.cur = r, !.todo = sweeper[s].todo \ {r}]]
  /\ UNCHANGED <<clock, sess, requests, approved, aborts>>

SweepFindSession(s) ==
  /\ sweeper[s].pc = "find"
  /\ LET running == LatestRunning(sweeper[s].cur)
     IN  \E i \in IF running = {} THEN {0} ELSE running :
           sweeper' = [sweeper EXCEPT ![s] = [@ EXCEPT !.pc = "close", !.ses = i]]
  /\ UNCHANGED <<clock, res, sess, requests, approved, aborts>>

ClosedSession(startedAt, endedAt) ==
  [status |-> "COMPLETED", startedAt |-> startedAt, endedAt |-> endedAt]

SweepCloseSession(s) ==
  LET r == sweeper[s].cur
      i == sweeper[s].ses
  IN  /\ sweeper[s].pc = "close"
      /\ \/ /\ i # 0
            /\ sess' = [sess EXCEPT ![r] =
                          [@ EXCEPT ![i] = ClosedSession(sess[r][i].startedAt, res[r].end)]]
         \/ /\ i = 0
            /\ sess' = [sess EXCEPT ![r] =
                          Append(@, ClosedSession(res[r].start, res[r].end))]
      /\ sweeper' = [sweeper EXCEPT ![s] =
                        [@ EXCEPT !.pc = "row", !.cur = None, !.ses = 0]]
      /\ UNCHANGED <<clock, res, requests, approved, aborts>>

\* The list is exhausted: on to the second list, or the pass is over.
SweepListDone(s) ==
  /\ sweeper[s].pc = "row"
  /\ sweeper[s].todo = {}
  /\ sweeper' = [sweeper EXCEPT ![s] =
       IF @.phase = "activate" THEN [@ EXCEPT !.pc = "list", !.phase = "complete"]
                               ELSE IdleSweeper]
  /\ UNCHANGED <<clock, res, sess, requests, approved, aborts>>

\* A statement of the pass throws, or its process exits: the rest is skipped.
SweepAbort(s) ==
  /\ sweeper[s].pc # "idle"
  /\ aborts < MaxAborts
  /\ sweeper' = [sweeper EXCEPT ![s] = IdleSweeper]
  /\ aborts' = aborts + 1
  /\ UNCHANGED <<clock, res, sess, requests, approved>>

Tick ==
  /\ clock < MaxTime
  /\ clock' = clock + 1
  /\ UNCHANGED <<res, sess, requests, sweeper, approved, aborts>>

-----------------------------------------------------------------------------
BookingStep(b) ==
  \/ \E start, end \in 0..MaxTime :
       \/ \E n \in Nodes : BookNode(b, n, start, end)
       \/ \E lab \in Labs, demand \in Demands : BookLab(b, lab, demand, start, end)
  \/ \E n \in Nodes, online \in BOOLEAN : CheckNode(b, n, online)
  \/ \E n \in Nodes, r \in Rids : CreateReservation(b, n, r)
  \/ RefuseBooking(b)

DecisionStep(d) ==
  \/ \E r \in Rids : Approve(d, r) \/ Reject(d, r) \/ Cancel(d, r)
  \/ WriteDecision(d)

SweepStep(s) ==
  \/ SweepBegin(s)
  \/ SweepList(s)
  \/ \E r \in Rids : SweepActivate(s, r) \/ SweepComplete(s, r)
  \/ SweepOpenSession(s)
  \/ SweepFindSession(s)
  \/ SweepCloseSession(s)
  \/ SweepListDone(s)

Next ==
  \/ \E b \in Bookers : BookingStep(b)
  \/ \E d \in Deciders : DecisionStep(d)
  \/ RequestAbort
  \/ \E s \in Sweepers : SweepStep(s) \/ SweepAbort(s)
  \/ Tick

Spec == Init /\ [][Next]_vars

\* Time passes, and each interval timer keeps firing and its passes keep
\* running.  Nothing makes a request finish.
Fairness == WF_vars(Tick) /\ \A s \in Sweepers : WF_vars(SweepStep(s))

FairSpec == Spec /\ Fairness

-----------------------------------------------------------------------------
(* What holds whatever overtakes what *)

\* No reservation was ever given a window in which its node is under
\* maintenance: whichever path a booking took and however its checks were
\* overtaken, the maintenance half of checkConflicts decided about that window.
NoMaintenanceOverlap ==
  \A r \in Rids : Exists(r) => ~HasMaintenanceConflict(res[r].node, res[r].start, res[r].end)

\* A session lies inside its reservation's window, and a closed one ends
\* exactly at endTime: a late, stale or repeated sweep never bills a moment
\* outside what was booked, nor moves a session's end to its own clock.
SessionWithinWindow ==
  \A r \in Rids : \A i \in DOMAIN sess[r] :
    /\ res[r].start <= sess[r][i].startedAt
    /\ sess[r][i].startedAt < res[r].end
    /\ sess[r][i].status = "COMPLETED" => sess[r][i].endedAt = res[r].end

\* Use needs consent: a reservation that is or was in use (ACTIVE, COMPLETED or
\* with a session) was approved by a faculty member at some moment before, even
\* when a stale decision has since overwritten that approval.
UseOnlyAfterApproval ==
  \A r \in Rids :
    res[r].status \in {"ACTIVE", "COMPLETED"} \/ sess[r] # <<>> => r \in approved

\* The clock drives use: no reservation is ACTIVE before its start, COMPLETED
\* before its end, or billed for a closed session before its end, although
\* sweeps act on the `now` and the rows they read at some earlier time.
NeverEarly ==
  \A r \in Rids :
    /\ res[r].status \in {"ACTIVE", "COMPLETED"} => res[r].start <= clock
    /\ res[r].status = "COMPLETED" => res[r].end <= clock
    /\ \A i \in DOMAIN sess[r] : /\ sess[r][i].startedAt <= clock
                                 /\ sess[r][i].status = "COMPLETED" => res[r].end <= clock

\* An approved reservation does not stay APPROVED or ACTIVE for ever: in the end
\* it is settled for good, even if sweep passes die, a window was missed
\* altogether, or stale decisions overwrite its status meanwhile.
ApprovedSettles ==
  \A r \in Rids : (r \in approved) ~> [](res[r].status \in SettledStatuses)

-----------------------------------------------------------------------------
(* What holds when requests and passes do not overlap *)

\* Conflict-free scheduling: no two reservations hold one node at one moment.
NoDoubleBooking ==
  \A q, r \in Rids :
    /\ q # r
    /\ res[q].status \in HoldingStatuses
    /\ res[r].status \in HoldingStatuses
    /\ res[q].node = res[r].node
    => ~Overlaps(res[q], res[r].start, res[r].end)

Handled(r) == \E s \in Sweepers : sweeper[s].cur = r

\* Compute-hour accounting is exact: apart from the reservation a pass is
\* writing at this moment, an ACTIVE one has one session, running; a COMPLETED
\* one has one session, closed; any other has none.
ExactAccounting ==
  \A r \in Rids : ~Handled(r) =>
    CASE res[r].status = "ACTIVE" -> Len(sess[r]) = 1 /\ sess[r][1].status = "RUNNING"
      [] res[r].status = "COMPLETED" -> Len(sess[r]) = 1 /\ sess[r][1].status = "COMPLETED"
      [] OTHER -> sess[r] = <<>>

-----------------------------------------------------------------------------
(* The lifecycle this module implements *)

\* A pass writes a reservation's status before its session; seen from outside,
\* both change when the session is written.
StatusBefore(r) ==
  IF \E s \in Sweepers : sweeper[s].cur = r /\ sweeper[s].phase = "activate"
    THEN "APPROVED" ELSE "ACTIVE"

SeenFromOutside ==
  [r \in Rids |-> IF Handled(r) THEN [res[r] EXCEPT !.status = StatusBefore(r)] ELSE res[r]]

Lifecycle == INSTANCE ReservationLifecycle WITH
  Times <- 0..MaxTime, now <- clock, booking <- SeenFromOutside, used <- sess

\* Run one at a time, the requests and passes of this module do exactly what
\* ReservationLifecycle promises, each as one step of it.
ImplementsLifecycle == Lifecycle!Spec
=============================================================================
