----------------------------- MODULE Telemetry -----------------------------
(***************************************************************************)
(* Telemetry of apps/api: agents report readings of GPU nodes, users read  *)
(* the health of nodes, administrators override heartbeats and delete      *)
(* nodes.                                                                  *)
(*                                                                         *)
(* A report is three statements, each of which may be the last: the        *)
(* snapshot of the node is replaced, a metric row is added, and the node's *)
(* own lastHeartbeat is set.  A view reads the node first, and then its    *)
(* snapshot and its maintenance windows in either order.                   *)
(*                                                                         *)
(* Time is relative: what the code keeps as a timestamp is here its age,   *)
(* which Tick increases up to Old, where nothing tells ages apart any      *)
(* more; the age of a timestamp ahead of the clock is negative.            *)
(***************************************************************************)
EXTENDS Integers, FiniteSets

CONSTANTS
  Nodes,      \* GPU nodes
  Agents,     \* slots for reports in flight
  Views,      \* slots for health requests in flight
  Online,     \* TELEMETRY_ONLINE_THRESHOLD_SECONDS
  Degraded,   \* TELEMETRY_DEGRADED_THRESHOLD_SECONDS
  Skew,       \* how far ahead of the server an agent's clock may be
  InOrder,    \* TRUE: the reports of a node arrive one by one, in their order
  Failures,   \* TRUE: a report may end between two of its statements
  None        \* no timestamp, no node, not read yet

Old == Degraded + 1
Ages == -Skew .. Old

ASSUME ConstantsAssumption ==
  /\ Online \in Nat \ {0} /\ Degraded \in Nat /\ Online <= Degraded
  /\ Skew \in Nat
  /\ InOrder \in BOOLEAN /\ Failures \in BOOLEAN
  /\ None \notin Int /\ None \notin Nodes

VARIABLES
  present,    \* the nodes that exist; a deleted one never comes back
  beat,       \* gpu_nodes.lastHeartbeat
  snapshot,   \* gpu_health_snapshots.lastHeartbeat, or None when there is no row
  metrics,    \* gpu_metrics.recordedAt of every row of the node
  window,     \* the maintenance window of the node: when it begins and ends
  report,     \* each report in flight
  view,       \* each health request in flight
  overridden, \* history: age of a manual heartbeat no report has followed
  acked       \* history: age of the freshest acknowledged report

tables == <<present, beat, snapshot, metrics, window>>
vars == <<tables, report, view, overridden, acked>>

-----------------------------------------------------------------------------
(* Helpers *)

Newer(a, b) == IF a = None THEN b ELSE IF b = None THEN a ELSE IF a <= b THEN a ELSE b
Older(a) == IF a = None \/ a = Old THEN a ELSE a + 1

ConnectivityStatus(age) ==
  IF age = None THEN "OFFLINE"
  ELSE IF age < Online THEN "ONLINE"
  ELSE IF age <= Degraded THEN "DEGRADED" ELSE "OFFLINE"

\* No window, or one that is completed or cancelled; status IN_PROGRESS, or SCHEDULED and not outside its inclusive ends.  "opens"
\* and "closes" are ages as well: negative while the moment is still to come.
NoWindow == [status |-> "none", opens |-> 0, closes |-> 0]
Active(w, behind) == \/ w.status = "IN_PROGRESS"
                     \/ w.status = "SCHEDULED" /\ w.opens - behind >= 0 /\ w.closes - behind <= 0

IdleReport == [pc |-> "idle", node |-> None, age |-> 0]
IdleView == [pc |-> "idle", of |-> {}, behind |-> 0, own |-> [n \in Nodes |-> None],
             snap |-> None, maint |-> None, seen |-> [n \in Nodes |-> None], covered |-> {}]

Window == [status : {"none", "SCHEDULED", "IN_PROGRESS"}, opens : -1 .. 2, closes : -2 .. 1]

Init ==
  /\ present = Nodes
  /\ beat = [n \in Nodes |-> None]
  /\ snapshot = [n \in Nodes |-> None]
  /\ metrics = [n \in Nodes |-> {}]
  /\ window = [n \in Nodes |-> NoWindow]
  /\ report = [a \in Agents |-> IdleReport]
  /\ view = [v \in Views |-> IdleView]
  /\ overridden = [n \in Nodes |-> None]
  /\ acked = [n \in Nodes |-> None]

-----------------------------------------------------------------------------
(* POST /telemetry/heartbeat and /telemetry/metrics *)

EndReport(a) == report' = [report EXCEPT ![a] = IdleReport]
Goto(a, pc) == report' = [report EXCEPT ![a].pc = pc]

InTurn(n, age) ==
  /\ \A a \in Agents : report[a].node # n
  /\ \A b \in metrics[n] : age <= b

\* The token and the payload are good, and the hostname is known; a reading that
\* is refused changes nothing.
Report(a, n, age) ==
  /\ report[a] = IdleReport
  /\ n \in present
  /\ InOrder => InTurn(n, age)
  /\ report' = [report EXCEPT ![a] = [pc |-> "snapshot", node |-> n, age |-> age]]
  /\ UNCHANGED <<tables, view, overridden, acked>>

\* The foreign key of a node that has been deleted meanwhile: the statement
\* throws.
UpsertHealthSnapshot(a) ==
  LET n == report[a].node IN
  /\ report[a].pc = "snapshot"
  /\ n \in present
  /\ snapshot' = [snapshot EXCEPT ![n] = report[a].age]
  /\ overridden' = [overridden EXCEPT ![n] = None]
  /\ Goto(a, "metric")
  /\ UNCHANGED <<present, beat, metrics, window, view, acked>>

\* recordedAt is the time of the measurement, not of its arrival.
CreateMetric(a) ==
  LET n == report[a].node IN
  /\ report[a].pc = "metric"
  /\ n \in present
  /\ metrics' = [metrics EXCEPT ![n] = @ \cup {report[a].age}]
  /\ Goto(a, "node")
  /\ UNCHANGED <<present, beat, snapshot, window, view, overridden, acked>>

UpdateLastHeartbeat_Skipped(a) ==  \* mutant
  /\ report[a].pc = "node"
  /\ Goto(a, "reply")
  /\ UNCHANGED <<tables, view, overridden, acked>>
UpdateLastHeartbeat(a) ==
  LET n == report[a].node IN
  /\ report[a].pc = "node"
  /\ n \in present
  /\ beat' = [beat EXCEPT ![n] = report[a].age]
  /\ Goto(a, "reply")
  /\ UNCHANGED <<present, snapshot, metrics, window, view, overridden, acked>>

\* Publishing never fails a report; the agent has its answer.
Acknowledge(a) ==
  LET n == report[a].node IN
  /\ report[a].pc = "reply"
  /\ acked' = [acked EXCEPT ![n] = Newer(@, report[a].age)]
  /\ EndReport(a)
  /\ UNCHANGED <<tables, view, overridden>>

\* A statement throws, because of a deleted node or for any other reason.
Fail(a) ==
  /\ report[a].pc \in {"snapshot", "metric", "node"}
  /\ Failures \/ report[a].node \notin present
  /\ EndReport(a)
  /\ UNCHANGED <<tables, view, overridden, acked>>

-----------------------------------------------------------------------------
(* GET /gpu-nodes/:id/health (of = one node) and GET /gpu-nodes/live *)

\* The rows of the nodes are read, at the moment that is "now" for the request.
ReadNodes(v, of) ==
  /\ view[v] = IdleView
  /\ view' = [view EXCEPT ![v] =
       [IdleView EXCEPT !.pc = "reading", !.of = of, !.own = beat, !.seen = acked,
                        !.covered = {n \in of : Active(window[n], 0)}]]
  /\ UNCHANGED <<tables, report, overridden, acked>>

Behind(age, k) == IF age = None THEN None ELSE age - k

ReadSnapshots(v) ==
  /\ view[v].pc = "reading" /\ view[v].snap = None
  /\ view' = [view EXCEPT ![v].snap = [n \in Nodes |-> Behind(snapshot[n], view[v].behind)]]
  /\ UNCHANGED <<tables, report, overridden, acked>>

UnderMaintenance(n, behind) == Active(window[n], behind)

ReadMaintenance(v) ==
  /\ view[v].pc = "reading" /\ view[v].maint = None
  /\ view' = [view EXCEPT ![v].maint = {n \in Nodes : UnderMaintenance(n, view[v].behind)}]
  /\ UNCHANGED <<tables, report, overridden, acked>>

Answer(v) ==
  /\ view[v].pc = "reading" /\ view[v].snap # None /\ view[v].maint # None
  /\ view' = [view EXCEPT ![v].pc = "answered"]
  /\ UNCHANGED <<tables, report, overridden, acked>>

EndView(v) ==
  /\ view[v].pc = "answered"
  /\ view' = [view EXCEPT ![v] = IdleView]
  /\ UNCHANGED <<tables, report, overridden, acked>>

\* What an answer says of a node.
ShownHeartbeat_SnapshotOnly(v, n) == view[v].snap[n]  \* mutant
ShownHeartbeat(v, n) == IF view[v].snap[n] # None THEN view[v].snap[n] ELSE view[v].own[n]
Status(v, n) == IF n \in view[v].maint THEN "MAINTENANCE"
                                       ELSE ConnectivityStatus(ShownHeartbeat(v, n))

-----------------------------------------------------------------------------
(* Administration and the clock *)

\* PATCH /gpu-nodes/:id/heartbeat
UpdateGpuNodeHeartbeat(n) ==
  /\ n \in present
  /\ beat' = [beat EXCEPT ![n] = 0]
  /\ overridden' = [overridden EXCEPT ![n] = 0]
  /\ UNCHANGED <<present, snapshot, metrics, window, report, view, acked>>

\* DELETE /gpu-nodes/:id; the rows of the node go with it.
DeleteGpuNode(n) ==
  /\ n \in present
  /\ present' = present \ {n}
  /\ beat' = [beat EXCEPT ![n] = None]
  /\ snapshot' = [snapshot EXCEPT ![n] = None]
  /\ metrics' = [metrics EXCEPT ![n] = {}]
  /\ window' = [window EXCEPT ![n] = NoWindow]
  /\ view' = [v \in Views |-> [view[v] EXCEPT !.covered = @ \ {n}]]
  /\ UNCHANGED <<report, overridden, acked>>

\* No endpoint writes maintenance windows: they are kept in the database by hand.
SetWindow(n, w) ==
  /\ n \in present
  /\ window' = [window EXCEPT ![n] = w]
  /\ view' = [v \in Views |->
       IF Active(w, view[v].behind) THEN view[v] ELSE [view[v] EXCEPT !.covered = @ \ {n}]]
  /\ UNCHANGED <<present, beat, snapshot, metrics, report, overridden, acked>>

\* A request is answered before the clock moves twice.
Tick ==
  /\ \A v \in Views : view[v].pc # "answered" /\ view[v].behind = 0
  /\ beat' = [n \in Nodes |-> Older(beat[n])]
  /\ snapshot' = [n \in Nodes |-> Older(snapshot[n])]
  /\ metrics' = [n \in Nodes |-> {Older(a) : a \in metrics[n]}]
  /\ window' = [n \in Nodes |->
       IF window[n].status # "SCHEDULED" THEN window[n]
       ELSE IF window[n].closes = 1 THEN NoWindow
       ELSE [window[n] EXCEPT !.opens = @ + 1, !.closes = @ + 1]]
  /\ report' = [a \in Agents |-> IF report[a] = IdleReport THEN IdleReport
                                 ELSE [report[a] EXCEPT !.age = Older(@)]]
  /\ view' = [v \in Views |-> IF view[v].pc = "reading" THEN [view[v] EXCEPT !.behind = 1]
                                                        ELSE view[v]]
  /\ overridden' = [n \in Nodes |-> Older(overridden[n])]
  /\ acked' = [n \in Nodes |-> Older(acked[n])]
  /\ UNCHANGED present

-----------------------------------------------------------------------------
ReportStep(a) ==
  \/ UpsertHealthSnapshot(a) \/ CreateMetric(a) \/ UpdateLastHeartbeat(a)
  \/ Acknowledge(a) \/ Fail(a)

ViewStep(v) ==
  \/ ReadNodes(v, present) \/ \E n \in present : ReadNodes(v, {n})
  \/ ReadSnapshots(v) \/ ReadMaintenance(v) \/ Answer(v) \/ EndView(v)

\* The windows an administrator may enter, by the moments they span.
Windows == {[status |-> "SCHEDULED", opens |-> -1, closes |-> -2],
            [status |-> "IN_PROGRESS", opens |-> 0, closes |-> 0],
            NoWindow}

Next ==
  \/ \E a \in Agents : ReportStep(a) \/ \E n \in Nodes, age \in Ages : Report(a, n, age)
  \/ \E v \in Views : ViewStep(v)
  \/ \E n \in Nodes : \/ UpdateGpuNodeHeartbeat(n) \/ DeleteGpuNode(n)
                      \/ \E w \in Windows : SetWindow(n, w)
  \/ Tick

Spec == Init /\ [][Next]_vars

-----------------------------------------------------------------------------
(* Properties *)

Answered(v, n) == view[v].pc = "answered" /\ n \in view[v].of

\* What has been acknowledged is seen: an answer shows a heartbeat at least as
\* recent as every report of the node that was acknowledged before the request
\* began, although its reads are separate and the node may be deleted between
\* them.  (The reports of a node arrive in order.)
AcknowledgedIsSeen ==
  \A v \in Views, n \in Nodes :
    Answered(v, n) /\ view[v].seen[n] # None =>
      /\ ShownHeartbeat(v, n) # None
      /\ ShownHeartbeat(v, n) <= view[v].seen[n]

\* Planned maintenance is not an incident: a node that was under maintenance
\* for the whole of a request is never shown OFFLINE.
MaintenanceIsNotAnIncident ==
  \A v \in Views, n \in Nodes :
    Answered(v, n) /\ n \in view[v].covered => Status(v, n) # "OFFLINE"

Quiet(n) == n \in present /\ \A a \in Agents : report[a].node # n

\* The three statements agree: when no report of a node is in flight, the reading
\* of its snapshot is in the history as well.  (No statement fails half-way.)
SnapshotIsRecorded ==
  \A n \in Nodes : Quiet(n) /\ snapshot[n] # None => snapshot[n] \in metrics[n]

\* The node's own lastHeartbeat, which lists of nodes show, is that of its
\* snapshot, unless it was overridden by hand.  (Reports in order, no failures.)
NodeFollowsSnapshot ==
  \A n \in Nodes : Quiet(n) /\ overridden[n] = None => beat[n] = snapshot[n]
=============================================================================
