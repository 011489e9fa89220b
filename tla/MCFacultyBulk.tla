--------------------------- MODULE MCFacultyBulk ---------------------------
(* Small instances, for TLC, of what faculty members do and see: FacultyBulk *)
(* with two requests that may overlap ("overlapping") and with none that do, *)
(* when members of the other department take part ("serial");                *)
(* ReservationViews with the dashboard while reservations change             *)
(* ("dashboard"); and Calendar, whose weeks are those of the faculty's       *)
(* schedule ("periods").  The variables of a part that is not run keep one   *)
(* value.                                                                    *)
EXTENDS FacultyBulk, TLC

CONSTANTS
  cs, ee,
  Units, Nodes, DashRids, Times, Windows, LabOf, Department, Origin, PreviewLimit, \* as in ReservationViews
  FirstDay, LastDay, MaxCount, Months,                                            \* as in Calendar
  n1, n2, lab1, lab2, r3
VARIABLES
  part,
  now, booking, used, dash, steady,
  asked

views == <<now, booking, used, dash, steady>>

\* Two reservations of one department and one of the other.
MCDeptOf == [r \in Rids |-> IF r = r3 THEN ee ELSE cs]

Serial == INSTANCE FacultyBulk WITH Serialized <- TRUE

Dashboard == INSTANCE ReservationViews WITH Rids <- DashRids, Online <- Nodes
Periods == INSTANCE Calendar

\* Moments are whole numbers, there are finitely many nodes and reservations,
\* None is neither a node nor a moment, an answer or a window, and maintenance
\* windows have a MaintenanceStatus.
ASSUME DashboardAssumption ==
  /\ Units \in Nat \ {0} /\ PreviewLimit \in Nat /\ Origin \in Int /\ Times \subseteq Nat
  /\ IsFiniteSet(DashRids) /\ IsFiniteSet(Nodes)
  /\ None \notin Nodes /\ None \notin Int /\ \A S \in SUBSET DashRids : S # None
  /\ \A from, to \in Times : [from |-> from, to |-> to] # None
  /\ \A w \in Windows : w.status \in {"SCHEDULED", "IN_PROGRESS", "COMPLETED"}

\* A report has at most 90 buckets (dailyReportQuerySchema); the present is after
\* 1970, and nobody asks about a month that Date.UTC takes for another (a year of
\* two digits), or whose report goes back to one.
ASSUME CalendarAssumption ==
  /\ FirstDay \in Nat /\ LastDay \in Int /\ MaxCount \in 1 .. 90
  /\ \A x \in Months : x.y \in Nat /\ x.y >= 200 /\ x.m \in Int

\* Two nodes in a laboratory each, of which one is the department's; one
\* maintenance window that blocks and one that is over.
MCLabOf == n1 :> lab1 @@ n2 :> lab2
MCWindows == {[node |-> n2, start |-> 1, end |-> 2, status |-> "SCHEDULED"],
              [node |-> n1, start |-> 0, end |-> 3, status |-> "COMPLETED"]}
\* From the last moment of a day into the day after.
MCTimes == 0 .. 2
\* Months around leap days that are and are not, the turn of a year, and no months.
MCMonths ==
  {[y |-> ym[1], m |-> ym[2]] :
     ym \in {<<1900, 2>>, <<2000, 3>>, <<2024, 1>>, <<2024, 2>>, <<2024, 12>>, <<2025, 0>>, <<2025, 13>>}}

-----------------------------------------------------------------------------
InFlight == {b \in Batches : Running(b)} \cup {d \in Singles : single[d] # IdleSingle}
Within ==
  /\ Cardinality(InFlight) <= 2
  /\ part = "overlapping" => /\ \A b \in Batches : batch[b].dept # ee
                              /\ \A d \in Singles : single[d].rid # r3
  /\ part = "serial" => Cardinality({b \in Batches : batch[b] # IdleBatch}) <= 1
  \* No view tells a rejected reservation from a cancelled one.
  /\ part = "dashboard" => \A r \in DOMAIN booking : booking[r].status # "REJECTED"
  \* No property looks at the pending reservations: they are answered last.
  /\ part = "dashboard" /\ (\E q \in {"pending", "total"} : dash.got[q] # None)
       => \A q \in Dashboard!Queries \ {"pending", "total"} : dash.got[q] # None

NoBulk == Init /\ status = [r \in Rids |-> "NONE"]
NoDashboard == booking = <<>> /\ used = <<>> /\ dash = <<>> /\ steady = {}

PartsInit ==
  \/ part \in {"overlapping", "serial"} /\ Init /\ status[r3] = "PENDING" /\ now = 0 /\ NoDashboard /\ asked = <<>>
  \/ part = "dashboard" /\ Dashboard!Init /\ NoBulk /\ asked = <<>>
  \/ part = "periods" /\ Periods!Init /\ NoBulk /\ NoDashboard
PartsNext ==
  /\ \/ part = "overlapping" /\ Next /\ UNCHANGED <<views, asked>>
     \/ part = "serial" /\ Serial!Next /\ UNCHANGED <<views, asked>>
     \/ part = "dashboard" /\ Dashboard!Next /\ UNCHANGED <<vars, asked>>
     \/ part = "periods" /\ Periods!Next /\ UNCHANGED <<vars, booking, used, dash, steady>>
  /\ UNCHANGED part
  /\ Within'
PartsSpec == PartsInit /\ [][PartsNext]_<<vars, views, asked, part>> /\ Fairness

-----------------------------------------------------------------------------
\* One invalid id rolls back the whole batch: when requests do not overlap, each
\* reservation of a request that is committed was still waiting for a decision.
AppliedToPendingOnly == [][part = "serial" => AppliesToPendingOnly]_<<vars, views, asked, part>>

\* A dashboard hides no session that was live all the time it was put together.
DashboardIsWhole == part = "dashboard" => Dashboard!NoLiveSessionHidden /\ Dashboard!UtilizationIsAShare

\* The buckets of a report are whole periods of the calendar that follow each
\* other up to the instant, or the month, that was asked about.
PeriodsTile ==
  part = "periods" =>
    Periods!BucketsTile /\ Periods!BucketsAreWholePeriods /\ Periods!MonthParsedIsMonthAsked
=============================================================================
