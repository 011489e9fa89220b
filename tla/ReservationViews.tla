-------------------------- MODULE ReservationViews --------------------------
(***************************************************************************)
(* What clients are shown of the reservations while these change: the      *)
(* availability of nodes and the calendar of a laboratory, the faculty     *)
(* dashboard and weekly schedule, and paginated lists.                     *)
(*                                                                         *)
(* The reservations follow ReservationLifecycle.  The dashboard asks its   *)
(* questions of the database all at once (Promise.all), in no transaction: *)
(* each is answered when the database gets to it.  Every other view here   *)
(* is a function of the tables.                                            *)
(***************************************************************************)
EXTENDS UtcCalendar, SequencesExt

CONSTANTS
  Nodes,         \* the GPU nodes
  Rids,          \* reservation ids
  Times,         \* the moments a window may begin or end at
  Windows,       \* maintenance windows, [node, start, end, status]
  None,          \* no node, no moment, no answer
  LabOf,         \* the laboratory of each node
  Department,    \* the laboratories of the faculty member's department
  Online,        \* the nodes whose heartbeats are recent
  Origin,        \* the instant that is moment 0
  PreviewLimit   \* DASHBOARD_PREVIEW_LIMIT

VARIABLES
  now, booking, used,  \* as in ReservationLifecycle
  dash,                \* the dashboard request in flight
  steady               \* history: the sessions that were live all through it

vars == <<now, booking, used, dash, steady>>

Blocking == {w \in Windows : w.status \in {"SCHEDULED", "IN_PROGRESS"}}
Life == INSTANCE ReservationLifecycle WITH Maintenance <- Blocking

Queries == {"pending", "total", "today", "active", "upcoming"}
Unasked == [asked |-> None, got |-> [q \in Queries |-> None]]

Rows == {r \in Rids : booking[r].status # "NONE"}
Starts(r) == booking[r].start
Instant(t) == Origin + t

-----------------------------------------------------------------------------
(* Availability and the calendar *)

Overlapping_Within(w, from, to) == w.start >= from /\ w.end <= to  \* mutant
\* [w.start, w.end) and [from, to) share a moment.
Overlapping(w, from, to) == w.start < to /\ w.end > from

CheckConflicts(n, from, to) ==
  \/ \E r \in Rows : /\ booking[r].status \in {"PENDING", "APPROVED", "ACTIVE"}
                     /\ booking[r].node = n
                     /\ Overlapping(booking[r], from, to)
  \/ \E w \in Blocking : w.node = n /\ Overlapping(w, from, to)

Available_WithoutWindow(n) == n \in Online
Available_ForWindow(n, from, to) == n \in Online /\ ~CheckConflicts(n, from, to)

\* getGpuNodeAvailability asks for conflicts only when the query has a window,
\* [from, to]; one that has none is None.
Available(n, window) ==
  IF window = None THEN Available_WithoutWindow(n)
  ELSE Available_ForWindow(n, window.from, window.to)

\* What the calendar of n's laboratory shows: rows of every status.
CalendarRows(n, from, to) ==
  {r \in Rows : booking[r].node = n /\ Overlapping(booking[r], from, to)}
CalendarWindows(n, from, to) ==
  {w \in Windows : w.node = n /\ Overlapping(w, from, to)}

-----------------------------------------------------------------------------
(* The faculty dashboard and schedule *)

InDepartment(r) == LabOf[booking[r].node] \in Department
Listed(statuses) == {r \in Rows : booking[r].status \in statuses /\ InDepartment(r)}

\* Reservations are listed by startTime and cut off; ties fall as they may.
Preview(S) ==
  {P \in SUBSET S :
     /\ Cardinality(P) = (IF Cardinality(S) < PreviewLimit THEN Cardinality(S) ELSE PreviewLimit)
     /\ \A p \in P, s \in S \ P : Starts(p) <= Starts(s)}

InPeriod(r, from, to) ==
  Overlapping([start |-> Instant(booking[r].start), end |-> Instant(booking[r].end)], from, to)

Todays_FromTheHour(at) ==  \* mutant
  {r \in Listed({"APPROVED", "ACTIVE"}) :
     /\ Instant(Starts(r)) >= StartOfDay(Instant(at))
     /\ Instant(Starts(r)) < PlusDays(StartOfDay(Instant(at)), 1)}
Todays(at) ==
  {r \in Listed({"APPROVED", "ACTIVE"}) :
     InPeriod(r, StartOfDay(Instant(at)), PlusDays(StartOfDay(Instant(at)), 1))}

\* What the database may answer to q, asked at the moment `at`.
Answers(q, at) ==
  CASE q = "pending"  -> Preview(Listed({"PENDING"}))
    [] q = "total"    -> {Listed({"PENDING"})}
    [] q = "today"    -> {Todays(at)}
    [] q = "active"   -> {Listed({"ACTIVE"})}
    [] q = "upcoming" -> Preview({r \in Listed({"APPROVED"}) : Starts(r) >= at})

Live(r) == booking[r].status \in {"APPROVED", "ACTIVE"} /\ booking[r].end > now

Ask ==
  /\ dash = Unasked
  /\ dash' = [Unasked EXCEPT !.asked = now]
  /\ steady' = {r \in Rids : Live(r)}
  /\ UNCHANGED <<now, booking, used>>

Answer(q) ==
  /\ dash.asked # None
  /\ dash.got[q] = None
  /\ \E S \in Answers(q, dash.asked) : dash' = [dash EXCEPT !.got[q] = S]
  /\ UNCHANGED <<now, booking, used, steady>>

Shown == \A q \in Queries : dash.got[q] # None

Leave ==
  /\ Shown
  /\ dash' = Unasked
  /\ steady' = {}
  /\ UNCHANGED <<now, booking, used>>

ActiveNodes(S) == Cardinality({booking[r].node : r \in S})
TotalNodes == Cardinality({n \in Nodes : LabOf[n] \in Department})
\* Math.round, halves up.
UtilizationPercent(S) ==
  IF TotalNodes = 0 THEN 0
  ELSE (200 * ActiveNodes(S) + TotalNodes) \div (2 * TotalNodes)

\* getWeeklyLabSchedule: each laboratory's reservations in the week of a day.
WeeklySchedule(t) ==
  LET start == StartOfWeekUTC(t)
      rows == {r \in Rows : InDepartment(r) /\ InPeriod(r, start, EndOfWeekUTC(start))}
  IN  [lab \in {LabOf[booking[r].node] : r \in rows} |->
         {r \in rows : LabOf[booking[r].node] = lab}]

-----------------------------------------------------------------------------
(* Lists in pages: the pending queue and a user's own reservations *)

Skip(page, size) == (page - 1) * size
TotalPages(total, size) ==
  LET pages == (total + size - 1) \div size IN IF pages < 1 THEN 1 ELSE pages

\* Ordered by startTime; ties fall as they may.
Ascending(S) ==
  CHOOSE list \in SetToSeqs(S) : \A i, j \in DOMAIN list : i < j => Starts(list[i]) <= Starts(list[j])
Page(list, page, size) ==
  SubSeq(list, Skip(page, size) + 1, Min({Len(list), Skip(page, size) + size}))

PendingList == Ascending(Listed({"PENDING"}))
MyList == Reverse(Ascending(Rows))

-----------------------------------------------------------------------------
Init == Life!Init /\ dash = Unasked /\ steady = {}

\* The reservations change, whoever looks at them.
Change ==
  /\ Life!Next
  /\ steady' = {r \in steady : Live(r)'}
  /\ UNCHANGED dash

Next ==
  \/ Change
  \/ Ask
  \/ \E q \in Queries : Answer(q)
  \/ Leave

Spec == Init /\ [][Next]_vars

-----------------------------------------------------------------------------
(* Properties *)

\* A session that was approved or in use, and not over, all the time a
\* dashboard was put together is on it: among today's sessions or among the
\* upcoming ones, unless enough others begin no later to fill the preview.  It
\* holds although the answers are of different moments and a session turns
\* ACTIVE between them, as long as no midnight passes meanwhile.
NoLiveSessionHidden ==
  /\ Shown
  /\ StartOfDay(Instant(now)) = StartOfDay(Instant(dash.asked))
  => \A r \in steady :
       \/ ~InDepartment(r)
       \/ r \in dash.got["today"]
       \/ /\ Starts(r) >= dash.asked
          /\ \/ r \in dash.got["upcoming"]
             \/ /\ Cardinality(dash.got["upcoming"]) >= PreviewLimit
                /\ \A u \in dash.got["upcoming"] : Starts(u) <= Starts(r)

\* The utilization of a department's nodes is a percentage, although a session
\* that is over stays ACTIVE until the sweep gets to it and the next one on its
\* node may be ACTIVE by then.
UtilizationIsAShare ==
  Shown => UtilizationPercent(dash.got["active"]) \in 0 .. 100

\* The schedule of the week has each of today's sessions, under one laboratory;
\* on Sundays too, and for sessions that began the day or the week before.
TodayInWeek ==
  LET week == WeeklySchedule(Instant(now)) IN
  \A r \in Todays(now) : Cardinality({lab \in DOMAIN week : r \in week[lab]}) = 1

\* The availability of a node for a window, the calendar around that window and
\* the engine that books it agree: what is shown free is what can be booked.
ViewsAgree ==
  \A n \in Online, from, to \in Times :
    LET w == [node |-> n, start |-> from, end |-> to]
        claims == {r \in CalendarRows(n, from, to) :
                     booking[r].status \in {"PENDING", "APPROVED", "ACTIVE"}}
        closed == {m \in CalendarWindows(n, from, to) : m.status # "COMPLETED"}
    IN  from < to =>
          /\ Available(n, [from |-> from, to |-> to]) <=> Life!Free(w)
          /\ claims \cup closed = {} <=> Life!Free(w)

\* Whoever turns the pages of a list that nobody changes meets each of its rows
\* once, in order, and no page but the last is short.  (Rows with one startTime
\* have no order among themselves, so that pages may repeat and lose them.)
PagesCover ==
  \A list \in {PendingList, MyList}, size \in 1 .. Cardinality(Rids) :
    LET pages == [p \in 1 .. TotalPages(Len(list), size) |-> Page(list, p, size)] IN
    (\A i, j \in DOMAIN list : Starts(list[i]) = Starts(list[j]) => i = j)
    => /\ FlattenSeq(pages) = list
       /\ \A p \in 1 .. Len(pages) - 1 : Len(pages[p]) = size
=============================================================================
