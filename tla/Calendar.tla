------------------------------ MODULE Calendar ------------------------------
(***************************************************************************)
(* Reports asked for while time passes, or about a month of the client's   *)
(* choice.  The state is the present, which advances, and the report that  *)
(* was asked for last.                                                     *)
(***************************************************************************)
EXTENDS UtcCalendar

CONSTANTS
  FirstDay,   \* the instance runs from this day ...
  LastDay,    \* ... to this one, which is not before it
  MaxCount,   \* the most buckets of a report, one at least
  Months      \* months a client asks a report about, as written: [y, m]

-----------------------------------------------------------------------------
VARIABLES
  now,    \* the present
  asked   \* the last report: its query, where its buckets are anchored, and they

vars == <<now, asked>>

NoMonth == [y |-> 0, m |-> 0]
Report(granularity, n, month, anchor, buckets) ==
  [granularity |-> granularity, n |-> n, month |-> month, anchor |-> anchor, buckets |-> buckets]

Init ==
  /\ now = Units * FirstDay
  /\ asked = Report("daily", 1, NoMonth, now, DailyBuckets(now, 1))

Tick ==
  /\ now < Units * LastDay
  /\ now' = now + 1
  /\ UNCHANGED asked

\* getDailyReport, getWeeklyReport, getMonthlyReport about the present.
Ask(granularity, n) ==
  /\ asked' = Report(granularity, n, NoMonth, now, Buckets(granularity, now, n))
  /\ UNCHANGED now

\* getMonthlyReport with ?month=: a month there is not is answered 400.
AskMonth(month, n) ==
  /\ ValidMonth(month)
  /\ LET anchor == ParseYearMonth(month) IN
     asked' = Report("monthly", n, month, anchor, MonthlyBuckets(anchor, n))
  /\ UNCHANGED now

Next ==
  \/ Tick
  \/ \E n \in 1 .. MaxCount :
       \/ \E granularity \in Granularities : Ask(granularity, n)
       \/ \E month \in Months : AskMonth(month, n)

Spec == Init /\ [][Next]_vars

-----------------------------------------------------------------------------
(* Properties *)

\* The buckets of a report follow each other without gap or overlap and the
\* last one holds the instant the report is anchored at: what happened in the
\* range of the report is in exactly one of them, over the ends of months and
\* years and leap days.
BucketsTile ==
  LET b == asked.buckets IN
  /\ Len(b) = asked.n
  /\ \A k \in 1 .. Len(b) : b[k].start < b[k].end
  /\ \A k \in 1 .. Len(b) - 1 : b[k].end = b[k + 1].start
  /\ b[Len(b)].start <= asked.anchor /\ asked.anchor < b[Len(b)].end

\* Every bucket is a whole period of the calendar: a day, the days from a
\* Monday to the next, or the first of a month to the first of the next.
BucketsAreWholePeriods ==
  \A k \in 1 .. Len(asked.buckets) :
    LET s == asked.buckets[k].start  e == asked.buckets[k].end IN
    /\ s = StartOfDay(s)
    /\ CASE asked.granularity = "daily"  -> e = s + Units
         [] asked.granularity = "weekly" -> WeekDay(s) = 1 /\ e = s + 7 * Units
         [] asked.granularity = "monthly" ->
              /\ s = UTC(YearOf(s), MonthOf(s), 1)
              /\ MonthOf(e - 1) = MonthOf(s)
              /\ MonthOf(e) # MonthOf(s)

\* A report about a month ends with that month, as reportBuckets.ts says of
\* parseYearMonth: "into a UTC Date anchored to that month".
MonthParsedIsMonthAsked ==
  asked.month # NoMonth => YearOf(asked.anchor) = asked.month.y /\ MonthOf(asked.anchor) = asked.month.m - 1
=============================================================================
