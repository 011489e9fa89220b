---------------------------- MODULE UtcCalendar ----------------------------
(***************************************************************************)
(* The periods that reports and schedules are about: modules/analytics/    *)
(* reportBuckets.ts and modules/faculty/week.ts, over the proleptic        *)
(* Gregorian calendar that JavaScript dates are computed in.               *)
(*                                                                         *)
(* An instant is a number of units since 1 January 1970, a day has Units   *)
(* of them; a period is half-open.                                         *)
(***************************************************************************)
EXTENDS Integers, Sequences

CONSTANT Units  \* units of time per day, one at least

-----------------------------------------------------------------------------
(* JavaScript dates *)

Leap(y) == y % 4 = 0 /\ (y % 100 # 0 \/ y % 400 = 0)
DayFromYear(y) == 365 * (y - 1970) + (y - 1969) \div 4 - (y - 1901) \div 100 + (y - 1601) \div 400
DaysBeforeMonth == <<0, 31, 59, 90, 120, 151, 181, 212, 243, 273, 304, 334>>

\* Date.UTC(y, m, d): months count from 0, whatever is out of range carries
\* over, and a year of two digits is one of the twentieth century.
UTC(y, m, d) ==
  LET year == (IF y \in 0 .. 99 THEN 1900 + y ELSE y) + m \div 12
      month == m % 12 IN
  Units * (DayFromYear(year) + DaysBeforeMonth[month + 1]
           + (IF month > 1 /\ Leap(year) THEN 1 ELSE 0) + d - 1)

Day(t) == t \div Units
\* Dividing by 366 and by 365 brackets the year.
YearOf(t) ==
  LET a == 1970 + Day(t) \div 365  b == 1970 + Day(t) \div 366 IN
  CHOOSE y \in (IF a < b THEN a ELSE b) - 1 .. (IF a < b THEN b ELSE a) :
    DayFromYear(y) <= Day(t) /\ Day(t) < DayFromYear(y + 1)
MonthOf(t) == CHOOSE m \in 0 .. 11 : UTC(YearOf(t), m, 1) <= t /\ t < UTC(YearOf(t), m + 1, 1)

\* 0 is Sunday.
WeekDay(t) == (Day(t) + 4) % 7
StartOfDay(t) == Units * Day(t)
PlusDays(t, n) == t + Units * n

-----------------------------------------------------------------------------
(* week.ts, reportBuckets.ts *)

StartOfWeekUTC(t) ==
  PlusDays(StartOfDay(t), IF WeekDay(t) = 0 THEN -6 ELSE 1 - WeekDay(t))
EndOfWeekUTC(start) == PlusDays(start, 7)

\* Bucket k of n is n - k periods before the last one.
DailyBuckets(anchor, n) ==
  [k \in 1 .. n |-> LET start == PlusDays(StartOfDay(anchor), k - n) IN
                    [start |-> start, end |-> PlusDays(start, 1)]]

WeeklyBuckets(anchor, n) ==
  [k \in 1 .. n |-> LET start == PlusDays(StartOfWeekUTC(anchor), 7 * (k - n)) IN
                    [start |-> start, end |-> EndOfWeekUTC(start)]]

MonthlyBuckets_OfTheAnchorsYear(anchor, n) ==  \* mutant
  [k \in 1 .. n |-> LET m == (MonthOf(anchor) + k - n) % 12 IN
                    [start |-> UTC(YearOf(anchor), m, 1), end |-> UTC(YearOf(anchor), m + 1, 1)]]
MonthlyBuckets(anchor, n) ==
  [k \in 1 .. n |-> LET start == UTC(YearOf(anchor), MonthOf(anchor) + k - n, 1) IN
                    [start |-> start, end |-> UTC(YearOf(start), MonthOf(start) + 1, 1)]]

Granularities == {"daily", "weekly", "monthly"}
Buckets(granularity, anchor, n) ==
  CASE granularity = "daily"   -> DailyBuckets(anchor, n)
    [] granularity = "weekly"  -> WeeklyBuckets(anchor, n)
    [] granularity = "monthly" -> MonthlyBuckets(anchor, n)

\* parseYearMonth: the start of a month as a client writes it, or none.
ValidMonth(x) == x.m \in 1 .. 12
ParseYearMonth(x) == UTC(x.y, x.m - 1, 1)
=============================================================================
