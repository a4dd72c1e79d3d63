---------------------------- MODULE ReportPeriods ----------------------------
(***************************************************************************)
(* The periods of a driving report (app/utils/report_period.py): days of   *)
(* the calendar in Seoul, as instants in UTC.  A day is its number from    *)
(* the first of January of year 1 on, an instant the hours since then.     *)
(***************************************************************************)
EXTENDS Integers

CONSTANT Year  \* the years that occur

ASSUME YearAssumption == Year \subseteq Int

SeoulOffset == 9

-----------------------------------------------------------------------------
(* The calendar.                                                           *)

IsLeap(y) == y % 4 = 0 /\ (y % 100 # 0 \/ y % 400 = 0)

DaysBeforeYear(y) ==
    365 * (y - 1) + (y - 1) \div 4 - (y - 1) \div 100 + (y - 1) \div 400

DaysBeforeMonth(y) ==
    [m \in 1..13 |->
        <<0, 31, 59, 90, 120, 151, 181, 212, 243, 273, 304, 334, 365>>[m]
        + IF m > 2 /\ IsLeap(y) THEN 1 ELSE 0]

DaysIn(y, m) == DaysBeforeMonth(y)[m + 1] - DaysBeforeMonth(y)[m]

Day(y, m, d) == DaysBeforeYear(y) + DaysBeforeMonth(y)[m] + d

\* A day whose year occurs.
InCalendar(n) == \E y \in Year : DaysBeforeYear(y) < n /\ n <= DaysBeforeYear(y + 1)

YearOf(n) == CHOOSE y \in Year : DaysBeforeYear(y) < n /\ n <= DaysBeforeYear(y + 1)

MonthOf(n) ==
    LET y == YearOf(n)
        k == n - DaysBeforeYear(y)
    IN  CHOOSE m \in 1..12 : DaysBeforeMonth(y)[m] < k /\ k <= DaysBeforeMonth(y)[m + 1]

DayOfMonth(n) == n - Day(YearOf(n), MonthOf(n), 1) + 1

-----------------------------------------------------------------------------
(* Periods: [start, end], both days included.                              *)

IsPeriod(p) == p.start <= p.end

Length(p) == p.end - p.start + 1

\* _seoul_date_start_to_utc_naive
UtcStart(day) == 24 * day - SeoulOffset

\* The instants between utc_start and utc_end_exclusive.
Covers(p, at) == UtcStart(p.start) <= at /\ at < UtcStart(p.end + 1)

LastDayOfMonth(n) == Day(YearOf(n), MonthOf(n), DaysIn(YearOf(n), MonthOf(n)))

IsFullMonth(p) == DayOfMonth(p.start) = 1 /\ p.end = LastDayOfMonth(p.start)

\* previous_report_period: the month before a whole month, or as many days.
Previous(p) ==
    IF IsFullMonth(p)
    THEN [start |-> p.start - DayOfMonth(p.start - 1), end |-> p.start - 1]
    ELSE [start |-> p.start - Length(p), end |-> p.start - 1]

\* The same date a year later; the first of March for a 29th of February.
AddOneYear(n) ==
    LET y == YearOf(n) + 1
        m == MonthOf(n)
        d == DayOfMonth(n)
    IN  IF d <= DaysIn(y, m) THEN Day(y, m, d) ELSE Day(y, 3, 1)

\* Mutant: the same date of the next year is let in.
MutYearAndDay(p) == p.end > AddOneYear(p.start)

\* validate_summary_period_length
TooLong(p) == p.end >= AddOneYear(p.start)
=============================================================================
