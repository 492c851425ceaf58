------------------------------ MODULE Temporal ------------------------------
(***************************************************************************)
(* Calendar arithmetic (cypher/temporal): weeks, ordinals and quarters,    *)
(* truncation, adding durations, and duration.between.                     *)
(*                                                                         *)
(* A date is its day number (0 is 1970-01-01), a local date-time a day and *)
(* a clock of Ticks a day.  A duration keeps months, days and ticks apart, *)
(* as they have no fixed length in each other.                             *)
(***************************************************************************)
EXTENDS Integers, Sequences, FiniteSets

CONSTANT Ticks          \* clock units in a day (86400 * 10^9 in the code)
ASSUME TicksAssumption == Ticks \in Nat \ {0}

BadDate == -9999999     \* out of range: an error

Trunc(a, b) == IF a < 0 THEN -((-a) \div b) ELSE a \div b

\* daysIn
DaysIn(y, m) ==
    IF m \in {4, 6, 9, 11} THEN 30
    ELSE IF m # 2 THEN 31
    ELSE IF y % 4 = 0 /\ (y % 100 # 0 \/ y % 400 = 0) THEN 29 ELSE 28

-----------------------------------------------------------------------------
(* Package time: days from a civil date and back.                          *)

DayNumber(y, m, d) ==
    LET yy  == IF m <= 2 THEN y - 1 ELSE y
        era == yy \div 400
        yoe == yy - era * 400
        doy == (153 * (m + (IF m > 2 THEN -3 ELSE 9)) + 2) \div 5 + d - 1
    IN  era * 146097 + yoe * 365 + yoe \div 4 - yoe \div 100 + doy - 719468
\* Cycles of 400, 100, 4 and 1 years from 1 January of year 1; the last century of a
\* cycle and the last year of four are the ones that may be a day longer.
AtMost3(k) == k - k \div 4
YearOfCentury(d) == (d \div 1461) * 4 + AtMost3((d % 1461) \div 365)
YearOfCycle(d) ==
    LET c == AtMost3(d \div 36524) IN c * 100 + YearOfCentury(d - c * 36524)
YearOf(n) ==
    LET d == n + 719162 IN (d \div 146097) * 400 + YearOfCycle(d % 146097) + 1
MonthOf(n) ==
    LET y == YearOf(n)
    IN  CHOOSE m \in 1..12 : DayNumber(y, m, 1) <= n /\ n < DayNumber(y, m, 1) + DaysIn(y, m)
DayOf(n) == n - DayNumber(YearOf(n), MonthOf(n), 1) + 1
GoWeekday(n) == (n + 4) % 7                \* Sunday is 0
IsoThursday(n) == n + 3 - ((GoWeekday(n) + 6) % 7)

-----------------------------------------------------------------------------
(* Components of a date, and dates from them (calendar.go).                *)

WeekDay(n) == ((GoWeekday(n) + 6) % 7) + 1
Week(n) == (IsoThursday(n) - DayNumber(YearOf(IsoThursday(n)), 1, 1)) \div 7 + 1
WeekYear(n) == YearOf(IsoThursday(n))
Ordinal(n) == n - DayNumber(YearOf(n), 1, 1) + 1
Quarter(n) == (MonthOf(n) - 1) \div 3 + 1
DayOfQuarter(n) == n - DayNumber(YearOf(n), (Quarter(n) - 1) * 3 + 1, 1) + 1

\* Mutant: week 1 is the week of 1 January.
Week1OfJanuary1(y) == LET jan1 == DayNumber(y, 1, 1) IN jan1 - ((GoWeekday(jan1) + 6) % 7)

\* isoWeek1Monday: 4 January is always in week 1.
IsoWeek1Monday(y) == LET jan4 == DayNumber(y, 1, 4) IN jan4 - ((GoWeekday(jan4) + 6) % 7)

WeeksInYear(y) == Week(DayNumber(y, 12, 28))
DateFromWeek(y, w, dow) ==
    IF w \notin 1..WeeksInYear(y) \/ dow \notin 1..7 THEN BadDate
    ELSE IsoWeek1Monday(y) + (w - 1) * 7 + dow - 1
DateFromOrdinal(y, o) ==
    IF o \notin 1..(IF DaysIn(y, 2) = 29 THEN 366 ELSE 365) THEN BadDate ELSE DayNumber(y, 1, 1) + o - 1
DateFromQuarter(y, q, doq) ==
    LET first == DayNumber(y, (q - 1) * 3 + 1, 1)
        end   == IF q = 4 THEN DayNumber(y + 1, 1, 1) ELSE DayNumber(y, q * 3 + 1, 1)
    IN  IF q \notin 1..4 \/ doq \notin 1..(end - first) THEN BadDate ELSE first + doq - 1

\* A date is rebuilt from its week, ordinal and quarter components.
DateReadsBack(n) ==
    /\ DateFromWeek(WeekYear(n), Week(n), WeekDay(n)) = n
    /\ DateFromOrdinal(YearOf(n), Ordinal(n)) = n
    /\ DateFromQuarter(YearOf(n), Quarter(n), DayOfQuarter(n)) = n

\* truncateDate
Units == {"millennium", "century", "decade", "year", "weekyear", "quarter", "month", "week", "day"}
TruncateDate(n, unit) ==
    LET y == YearOf(n)
    IN  CASE unit = "millennium" -> DayNumber((y \div 1000) * 1000, 1, 1)
          [] unit = "century"    -> DayNumber((y \div 100) * 100, 1, 1)
          [] unit = "decade"     -> DayNumber((y \div 10) * 10, 1, 1)
          [] unit = "year"       -> DayNumber(y, 1, 1)
          [] unit = "weekyear"   -> IsoWeek1Monday(WeekYear(n))
          [] unit = "quarter"    -> DayNumber(y, (Quarter(n) - 1) * 3 + 1, 1)
          [] unit = "month"      -> DayNumber(y, MonthOf(n), 1)
          [] unit = "week"       -> n - (WeekDay(n) - 1)
          [] OTHER               -> n

\* Truncation goes back to the last day that starts a unit.
TruncatesBack(n) ==
    \A u \in Units : TruncateDate(n, u) \in {n, TruncateDate(n - 1, u)}

-----------------------------------------------------------------------------
(* Durations (duration.go, arith.go, between.go).                          *)

Duration(months, days, ticks) == [months |-> months, days |-> days, ticks |-> ticks]
Moment(day, clock) == [day |-> day, clock |-> clock]

\* addMonths: the day is clamped to the end of the month.
AddMonths(n, months) ==
    LET total == YearOf(n) * 12 + MonthOf(n) - 1 + months
        y == total \div 12
        m == total - y * 12 + 1
        d == IF DayOf(n) > DaysIn(y, m) THEN DaysIn(y, m) ELSE DayOf(n)
    IN  DayNumber(y, m, d)

\* shift: months, then days, then the clock, which carries into the day; a date
\* takes whole days of the clock part, towards zero.
ShiftDate(n, d) == AddMonths(n, d.months) + d.days + Trunc(d.ticks, Ticks)
Shift(t, d) ==
    LET ticks == t.clock + d.ticks
    IN  Moment(AddMonths(t.day, d.months) + d.days + ticks \div Ticks, ticks % Ticks)

\* Mutant: partial days count as whole ones.
EndAsIs(a, b) == b.day

\* adjustEnd: one day towards a while b's time of day has not reached a's.
AdjustEnd(a, b) ==
    IF b.day > a.day /\ b.clock < a.clock THEN b.day - 1
    ELSE IF b.day < a.day /\ b.clock > a.clock THEN b.day + 1 ELSE b.day

Packed(n) == (YearOf(n) * 12 + MonthOf(n) - 1) * 32 + DayOf(n)
WholeMonths(a, b) == Trunc(Packed(AdjustEnd(a, b)) - Packed(a.day), 32)
WholeDays(a, b) == AdjustEnd(a, b) - a.day

\* betweenLocal
Between(a, b) ==
    LET months == WholeMonths(a, b)
        mid    == Moment(AddMonths(a.day, months), a.clock)
        days   == WholeDays(mid, b)
    IN  Duration(months, days, (b.day - mid.day - days) * Ticks + b.clock - mid.clock)
=============================================================================
