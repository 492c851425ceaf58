------------------------------ MODULE Calendar ------------------------------
(***************************************************************************)
(* The calendar of Temporal at work: each behaviour takes one day apart,   *)
(* or measures what lies between two local date-times, as date() and       *)
(* duration.between do for any statement; and what the answers owe.        *)
(***************************************************************************)
EXTENDS Temporal

CONSTANTS
    Days,           \* day numbers
    Moments         \* local date-times

ASSUME CalendarAssumption == Days \subseteq Int /\ Moments \subseteq [day : Int, clock : 0..(Ticks - 1)]

VARIABLE task

CalendarInit == task = [algo |-> "none"]

Date    == \E n \in Days : task' = [algo |-> "date", n |-> n]
Elapsed == \E a, b \in Moments : task' = [algo |-> "between", a |-> a, b |-> b]

CalendarNext == task.algo = "none" /\ (Date \/ Elapsed)

CalendarSpec == CalendarInit /\ [][CalendarNext]_task

-----------------------------------------------------------------------------

\* A date is rebuilt from its week, ordinal and quarter components, and truncation
\* goes back to the last day that starts a unit.
CalendarRoundTrips ==
    task.algo = "date" =>
        LET n == task.n
        IN  /\ DateReadsBack(n) /\ TruncatesBack(n)
            /\ TruncateDate(n, "weekyear") + (Week(n) - 1) * 7 + WeekDay(n) - 1 = n

\* What betweenLocal owes two date-times: its answer, added to the first as a
\* date-time or as a date, gives the second.
AddsUp(a, b) ==
    LET d == Between(a, b)
    IN  /\ Shift(a, d) = b
        /\ a.clock = b.clock => ShiftDate(a.day, d) = b.day

\* The months, days and ticks of the answer all point the same way, and neither the
\* days nor the ticks are as many as the next larger unit has.
OneWay(a, b) ==
    LET d == Between(a, b)
    IN  /\ \/ d.months >= 0 /\ d.days >= 0 /\ d.ticks >= 0
           \/ d.months <= 0 /\ d.days <= 0 /\ d.ticks <= 0
        /\ -31 < d.days /\ d.days < 31 /\ -Ticks < d.ticks /\ d.ticks < Ticks

\* duration.between(a, b) added to a gives b; its parts all point the same way, and
\* none is as large as the next larger unit.
BetweenAddsUp == [][task'.algo = "between" => AddsUp(task'.a, task'.b) /\ OneWay(task'.a, task'.b)]_task
=============================================================================
