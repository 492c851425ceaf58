--------------------------- MODULE TemporalProofs ---------------------------
(***************************************************************************)
(* Proofs about the calendar for every day, of any year: a date is rebuilt *)
(* from its year, month and day, from its ordinal, from its quarter and    *)
(* from its ISO week; truncation goes back to the start of a unit; and the *)
(* difference of two date-times adds up, each of its parts in the same     *)
(* direction and smaller than the next larger unit.                        *)
(***************************************************************************)
EXTENDS Calendar, TLAPS

Leap(y) == IF DaysIn(y, 2) = 29 THEN 1 ELSE 0

\* The days of the years 0 to y - 1, counted from 1 March.
YearDays(y) == 365 * y + y \div 4 - y \div 100 + y \div 400

Jan1(y) == DayNumber(y, 1, 1)

-----------------------------------------------------------------------------
(* Years.                                                                  *)

\* What DayNumber counts of a year and all before it.
EraDays(y) ==
    LET era == y \div 400
        yoe == y - era * 400
    IN  era * 146097 + yoe * 365 + yoe \div 4 - yoe \div 100

\* Counting by cycles of 400 years is counting leap days.
LEMMA CyclesCount == ASSUME NEW y \in Int PROVE EraDays(y) = YearDays(y) /\ YearDays(y) \in Int
<1>1. PICK era \in Int : era = y \div 400
  BY SMT
<1>2. PICK yoe \in Int : yoe = y - era * 400
  BY SMT
<1>3. yoe \in 0..399
  BY <1>1, <1>2, SMT
<1>4. y \div 4 = 100 * era + yoe \div 4
  BY <1>2, <1>3, SMT
<1>5. y \div 100 = 4 * era + yoe \div 100
  BY <1>2, <1>3, SMT
<1>6. EraDays(y) = era * 146097 + yoe * 365 + yoe \div 4 - yoe \div 100
  BY <1>1, <1>2, SMT DEF EraDays
<1> QED
  BY <1>1, <1>2, <1>3, <1>4, <1>5, <1>6, SMT DEF YearDays

\* A leap year is the year with a day more.
LEMMA YearLength ==
    ASSUME NEW y \in Int
    PROVE  /\ YearDays(y) \in Int /\ Leap(y) \in {0, 1}
           /\ YearDays(y) = YearDays(y - 1) + 365 + Leap(y)
<1>1. y \div 4 = (y - 1) \div 4 + (IF y % 4 = 0 THEN 1 ELSE 0)
  BY SMT
<1>2. y \div 100 = (y - 1) \div 100 + (IF y % 100 = 0 THEN 1 ELSE 0)
  BY SMT
<1>3. y \div 400 = (y - 1) \div 400 + (IF y % 400 = 0 THEN 1 ELSE 0)
  BY SMT
<1>4. (y % 400 = 0 => y % 100 = 0) /\ (y % 100 = 0 => y % 4 = 0)
  BY SMT
<1>5. Leap(y) = IF y % 4 = 0 /\ (y % 100 # 0 \/ y % 400 = 0) THEN 1 ELSE 0
  BY SMT DEF Leap, DaysIn
<1> QED
  BY <1>1, <1>2, <1>3, <1>4, <1>5, SMT DEF YearDays

\* The day number of a date, by the years and months before it.
Counted(y, m, d) ==
    IF m <= 2 THEN YearDays(y - 1) - 719162 + 31 * (m - 1) + d - 1
    ELSE YearDays(y) - 719468 + (153 * (m - 3) + 2) \div 5 + d - 1

\* January and February belong to the year that began the March before.
LEMMA DayCounted ==
    ASSUME NEW y \in Int, NEW m \in 1..12, NEW d \in Int
    PROVE  DayNumber(y, m, d) = Counted(y, m, d)
<1>1. CASE m <= 2
  <2>1. DayNumber(y, m, d) = EraDays(y - 1) + ((153 * (m + 9) + 2) \div 5 + d - 1) - 719468
    BY <1>1, SMT DEF DayNumber, EraDays
  <2>2. PICK total \in Int : total = EraDays(y - 1) /\ total = YearDays(y - 1)
    BY CyclesCount, SMT
  <2>3. (153 * (m + 9) + 2) \div 5 = 306 + 31 * (m - 1)
    BY <1>1, SMT
  <2> QED
    BY <1>1, <2>1, <2>2, <2>3, SMT DEF Counted
<1>2. CASE m > 2
  <2>1. DayNumber(y, m, d) = EraDays(y) + ((153 * (m - 3) + 2) \div 5 + d - 1) - 719468
    BY <1>2, SMT DEF DayNumber, EraDays
  <2>2. PICK total \in Int : total = EraDays(y) /\ total = YearDays(y)
    BY CyclesCount, SMT
  <2> QED
    BY <1>2, <2>1, <2>2, SMT DEF Counted
<1> QED
  BY <1>1, <1>2, SMT

\* From one 1 January to the next.
LEMMA NewYear ==
    ASSUME NEW y \in Int
    PROVE  /\ Jan1(y) \in Int /\ Leap(y) \in {0, 1}
           /\ Jan1(y) = YearDays(y - 1) - 719162
           /\ Jan1(y + 1) = Jan1(y) + 365 + Leap(y)
<1>1. Jan1(y) = YearDays(y - 1) - 719162
  <2>1. Jan1(y) = Counted(y, 1, 1)
    BY DayCounted, SMT DEF Jan1
  <2>2. YearDays(y - 1) \in Int
    BY CyclesCount, SMT
  <2> QED
    BY <2>1, <2>2, SMT DEF Counted
<1>2. PICK z \in Int : z = y + 1
  BY SMT
<1>3. Jan1(z) = YearDays(z - 1) - 719162 /\ z - 1 = y
  <2>1. Jan1(z) = Counted(z, 1, 1)
    BY DayCounted, SMT DEF Jan1
  <2>2. YearDays(z - 1) \in Int
    BY CyclesCount, SMT
  <2> QED
    BY <1>2, <2>1, <2>2, SMT DEF Counted
<1>4. y - 1 \in Int /\ YearDays(y - 1) \in Int
  BY CyclesCount, SMT
<1> QED
  BY <1>1, <1>2, <1>3, <1>4, YearLength, SMT

\* Where a year begins, where it ends, and whether it has a day more.
LEMMA YearSpan ==
    ASSUME NEW y \in Int
    PROVE  \E j \in Int, l \in {0, 1} : j = Jan1(y) /\ l = Leap(y) /\ Jan1(y + 1) = j + 365 + l
<1>1. Jan1(y) \in Int /\ Leap(y) \in {0, 1}
  BY NewYear, SMT
<1>2. Jan1(y + 1) = Jan1(y) + 365 + Leap(y)
  BY NewYear, SMT
<1> QED
  BY <1>1, <1>2, SMT

\* Later years begin later.
LEMMA YearsAscend ==
    ASSUME NEW y \in Int, NEW z \in Int, y <= z
    PROVE  Jan1(y) <= Jan1(z)
<1> DEFINE a == y - 1
           b == z - 1
<1>2. a \in Int /\ b \in Int /\ a <= b
  BY SMT
<1>3. Jan1(y) = YearDays(a) - 719162 /\ Jan1(z) = YearDays(b) - 719162
  BY NewYear, SMT
<1> HIDE DEF a, b
<1>4. a \div 4 <= b \div 4
  BY <1>2, SMT
<1>5. 365 * a - a \div 100 <= 365 * b - b \div 100
  BY <1>2, SMT
<1>6. a \div 400 <= b \div 400
  BY <1>2, SMT
<1> QED
  BY <1>2, <1>3, <1>4, <1>5, <1>6, SMT DEF YearDays

\* The year found for a day is the one the day is in ...
THEOREM YearIsFound ==
    ASSUME NEW n \in Int
    PROVE  YearOf(n) \in Int /\ Jan1(YearOf(n)) <= n /\ n < Jan1(YearOf(n) + 1)
<1>1. PICK d400 \in Int, n400 \in Int, d100 \in Int :
          d400 = n + 719162 /\ n400 = d400 \div 146097 /\ d100 = d400 % 146097
  BY SMT
<1>2. 0 <= d100 /\ d100 <= 146096
  BY <1>1, SMT
<1>3. d400 = 146097 * n400 + d100
  BY <1>1, SMT
<1>4. PICK q100 \in Int : q100 = d100 \div 36524
  BY SMT
<1>5. 36524 * q100 <= d100
  BY <1>4, SMT
<1>6. d100 <= 36524 * q100 + 36523
  BY <1>4, SMT
<1>7. q100 \in 0..4
  BY <1>2, <1>5, <1>6, SMT
<1>8. PICK n100 \in Int, d4 \in Int : n100 = q100 - q100 \div 4 /\ d4 = d100 - n100 * 36524
  BY SMT
<1>9. n100 \in 0..3 /\ n100 = IF q100 = 4 THEN 3 ELSE q100
  BY <1>7, <1>8, SMT
<1>10. 0 <= d4 /\ d4 <= 36524
  BY <1>2, <1>5, <1>6, <1>8, <1>9, SMT
<1>11. d4 = 36524 => n100 = 3
  BY <1>5, <1>6, <1>8, <1>9, SMT
<1>12. PICK n4 \in Int, d1 \in Int : n4 = d4 \div 1461 /\ d1 = d4 % 1461
  BY SMT
<1>13. d1 \in 0..1460
  BY <1>12, SMT
<1>14. d4 = 1461 * n4 + d1
  BY <1>12, SMT
<1>15. n4 \in 0..24
  BY <1>10, <1>13, <1>14, SMT
<1>16. PICK q1 \in Int : q1 = d1 \div 365
  BY SMT
<1>17. q1 \in 0..4 /\ 365 * q1 <= d1 /\ d1 <= 365 * q1 + 364
  BY <1>13, <1>16, SMT
<1>18. PICK n1 \in Int, rest \in Int : n1 = q1 - q1 \div 4 /\ rest = d1 - n1 * 365
  BY SMT
<1>19. n1 \in 0..3 /\ n1 = IF q1 = 4 THEN 3 ELSE q1
  BY <1>17, <1>18, SMT
<1>20. rest \in 0..365
  BY <1>13, <1>17, <1>18, <1>19, SMT
<1>21. rest = 365 => n1 = 3 /\ d1 = 1460
  BY <1>13, <1>17, <1>18, <1>19, SMT
<1>22. PICK x \in Int : x = n400 * 400 + n100 * 100 + n4 * 4 + n1
  BY SMT
<1>23. YearOf(n) = n400 * 400 + n100 * 100 + n4 * 4 + n1 + 1
  <2>1. YearOfCentury(d4) = n4 * 4 + n1
    BY <1>12, <1>16, <1>18, SMT DEF YearOfCentury, AtMost3
  <2>2. AtMost3(d100 \div 36524) = n100
    BY <1>4, <1>8, SMT DEF AtMost3
  <2>3. YearOfCycle(d100) = n100 * 100 + YearOfCentury(d4)
    <3>1. d100 - AtMost3(d100 \div 36524) * 36524 = d4
      BY <1>8, <2>2, SMT
    <3>2. YearOfCycle(d100) = AtMost3(d100 \div 36524) * 100
                            + YearOfCentury(d100 - AtMost3(d100 \div 36524) * 36524)
      BY SMT DEF YearOfCycle
    <3> QED
      BY <2>2, <3>1, <3>2, SMT
  <2>4. YearOf(n) = n400 * 400 + YearOfCycle(d100) + 1
    BY <1>1, SMT DEF YearOf
  <2> QED
    BY <2>1, <2>3, <2>4, SMT
<1>24. x \div 4 = 100 * n400 + 25 * n100 + n4
  BY <1>9, <1>15, <1>19, <1>22, SMT
<1>25. x \div 100 = 4 * n400 + n100
  BY <1>9, <1>15, <1>19, <1>22, SMT
<1>26. x \div 400 = n400
  BY <1>9, <1>15, <1>19, <1>22, SMT
<1>27. YearDays(x) = 146097 * n400 + 36524 * n100 + 1461 * n4 + 365 * n1
  BY <1>22, <1>24, <1>25, <1>26, SMT DEF YearDays
<1>28. rest = 365 => Leap(x + 1) = 1
  <2> SUFFICES ASSUME rest = 365 PROVE Leap(x + 1) = 1
    BY SMT
  <2>1. n1 = 3
    BY <1>21, SMT
  <2>2. n4 = 24 => n100 = 3
    BY <1>11, <1>14, <1>21, SMT
  <2>3. PICK y \in Int : y = x + 1
    BY SMT
  <2>4. y = 400 * n400 + 100 * n100 + 4 * (n4 + 1)
    BY <1>22, <2>1, <2>3, SMT
  <2>5. y % 4 = 0
    BY <2>4, SMT
  <2>6. y % 100 = 0 => n4 = 24
    BY <1>9, <1>15, <2>4, SMT
  <2>7. n4 = 24 /\ n100 = 3 => y % 400 = 0
    BY <2>4, SMT
  <2> QED
    BY <2>2, <2>3, <2>5, <2>6, <2>7, SMT DEF Leap, DaysIn
<1>29. PICK y \in Int : y = x + 1 /\ y - 1 = x
  BY SMT
<1>30. /\ Jan1(y) \in Int /\ Leap(y) \in {0, 1}
       /\ Jan1(y) = YearDays(x) - 719162
       /\ Jan1(y + 1) = Jan1(y) + 365 + Leap(y)
  BY <1>29, NewYear, SMT
<1>31. n = Jan1(y) + rest
  BY <1>1, <1>3, <1>8, <1>14, <1>18, <1>27, <1>30, SMT
<1> QED
  BY <1>20, <1>22, <1>23, <1>28, <1>29, <1>30, <1>31, SMT

\* ... and there is no other.
THEOREM YearIsUnique ==
    ASSUME NEW n \in Int, NEW y \in Int, Jan1(y) <= n, n < Jan1(y + 1)
    PROVE  YearOf(n) = y
<1>1. YearOf(n) \in Int /\ Jan1(YearOf(n)) <= n /\ n < Jan1(YearOf(n) + 1)
  BY YearIsFound, SMT
<1> DEFINE z == YearOf(n)
<1> HIDE DEF z
<1>2. z \in Int /\ Jan1(z) <= n /\ n < Jan1(z + 1) /\ z + 1 \in Int /\ y + 1 \in Int
  BY <1>1, SMT DEF z
<1>3. /\ Jan1(y) \in Int /\ Jan1(z) \in Int /\ Jan1(y + 1) \in Int /\ Jan1(z + 1) \in Int
  BY <1>2, NewYear, SMT
<1>4. ~(z < y)
  <2> SUFFICES ASSUME z < y PROVE FALSE
    BY SMT
  <2>1. Jan1(z + 1) <= Jan1(y)
    BY <1>2, YearsAscend, SMT
  <2> QED
    BY <1>2, <1>3, <2>1, SMT
<1>5. ~(y < z)
  <2> SUFFICES ASSUME y < z PROVE FALSE
    BY SMT
  <2>1. Jan1(y + 1) <= Jan1(z)
    BY <1>2, YearsAscend, SMT
  <2> QED
    BY <1>2, <1>3, <2>1, SMT
<1> QED
  BY <1>2, <1>4, <1>5, SMT DEF z

-----------------------------------------------------------------------------
(* Months.                                                                 *)

\* The days of a year before its month m, 29 February apart.
Before(m) == IF m <= 2 THEN 31 * (m - 1) ELSE 59 + (153 * (m - 3) + 2) \div 5

\* Where each month begins, and that it ends where the next begins.
LEMMA MonthStart ==
    ASSUME NEW y \in Int, NEW m \in 1..12, NEW d \in Int
    PROVE  DayNumber(y, m, d) = Jan1(y) + Before(m) + (IF m <= 2 THEN 0 ELSE Leap(y)) + d - 1
<1>1. DayNumber(y, m, d) = Counted(y, m, d)
  BY DayCounted, SMT
<1>2. Jan1(y) = YearDays(y - 1) - 719162 /\ Leap(y) \in {0, 1}
  BY NewYear, SMT
<1>3. YearDays(y) = YearDays(y - 1) + 365 + Leap(y) /\ YearDays(y) \in Int
  BY YearLength, SMT
<1>4. YearDays(y - 1) \in Int
  BY CyclesCount, SMT
<1>5. CASE m <= 2
  BY <1>1, <1>2, <1>4, <1>5, SMT DEF Counted, Before
<1>6. CASE m > 2
  BY <1>1, <1>2, <1>3, <1>4, <1>6, SMT DEF Counted, Before
<1> QED
  BY <1>5, <1>6, SMT

\* The months of a year, one after the other.
LEMMA MonthTable ==
    /\ Before(1) = 0 /\ Before(2) = 31 /\ Before(3) = 59 /\ Before(4) = 90
    /\ Before(5) = 120 /\ Before(6) = 151 /\ Before(7) = 181 /\ Before(8) = 212
    /\ Before(9) = 243 /\ Before(10) = 273 /\ Before(11) = 304 /\ Before(12) = 334
BY SMT DEF Before

\* The length of each month.
LEMMA MonthLength ==
    ASSUME NEW y \in Int, NEW m \in 1..12
    PROVE  /\ DaysIn(y, m) \in 28..31
           /\ DaysIn(y, m) = IF m = 2 THEN 28 + Leap(y)
                             ELSE IF m = 12 THEN 31 ELSE Before(m + 1) - Before(m)
<1>1. m = 2 \/ m = 12 \/ m \in {4, 6, 9, 11} \/ m \in {1, 3, 5, 7, 8, 10}
  BY SMT
<1>2. CASE m = 2
  BY <1>2, SMT DEF DaysIn, Leap
<1>3. CASE m = 12
  BY <1>3, SMT DEF DaysIn
<1>4. CASE m \in {4, 6, 9, 11}
  BY <1>4, MonthTable, SMT DEF DaysIn
<1>5. CASE m \in {1, 3, 5, 7, 8, 10}
  BY <1>5, MonthTable, SMT DEF DaysIn
<1> QED
  BY <1>1, <1>2, <1>3, <1>4, <1>5, SMT

\* The days of month m of year y.
InMonth(n, y, m) == DayNumber(y, m, 1) <= n /\ n < DayNumber(y, m, 1) + DaysIn(y, m)

\* Every day of a year is in one of its months.
LEMMA SomeMonth ==
    ASSUME NEW n \in Int, NEW y \in Int, Jan1(y) <= n, n < Jan1(y + 1)
    PROVE  \E m \in 1..12 : InMonth(n, y, m)
<1>1. PICK j \in Int, l \in {0, 1} : j = Jan1(y) /\ l = Leap(y) /\ Jan1(y + 1) = j + 365 + l
  BY YearSpan, SMT
<1>2. j <= n /\ n < j + 365 + l
  BY <1>1, SMT
<1>3. \A m \in 1..12 : DayNumber(y, m, 1) = j + Before(m) + (IF m <= 2 THEN 0 ELSE l)
  <2> TAKE m \in 1..12
  <2>1. DayNumber(y, m, 1) = Jan1(y) + Before(m) + (IF m <= 2 THEN 0 ELSE Leap(y)) + 1 - 1
    BY MonthStart, SMT
  <2>2. Before(m) \in Int
    BY SMT DEF Before
  <2> QED
    BY <1>1, <2>1, <2>2, SMT
<1>4. \A m \in {1, 3, 4, 5, 6, 7, 8, 9, 10, 11} : DaysIn(y, m) = Before(m + 1) - Before(m)
  BY MonthLength, SMT
<1>5. DaysIn(y, 2) = 28 + l /\ DaysIn(y, 12) = 31
  BY <1>1, MonthLength, SMT
<1>6. ASSUME NEW m \in {3, 4, 5, 6, 7, 8, 9, 10, 11},
             j + Before(m) + l <= n, n < j + Before(m + 1) + l
      PROVE  InMonth(n, y, m)
  <2>1. DayNumber(y, m, 1) = j + Before(m) + l
    BY <1>3, SMT
  <2>2. DaysIn(y, m) = Before(m + 1) - Before(m)
    BY <1>4, SMT
  <2>3. Before(m) \in Int /\ Before(m + 1) \in Int
    BY SMT DEF Before
  <2> QED
    BY <1>6, <2>1, <2>2, <2>3, SMT DEF InMonth
<1>7. n < j + 31 => InMonth(n, y, 1)
  BY <1>2, <1>3, <1>4, MonthTable, SMT DEF InMonth
<1>8. j + 31 <= n /\ n < j + 59 + l => InMonth(n, y, 2)
  BY <1>2, <1>3, <1>5, MonthTable, SMT DEF InMonth
<1>9. j + 334 + l <= n => InMonth(n, y, 12)
  BY <1>2, <1>3, <1>5, MonthTable, SMT DEF InMonth
<1>10. j + 59 + l <= n /\ n < j + 334 + l =>
          \E m \in {3, 4, 5, 6, 7, 8, 9, 10, 11} :
              j + Before(m) + l <= n /\ n < j + Before(m + 1) + l
  BY MonthTable, SMT
<1> QED
  BY <1>2, <1>6, <1>7, <1>8, <1>9, <1>10, SMT

\* The month found for a day is one the day is in.
LEMMA MonthChosen ==
    ASSUME NEW n \in Int
    PROVE  MonthOf(n) \in 1..12 /\ InMonth(n, YearOf(n), MonthOf(n))
<1> DEFINE y == YearOf(n)
           m == MonthOf(n)
<1>1. y \in Int /\ Jan1(y) <= n /\ n < Jan1(y + 1)
  BY YearIsFound, SMT
<1>2. \E k \in 1..12 : InMonth(n, y, k)
  BY <1>1, SomeMonth, SMT
<1>3. m = CHOOSE k \in 1..12 : InMonth(n, y, k)
  BY SMT DEF MonthOf, InMonth
<1> HIDE DEF y, m
<1>4. m \in 1..12 /\ InMonth(n, y, m)
  BY <1>2, <1>3, SMT
<1> QED
  BY <1>4, SMT DEF y, m

\* The month and the day found for a date give the date back.
THEOREM MonthIsFound ==
    ASSUME NEW n \in Int
    PROVE  /\ MonthOf(n) \in 1..12 /\ DayOf(n) \in 1..DaysIn(YearOf(n), MonthOf(n))
           /\ DayNumber(YearOf(n), MonthOf(n), DayOf(n)) = n
<1> DEFINE y == YearOf(n)
           m == MonthOf(n)
<1>1. y \in Int
  BY YearIsFound, SMT
<1>2. m \in 1..12 /\ InMonth(n, y, m)
  BY MonthChosen, SMT
<1> HIDE DEF y, m
<1>3. DayOf(n) = n - DayNumber(y, m, 1) + 1
  BY SMT DEF DayOf, y, m
<1>4. PICK s \in Int : s = DayNumber(y, m, 1) /\ \A d \in Int : DayNumber(y, m, d) = s + d - 1
  <2>1. Jan1(y) \in Int /\ Leap(y) \in {0, 1}
    BY <1>1, NewYear, SMT
  <2>2. \A d \in Int : DayNumber(y, m, d) =
            Jan1(y) + Before(m) + (IF m <= 2 THEN 0 ELSE Leap(y)) + d - 1
    BY <1>1, <1>2, MonthStart, SMT
  <2>3. Before(m) \in Int
    BY <1>2, SMT DEF Before
  <2>4. PICK b \in Int : b = Jan1(y) + Before(m) + (IF m <= 2 THEN 0 ELSE Leap(y))
    BY <2>1, <2>3, SMT
  <2> QED
    BY <2>2, <2>4, SMT
<1>5. DaysIn(y, m) \in 28..31
  BY <1>1, <1>2, MonthLength, SMT
<1> QED
  BY <1>2, <1>3, <1>4, <1>5, SMT DEF InMonth, y, m

-----------------------------------------------------------------------------
(* Ordinals and quarters.                                                  *)

\* The ordinal of a day is one its year has.
LEMMA OrdinalReadsBack ==
    ASSUME NEW n \in Int
    PROVE  DateFromOrdinal(YearOf(n), Ordinal(n)) = n
<1> DEFINE y == YearOf(n)
<1>1. y \in Int /\ Jan1(y) <= n /\ n < Jan1(y + 1)
  BY YearIsFound, SMT
<1>2. Ordinal(n) = n - Jan1(y) + 1
  BY SMT DEF Ordinal, Jan1
<1>3. DateFromOrdinal(y, Ordinal(n)) =
          IF Ordinal(n) \notin 1..(IF DaysIn(y, 2) = 29 THEN 366 ELSE 365) THEN BadDate
          ELSE Jan1(y) + Ordinal(n) - 1
  BY SMT DEF DateFromOrdinal, Jan1
<1> HIDE DEF y
<1>4. /\ Jan1(y) \in Int /\ Jan1(y + 1) = Jan1(y) + 365 + Leap(y)
      /\ (IF DaysIn(y, 2) = 29 THEN 366 ELSE 365) = 365 + Leap(y)
      /\ Leap(y) \in {0, 1}
  <2>1. /\ Jan1(y) \in Int /\ Jan1(y + 1) = Jan1(y) + 365 + Leap(y) /\ Leap(y) \in {0, 1}
    BY <1>1, NewYear, SMT
  <2>2. (IF DaysIn(y, 2) = 29 THEN 366 ELSE 365) = 365 + Leap(y)
    BY SMT DEF Leap
  <2> QED
    BY <2>1, <2>2, SMT
<1>5. Ordinal(n) \in 1..(365 + Leap(y))
  BY <1>1, <1>2, <1>4, SMT
<1> QED
  BY <1>2, <1>3, <1>4, <1>5, SMT DEF y

\* A day lies in the quarter of its month, between the first days of two quarters.
LEMMA QuarterReadsBack ==
    ASSUME NEW n \in Int
    PROVE  DateFromQuarter(YearOf(n), Quarter(n), DayOfQuarter(n)) = n
<1> DEFINE y == YearOf(n)
           m == MonthOf(n)
           q == Quarter(n)
           first == DayNumber(y, (q - 1) * 3 + 1, 1)
           end == IF q = 4 THEN DayNumber(y + 1, 1, 1) ELSE DayNumber(y, q * 3 + 1, 1)
<1>1. y \in Int /\ Jan1(y) <= n /\ n < Jan1(y + 1)
  BY YearIsFound, SMT
<1>2. m \in 1..12 /\ InMonth(n, y, m)
  BY MonthChosen, SMT
<1>3. q = (m - 1) \div 3 + 1
  BY SMT DEF Quarter
<1>4. DateFromQuarter(y, q, DayOfQuarter(n)) =
          IF q \notin 1..4 \/ DayOfQuarter(n) \notin 1..(end - first) THEN BadDate
          ELSE first + DayOfQuarter(n) - 1
  BY SMT DEF DateFromQuarter
<1>5. DayOfQuarter(n) = n - first + 1
  BY SMT DEF DayOfQuarter
<1> HIDE DEF y, m, q
<1>6. q \in 1..4 /\ 3 * q - 2 <= m /\ m <= 3 * q
  BY <1>2, <1>3, SMT
<1>7. PICK j \in Int, l \in {0, 1} : j = Jan1(y) /\ l = Leap(y) /\ Jan1(y + 1) = j + 365 + l
  BY <1>1, YearSpan, SMT
<1>8. \A k \in 1..12 : DayNumber(y, k, 1) = j + Before(k) + (IF k <= 2 THEN 0 ELSE l)
  <2> TAKE k \in 1..12
  <2>1. DayNumber(y, k, 1) = Jan1(y) + Before(k) + (IF k <= 2 THEN 0 ELSE Leap(y)) + 1 - 1
    BY <1>1, MonthStart, SMT
  <2>2. Before(k) \in Int
    BY SMT DEF Before
  <2> QED
    BY <1>7, <2>1, <2>2, SMT
<1>9. DayNumber(y, m, 1) = j + Before(m) + (IF m <= 2 THEN 0 ELSE l)
  BY <1>2, <1>8, SMT
<1>10. n < (IF m = 12 THEN j + 365 + l ELSE j + Before(m + 1) + (IF m = 1 THEN 0 ELSE l))
  <2>1. DaysIn(y, m) = IF m = 2 THEN 28 + l ELSE IF m = 12 THEN 31 ELSE Before(m + 1) - Before(m)
    BY <1>1, <1>2, <1>7, MonthLength, SMT
  <2>2. Before(m) \in Int /\ Before(m + 1) \in Int
    BY <1>2, SMT DEF Before
  <2>3. n < j + Before(m) + (IF m <= 2 THEN 0 ELSE l) + DaysIn(y, m)
    BY <1>2, <1>9, SMT DEF InMonth
  <2>4. CASE m = 12
    BY <2>1, <2>3, <2>4, MonthTable, SMT
  <2>5. CASE m = 2
    BY <2>1, <2>3, <2>5, MonthTable, SMT
  <2>6. CASE m # 12 /\ m # 2
    BY <1>2, <2>1, <2>2, <2>3, <2>6, SMT
  <2> QED
    BY <2>4, <2>5, <2>6, SMT
<1>11. j + Before(m) + (IF m <= 2 THEN 0 ELSE l) <= n
  BY <1>2, <1>9, SMT DEF InMonth
<1>12. CASE q = 1
  <2>1. m = 1 \/ m = 2 \/ m = 3
    BY <1>2, <1>6, <1>12, SMT
  <2>2. first = j /\ end = j + 90 + l
    BY <1>8, <1>12, MonthTable, SMT
  <2>3. j <= n /\ n < j + 90 + l
    BY <1>10, <1>11, <2>1, MonthTable, SMT
  <2> HIDE DEF first, end
  <2> QED
    BY <1>4, <1>5, <1>6, <2>2, <2>3, SMT DEF y, q
<1>13. CASE q = 2
  <2>1. m = 4 \/ m = 5 \/ m = 6
    BY <1>2, <1>6, <1>13, SMT
  <2>2. first = j + 90 + l /\ end = j + 181 + l
    BY <1>8, <1>13, MonthTable, SMT
  <2>3. j + 90 + l <= n /\ n < j + 181 + l
    BY <1>10, <1>11, <2>1, MonthTable, SMT
  <2> HIDE DEF first, end
  <2> QED
    BY <1>4, <1>5, <1>6, <2>2, <2>3, SMT DEF y, q
<1>14. CASE q = 3
  <2>1. m = 7 \/ m = 8 \/ m = 9
    BY <1>2, <1>6, <1>14, SMT
  <2>2. first = j + 181 + l /\ end = j + 273 + l
    BY <1>8, <1>14, MonthTable, SMT
  <2>3. j + 181 + l <= n /\ n < j + 273 + l
    BY <1>10, <1>11, <2>1, MonthTable, SMT
  <2> HIDE DEF first, end
  <2> QED
    BY <1>4, <1>5, <1>6, <2>2, <2>3, SMT DEF y, q
<1>15. CASE q = 4
  <2>1. m = 10 \/ m = 11 \/ m = 12
    BY <1>2, <1>6, <1>15, SMT
  <2>2. first = j + 273 + l /\ end = j + 365 + l
    <3>1. first = j + 273 + l
      BY <1>8, <1>15, MonthTable, SMT
    <3>2. end = Jan1(y + 1)
      BY <1>15, SMT DEF Jan1
    <3> QED
      BY <1>7, <3>1, <3>2, SMT
  <2>3. j + 273 + l <= n /\ n < j + 365 + l
    BY <1>10, <1>11, <2>1, MonthTable, SMT
  <2> HIDE DEF first, end
  <2> QED
    BY <1>4, <1>5, <1>6, <2>2, <2>3, SMT DEF y, q
<1> QED
  BY <1>6, <1>12, <1>13, <1>14, <1>15, SMT

-----------------------------------------------------------------------------
(* Weeks: day 0 is a Thursday, so the Thursdays are the multiples of 7.    *)

\* The Thursday of a day's week, and the day's place in that week.
LEMMA WeekOfDay ==
    ASSUME NEW n \in Int
    PROVE  \E k \in Int : /\ IsoThursday(n) = 7 * k
                          /\ WeekDay(n) = n - 7 * k + 4
                          /\ 7 * k - 3 <= n /\ n <= 7 * k + 3
<1>1. PICK k \in Int : k = (n + 3) \div 7
  BY SMT
<1>2. ((GoWeekday(n) + 6) % 7) = n + 3 - 7 * k
  BY <1>1, SMT DEF GoWeekday
<1>3. 7 * k <= n + 3 /\ n + 3 <= 7 * k + 6
  BY <1>1, SMT
<1>4. IsoThursday(n) = 7 * k /\ WeekDay(n) = n - 7 * k + 4
  BY <1>2, SMT DEF IsoThursday, WeekDay
<1> QED
  BY <1>3, <1>4, SMT

\* The first Thursday of a year is in the week isoWeek1Monday begins.
LEMMA FirstWeek ==
    ASSUME NEW y \in Int
    PROVE  \E f \in Int : /\ IsoWeek1Monday(y) = 7 * f - 3
                          /\ Jan1(y) <= 7 * f /\ 7 * f < Jan1(y) + 7
<1>1. PICK j \in Int : j = Jan1(y)
  BY NewYear, SMT
<1>2. DayNumber(y, 1, 4) = j + 3
  <2>1. DayNumber(y, 1, 4) = Jan1(y) + Before(1) + 0 + 4 - 1
    BY MonthStart, SMT
  <2> QED
    BY <1>1, <2>1, MonthTable, SMT
<1>3. PICK f \in Int : f = (j + 6) \div 7
  BY SMT
<1>4. PICK h \in Int : h = j + 3
  BY SMT
<1>5. ((GoWeekday(h) + 6) % 7) = j + 6 - 7 * f
  BY <1>3, <1>4, SMT DEF GoWeekday
<1>6. IsoWeek1Monday(y) = 7 * f - 3
  <2>1. DayNumber(y, 1, 4) = h
    BY <1>2, <1>4, SMT
  <2>2. IsoWeek1Monday(y) = h - ((GoWeekday(h) + 6) % 7)
    BY <2>1, SMT DEF IsoWeek1Monday
  <2> QED
    BY <1>4, <1>5, <2>2, SMT
<1>7. j <= 7 * f /\ 7 * f < j + 7
  BY <1>3, SMT
<1> QED
  BY <1>1, <1>6, <1>7, SMT

\* The number of a week, counted in Thursdays.
LEMMA WeekNumber ==
    ASSUME NEW n \in Int, NEW k \in Int, IsoThursday(n) = 7 * k,
           NEW f \in Int, Jan1(WeekYear(n)) <= 7 * f, 7 * f < Jan1(WeekYear(n)) + 7
    PROVE  Week(n) = k - f + 1 /\ f <= k
<1>1. WeekYear(n) = YearOf(7 * k)
  BY SMT DEF WeekYear
<1>2. PICK t \in Int : t = 7 * k
  BY SMT
<1>3. WeekYear(n) \in Int /\ Jan1(WeekYear(n)) <= t
  BY <1>1, <1>2, YearIsFound, SMT
<1>4. PICK j \in Int : j = Jan1(WeekYear(n))
  BY <1>3, NewYear, SMT
<1>5. Week(n) = (7 * k - j) \div 7 + 1
  BY <1>4, SMT DEF Week, WeekYear, Jan1
<1>6. (7 * k - j) \div 7 = k - f
  <2>1. j <= 7 * f /\ 7 * f < j + 7
    BY <1>4, SMT
  <2> QED
    BY <2>1, SMT
<1> QED
  BY <1>2, <1>3, <1>4, <1>5, <1>6, SMT

\* 28 December is in the last week of its year.
LEMMA LastWeek ==
    ASSUME NEW y \in Int, NEW f \in Int, Jan1(y) <= 7 * f, 7 * f < Jan1(y) + 7,
           NEW k \in Int, 7 * k < Jan1(y + 1)
    PROVE  WeeksInYear(y) \in Int /\ k - f + 1 <= WeeksInYear(y)
<1>1. PICK j \in Int, l \in {0, 1} : j = Jan1(y) /\ l = Leap(y) /\ Jan1(y + 1) = j + 365 + l
  BY YearSpan, SMT
<1>2. PICK d \in Int : d = DayNumber(y, 12, 28) /\ d = j + 361 + l
  <2>1. DayNumber(y, 12, 28) = Jan1(y) + Before(12) + Leap(y) + 28 - 1
    BY MonthStart, SMT
  <2> QED
    BY <1>1, <2>1, MonthTable, SMT
<1>3. PICK e \in Int : IsoThursday(d) = 7 * e /\ 7 * e - 3 <= d /\ d <= 7 * e + 3
  BY WeekOfDay, SMT
<1>4. PICK t \in Int : t = 7 * e /\ j <= t /\ t < j + 365 + l
  BY <1>2, <1>3, SMT
<1>5. YearOf(t) = y
  BY <1>1, <1>4, YearIsUnique, SMT
<1>6. WeekYear(d) = y
  BY <1>3, <1>4, <1>5, SMT DEF WeekYear
<1>7. Week(d) = e - f + 1
  BY <1>3, <1>6, WeekNumber, SMT
<1>8. k <= e
  BY <1>1, <1>2, <1>3, SMT
<1> QED
  BY <1>2, <1>7, <1>8, SMT DEF WeeksInYear

\* The week and the day of the week give the date back.
LEMMA WeekReadsBack ==
    ASSUME NEW n \in Int
    PROVE  /\ DateFromWeek(WeekYear(n), Week(n), WeekDay(n)) = n
           /\ IsoWeek1Monday(WeekYear(n)) + (Week(n) - 1) * 7 + WeekDay(n) - 1 = n
           /\ Week(n) \in 1..WeeksInYear(WeekYear(n)) /\ WeekDay(n) \in 1..7
<1>1. PICK k \in Int : /\ IsoThursday(n) = 7 * k
                       /\ WeekDay(n) = n - 7 * k + 4
                       /\ 7 * k - 3 <= n /\ n <= 7 * k + 3
  BY WeekOfDay, SMT
<1>2. PICK t \in Int : t = 7 * k
  BY SMT
<1>3. PICK y \in Int : y = WeekYear(n) /\ y = YearOf(t)
  BY <1>1, <1>2, YearIsFound, SMT DEF WeekYear
<1>4. Jan1(y) <= t /\ t < Jan1(y + 1)
  BY <1>3, YearIsFound, SMT
<1>5. PICK f \in Int : /\ IsoWeek1Monday(y) = 7 * f - 3
                       /\ Jan1(y) <= 7 * f /\ 7 * f < Jan1(y) + 7
  BY FirstWeek, SMT
<1>6. Week(n) = k - f + 1 /\ f <= k
  <2>1. Jan1(WeekYear(n)) <= 7 * f /\ 7 * f < Jan1(WeekYear(n)) + 7
    BY <1>3, <1>5, SMT
  <2>2. IsoThursday(n) = 7 * k
    BY <1>1, SMT
  <2> QED
    BY <2>1, <2>2, WeekNumber, SMT
<1>7. WeeksInYear(y) \in Int /\ k - f + 1 <= WeeksInYear(y)
  BY <1>2, <1>4, <1>5, LastWeek, SMT
<1>8. Week(n) \in 1..WeeksInYear(y)
  BY <1>6, <1>7, SMT
<1>9. WeekDay(n) \in 1..7
  BY <1>1, SMT
<1>10. IsoWeek1Monday(y) + (Week(n) - 1) * 7 + WeekDay(n) - 1 = n
  BY <1>1, <1>5, <1>6, SMT
<1>11. DateFromWeek(y, Week(n), WeekDay(n)) = n
  BY <1>8, <1>9, <1>10, SMT DEF DateFromWeek
<1> QED
  BY <1>3, <1>8, <1>9, <1>10, <1>11, SMT

\* dateFromWeek, dateFromOrdinal and dateFromQuarter undo the accessors of a date, on
\* every day: no day is left out of the weeks, quarters or ordinals of its year.
THEOREM DatesReadBack == \A n \in Int : DateReadsBack(n)
BY WeekReadsBack, OrdinalReadsBack, QuarterReadsBack, SMT DEF DateReadsBack

-----------------------------------------------------------------------------
(* Truncation: from one day to the next.                                   *)

\* A year changes only on its 1 January, to the next.
LEMMA YearSteps ==
    ASSUME NEW n \in Int
    PROVE  \/ YearOf(n - 1) = YearOf(n)
           \/ YearOf(n - 1) = YearOf(n) - 1 /\ n = Jan1(YearOf(n))
<1>1. PICK y \in Int : y = YearOf(n) /\ Jan1(y) <= n /\ n < Jan1(y + 1)
  BY YearIsFound, SMT
<1>2. PICK p \in Int : p = n - 1
  BY SMT
<1>3. PICK x \in Int : x = y - 1 /\ x + 1 = y
  BY SMT
<1>4. Jan1(y) \in Int /\ Jan1(x) \in Int /\ Leap(x) \in {0, 1}
  BY NewYear, SMT
<1>5. Jan1(y) = Jan1(x) + 365 + Leap(x)
  BY <1>3, NewYear, SMT
<1>6. CASE Jan1(y) <= p
  <2>1. p < Jan1(y + 1)
    <3>1. Jan1(y + 1) \in Int
      BY NewYear, SMT
    <3> QED
      BY <1>1, <1>2, <3>1, SMT
  <2>2. YearOf(p) = y
    BY <1>6, <2>1, YearIsUnique, SMT
  <2> QED
    BY <1>1, <1>2, <2>2, SMT
<1>7. CASE p < Jan1(y)
  <2>1. n = Jan1(y)
    BY <1>1, <1>2, <1>4, <1>7, SMT
  <2>2. Jan1(x) <= p /\ p < Jan1(x + 1)
    BY <1>2, <1>3, <1>4, <1>5, <1>7, <2>1, SMT
  <2>3. YearOf(p) = x
    BY <2>2, YearIsUnique, SMT
  <2> QED
    BY <1>1, <1>2, <1>3, <2>1, <2>3, SMT
<1> QED
  BY <1>2, <1>4, <1>6, <1>7, SMT

\* The months of a year follow one another.
LEMMA MonthsAscend ==
    ASSUME NEW y \in Int, NEW a \in 1..12, NEW b \in 1..12, a < b
    PROVE  DayNumber(y, a, 1) + DaysIn(y, a) <= DayNumber(y, b, 1)
<1>1. PICK j \in Int, l \in {0, 1} : j = Jan1(y) /\ l = Leap(y)
  BY YearSpan, SMT
<1>2. /\ DayNumber(y, a, 1) = j + Before(a) + (IF a <= 2 THEN 0 ELSE l) + 1 - 1
      /\ DayNumber(y, b, 1) = j + Before(b) + (IF b <= 2 THEN 0 ELSE l) + 1 - 1
  BY <1>1, MonthStart, SMT
<1>3. a # 12 /\ DaysIn(y, a) = IF a = 2 THEN 28 + l ELSE Before(a + 1) - Before(a)
  BY <1>1, MonthLength, SMT
<1>4. Before(a + 1) <= Before(b) /\ Before(a) \in Int /\ Before(b) \in Int /\ Before(a + 1) \in Int
  BY SMT DEF Before
<1>5. CASE a = 2
  BY <1>2, <1>3, <1>4, <1>5, MonthTable, SMT
<1>6. CASE a # 2
  BY <1>2, <1>3, <1>4, <1>6, SMT
<1> QED
  BY <1>5, <1>6, SMT

\* A day of a year is in no other month than the one found for it.
LEMMA MonthIsUnique ==
    ASSUME NEW n \in Int, NEW m \in 1..12, InMonth(n, YearOf(n), m)
    PROVE  MonthOf(n) = m
<1>1. PICK y \in Int : y = YearOf(n)
  BY YearIsFound, SMT
<1>2. PICK k \in 1..12 : k = MonthOf(n) /\ InMonth(n, y, k)
  BY <1>1, MonthChosen, SMT
<1>3. PICK sm \in Int, sk \in Int : sm = DayNumber(y, m, 1) /\ sk = DayNumber(y, k, 1)
  <2>1. Jan1(y) \in Int /\ Leap(y) \in {0, 1} /\ Before(m) \in Int /\ Before(k) \in Int
    BY NewYear, SMT DEF Before
  <2>2. DayNumber(y, m, 1) = Jan1(y) + Before(m) + (IF m <= 2 THEN 0 ELSE Leap(y)) + 1 - 1
    BY MonthStart, SMT
  <2>3. DayNumber(y, k, 1) = Jan1(y) + Before(k) + (IF k <= 2 THEN 0 ELSE Leap(y)) + 1 - 1
    BY MonthStart, SMT
  <2>4. DayNumber(y, m, 1) \in Int
    BY <2>1, <2>2, SMT
  <2>5. DayNumber(y, k, 1) \in Int
    BY <2>1, <2>3, SMT
  <2> QED
    BY <2>4, <2>5, SMT
<1>4. DaysIn(y, m) \in 28..31 /\ DaysIn(y, k) \in 28..31
  BY MonthLength, SMT
<1>5. sm <= n /\ n < sm + DaysIn(y, m) /\ sk <= n /\ n < sk + DaysIn(y, k)
  BY <1>1, <1>2, <1>3, SMT DEF InMonth
<1>6. ~(m < k)
  BY <1>3, <1>4, <1>5, MonthsAscend, SMT
<1>7. ~(k < m)
  BY <1>3, <1>4, <1>5, MonthsAscend, SMT
<1> QED
  BY <1>2, <1>6, <1>7, SMT

\* A month changes only on its first day, to the next.
LEMMA MonthSteps ==
    ASSUME NEW n \in Int
    PROVE  \/ n = DayNumber(YearOf(n), MonthOf(n), 1)
           \/ YearOf(n - 1) = YearOf(n) /\ MonthOf(n - 1) = MonthOf(n)
<1>1. PICK y \in Int : y = YearOf(n) /\ Jan1(y) <= n /\ n < Jan1(y + 1)
  BY YearIsFound, SMT
<1>2. PICK m \in 1..12 : m = MonthOf(n) /\ InMonth(n, y, m)
  BY <1>1, MonthChosen, SMT
<1>3. PICK p \in Int : p = n - 1
  BY SMT
<1>4. Jan1(y) \in Int /\ Leap(y) \in {0, 1} /\ Before(m) \in Nat
  BY NewYear, SMT DEF Before
<1>5. DayNumber(y, m, 1) = Jan1(y) + Before(m) + (IF m <= 2 THEN 0 ELSE Leap(y)) + 1 - 1
  BY MonthStart, SMT
<1>6. DaysIn(y, m) \in 28..31
  BY MonthLength, SMT
<1>7. SUFFICES ASSUME n # DayNumber(y, m, 1)
               PROVE  YearOf(p) = y /\ MonthOf(p) = m
  BY <1>1, <1>2, <1>3, SMT
<1>8. InMonth(p, y, m) /\ n # Jan1(y)
  BY <1>2, <1>3, <1>4, <1>5, <1>6, <1>7, SMT DEF InMonth
<1>9. YearOf(p) = y
  BY <1>1, <1>3, <1>8, YearSteps, SMT
<1> QED
  BY <1>8, <1>9, MonthIsUnique, SMT

\* The day before the first of a month other than January is in the month before.
LEMMA MonthBefore ==
    ASSUME NEW n \in Int, n = DayNumber(YearOf(n), MonthOf(n), 1), MonthOf(n) # 1
    PROVE  YearOf(n - 1) = YearOf(n) /\ MonthOf(n - 1) = MonthOf(n) - 1
<1>1. PICK y \in Int : y = YearOf(n) /\ Jan1(y) <= n /\ n < Jan1(y + 1)
  BY YearIsFound, SMT
<1>2. PICK m \in 1..12 : m = MonthOf(n) /\ m # 1
  BY <1>1, MonthChosen, SMT
<1>3. PICK p \in Int : p = n - 1
  BY SMT
<1>4. PICK a \in 1..12 : a = m - 1
  BY <1>2, SMT
<1>5. PICK j \in Int, l \in {0, 1} : j = Jan1(y) /\ l = Leap(y)
  BY YearSpan, SMT
<1>6. /\ n = j + Before(m) + (IF m <= 2 THEN 0 ELSE l) + 1 - 1
      /\ DayNumber(y, a, 1) = j + Before(a) + (IF a <= 2 THEN 0 ELSE l) + 1 - 1
  <2>1. n = DayNumber(y, m, 1)
    BY <1>1, <1>2, SMT
  <2> QED
    BY <1>5, <2>1, MonthStart, SMT
<1>7. DaysIn(y, a) \in 28..31 /\ DaysIn(y, a) = IF a = 2 THEN 28 + l ELSE Before(m) - Before(a)
  <2>1. DaysIn(y, a) \in 28..31
    BY MonthLength, SMT
  <2>2. a # 12 /\ a + 1 = m
    BY <1>4, SMT
  <2> QED
    BY <1>5, <2>1, <2>2, MonthLength, SMT
<1>8. Before(a) \in Nat /\ Before(m) \in Nat /\ Before(m) >= 31
  BY <1>2, SMT DEF Before
<1>9. DayNumber(y, a, 1) + DaysIn(y, a) = n
  <2>1. CASE a = 2
    <3>1. m = 3
      BY <1>4, <2>1, SMT
    <3> QED
      BY <1>6, <1>7, <2>1, <3>1, MonthTable, SMT
  <2>2. CASE a # 2
    BY <1>4, <1>6, <1>7, <1>8, <2>2, SMT
  <2> QED
    BY <2>1, <2>2, SMT
<1>10. DayNumber(y, a, 1) \in Int
  BY <1>6, <1>8, SMT
<1>11. InMonth(p, y, a)
  BY <1>3, <1>7, <1>9, <1>10, SMT DEF InMonth
<1>12. n # Jan1(y)
  BY <1>5, <1>6, <1>8, SMT
<1>13. YearOf(p) = y
  BY <1>1, <1>3, <1>12, YearSteps, SMT
<1>14. MonthOf(p) = a
  BY <1>11, <1>13, MonthIsUnique, SMT
<1> QED
  BY <1>1, <1>2, <1>3, <1>4, <1>13, <1>14, SMT

\* The Jan1 of the years of a span of K years.
LEMMA SpansTruncate ==
    ASSUME NEW n \in Int, NEW K \in {1, 10, 100, 1000}
    PROVE  Jan1((YearOf(n) \div K) * K) \in {n, Jan1((YearOf(n - 1) \div K) * K)}
<1>1. PICK y \in Int : y = YearOf(n)
  BY YearIsFound, SMT
<1>2. CASE YearOf(n - 1) = YearOf(n)
  BY <1>2, SMT
<1>3. CASE YearOf(n - 1) = YearOf(n) - 1 /\ n = Jan1(YearOf(n))
  <2>1. (y \div K) * K = y \/ (y - 1) \div K = y \div K
    <3>1. CASE K = 1
      BY <3>1, SMT
    <3>2. CASE K = 10
      BY <3>2, SMT
    <3>3. CASE K = 100
      BY <3>3, SMT
    <3>4. CASE K = 1000
      BY <3>4, SMT
    <3> QED
      BY <3>1, <3>2, <3>3, <3>4, SMT
  <2>2. YearOf(n - 1) = y - 1 /\ n = Jan1(y)
    BY <1>1, <1>3, SMT
  <2>3. CASE (y \div K) * K = y
    BY <1>1, <2>2, <2>3, SMT
  <2>4. CASE (y - 1) \div K = y \div K
    BY <1>1, <2>2, <2>4, SMT
  <2> QED
    BY <2>1, <2>3, <2>4, SMT
<1> QED
  BY <1>2, <1>3, YearSteps, SMT

\* Months and quarters begin on the first of a month.
LEMMA MonthsTruncate ==
    ASSUME NEW n \in Int, NEW u \in {"month", "quarter"}
    PROVE  TruncateDate(n, u) \in {n, TruncateDate(n - 1, u)}
<1>1. PICK y \in Int : y = YearOf(n)
  BY YearIsFound, SMT
<1>2. PICK m \in 1..12 : m = MonthOf(n)
  BY MonthChosen, SMT
<1>3. \A k \in Int : /\ TruncateDate(k, "month") = DayNumber(YearOf(k), MonthOf(k), 1)
                     /\ TruncateDate(k, "quarter") =
                            DayNumber(YearOf(k), ((MonthOf(k) - 1) \div 3 + 1 - 1) * 3 + 1, 1)
  <2> TAKE k \in Int
  <2>1. TruncateDate(k, "month") = DayNumber(YearOf(k), MonthOf(k), 1)
    BY SMT DEF TruncateDate
  <2>2. TruncateDate(k, "quarter") = DayNumber(YearOf(k), (Quarter(k) - 1) * 3 + 1, 1)
    BY SMT DEF TruncateDate
  <2>3. PICK w \in 1..12 : w = MonthOf(k)
    BY MonthChosen, SMT
  <2>4. (Quarter(k) - 1) * 3 + 1 = ((w - 1) \div 3 + 1 - 1) * 3 + 1
    BY <2>3, SMT DEF Quarter
  <2> QED
    BY <2>1, <2>2, <2>3, <2>4, SMT
<1>4. PICK p \in Int : p = n - 1
  BY SMT
<1>5. CASE YearOf(p) = y /\ MonthOf(p) = m
  <2>1. TruncateDate(n, "month") = TruncateDate(p, "month")
    BY <1>1, <1>2, <1>3, <1>5, SMT
  <2>2. TruncateDate(n, "quarter") = TruncateDate(p, "quarter")
    BY <1>1, <1>2, <1>3, <1>5, SMT
  <2> QED
    BY <1>4, <2>1, <2>2, SMT
<1>6. CASE n = DayNumber(y, m, 1)
  <2>1. TruncateDate(n, "month") = n
    BY <1>1, <1>2, <1>3, <1>6, SMT
  <2>2. TruncateDate(n, "quarter") \in {n, TruncateDate(p, "quarter")}
    <3>1. CASE m \in {1, 4, 7, 10}
      <4>1. ((m - 1) \div 3 + 1 - 1) * 3 + 1 = m
        BY <3>1, SMT
      <4> QED
        BY <1>1, <1>2, <1>3, <1>6, <4>1, SMT
    <3>2. CASE m \notin {1, 4, 7, 10}
      <4>1. m # 1
        BY <3>2, SMT
      <4>2. YearOf(p) = y /\ MonthOf(p) = m - 1
        BY <1>1, <1>2, <1>4, <1>6, <4>1, MonthBefore, SMT
      <4>3. ((m - 1 - 1) \div 3 + 1 - 1) * 3 + 1 = ((m - 1) \div 3 + 1 - 1) * 3 + 1
        BY <3>2, SMT
      <4>4. TruncateDate(n, "quarter") = DayNumber(y, ((m - 1) \div 3 + 1 - 1) * 3 + 1, 1)
        BY <1>1, <1>2, <1>3, SMT
      <4>5. TruncateDate(p, "quarter") = DayNumber(y, ((m - 1 - 1) \div 3 + 1 - 1) * 3 + 1, 1)
        BY <1>3, <4>2, SMT
      <4> QED
        BY <4>3, <4>4, <4>5, SMT
    <3> QED
      BY <3>1, <3>2, SMT
  <2> QED
    BY <1>4, <2>1, <2>2, SMT
<1> QED
  BY <1>1, <1>2, <1>4, <1>5, <1>6, MonthSteps, SMT

\* A week-year begins on the Monday of its first Thursday's week.
LEMMA WeekYearsTruncate ==
    ASSUME NEW n \in Int
    PROVE  IsoWeek1Monday(WeekYear(n)) \in {n, IsoWeek1Monday(WeekYear(n - 1))}
<1>1. PICK k \in Int : /\ IsoThursday(n) = 7 * k
                       /\ WeekDay(n) = n - 7 * k + 4
                       /\ 7 * k - 3 <= n /\ n <= 7 * k + 3
  BY WeekOfDay, SMT
<1>2. PICK p \in Int : p = n - 1
  BY SMT
<1>3. PICK e \in Int : /\ IsoThursday(p) = 7 * e
                       /\ 7 * e - 3 <= p /\ p <= 7 * e + 3
  BY WeekOfDay, SMT
<1>4. CASE e = k
  <2>1. WeekYear(p) = WeekYear(n)
    BY <1>1, <1>3, <1>4, SMT DEF WeekYear
  <2> QED
    BY <1>2, <2>1, SMT
<1>5. CASE e # k
  <2>1. e = k - 1 /\ n = 7 * k - 3
    BY <1>1, <1>2, <1>3, <1>5, SMT
  <2>2. PICK t \in Int, r \in Int : t = 7 * k /\ r = t - 7 /\ r = 7 * e
    BY <2>1, SMT
  <2>3. PICK y \in Int : y = YearOf(t) /\ Jan1(y) <= t /\ t < Jan1(y + 1)
    BY YearIsFound, SMT
  <2>4. WeekYear(n) = y /\ WeekYear(p) = YearOf(r)
    BY <1>1, <1>3, <2>2, <2>3, SMT DEF WeekYear
  <2>5. PICK f \in Int : /\ IsoWeek1Monday(y) = 7 * f - 3
                         /\ Jan1(y) <= 7 * f /\ 7 * f < Jan1(y) + 7
    BY FirstWeek, SMT
  <2>6. Jan1(y) \in Int /\ Jan1(y + 1) \in Int
    BY NewYear, SMT
  <2>7. CASE Jan1(y) <= r
    <3>1. YearOf(r) = y
      BY <2>2, <2>3, <2>6, <2>7, YearIsUnique, SMT
    <3> QED
      BY <1>2, <2>4, <3>1, SMT
  <2>8. CASE r < Jan1(y)
    <3>1. f = k
      BY <2>2, <2>3, <2>5, <2>6, <2>8, SMT
    <3> QED
      BY <2>1, <2>4, <2>5, <3>1, SMT
  <2> QED
    BY <2>2, <2>6, <2>7, <2>8, SMT
<1> QED
  BY <1>4, <1>5, SMT

\* Weeks begin on Mondays.
LEMMA WeeksTruncate ==
    ASSUME NEW n \in Int
    PROVE  n - (WeekDay(n) - 1) \in {n, n - 1 - (WeekDay(n - 1) - 1)}
<1>1. WeekDay(n) = ((n + 3) % 7) + 1 /\ WeekDay(n - 1) = ((n + 2) % 7) + 1
  BY SMT DEF WeekDay, GoWeekday
<1>2. (n + 3) % 7 = 0 \/ (n + 3) % 7 = ((n + 2) % 7) + 1
  BY SMT
<1> QED
  BY <1>1, <1>2, SMT

\* Truncating to any unit goes back to the last day that starts one: from one day to
\* the next, the result stays or becomes the new day.
THEOREM TruncationStepsBack == \A n \in Int : TruncatesBack(n)
<1> SUFFICES ASSUME NEW n \in Int, NEW u \in Units
             PROVE  TruncateDate(n, u) \in {n, TruncateDate(n - 1, u)}
  BY SMT DEF TruncatesBack
<1>1. u \in {"millennium", "century", "decade", "year", "weekyear", "quarter", "month", "week", "day"}
  BY SMT DEF Units
<1>2. CASE u \in {"month", "quarter"}
  BY <1>2, MonthsTruncate, SMT
<1>3. CASE u = "millennium"
  BY <1>3, SpansTruncate, SMT DEF TruncateDate, Jan1
<1>4. CASE u = "century"
  BY <1>4, SpansTruncate, SMT DEF TruncateDate, Jan1
<1>5. CASE u = "decade"
  BY <1>5, SpansTruncate, SMT DEF TruncateDate, Jan1
<1>6. CASE u = "year"
  <2>1. \A k \in Int : TruncateDate(k, u) = Jan1((YearOf(k) \div 1) * 1)
    <3> TAKE k \in Int
    <3>1. PICK y \in Int : y = YearOf(k)
      BY YearIsFound, SMT
    <3>2. (y \div 1) * 1 = y
      BY SMT
    <3> QED
      BY <1>6, <3>1, <3>2, SMT DEF TruncateDate, Jan1
  <2> QED
    BY <2>1, SpansTruncate, SMT
<1>7. CASE u = "weekyear"
  BY <1>7, WeekYearsTruncate, SMT DEF TruncateDate
<1>8. CASE u = "week"
  BY <1>8, WeeksTruncate, SMT DEF TruncateDate
<1>9. CASE u = "day"
  BY <1>9, SMT DEF TruncateDate
<1> QED
  BY <1>1, <1>2, <1>3, <1>4, <1>5, <1>6, <1>7, <1>8, <1>9, SMT

-----------------------------------------------------------------------------
(* Months, counted from the year 0.                                        *)

Index(n) == YearOf(n) * 12 + MonthOf(n) - 1
Start(k) == DayNumber(k \div 12, (k % 12) + 1, 1)
Size(k)  == DaysIn(k \div 12, (k % 12) + 1)

\* The year and the month a count stands for.
LEMMA Counting ==
    ASSUME NEW y \in Int, NEW m \in 1..12, NEW k \in Int, k = y * 12 + m - 1
    PROVE  k \div 12 = y /\ (k % 12) + 1 = m
BY SMT

\* Every count stands for a month.
LEMMA CountedMonth ==
    ASSUME NEW k \in Int
    PROVE  \E y \in Int, m \in 1..12 : /\ k = y * 12 + m - 1
                                       /\ Start(k) = DayNumber(y, m, 1) /\ Size(k) = DaysIn(y, m)
<1>1. PICK y \in Int, m \in 1..12 : y = k \div 12 /\ m = (k % 12) + 1
  BY SMT
<1>2. k = y * 12 + m - 1
  BY <1>1, SMT
<1> QED
  BY <1>1, <1>2, Zenon DEF Start, Size

\* A day is one of its month.
LEMMA DayIndexed ==
    ASSUME NEW n \in Int
    PROVE  \E k \in Int, first \in Int, size \in 28..31, day \in 1..31 :
               /\ day <= size /\ k = Index(n) /\ first = Start(k) /\ size = Size(k) /\ day = DayOf(n)
               /\ n = first + day - 1
<1>1. PICK y \in Int, m \in 1..12 : y = YearOf(n) /\ m = MonthOf(n)
  BY YearIsFound, MonthChosen, SMT
<1>2. PICK k \in Int : k = y * 12 + m - 1
  BY SMT
<1>3. k = Index(n)
  BY <1>1, <1>2, Zenon DEF Index
<1>4. k \div 12 = y /\ (k % 12) + 1 = m
  BY <1>2, Counting, SMT
<1>5. Start(k) = DayNumber(y, m, 1) /\ Size(k) = DaysIn(y, m)
  BY <1>4, Zenon DEF Start, Size
<1>6. PICK size \in 28..31 : size = DaysIn(y, m)
  BY MonthLength, SMT
<1>7. PICK day \in 1..size : day = DayOf(n)
  BY <1>1, <1>6, MonthIsFound, SMT
<1>8. PICK first \in Int : first = DayNumber(y, m, 1)
  <2>1. PICK j \in Int, l \in {0, 1} : j = Jan1(y) /\ l = Leap(y)
    BY YearSpan, SMT
  <2>2. PICK before \in Nat : before = Before(m)
    BY SMT DEF Before
  <2>3. DayNumber(y, m, 1) = j + before + (IF m <= 2 THEN 0 ELSE l) + 1 - 1
    <3>1. DayNumber(y, m, 1) = Jan1(y) + Before(m) + (IF m <= 2 THEN 0 ELSE Leap(y)) + 1 - 1
      BY MonthStart, SMT
    <3> QED
      BY <2>1, <2>2, <3>1, Zenon
  <2> QED
    BY <2>3, SMT
<1>9. n = first + day - 1
  <2>1. DayOf(n) = n - DayNumber(YearOf(n), MonthOf(n), 1) + 1
    BY Zenon DEF DayOf
  <2>2. day = n - first + 1
    BY <1>1, <1>7, <1>8, <2>1, Zenon
  <2> QED
    BY <2>2, SMT
<1>10. day \in 1..31 /\ day <= size
  BY <1>6, <1>7, SMT
<1>11. k = Index(n) /\ first = Start(k) /\ size = Size(k) /\ day = DayOf(n)
  BY <1>3, <1>5, <1>6, <1>7, <1>8, Zenon
<1> QED
  BY <1>9, <1>10, <1>11, Zenon

\* A month begins where the one before it ends.
LEMMA MonthSpan ==
    ASSUME NEW k \in Int
    PROVE  Start(k) \in Int /\ Size(k) \in 28..31 /\ Start(k + 1) = Start(k) + Size(k)
<1>1. PICK y \in Int, m \in 1..12 : /\ k = y * 12 + m - 1
                                    /\ Start(k) = DayNumber(y, m, 1) /\ Size(k) = DaysIn(y, m)
  BY CountedMonth, Zenon
<1>2. PICK j \in Int, l \in {0, 1} : j = Jan1(y) /\ l = Leap(y) /\ Jan1(y + 1) = j + 365 + l
  BY YearSpan, SMT
<1>3. PICK before \in Nat : before = Before(m)
  BY SMT DEF Before
<1>4. Start(k) = j + before + (IF m <= 2 THEN 0 ELSE l)
  <2>1. DayNumber(y, m, 1) = j + before + (IF m <= 2 THEN 0 ELSE l) + 1 - 1
    <3>1. DayNumber(y, m, 1) = Jan1(y) + Before(m) + (IF m <= 2 THEN 0 ELSE Leap(y)) + 1 - 1
      BY MonthStart, SMT
    <3> QED
      BY <1>2, <1>3, <3>1, Zenon
  <2>2. j + before + (IF m <= 2 THEN 0 ELSE l) + 1 - 1 = j + before + (IF m <= 2 THEN 0 ELSE l)
    BY SMT
  <2> QED
    BY <1>1, <2>1, <2>2, Zenon
<1>5. PICK size \in 28..31 : size = DaysIn(y, m)
  BY MonthLength, SMT
<1>6. CASE m = 12
  <2>1. PICK z \in Int : z = y + 1
    BY SMT
  <2>2. PICK q \in Int : q = k + 1 /\ q = z * 12 + 1 - 1
    BY <1>1, <1>6, <2>1, SMT
  <2>3. q \div 12 = z /\ (q % 12) + 1 = 1
    BY <2>2, SMT
  <2>4. Start(q) = Jan1(z)
    BY <2>3, Zenon DEF Start, Jan1
  <2>5. before = 334 /\ size = 31
    BY <1>3, <1>5, <1>6, MonthTable, MonthLength, SMT
  <2>6. Start(q) = j + 365 + l
    BY <1>2, <2>1, <2>4, Zenon
  <2>7. Start(k) = j + 334 + l
    BY <1>4, <1>6, <2>5, SMT
  <2> QED
    BY <1>1, <1>5, <2>2, <2>5, <2>6, <2>7, SMT
<1>7. CASE m # 12
  <2>1. PICK o \in 1..12 : o = m + 1
    BY <1>7, SMT
  <2>2. PICK q \in Int : q = k + 1 /\ q = y * 12 + o - 1
    BY <1>1, <2>1, SMT
  <2>3. q \div 12 = y /\ (q % 12) + 1 = o
    BY <2>2, Counting, SMT
  <2>4. Start(q) = DayNumber(y, o, 1)
    BY <2>3, Zenon DEF Start
  <2>5. PICK after \in Nat : after = Before(o)
    BY SMT DEF Before
  <2>6. DayNumber(y, o, 1) = j + after + (IF o <= 2 THEN 0 ELSE l) + 1 - 1
    <3>1. DayNumber(y, o, 1) = Jan1(y) + Before(o) + (IF o <= 2 THEN 0 ELSE Leap(y)) + 1 - 1
      BY MonthStart, SMT
    <3> QED
      BY <1>2, <2>5, <3>1, Zenon
  <2>7. size = IF m = 2 THEN 28 + l ELSE after - before
    <3>1. DaysIn(y, m) = IF m = 2 THEN 28 + Leap(y) ELSE IF m = 12 THEN 31 ELSE Before(m + 1) - Before(m)
      BY MonthLength, Zenon
    <3> QED
      BY <1>2, <1>3, <1>5, <1>7, <2>1, <2>5, <3>1, Zenon
  <2>8. m = 2 => after = 59 /\ before = 31
    BY <1>3, <2>1, <2>5, MonthTable, SMT
  <2>9. Start(q) = Start(k) + size
    BY <1>4, <2>1, <2>4, <2>6, <2>7, <2>8, SMT
  <2> QED
    BY <1>1, <1>4, <1>5, <2>2, <2>9, SMT
<1> QED
  BY <1>6, <1>7, Zenon

\* A later month begins after an earlier one has ended.
LEMMA MonthsFollow ==
    ASSUME NEW k \in Int, NEW o \in Int, k < o
    PROVE  Start(k) + Size(k) <= Start(o)
<1>1. PICK y \in Int, m \in 1..12 : /\ k = y * 12 + m - 1
                                    /\ Start(k) = DayNumber(y, m, 1) /\ Size(k) = DaysIn(y, m)
  BY CountedMonth, Zenon
<1>2. PICK z \in Int, p \in 1..12 : /\ o = z * 12 + p - 1
                                    /\ Start(o) = DayNumber(z, p, 1) /\ Size(o) = DaysIn(z, p)
  BY CountedMonth, Zenon
<1>3. y < z \/ (y = z /\ m < p)
  BY <1>1, <1>2, SMT
<1>4. CASE y = z /\ m < p
  BY <1>1, <1>2, <1>4, MonthsAscend, Zenon
<1>5. CASE y < z
  <2>1. PICK j \in Int, l \in {0, 1} : j = Jan1(y) /\ l = Leap(y) /\ Jan1(y + 1) = j + 365 + l
    BY YearSpan, SMT
  <2>2. PICK i \in Int, r \in {0, 1} : i = Jan1(z) /\ r = Leap(z)
    BY YearSpan, SMT
  <2>3. j + 365 + l <= i
    <3>1. PICK w \in Int : w = y + 1 /\ w <= z
      BY <1>5, SMT
    <3>2. Jan1(w) <= Jan1(z)
      BY <3>1, YearsAscend, Zenon
    <3>3. Jan1(w) = j + 365 + l
      BY <2>1, <3>1, Zenon
    <3> QED
      BY <2>2, <3>2, <3>3, Zenon
  <2>4. PICK before \in Nat : before = Before(m)
    BY SMT DEF Before
  <2>5. DayNumber(y, m, 1) = j + before + (IF m <= 2 THEN 0 ELSE l) + 1 - 1
    <3>1. DayNumber(y, m, 1) = Jan1(y) + Before(m) + (IF m <= 2 THEN 0 ELSE Leap(y)) + 1 - 1
      BY MonthStart, SMT
    <3> QED
      BY <2>1, <2>4, <3>1, Zenon
  <2>6. PICK size \in 28..31 : size = DaysIn(y, m)
    BY MonthLength, SMT
  <2>7. before + (IF m <= 2 THEN 0 ELSE l) + size <= 365 + l
    <3>1. before <= 334 /\ (m <= 2 => before <= 31)
      BY <2>4, SMT DEF Before
    <3> QED
      BY <2>6, <3>1, SMT
  <2>8. PICK past \in Nat : past = Before(p)
    BY SMT DEF Before
  <2>9. DayNumber(z, p, 1) = i + past + (IF p <= 2 THEN 0 ELSE r) + 1 - 1
    <3>1. DayNumber(z, p, 1) = Jan1(z) + Before(p) + (IF p <= 2 THEN 0 ELSE Leap(z)) + 1 - 1
      BY MonthStart, SMT
    <3> QED
      BY <2>2, <2>8, <3>1, Zenon
  <2> QED
    BY <1>1, <1>2, <2>3, <2>5, <2>6, <2>7, <2>9, SMT
<1> QED
  BY <1>3, <1>4, <1>5, Zenon

\* A later day is in a later month, or later in the same month.
LEMMA DaysOrdered ==
    ASSUME NEW n \in Int, NEW p \in Int, n <= p
    PROVE  Index(n) < Index(p) \/ (Index(n) = Index(p) /\ DayOf(n) <= DayOf(p))
<1>1. PICK k \in Int, s \in Int, z \in 28..31, d \in 1..31 :
          k = Index(n) /\ s = Start(k) /\ z = Size(k) /\ d = DayOf(n) /\ d <= z /\ n = s + d - 1
  BY DayIndexed
<1>2. PICK o \in Int, t \in Int, y \in 28..31, e \in 1..31 :
          o = Index(p) /\ t = Start(o) /\ y = Size(o) /\ e = DayOf(p) /\ e <= y /\ p = t + e - 1
  BY DayIndexed
<1>3. ~(o < k)
  <2>1. SUFFICES ASSUME o < k PROVE t + y <= s
    BY <1>1, <1>2, SMT
  <2> QED
    BY <1>1, <1>2, <2>1, MonthsFollow, Zenon
<1>4. o = k => d <= e
  <2>1. SUFFICES ASSUME o = k PROVE s = t
    BY <1>1, <1>2, SMT
  <2> QED
    BY <1>1, <1>2, <2>1, Zenon
<1> QED
  BY <1>1, <1>2, <1>3, <1>4, SMT

\* The day of a date in a month any number of months away, clamped to its end.
LEMMA MonthsAway ==
    ASSUME NEW n \in Int, NEW months \in Int,
           NEW k \in Int, k = Index(n) + months,
           NEW s \in Int, s = Start(k), NEW z \in 28..31, z = Size(k),
           NEW d \in 1..31, d = DayOf(n)
    PROVE  AddMonths(n, months) = s + (IF d > z THEN z ELSE d) - 1
<1>1. PICK y \in Int, m \in 1..12 : y = k \div 12 /\ m = (k % 12) + 1 /\ m = k - y * 12 + 1
  BY SMT
<1>2. PICK e \in Int : e = IF d > z THEN z ELSE d
  BY SMT
<1>3. z = DaysIn(y, m)
  BY <1>1, Zenon DEF Size
<1>4. AddMonths(n, months) = DayNumber(y, m, e)
  <2>1. YearOf(n) * 12 + MonthOf(n) - 1 + months = k
    BY Zenon DEF Index
  <2>2. AddMonths(n, months) = DayNumber(k \div 12, k - (k \div 12) * 12 + 1,
            IF DayOf(n) > DaysIn(k \div 12, k - (k \div 12) * 12 + 1)
            THEN DaysIn(k \div 12, k - (k \div 12) * 12 + 1) ELSE DayOf(n))
    BY <2>1, Zenon DEF AddMonths
  <2> QED
    BY <1>1, <1>2, <1>3, <2>2, Zenon
<1>5. s = DayNumber(y, m, 1)
  BY <1>1, Zenon DEF Start
<1>6. PICK j \in Int, l \in {0, 1} : j = Jan1(y) /\ l = Leap(y)
  BY YearSpan, SMT
<1>7. PICK before \in Nat : before = Before(m)
  BY SMT DEF Before
<1>8. PICK w \in Int : DayNumber(y, m, 1) = w + 1 - 1 /\ DayNumber(y, m, e) = w + e - 1
  <2>1. PICK w \in Int : w = j + before + (IF m <= 2 THEN 0 ELSE l)
    BY SMT
  <2>2. \A x \in Int : DayNumber(y, m, x) = Jan1(y) + Before(m) + (IF m <= 2 THEN 0 ELSE Leap(y)) + x - 1
    BY MonthStart, Zenon
  <2>3. \A x \in Int : DayNumber(y, m, x) = w + x - 1
    BY <1>6, <1>7, <2>1, <2>2, Zenon
  <2> QED
    BY <2>3, SMT
<1>9. DayNumber(y, m, e) = s + e - 1
  BY <1>5, <1>8, SMT
<1> QED
  BY <1>2, <1>4, <1>9, Zenon

\* A date packed: 32 is more than the days of a month.
LEMMA PackedIs ==
    ASSUME NEW n \in Int
    PROVE  Packed(n) = Index(n) * 32 + DayOf(n)
BY Zenon DEF Packed, Index

\* Going forward, the whole months between two dates end at most a month before the second.
LEMMA MonthsForward ==
    ASSUME NEW n \in Int, NEW p \in Int, n <= p
    PROVE  \E months \in Int, mid \in Int :
               /\ months = Trunc(Packed(p) - Packed(n), 32) /\ mid = AddMonths(n, months)
               /\ 0 <= months /\ mid <= p /\ p - mid < 31
<1>1. PICK k \in Int, s \in Int, z \in 28..31, d \in 1..31 :
          k = Index(n) /\ s = Start(k) /\ z = Size(k) /\ d = DayOf(n) /\ d <= z /\ n = s + d - 1
  BY DayIndexed
<1>2. PICK o \in Int, t \in Int, y \in 28..31, e \in 1..31 :
          o = Index(p) /\ t = Start(o) /\ y = Size(o) /\ e = DayOf(p) /\ e <= y /\ p = t + e - 1
  BY DayIndexed
<1>3. k < o \/ (k = o /\ d <= e)
  BY <1>1, <1>2, DaysOrdered, Zenon
<1>4. Packed(n) = k * 32 + d /\ Packed(p) = o * 32 + e
  BY <1>1, <1>2, PackedIs
<1>5. PICK months \in Int : (e < d /\ months = o - k - 1) \/ (d <= e /\ months = o - k)
  BY SMT
<1>6. 0 <= months
  BY <1>3, <1>5, SMT
<1>7. Trunc(Packed(p) - Packed(n), 32) = months
  <2>1. PICK diff \in Int : diff = (o * 32 + e) - (k * 32 + d)
    BY SMT
  <2>2. diff = 32 * (o - k) + (e - d)
    BY <2>1, SMT
  <2>3. diff >= 0 /\ diff \div 32 = months
    BY <1>3, <1>5, <2>2, SMT
  <2>4. Trunc(diff, 32) = diff \div 32
    BY <2>3, SMT DEF Trunc
  <2> QED
    BY <1>4, <2>1, <2>3, <2>4, Zenon
<1>8. CASE e >= d
  <2>1. o = k + months
    BY <1>5, <1>8, SMT
  <2>2. AddMonths(n, months) = t + (IF d > y THEN y ELSE d) - 1
    BY <1>1, <1>2, <2>1, MonthsAway
  <2>3. ~(d > y)
    BY <1>2, <1>8, SMT
  <2>4. PICK mid \in Int : mid = AddMonths(n, months) /\ mid = t + d - 1
    BY <2>2, <2>3, SMT
  <2>5. mid <= p /\ p - mid < 31
    BY <1>2, <1>8, <2>4, SMT
  <2> QED
    BY <1>6, <1>7, <2>4, <2>5, Zenon
<1>9. CASE e < d
  <2>1. PICK q \in Int : q = k + months /\ o = q + 1
    BY <1>5, <1>9, SMT
  <2>2. PICK u \in Int, x \in 28..31 : u = Start(q) /\ x = Size(q) /\ t = u + x
    <3>1. Start(q) \in Int /\ Size(q) \in 28..31 /\ Start(q + 1) = Start(q) + Size(q)
      BY MonthSpan, Zenon
    <3> QED
      BY <1>2, <2>1, <3>1, Zenon
  <2>3. AddMonths(n, months) = u + (IF d > x THEN x ELSE d) - 1
    <3>1. q = Index(n) + months
      BY <1>1, <2>1, Zenon
    <3>2. u = Start(q) /\ x = Size(q) /\ d = DayOf(n)
      BY <1>1, <2>2, Zenon
    <3> QED
      BY <3>1, <3>2, MonthsAway
  <2>4. PICK mid \in Int : mid = AddMonths(n, months) /\ mid = u + (IF d > x THEN x ELSE d) - 1
    BY <2>3, SMT
  <2>5. mid <= p /\ p - mid < 31
    BY <1>2, <1>9, <2>2, <2>4, SMT
  <2> QED
    BY <1>6, <1>7, <2>4, <2>5, Zenon
<1> QED
  BY <1>8, <1>9, SMT

\* Going back, they end at most a month after it.
LEMMA MonthsBack ==
    ASSUME NEW n \in Int, NEW p \in Int, p <= n
    PROVE  \E months \in Int, mid \in Int :
               /\ months = Trunc(Packed(p) - Packed(n), 32) /\ mid = AddMonths(n, months)
               /\ months <= 0 /\ p <= mid /\ mid - p < 31
<1>1. PICK k \in Int, s \in Int, z \in 28..31, d \in 1..31 :
          k = Index(n) /\ s = Start(k) /\ z = Size(k) /\ d = DayOf(n) /\ d <= z /\ n = s + d - 1
  BY DayIndexed
<1>2. PICK o \in Int, t \in Int, y \in 28..31, e \in 1..31 :
          o = Index(p) /\ t = Start(o) /\ y = Size(o) /\ e = DayOf(p) /\ e <= y /\ p = t + e - 1
  BY DayIndexed
<1>3. o < k \/ (k = o /\ e <= d)
  BY <1>1, <1>2, DaysOrdered, Zenon
<1>4. Packed(n) = k * 32 + d /\ Packed(p) = o * 32 + e
  BY <1>1, <1>2, PackedIs
<1>5. PICK months \in Int : (d < e /\ months = o - k + 1) \/ (e <= d /\ months = o - k)
  BY SMT
<1>6. months <= 0
  BY <1>3, <1>5, SMT
<1>7. Trunc(Packed(p) - Packed(n), 32) = months
  <2>1. PICK diff \in Int : diff = (o * 32 + e) - (k * 32 + d)
    BY SMT
  <2>2. PICK back \in Int : back = -diff /\ back = 32 * (k - o) + (d - e)
    BY <2>1, SMT
  <2>3. back >= 0 /\ back \div 32 = -months
    BY <1>3, <1>5, <2>2, SMT
  <2>4. Trunc(diff, 32) = -(back \div 32)
    BY <2>2, <2>3, SMT DEF Trunc
  <2>5. Trunc(diff, 32) = months
    BY <2>3, <2>4, SMT
  <2> QED
    BY <1>4, <2>1, <2>5, Zenon
<1>8. CASE d >= e
  <2>1. o = k + months
    BY <1>5, <1>8, SMT
  <2>2. AddMonths(n, months) = t + (IF d > y THEN y ELSE d) - 1
    BY <1>1, <1>2, <2>1, MonthsAway
  <2>3. PICK mid \in Int : mid = AddMonths(n, months) /\ mid = t + (IF d > y THEN y ELSE d) - 1
    BY <2>2, SMT
  <2>4. p <= mid /\ mid - p < 31
    BY <1>2, <1>8, <2>3, SMT
  <2> QED
    BY <1>6, <1>7, <2>3, <2>4, Zenon
<1>9. CASE d < e
  <2>1. PICK q \in Int : q = k + months /\ q = o + 1
    BY <1>5, <1>9, SMT
  <2>2. PICK u \in Int, x \in 28..31 : u = Start(q) /\ x = Size(q) /\ u = t + y
    <3>1. Start(q) \in Int /\ Size(q) \in 28..31
      BY MonthSpan, Zenon
    <3>2. Start(o + 1) = Start(o) + Size(o)
      BY MonthSpan, Zenon
    <3> QED
      BY <1>2, <2>1, <3>1, <3>2, Zenon
  <2>3. AddMonths(n, months) = u + (IF d > x THEN x ELSE d) - 1
    <3>1. q = Index(n) + months
      BY <1>1, <2>1, Zenon
    <3>2. u = Start(q) /\ x = Size(q) /\ d = DayOf(n)
      BY <1>1, <2>2, Zenon
    <3> QED
      BY <3>1, <3>2, MonthsAway
  <2>4. PICK mid \in Int : mid = AddMonths(n, months) /\ mid = u + (IF d > x THEN x ELSE d) - 1
    BY <2>3, SMT
  <2>5. p <= mid /\ mid - p < 31
    BY <1>2, <1>9, <2>2, <2>4, SMT
  <2> QED
    BY <1>6, <1>7, <2>4, <2>5, Zenon
<1> QED
  BY <1>8, <1>9, SMT

-----------------------------------------------------------------------------
(* Durations.                                                              *)

\* Adding months to a date gives a date.
LEMMA MonthsAdded ==
    ASSUME NEW n \in Int, NEW months \in Int
    PROVE  AddMonths(n, months) \in Int
<1>1. PICK y \in Int, m \in 1..12 : y = YearOf(n) /\ m = MonthOf(n)
  BY YearIsFound, MonthChosen, SMT
<1>2. PICK total \in Int : total = YearOf(n) * 12 + MonthOf(n) - 1 + months
  BY <1>1, SMT
<1>3. PICK z \in Int : z = total \div 12
  BY SMT
<1>4. PICK k \in 1..12 : k = total - z * 12 + 1
  BY <1>3, SMT
<1>5. DayOf(n) \in Int
  <2>1. DaysIn(y, m) \in 28..31
    BY MonthLength, SMT
  <2> QED
    BY <1>1, <2>1, MonthIsFound, SMT
<1>6. DaysIn(z, k) \in 28..31
  BY MonthLength, SMT
<1>7. PICK d \in Int : d = IF DayOf(n) > DaysIn(z, k) THEN DaysIn(z, k) ELSE DayOf(n)
  BY <1>5, <1>6, SMT
<1>8. AddMonths(n, months) = DayNumber(z, k, d)
  BY <1>2, <1>3, <1>4, <1>7, SMT DEF AddMonths
<1>9. DayNumber(z, k, d) = Jan1(z) + Before(k) + (IF k <= 2 THEN 0 ELSE Leap(z)) + d - 1
  BY MonthStart, SMT
<1>10. Jan1(z) \in Int /\ Leap(z) \in {0, 1} /\ Before(k) \in Int
  BY NewYear, SMT DEF Before
<1> QED
  BY <1>8, <1>9, <1>10, SMT

\* A date packed into months and days is a number.
LEMMA DayPacked ==
    ASSUME NEW n \in Int
    PROVE  Packed(n) \in Int
<1>1. PICK y \in Int, m \in 1..12 : y = YearOf(n) /\ m = MonthOf(n)
  BY YearIsFound, MonthChosen, SMT
<1>2. DaysIn(y, m) \in 28..31
  BY MonthLength, SMT
<1>3. DayOf(n) \in Int
  BY <1>1, <1>2, MonthIsFound, SMT
<1> QED
  BY <1>1, <1>3, SMT DEF Packed

\* Whole days and a time of day, taken apart again.
LEMMA ClockCarries ==
    ASSUME NEW x \in Int, NEW c \in 0..(Ticks - 1)
    PROVE  (x * Ticks + c) \div Ticks = x /\ (x * Ticks + c) % Ticks = c
<1>1. Ticks \in Nat /\ Ticks > 0
  BY TicksAssumption, SMT
<1> QED
  BY <1>1, SMTT(60)

\* The day adjustEnd goes to, from day x at c to day y at f.
Adjusted(x, c, y, f) == IF y > x /\ f < c THEN y - 1 ELSE IF y < x /\ f > c THEN y + 1 ELSE y

\* The steps of betweenLocal, from day p at c to day q at f.
Steps(p, c, q, f, e, months, mid, end) ==
    /\ e = Adjusted(p, c, q, f)
    /\ months = Trunc(Packed(e) - Packed(p), 32) /\ mid = AddMonths(p, months)
    /\ end = Adjusted(mid, c, q, f)
    /\ Between(Moment(p, c), Moment(q, f)) = Duration(months, end - mid, (q - end) * Ticks + f - c)

\* What betweenLocal computes, of two days and two times of day.
LEMMA DifferenceIs ==
    ASSUME NEW p \in Int, NEW c \in 0..(Ticks - 1), NEW q \in Int, NEW f \in 0..(Ticks - 1)
    PROVE  \E e \in Int, months \in Int, mid \in Int, end \in Int :
               Steps(p, c, q, f, e, months, mid, end)
<1> DEFINE a == Moment(p, c)
           b == Moment(q, f)
<1>1. a.day = p /\ a.clock = c /\ b.day = q /\ b.clock = f
  BY DEF Moment
<1>2. PICK e \in Int : e = Adjusted(p, c, q, f)
  BY SMT DEF Adjusted
<1>3. e = AdjustEnd(a, b)
  <2> HIDE DEF a, b
  <2> QED
    BY <1>1, <1>2, Zenon DEF AdjustEnd, Adjusted
<1>4. PICK months \in Int : months = Trunc(Packed(e) - Packed(p), 32)
  <2>1. Packed(e) \in Int /\ Packed(p) \in Int
    BY DayPacked, SMT
  <2> QED
    BY <2>1, SMT DEF Trunc
<1>5. months = WholeMonths(a, b)
  <2> HIDE DEF a, b
  <2> QED
    BY <1>1, <1>3, <1>4, Zenon DEF WholeMonths
<1>6. PICK mid \in Int : mid = AddMonths(p, months)
  BY MonthsAdded, SMT
<1> DEFINE m == Moment(mid, c)
<1>7. m.day = mid /\ m.clock = c
  BY DEF Moment
<1>8. PICK end \in Int : end = Adjusted(mid, c, q, f)
  BY SMT DEF Adjusted
<1>9. end = AdjustEnd(m, b)
  <2> HIDE DEF b, m
  <2> QED
    BY <1>1, <1>7, <1>8, Zenon DEF AdjustEnd, Adjusted
<1>10. Between(a, b) = Duration(months, end - mid, (q - mid - (end - mid)) * Ticks + f - c)
  <2>1. Between(a, b) =
            LET x == Moment(AddMonths(a.day, months), a.clock)
                days == WholeDays(x, b)
            IN  Duration(months, days, (b.day - x.day - days) * Ticks + b.clock - x.clock)
    <3> HIDE DEF a, b
    <3> QED
      BY <1>5, Zenon DEF Between
  <2>2. Moment(AddMonths(a.day, months), a.clock) = m
    BY <1>1, <1>6, Zenon
  <2>3. WholeDays(m, b) = end - mid
    <3> HIDE DEF b, m
    <3> QED
      BY <1>7, <1>9, Zenon DEF WholeDays
  <2> HIDE DEF a, b, m
  <2> QED
    BY <1>1, <1>7, <2>1, <2>2, <2>3, Zenon
<1>11. q - mid - (end - mid) = q - end
  BY SMT
<1>12. Between(a, b) = Duration(months, end - mid, (q - end) * Ticks + f - c)
  BY <1>10, <1>11, Zenon
<1>13. Steps(p, c, q, f, e, months, mid, end)
  BY <1>2, <1>4, <1>6, <1>8, <1>12, Zenon DEF Steps
<1> QED
  BY <1>13

\* A local date-time is a day and a time of it.
LEMMA MomentIs ==
    ASSUME NEW a \in [day : Int, clock : 0..(Ticks - 1)]
    PROVE  \E p \in Int, c \in 0..(Ticks - 1) : a = Moment(p, c) /\ a.day = p /\ a.clock = c
BY DEF Moment

\* betweenLocal leaves nothing over: the difference of two date-times added to the
\* first gives the second, and between equal times of day so it does as a date.
THEOREM DifferenceAddsBack ==
    ASSUME NEW a \in [day : Int, clock : 0..(Ticks - 1)], NEW b \in [day : Int, clock : 0..(Ticks - 1)]
    PROVE  AddsUp(a, b)
<1>1. PICK p \in Int, c \in 0..(Ticks - 1) : a = Moment(p, c) /\ a.day = p /\ a.clock = c
  BY MomentIs
<1>2. PICK q \in Int, f \in 0..(Ticks - 1) : b = Moment(q, f) /\ b.day = q /\ b.clock = f
  BY MomentIs
<1>3. PICK e \in Int, months \in Int, mid \in Int, end \in Int : Steps(p, c, q, f, e, months, mid, end)
  BY DifferenceIs
<1>4. Ticks \in Nat /\ Ticks > 0
  BY TicksAssumption, SMT
<1>5. PICK x \in Int : x = q - end
  BY SMT
<1>6. PICK w \in Int : w = x * Ticks
  BY <1>4, SMT
<1>7. PICK ticks \in Int : ticks = w + f - c
  BY <1>4, SMT
<1> DEFINE d == Between(a, b)
<1>8. d = Duration(months, end - mid, ticks)
  BY <1>1, <1>2, <1>3, <1>5, <1>6, <1>7, Zenon DEF Steps
<1> HIDE DEF d
<1>9. d.months = months /\ d.days = end - mid /\ d.ticks = ticks
  BY <1>8 DEF Duration
<1>10. Shift(a, d) = b
  <2>1. (w + f) \div Ticks = x /\ (w + f) % Ticks = f
    BY <1>6, ClockCarries, SMT
  <2>2. c + ticks = w + f
    BY <1>4, <1>7, SMT
  <2>3. mid + (end - mid) + x = q
    BY <1>5, SMT
  <2>4. Shift(a, d) = Moment(mid + (end - mid) + (c + ticks) \div Ticks, (c + ticks) % Ticks)
    BY <1>1, <1>3, <1>9, Zenon DEF Shift, Steps
  <2> QED
    BY <1>2, <2>1, <2>2, <2>3, <2>4, Zenon
<1>11. ASSUME a.clock = b.clock PROVE ShiftDate(a.day, d) = b.day
  <2>1. c = f
    BY <1>1, <1>2, <1>11, Zenon
  <2>2. end = q /\ x = 0
    BY <1>3, <1>4, <1>5, <2>1, SMT DEF Steps, Adjusted
  <2>3. ticks = 0
    BY <1>4, <1>6, <1>7, <2>1, <2>2, SMT
  <2>4. Trunc(ticks, Ticks) = 0
    BY <1>4, <2>3, SMT DEF Trunc
  <2>5. ShiftDate(a.day, d) = mid + (end - mid) + 0
    BY <1>1, <1>3, <1>9, <2>4, Zenon DEF ShiftDate, Steps
  <2> QED
    BY <1>2, <2>2, <2>5, SMT
<1> QED
  BY <1>10, <1>11, Zenon DEF AddsUp, d

\* Adding the whole months between two date-times to the first does not pass the
\* second, and comes within a month of it; what is left is whole days, and then less
\* than a day.
THEOREM DifferenceOneWay ==
    ASSUME NEW a \in [day : Int, clock : 0..(Ticks - 1)], NEW b \in [day : Int, clock : 0..(Ticks - 1)]
    PROVE  OneWay(a, b)
<1>1. PICK p \in Int, c \in 0..(Ticks - 1) : a = Moment(p, c) /\ a.day = p /\ a.clock = c
  BY MomentIs
<1>2. PICK q \in Int, f \in 0..(Ticks - 1) : b = Moment(q, f) /\ b.day = q /\ b.clock = f
  BY MomentIs
<1>3. PICK e \in Int, months \in Int, mid \in Int, end \in Int : Steps(p, c, q, f, e, months, mid, end)
  BY DifferenceIs
<1>4. Ticks \in Nat /\ Ticks > 0
  BY TicksAssumption, SMT
<1>5. PICK days \in Int, ticks \in Int : days = end - mid /\ ticks = (q - end) * Ticks + f - c
  BY <1>4, SMT
<1> DEFINE d == Between(a, b)
<1>6. d = Duration(months, days, ticks)
  BY <1>1, <1>2, <1>3, <1>5, Zenon DEF Steps
<1> HIDE DEF d
<1>7. d.months = months /\ d.days = days /\ d.ticks = ticks
  BY <1>6 DEF Duration
<1>8. ASSUME p <= e PROVE 0 <= months /\ mid <= e /\ e - mid < 31
  <2>1. PICK ms \in Int, m \in Int : /\ ms = Trunc(Packed(e) - Packed(p), 32) /\ m = AddMonths(p, ms)
                                     /\ 0 <= ms /\ m <= e /\ e - m < 31
    BY <1>8, MonthsForward, Zenon
  <2> QED
    BY <1>3, <2>1, Zenon DEF Steps
<1>9. ASSUME e <= p PROVE months <= 0 /\ e <= mid /\ mid - e < 31
  <2>1. PICK ms \in Int, m \in Int : /\ ms = Trunc(Packed(e) - Packed(p), 32) /\ m = AddMonths(p, ms)
                                     /\ ms <= 0 /\ e <= m /\ m - e < 31
    BY <1>9, MonthsBack, Zenon
  <2> QED
    BY <1>3, <2>1, Zenon DEF Steps
<1>10. /\ q - end = 1 => ticks = Ticks + f - c
       /\ q - end = 0 => ticks = f - c
       /\ q - end = -1 => ticks = f - c - Ticks
  BY <1>4, <1>5, SMT
<1>11. e = Adjusted(p, c, q, f) /\ end = Adjusted(mid, c, q, f)
  BY <1>3 DEF Steps
<1>12. CASE q > p
  <2>1. p <= e /\ end = e
    BY <1>11, <1>4, <1>8, <1>12, SMT DEF Adjusted
  <2>2. 0 <= months /\ 0 <= days /\ days < 31
    BY <1>5, <1>8, <2>1, SMT
  <2>3. 0 <= ticks /\ ticks < Ticks
    <3>1. CASE f < c
      BY <1>11, <1>4, <1>10, <1>12, <2>1, <3>1, SMT DEF Adjusted
    <3>2. CASE f >= c
      BY <1>11, <1>4, <1>10, <1>12, <2>1, <3>2, SMT DEF Adjusted
    <3> QED
      BY <3>1, <3>2, <1>4, SMT
  <2> QED
    BY <1>4, <1>7, <2>2, <2>3, SMT DEF OneWay, d
<1>13. CASE q < p
  <2>1. e <= p /\ end = e
    BY <1>11, <1>4, <1>9, <1>13, SMT DEF Adjusted
  <2>2. months <= 0 /\ days <= 0 /\ -31 < days
    BY <1>5, <1>9, <2>1, SMT
  <2>3. ticks <= 0 /\ -Ticks < ticks
    <3>1. CASE f > c
      BY <1>11, <1>4, <1>10, <1>13, <2>1, <3>1, SMT DEF Adjusted
    <3>2. CASE f <= c
      BY <1>11, <1>4, <1>10, <1>13, <2>1, <3>2, SMT DEF Adjusted
    <3> QED
      BY <3>1, <3>2, <1>4, SMT
  <2> QED
    BY <1>4, <1>7, <2>2, <2>3, SMT DEF OneWay, d
<1>14. CASE q = p
  <2>1. e = p
    BY <1>11, <1>14, SMT DEF Adjusted
  <2>2. months = 0 /\ mid = p
    BY <1>8, <1>9, <2>1, SMT
  <2>3. end = q /\ days = 0
    BY <1>11, <1>5, <1>14, <2>2, SMT DEF Adjusted
  <2>4. ticks = f - c
    BY <1>10, <2>3, SMT
  <2> QED
    BY <1>4, <1>7, <2>2, <2>3, <2>4, SMT DEF OneWay, d
<1> QED
  BY <1>12, <1>13, <1>14, SMT

-----------------------------------------------------------------------------
(* The two questions of Calendar.                                          *)

\* Every day, of any year, is the day its week, ordinal and quarter say, and starts a
\* unit or truncates as the day before it.
THEOREM EveryDayRoundTrips == CalendarSpec => []CalendarRoundTrips
<1> DEFINE Dated == task.algo = "date" => task.n \in Int
<1>1. CalendarInit => Dated
  BY DEF CalendarInit
<1>2. Dated /\ [CalendarNext]_task => Dated'
  BY CalendarAssumption DEF CalendarNext, Date, Elapsed
<1>3. Dated => CalendarRoundTrips
  <2>1. ASSUME NEW n \in Int
        PROVE  TruncateDate(n, "weekyear") + (Week(n) - 1) * 7 + WeekDay(n) - 1 = n
    <3>1. TruncateDate(n, "weekyear") = IsoWeek1Monday(WeekYear(n))
      BY DEF TruncateDate
    <3> QED
      BY <3>1, WeekReadsBack, Zenon
  <2> QED
    BY <2>1, DatesReadBack, TruncationStepsBack, Zenon DEF CalendarRoundTrips
<1> QED
  BY <1>1, <1>2, <1>3, PTL DEF CalendarSpec

\* Whatever two local date-times a statement asks duration.between for.
THEOREM DurationsAddUp == CalendarSpec => BetweenAddsUp
<1>1. ASSUME CalendarNext PROVE task'.algo = "between" => AddsUp(task'.a, task'.b) /\ OneWay(task'.a, task'.b)
  <2>1. CASE Date
    BY <2>1 DEF Date
  <2>2. CASE Elapsed
    <3>1. PICK a \in Moments, b \in Moments : task' = [algo |-> "between", a |-> a, b |-> b]
      BY <2>2 DEF Elapsed
    <3>2. a \in [day : Int, clock : 0..(Ticks - 1)] /\ b \in [day : Int, clock : 0..(Ticks - 1)]
      BY CalendarAssumption
    <3>3. task'.a = a /\ task'.b = b
      BY <3>1
    <3> QED
      BY <3>2, <3>3, DifferenceAddsBack, DifferenceOneWay, Zenon
  <2> QED
    BY <1>1, <2>1, <2>2 DEF CalendarNext
<1> QED
  BY <1>1, PTL DEF CalendarSpec, BetweenAddsUp
=============================================================================
