------------------------------ MODULE Calendar ------------------------------
(***************************************************************************)
(* Core/DateTime.h: the start and the end of the month, week and day of a     *)
(* moment, and moving a moment, by way of std::tm.  A moment is a count of     *)
(* milliseconds since 1970; the hours, minutes and seconds of a day are one     *)
(* number of seconds, and both units are scaled down.  Local time has a fixed   *)
(* offset to UTC (no daylight saving).                                       *)
(***************************************************************************)
EXTENDS Integers, Sequences

CONSTANTS
    SecondLength,   \* milliseconds of a second (1000)
    DaySeconds,     \* seconds of a day (86400)
    LastMonth       \* bound: months since January 1970, < 12 * 130

VARIABLE moment

Init == moment = 0

DayLength == DaySeconds * SecondLength

\* Days since 1970 of the first of a month, counted from January 1970 (tm_year and tm_mon
\* in one number, so that mktime's carry from one to the other is a sum).
FirstDay(mon) ==
    LET y == mon \div 12
        m == mon % 12
    IN  365 * y + (y + 1) \div 4
        + <<0, 31, 59, 90, 120, 151, 181, 212, 243, 273, 304, 334>>[m + 1]
        + (IF m > 1 /\ y % 4 = 2 THEN 1 ELSE 0)

LastMoment == DayLength * FirstDay(LastMonth) - 1

\* mktime: tm_mday may be outside the month.
TmToCount(tm) == SecondLength * (DaySeconds * (FirstDay(tm.mon) + tm.mday - 1) + tm.sec)

\* localtime_s.
CountToTm(count) ==
    LET day == count \div DayLength
        mon == CHOOSE m \in 0 .. LastMonth + 12 : FirstDay(m) <= day /\ day < FirstDay(m + 1)
    IN  [mon  |-> mon, mday |-> day - FirstDay(mon) + 1,
         sec  |-> (count % DayLength) \div SecondLength,
         wday |-> (day + 4) % 7]

-----------------------------------------------------------------------------
MidnightOf(count) == [CountToTm(count) EXCEPT !.sec = 0]
SundayOf(count)   == [MidnightOf(count) EXCEPT !.mday = @ - CountToTm(count).wday]

MutMonthEnd(count) == TmToCount([MidnightOf(count) EXCEPT !.mon = @ + 1]) - 1

MonthStart(count) == TmToCount([MidnightOf(count) EXCEPT !.mday = 1])
MonthEnd(count)   == TmToCount([MidnightOf(count) EXCEPT !.mday = 1, !.mon = @ + 1]) - 1
WeekStart(count)  == TmToCount(SundayOf(count))
WeekEnd(count)    == TmToCount([SundayOf(count) EXCEPT !.mday = @ + 7]) - 1
DayStart(count)   == TmToCount(MidnightOf(count))
DayEnd(count)     == TmToCount([MidnightOf(count) EXCEPT !.mday = @ + 1]) - 1

MoveMonth(count, n) ==
    TmToCount([CountToTm(count) EXCEPT !.mon = @ + n]) + (count % SecondLength)

MoveYear(count, n) == MoveMonth(count, 12 * n)

\* MoveWeak, MoveDay, MoveHour, MoveMinute, MoveSecond, MoveMillisecond
Units              == {7 * DayLength, DayLength, SecondLength, 1}
MoveBy(unit, count, n) == count + unit * n

To(count) == count \in 0 .. LastMoment /\ moment' = count

Next == \E n \in {-1, 1} :
    \/ \E unit \in Units : To(MoveBy(unit, moment, n))
    \/ moment >= DayLength * FirstDay(12) /\ (To(MoveMonth(moment, n)) \/ To(MoveYear(moment, n)))

Spec == Init /\ [][Next]_moment

-----------------------------------------------------------------------------
Tiles(First(_), Last(_)) ==
    LET next == Last(moment) + 1 IN
    /\ First(moment) <= moment /\ moment <= Last(moment)
    /\ First(Last(moment)) = First(moment)
    /\ First(next) = next

MovesBack(n) ==
    LET there == MoveMonth(moment, n) IN
    /\ MoveMonth(there, -n) = moment
    /\ CountToTm(there).mday = CountToTm(moment).mday
    /\ there % DayLength = moment % DayLength

\* Months, weeks and days cover the time line without a gap or an overlap, over leap
\* days and the ends of years; and a moment that is moved by months and back is where
\* it was, at the same day and time on the way, if the day is one that every month has.
DatesHold ==
    /\ Tiles(MonthStart, MonthEnd) /\ Tiles(WeekStart, WeekEnd) /\ Tiles(DayStart, DayEnd)
    /\ CountToTm(moment).mday <= 28 => \A n \in 1 .. 12 : MovesBack(n)
=============================================================================
