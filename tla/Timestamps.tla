----------------------------- MODULE Timestamps -----------------------------
(***************************************************************************)
(* type::Date, type::Time and util::Distance: the dates and times every    *)
(* other part sorts, compares and cuts sessions by.  A date is a record; a *)
(* time is the second of the day it stands for.                            *)
(***************************************************************************)
EXTENDS Integers

\* The dates CheckDate lets pass: the 31st of February is one of them.
Dates == [day : 1..31, month : 1..12, year : {y \in Nat : y >= 1970}]

IsLeap(y) == (y % 4 = 0 /\ y % 100 # 0) \/ y % 400 = 0

GetNumberOfDayInMonth(m, y) ==
    IF m = 2 THEN (IF IsLeap(y) THEN 29 ELSE 28)
    ELSE IF m \in {4, 6, 9, 11} THEN 30 ELSE 31

\* The dates of the calendar.
RealDates == {d \in Dates : d.day <= GetNumberOfDayInMonth(d.month, d.year)}

GetYesterdayDate(d) ==
    IF d.day > 1 THEN [d EXCEPT !.day = @ - 1]
    ELSE IF d.month > 1
         THEN [day |-> GetNumberOfDayInMonth(d.month - 1, d.year), month |-> d.month - 1, year |-> d.year]
         ELSE [day |-> GetNumberOfDayInMonth(12, d.year), month |-> 12, year |-> d.year - 1]

GetTomorrowDate(d) ==
    IF d.day # GetNumberOfDayInMonth(d.month, d.year) THEN [d EXCEPT !.day = @ + 1]
    ELSE IF d.month # 12
         THEN [day |-> 1, month |-> d.month + 1, year |-> d.year]
         ELSE [day |-> 1, month |-> 1, year |-> d.year + 1]

DateBefore(a, b) ==
    \/ a.year < b.year
    \/ a.year = b.year /\ a.month < b.month
    \/ a.year = b.year /\ a.month = b.month /\ a.day < b.day

-----------------------------------------------------------------------------
LastSecond == 23 * 3600 + 59 * 60 + 59
Times == 0..LastSecond

\* Both stop at the ends of the day.
TimeMinus(t, seconds) == IF t - seconds > 0 THEN t - seconds ELSE 0

TimePlus(t, seconds) ==
    IF seconds < LastSecond /\ t + seconds < LastSecond THEN t + seconds ELSE LastSecond

\* The distance has no direction.
Distance(s, t) == IF s <= t THEN t - s ELSE s - t
=============================================================================
