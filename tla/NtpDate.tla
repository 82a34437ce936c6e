------------------------------ MODULE NtpDate -------------------------------
(***************************************************************************)
(* NtpClass::date() of Ethernet/Ntp.cpp: year, month, day and time of day  *)
(* of a count of seconds since 1970, with years of 365.25 days.            *)
(* The count is an unsigned long in the code, 32 bits wide, and ends in    *)
(* 2106; TLC's integers end with 2037, and here it goes on, with a leap    *)
(* day in every fourth year.                                               *)
(***************************************************************************)
EXTENDS Integers, Sequences

SecondsPerDay == 86400
SecondsPerYear == 31557600      \* 365.25 days

\* daysPerMonth, from 0; the year is the one date() has come to.
DaysPerMonth(year, m) ==
  IF m = 1 /\ year % 4 = 0 THEN 29
  ELSE << 31, 28, 31, 30, 31, 30, 31, 31, 30, 31, 30, 31 >>[m + 1]

\* The loop over the months: what is left of the day, and the month it ends with.  There
\* are no more than 364 days, so it never passes the last month.
MonthLoop(year, day) ==
  LET loop[s \in [day : Nat, month : 0 .. 11]] ==
        IF s.month < 11 /\ s.day > DaysPerMonth(year, s.month)
        THEN loop[[day |-> s.day - DaysPerMonth(year, s.month), month |-> s.month + 1]]
        ELSE s
  IN loop[[day |-> day, month |-> 0]]

\* Mutant: leap days are not taken off.
date_NoLeapDays(t) ==
  LET y == t \div SecondsPerYear
      last == MonthLoop(1970 + y, (t \div SecondsPerDay + 1) % 365)
  IN [year |-> 1970 + y, month |-> last.month, day |-> last.day,
      hour |-> (t % 86400) \div 3600, minute |-> (t % 3600) \div 60, second |-> t % 60]

\* "*month++; // make it 1 based" moves the pointer and not the month.
date(t) ==
  LET y == t \div SecondsPerYear
      leapDays == y \div 4
      daysSinceEpoch == t \div SecondsPerDay - leapDays
      last == MonthLoop(1970 + y, (daysSinceEpoch + 1) % 365)
  IN [year |-> 1970 + y, month |-> last.month, day |-> last.day,
      hour |-> (t % 86400) \div 3600, minute |-> (t % 3600) \div 60, second |-> t % 60]

-----------------------------------------------------------------------------
(* The calendar, for years y after 1970, up to 2099. *)

Leap(y) == (1970 + y) % 4 = 0
FirstDay(y) == 365 * y + (y + 1) \div 4         \* 1 January
LengthOf(y) == IF Leap(y) THEN 366 ELSE 365

\* The first day of each month, from 0.
FirstOfMonth(y, m) ==
  << 0, 31, 59, 90, 120, 151, 181, 212, 243, 273, 304, 334 >>[m + 1]
    + IF m > 1 /\ Leap(y) THEN 1 ELSE 0

\* The last month that has begun by day d of year y, from 1, and the day in the month.
CalendarDate(y, d) ==
  LET begun == CHOOSE m \in 0 .. 11 :
                 /\ FirstOfMonth(y, m) <= d
                 /\ \A n \in m + 1 .. 11 : d < FirstOfMonth(y, n)
  IN [year |-> 1970 + y, month |-> begun + 1, day |-> d - FirstOfMonth(y, begun) + 1]

\* The days of year y, at midnight and a second before.
Moments(y, days) == { (FirstDay(y) + d) * SecondsPerDay + s : d \in days, s \in {0, 86399} }

\* Do date() and the calendar agree on year and day of the month, on all these days?
Agrees(y, days) ==
  \A t \in Moments(y, days) :
    LET calendar == CalendarDate(y, t \div SecondsPerDay - FirstDay(y))
        now == date(t)
    IN now.year = calendar.year /\ now.day = calendar.day

\* Do they on the month?
MonthAgrees(y, days) ==
  \A t \in Moments(y, days) :
    date(t).month = CalendarDate(y, t \div SecondsPerDay - FirstDay(y)).month
=============================================================================
