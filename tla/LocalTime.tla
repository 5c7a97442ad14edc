----------------------------- MODULE LocalTime ------------------------------
(***************************************************************************)
(* Local dates: of which calendar day an instant is part in a time zone,   *)
(* which instant a wall clock means (attendance/local-date.ts), whose zone *)
(* applies (common/timezone.ts), and the windows of days the dashboards    *)
(* chart (dashboard/date-windows.ts).  Instants and offsets are counted in *)
(* hours, days of DayLength hours; a zone has one offset before and one    *)
(* after the instant its clocks change, as Intl tells the code.            *)
(***************************************************************************)
EXTENDS Integers, Sequences

CONSTANTS
    DayLength,   \* hours of a day
    Unset        \* an empty column

ASSUME LocalTimeAssumption == DayLength \in Nat \ {0}

Fixed(offset) == [before |-> offset, after |-> offset, jump |-> 0]

TzOffset(at, tz) == IF at < tz.jump THEN tz.before ELSE tz.after

LocalDateInTimezone(at, tz) == (at + TzOffset(at, tz)) \div DayLength
LocalHoursInTimezone(at, tz) == (at + TzOffset(at, tz)) % DayLength

(* The naive guess is corrected twice: by the offset there, then by the    *)
(* offset where that leads.                                                *)
LocalWallTimeToUtc(tz, day, hour) ==
    LET base  == day * DayLength + hour
        guess == base - TzOffset(base, tz)
    IN  base - TzOffset(guess, tz)

ResolveEmployeeTimezone(employee) ==
    IF employee.override # Unset THEN employee.override
    ELSE IF employee.location # Unset THEN employee.location
    ELSE IF employee.organization # Unset THEN employee.organization
    ELSE Fixed(0)

(* Dates are stored and compared as midnights UTC: whole days here.        *)
DaysAgoWindow(days, today) == [from |-> today - (days - 1), to |-> today]

(* A map from days to values, filled up with zero, as the sequence the     *)
(* chart draws.                                                            *)
DenseDailySeries(rows, window, zero) ==
    [column \in 1 .. window.to - window.from + 1 |->
        LET day == window.from + column - 1
        IN  [date |-> day, value |-> IF day \in DOMAIN rows THEN rows[day] ELSE zero]]

(* The day a check-in is filed under (AttendanceService.checkIn), and what *)
(* the employee dashboard makes of the rows it reads: today's record and   *)
(* the columns of the last week.                                           *)
CheckInDate(at, employee) == LocalDateInTimezone(at, ResolveEmployeeTimezone(employee))

\* mutant: the dashboard asks for today's date in UTC
DashboardTodayUtc(at, employee) == at \div DayLength

DashboardToday(at, employee) == LocalDateInTimezone(at, ResolveEmployeeTimezone(employee))

AttendanceSeries(rows, days, at, employee) ==
    LET window == DaysAgoWindow(days, DashboardToday(at, employee))
        inside == {day \in DOMAIN rows : window.from <= day /\ day <= window.to}
    IN  DenseDailySeries([day \in inside |-> rows[day]], window, "absent")
=============================================================================
