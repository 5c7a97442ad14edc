----------------------------- MODULE Dashboard ------------------------------
(***************************************************************************)
(* The figures of the admin dashboard (dashboard/dashboard.service.ts):    *)
(* counts of the organisation's rows, made independently of each other     *)
(* from one moment's tables.  staff maps employees to rows, requests and   *)
(* records are sets of rows, days are whole days of LocalTime.             *)
(***************************************************************************)
EXTENDS LocalTime, FiniteSets, FiniteSetsExt

(* groupBy: only groups that have a row. *)
GroupBy(rows, column) ==
    [group \in {row[column] : row \in rows} |-> Cardinality({row \in rows : row[column] = group})]

(* A bucket of every status, zero where there is no group. *)
Bucket(statuses, groups) ==
    [s \in statuses |-> IF s \in DOMAIN groups THEN groups[s] ELSE 0]

BucketAttendance(groups)  == Bucket({"present", "absent", "on_leave"}, groups)
BucketLeaveStatus(groups) == Bucket({"pending", "approved", "rejected"}, groups)

(* The organisation's own day, in its zone or UTC. *)
AdminToday(at, organization) ==
    LocalDateInTimezone(at, IF organization = Unset THEN Fixed(0) ELSE organization)

-----------------------------------------------------------------------------
LiveRows(staff) == {staff[e] : e \in {x \in DOMAIN staff : staff[x].live}}

(* Rows are told apart by their employee. *)
TotalEmployees(staff)    == Cardinality(LiveRows(staff))
ActiveEmployees(staff)   == Cardinality({row \in LiveRows(staff) : row.status = "active"})
StatusDistribution(staff) == GroupBy(LiveRows(staff), "status")

\* mutant: the ones who left are counted in their departments
HeadcountOfAll(staff) == GroupBy(LiveRows(staff), "department")

HeadcountByDepartment(staff) ==
    GroupBy({row \in LiveRows(staff) : row.status # "offboarded"}, "department")

-----------------------------------------------------------------------------
OnLeaveToday(requests, today) ==
    Cardinality({r \in requests : r.status = "approved" /\ r.start <= today /\ today <= r.end})

AttendanceToday(records, today) ==
    BucketAttendance(GroupBy({r \in records : r.date = today}, "status"))

AttendanceTrend(records, days, today) ==
    LET window == DaysAgoWindow(days, today)
        inside == {r \in records : window.from <= r.date /\ r.date <= window.to}
        byDate == [date \in {r.date : r \in inside} |->
                      BucketAttendance(GroupBy({r \in inside : r.date = date}, "status"))]
    IN  DenseDailySeries(byDate, window, BucketAttendance(<< >>))

(* By when the request was made: an instant, against a midnight UTC. *)
Recent(requests, days, today) ==
    {r \in requests : r.created >= DaysAgoWindow(days, today).from * DayLength}

LeaveTrend(requests, days, today) ==
    BucketLeaveStatus(GroupBy(Recent(requests, days, today), "status"))

LeaveTypeDistribution(requests, days, today) ==
    GroupBy(Recent(requests, days, today), "type")
=============================================================================
