----------------------------- MODULE MCScreens ------------------------------
(* The pure rules, the forms, the pages and the seeds: each behaviour      *)
(* asks one question of the rules or moves one of the others, and leaves   *)
(* the rest at one of its first states.  A question is an initial state,   *)
(* nothing follows from it: each rule is asked all those of a small        *)
(* instance.                                                               *)
EXTENDS LeaveRules, Readers, Reach, LocalTime, Dashboard, Offers, Forms, CreatePages,
        SeedTables, SeedRecords, SeedDev, TLC

CONSTANTS
    LastDay,             \* requests of leave are for days 1 .. LastDay
    e1, e2, e3, e4       \* employees

VARIABLES
    rule,    \* which rule is asked
    asked    \* the question

ASSUME NoneAssumption == None \notin {e1, e2}

-----------------------------------------------------------------------------
(* Leave: every range, flag pair and set of holidays. *)

Days == 1 .. LastDay

UnitsAsked ==
    [start: Days, end: Days, halfStart: BOOLEAN, halfEnd: BOOLEAN, holidays: SUBSET Days]

(* The half days worked: mornings and afternoons of working days, less the *)
(* morning a half first day and the afternoon a half last day leave out.   *)
HalvesOff ==
    {h \in (asked.start .. asked.end) \X {"am", "pm"} :
        /\ h[1] \notin asked.holidays
        /\ ~(asked.halfStart /\ h = <<asked.start, "am">>)
        /\ ~(asked.halfEnd /\ asked.start < asked.end /\ h = <<asked.end, "pm">>)}

(* computeUnits counts exactly those half days, whatever the holidays.     *)
CountsHalves ==
    rule = "units" =>
        ComputeUnits(asked.start, asked.end, asked.halfStart, asked.halfEnd, asked.holidays)
            = Cardinality(HalvesOff)

-----------------------------------------------------------------------------
(* Readers: e1 has any row, e2 a plain one; one document is any, the other *)
(* goes to everybody.                                                      *)

Row(department, designation, location, type, e, status, live) ==
    [department |-> department, designation |-> designation, location |-> location,
     employment_type |-> type, specific_employees |-> e, status |-> status, live |-> live]

Rows == {Row(d, g, l, t, e1, s, live) :
            d \in {"d", None}, g \in {"g", None}, l \in {"l", None},
            t \in {"full_time", "intern"}, s \in {"active", "offboarded"}, live \in BOOLEAN}

Rules == {All} \union
    {[kind |-> r[1], value |-> r[2]] : r \in
        {<<"department", "d">>, <<"designation", "g">>, <<"location", "l">>,
         <<"employment_type", "full_time">>, <<"employment_type", "intern">>,
         <<"specific_employees", e1>>, <<"specific_employees", e2>>}}

Audiences == {{a, b} : a \in Rules, b \in Rules}

Document(forOne, subject, rules, required, state, acks) ==
    [personal |-> forOne, subject |-> subject, rules |-> rules, required |-> required,
     published |-> state # "draft", archived |-> state = "archived",
     deleted |-> state = "deleted", expired |-> state = "expired", acks |-> acks]

States == {"draft", "published", "archived", "deleted", "expired"}

AnyDocument ==
    {Document(FALSE, None, rules, required, state, acks) :
        rules \in Audiences, required \in BOOLEAN, state \in States, acks \in SUBSET {e1, e2}}
    \union
    {Document(TRUE, subject, {}, TRUE, state, acks) :
        subject \in {e1, e2}, state \in States, acks \in SUBSET {e1, e2}}

Handbook == Document(FALSE, None, {All}, TRUE, "published", {e2})

ReadersAsked == [row: Rows, doc: AnyDocument]

Staff ==
    [e \in {e1, e2} |-> IF e = e1 THEN asked.row
                                  ELSE Row("d", None, None, "full_time", e2, "active", TRUE)]

(* Who is told of a document, may list it and may download it is one set:  *)
(* the audience resolver, myDocuments and the download agree on every live *)
(* employee who is not offboarded, and so do the resolver and myFeed of    *)
(* announcements until they expire.  Rules reach nobody who is offboarded. *)
ReadersAgree ==
    rule = "readers" /\ Out(asked.doc) =>
        /\ ResolveEmployeeIds(asked.doc.rules, Staff) \subseteq Active(Staff)
        /\ \A e \in Active(Staff) :
            LET told     == e \in DocumentEmployeeIds(asked.doc, Staff)
                notified == e \in ResolveEmployeeIds(asked.doc.rules, Staff)
            IN  /\ told <=> asked.doc \in MyDocuments(e, {asked.doc}, Staff)
                /\ told <=> MayDownload(e, asked.doc, Staff)
                /\ ~asked.doc.expired =>
                       (notified <=> asked.doc \in MyFeed(e, {asked.doc}, Staff))

(* The admin dashboard's headline of missing signatures                    *)
(* (countPendingRequiredDocAcks) is the sum of what the employees see they *)
(* owe, but for personal documents whose subject left and is still counted; *)
(* and an announcement the employee dashboard counts as owed is in the feed *)
(* to be read, but for the expired ones it still counts.                   *)
TasksAddUp ==
    rule = "readers" =>
        LET docs  == {asked.doc, Handbook}
            owed(e) == Cardinality(MyOwedDocuments(e, docs, Staff))
            left  == {doc \in docs : /\ doc.personal /\ Out(doc) /\ doc.required
                                     /\ doc.subject \notin Active(Staff) \union doc.acks}
        IN  /\ PendingRequiredDocAcks(docs, Staff)
                 = Total([e \in Active(Staff) |-> owed(e)]) + Cardinality(left)
            /\ \A e \in Active(Staff) :
                 DashboardOwedNotices(e, docs, Staff) \ MyOwedNotices(e, docs, Staff)
                    \subseteq {n \in docs : n.expired}

-----------------------------------------------------------------------------
(* The admin dashboard: rows of two employees, their attendance of three   *)
(* days of which the last is today, and one request of leave each.         *)

Today == 2

StaffAsked ==
    [{e1, e2} -> [department: {"d", None}, status: {"active", "on_leave", "offboarded"}, live: BOOLEAN]]

RecordsAsked == [{e1, e2} \X (0 .. Today) -> {"present", "on_leave", None}]

RequestsAsked ==
    [{e1, e2} -> [start: 0 .. Today + 1, len: 1 .. 2, type: {"paid", "unpaid"},
                  status: {"pending", "approved"}, created: {0, DayLength, Today * DayLength + 1}]]

In(groups, g) == IF g \in DOMAIN groups THEN groups[g] ELSE 0

(* The admin dashboard's figures, counted by queries of their own, agree:  *)
(* the statuses add up to the headline and less the ones who left to the   *)
(* departments; today's attendance is the last column of the trend and the *)
(* trend loses no record; the types of leave asked for add up to the       *)
(* statuses, and who is on leave is who the approved requests say.         *)
FiguresAddUp ==
    /\ rule = "staff" =>
         LET crew  == [e \in {e1, e2} |->
                        [department |-> asked[e].department, status |-> asked[e].status,
                         live |-> asked[e].live, specific_employees |-> e]]
             of    == StatusDistribution(crew)
         IN  /\ Total(of) = TotalEmployees(crew) /\ In(of, "active") = ActiveEmployees(crew)
             /\ Total(HeadcountByDepartment(crew)) = TotalEmployees(crew) - In(of, "offboarded")
    /\ rule = "records" =>
         LET records == {[employee |-> key[1], date |-> key[2], status |-> asked[key]] :
                            key \in {k \in DOMAIN asked : asked[k] # None}}
             trend   == AttendanceTrend(records, Today, Today)
         IN  /\ trend[Len(trend)].value = AttendanceToday(records, Today)
             /\ Total([c \in DOMAIN trend |-> Total(trend[c].value)])
                  = Cardinality({r \in records : r.date > 0})
    /\ rule = "requests" =>
         LET requests == {[employee |-> e, start |-> asked[e].start,
                          end |-> asked[e].start + asked[e].len - 1, type |-> asked[e].type,
                          status |-> asked[e].status, created |-> asked[e].created] : e \in {e1, e2}}
         IN  /\ Total(LeaveTypeDistribution(requests, 2, Today)) = Total(LeaveTrend(requests, 2, Today))
             /\ \A s \in {"pending", "approved"} :
                  LeaveTrend(requests, 1, Today)[s] <= LeaveTrend(requests, 2, Today)[s]
             /\ OnLeaveToday(requests, Today)
                  = Cardinality({e \in {e1, e2} : asked[e].status = "approved"
                        /\ Today \in asked[e].start .. asked[e].start + asked[e].len - 1})

(* What the two dashboards count is what their rows and each other say.    *)
DashboardsAddUp == TasksAddUp /\ FiguresAddUp

-----------------------------------------------------------------------------
(* Reporting: every graph of managers, cycles and self-management included. *)

Employees == {e1, e2, e3, e4}
Grants    == SUBSET {"team", "global", Nobody}

ReportingAsked ==
    [manager: [Employees -> Employees \union {Nobody}], live: SUBSET Employees, me: {e1}]

(* e reports to boss through a chain of k live employees.                  *)
ReportsThrough(e, boss, k) ==
    \E chain \in [0 .. k -> Employees] :
        /\ chain[0] = e /\ chain[k] = boss
        /\ \A i \in 0 .. k - 1 : chain[i] \in asked.live /\ asked.manager[chain[i]] = chain[i + 1]

(* A manager's team is themselves and whoever reaches them by a chain of   *)
(* live employees no longer than MaxDepth: the walk of teamEmployeeIds     *)
(* ends on cycles and misses nobody but beyond that depth.                 *)
TeamIsReach ==
    rule = "reporting" =>
        TeamEmployeeIds(asked.me, asked.manager, asked.live)
            = {asked.me} \union {e \in Employees : \E k \in 1 .. MaxDepth : ReportsThrough(e, asked.me, k)}

(* One more role never hides an employee nor takes one out of reach, and   *)
(* what a list shows is what may be acted on (scopeFor, teamFilterFor,     *)
(* canActOnEmployee).                                                      *)
GrantsWiden ==
    rule = "reporting" =>
        \A more \in Grants :
            LET sees(grants) == Lists(asked.me, grants, asked.manager, asked.live)
            IN  /\ sees(more) = ActsOn(asked.me, more, asked.manager, asked.live)
                /\ \A fewer \in SUBSET more : sees(fewer) \subseteq sees(more)

-----------------------------------------------------------------------------
(* Tenants: every small table of two organisations and every query whose   *)
(* data names no other organisation than the caller's.                     *)

TableRows  == [key: {"k", "j"}, org: {"ours", "theirs"}, mark: {FALSE}]
Operations == Reads \union Mutates \union Creates \union {"upsert"}

QueryAsked ==
    [table: SUBSET TableRows,
     query: [model: {"Employee"}, op: Operations,
             where: [key: {"k", Unbound}, org: {"ours", "theirs", Unbound}],
             data: [key: {"k", "j"}, org: {"ours", Unbound}]]]

(* undefined in the code is no organisation, and no caller. *)
ASSUME UnboundAssumption ==
    Unbound \notin {"ours", "theirs"} /\ [organization |-> "ours"] # Unbound

(* Within a request a query answers and does to the caller's rows what it  *)
(* would if there were no other organisation, and to the others' nothing   *)
(* (tenantExtension; a query for another organisation is refused).         *)
TenantsApart ==
    rule = "query" /\ ~Violates(asked.query, ContextOf([organization |-> "ours"])) =>
        LET Of(table, org) == {r \in table : r.org = org}
            q     == AllOperations(asked.query, ContextOf([organization |-> "ours"]))
            both  == Execute(q, asked.table)
            alone == Execute(q, Of(asked.table, "ours"))
        IN  /\ both.read = alone.read /\ Of(both.table, "ours") = alone.table
            /\ Of(both.table, "theirs") = Of(asked.table, "theirs")

(* Whom a caller sees and decides on: nobody of another organisation, a    *)
(* manager's team, and what grants make of it.                             *)
ReachIsSound == TeamIsReach /\ GrantsWiden /\ TenantsApart

-----------------------------------------------------------------------------
(* Time: zones ahead and behind whose clocks go forward, back or not at    *)
(* all.                                                                    *)

Instants == 0 .. 4 * DayLength
Zones    == {[before |-> b, after |-> b + shift, jump |-> 2 * DayLength + at] :
                b \in -2 .. 2, shift \in -1 .. 1, at \in {0, 1}}
Columns  == {Unset, Fixed(0), Fixed(-2), [before |-> 1, after |-> 2, jump |-> 2 * DayLength]}

ClockAsked == [tz: Zones, day: 1 .. 3, hour: 0 .. DayLength - 1]
DayAsked   == [checkIn: Instants, later: 0 .. 2 * DayLength,
               employee: [override: Columns, location: Columns, organization: Columns \ {Unset}]]

(* localWallTimeToUtc is the inverse its comment claims                    *)
(* (attendance/local-date.ts:81-84) of every wall clock some instant       *)
(* shows; the hour a zone skips has no instant.                            *)
WallTimesInvert ==
    rule = "clock" =>
        LET shows(at) == /\ LocalDateInTimezone(at, asked.tz) = asked.day
                         /\ LocalHoursInTimezone(at, asked.tz) = asked.hour
        IN  (\E at \in -DayLength .. 6 * DayLength : shows(at)) =>
                shows(LocalWallTimeToUtc(asked.tz, asked.day, asked.hour))

(* Who checked in finds it on the dashboard: as today's record and in the  *)
(* last of the Week columns until the employee's midnight, and one column  *)
(* further left after it; the columns are consecutive days and a day       *)
(* without a record is an absence (checkIn, DashboardService.employee).    *)
Week == 3

CheckInShows ==
    rule = "day" =>
        LET opened == asked.checkIn + asked.later
            filed  == CheckInDate(asked.checkIn, asked.employee)
            today  == DashboardToday(opened, asked.employee)
            series == AttendanceSeries([day \in {filed} |-> "present"], Week, opened, asked.employee)
            zone   == ResolveEmployeeTimezone(asked.employee)
            midnights == LocalDateInTimezone(opened, zone) - LocalDateInTimezone(asked.checkIn, zone)
        IN  /\ filed = today - midnights
            /\ Len(series) = Week
            /\ \A c \in 1 .. Week :
                 /\ series[c].date = today - Week + c
                 /\ series[c].value = IF c = Week - midnights THEN "present" ELSE "absent"

(* On the admin dashboard the check-in is in today's figure and in the     *)
(* trend's column of its date from when the organisation's day gets there  *)
(* ("self-heals at the org day rollover", dashboard.service.ts:49-51), at  *)
(* once where the employee has no other zone.                              *)
AdminSees ==
    rule = "day" =>
        LET filed   == CheckInDate(asked.checkIn, asked.employee)
            today   == AdminToday(asked.checkIn + asked.later, asked.employee.organization)
            records == {[employee |-> e1, date |-> filed, status |-> "present"]}
            trend   == AttendanceTrend(records, Week, today)
        IN  /\ AttendanceToday(records, today)["present"] = (IF filed = today THEN 1 ELSE 0)
            /\ today - filed \in 0 .. Week - 1 =>
                 \E c \in DOMAIN trend : trend[c].date = filed /\ trend[c].value["present"] = 1
            /\ asked.employee.override = Unset /\ asked.employee.location = Unset =>
                 filed = AdminToday(asked.checkIn, asked.employee.organization)

(* The API's days and hours are the employee's own.                        *)
DaysAgree == WallTimesInvert /\ CheckInShows /\ AdminSees

-----------------------------------------------------------------------------
(* Pages: every record one can show. *)

RoleLists == {<<>>, <<"hr">>, <<"super_admin">>, <<"hr", "super_admin">>, <<"super_admin", "hr">>}

OffersAsked ==
    [on: {"announcement"}, status: {"draft", "scheduled", "published", "archived"}, scheduling: BOOLEAN]
    \union [on: {"document"}, published: BOOLEAN, archived: BOOLEAN, deleted: BOOLEAN,
            file: BOOLEAN, required: BOOLEAN, signed: BOOLEAN]
    \union [on: {"category", "role"}, archived: BOOLEAN, system: BOOLEAN, used: BOOLEAN]
    \union [on: {"calendar"}, archived: BOOLEAN, default: BOOLEAN]
    \union [on: {"user"}, roles: RoleLists, disabled: BOOLEAN, self: BOOLEAN, onlyAdmin: BOOLEAN]
    \union [on: {"invite"}, status: {"pending", "accepted", "expired", "revoked"}]
    \union [on: {"employee"}, archived: BOOLEAN, offboarded: BOOLEAN, onlyAdmin: BOOLEAN]
    \union [on: {"leave", "correction"}, status: {"pending", "approved", "rejected", "cancelled"}]
    \union [on: {"day"}, in: BOOLEAN, out: BOOLEAN]

Offered ==
    CASE asked.on = "announcement" -> AnnouncementPage(asked)
      [] asked.on = "document"     -> DocumentPage(asked) \union MyDocumentPage(asked)
      [] asked.on = "category"     -> CategoryPage(asked)
      [] asked.on = "calendar"     -> CalendarPage(asked)
      [] asked.on = "role"         -> RolePage(asked)
      [] asked.on = "user"         -> UserPage(asked)
      [] asked.on = "invite"       -> InvitePage(asked)
      [] asked.on = "employee"     -> EmployeePage(asked)
      [] asked.on = "leave"        -> LeavePage(asked)
      [] asked.on = "correction"   -> CorrectionPage(asked)
      [] asked.on = "day"          -> DayPage(asked)

Accepted ==
    CASE asked.on = "announcement" -> AnnouncementApi(asked)
      [] asked.on = "document"     -> DocumentApi(asked) \union MyDocumentApi(asked)
      [] asked.on = "category"     -> CategoryApi(asked)
      [] asked.on = "calendar"     -> CalendarApi(asked)
      [] asked.on = "role"         -> RoleApi(asked)
      [] asked.on = "user"         -> UserApi(asked)
      [] asked.on = "invite"       -> InviteApi(asked)
      [] asked.on = "employee"     -> EmployeeApi(asked)
      [] asked.on = "leave"        -> LeaveApi(asked)
      [] asked.on = "correction"   -> CorrectionApi(asked)
      [] asked.on = "day"          -> DayApi(asked)

(* What a page offers in vain: it does not look whether an announcement    *)
(* that is being scheduled was archived, a document is deleted, a calendar *)
(* or an employee archived or the last administrator, a category or a role *)
(* in use, a role a system one, or a second role.                          *)
InVain ==
    CASE asked.on = "announcement" /\ asked.status = "archived" -> {"schedule"}
      [] asked.on = "document" /\ asked.deleted    -> {"edit", "publish", "delete", "replace", "archive"}
      [] asked.on = "calendar" /\ asked.archived   -> {"addHoliday"}
      [] asked.on = "employee" /\ asked.archived   -> {"edit", "offboard"}
      [] asked.on = "employee" /\ ~asked.archived /\ asked.onlyAdmin -> {"offboard"}
      [] asked.on = "role" /\ asked.system         -> {"save"}
      [] asked.on = "role" /\ ~asked.system /\ asked.used -> {"delete"}
      [] asked.on = "category" /\ asked.used       -> {"delete"}
      [] asked.on = "user" /\ LastAdmin(asked)     -> {"changeRole", "deactivate"}
      [] OTHER -> {}

(* Whatever a page offers to do with the record it shows, but for those,   *)
(* the API accepts of it.                                                  *)
OffersAccepted == rule = "offers" => Offered \ InVain \subseteq Accepted

-----------------------------------------------------------------------------

RulesInit ==
    \/ rule = "offers" /\ asked \in OffersAsked
    \/ rule = "units" /\ asked \in UnitsAsked
    \/ rule = "readers" /\ asked \in ReadersAsked
    \/ rule = "reporting" /\ asked \in ReportingAsked
    \/ rule = "clock" /\ asked \in ClockAsked
    \/ rule = "query" /\ asked \in QueryAsked
    \/ rule = "staff" /\ asked \in StaffAsked
    \/ rule = "records" /\ asked \in RecordsAsked
    \/ rule = "requests" /\ asked \in RequestsAsked
    \/ rule = "day" /\ asked \in DayAsked

-----------------------------------------------------------------------------

MCListed ==
    {[joe |-> TRUE,  status |-> "done",    archived |-> FALSE],
     [joe |-> FALSE, status |-> "done",    archived |-> TRUE],
     [joe |-> FALSE, status |-> "pending", archived |-> FALSE]}

(* The seeds converge: the demo and bench seeds after any run or breakdown, *)
(* the records they make up, and the development seed over what            *)
(* administrators did to its rows.                                         *)
SeedsConverge == RerunConverges /\ SeedReconciles /\ DevReruns

seedVars == <<tableVars, recordVars, devVars>>

questionVars == <<rule, asked>>

NoQuestion    == rule = "none" /\ asked = <<>>
FormsAtRest   == FormsInit /\ form = BrandingColor /\ row.name = <<1>>
CreateAtRest  == CreateInit /\ newPage = NewDocument
PagesAtRest   == PagesInit /\ screen = UsersList
TablesAtRest  == SeedTablesInit /\ seed = "demo"
RecordsAtRest == RecordsInit /\ free = {} /\ joined = 0 /\ draws = 0
DevAtRest     == DevInit /\ month = 1
SeedsAtRest   == TablesAtRest /\ RecordsAtRest /\ DevAtRest
ScreensAtRest == NoQuestion /\ FormsAtRest /\ CreateAtRest /\ PagesAtRest

AtRest ==
    \/ FormsAtRest /\ CreateAtRest /\ PagesAtRest /\ SeedsAtRest /\ RulesInit
    \/ NoQuestion /\ CreateAtRest /\ PagesAtRest /\ SeedsAtRest /\ FormsInit
    \/ NoQuestion /\ FormsAtRest /\ PagesAtRest /\ SeedsAtRest /\ CreateInit
    \/ NoQuestion /\ FormsAtRest /\ CreateAtRest /\ SeedsAtRest /\ PagesInit
    \/ ScreensAtRest /\ RecordsAtRest /\ DevAtRest /\ SeedTablesInit
    \/ ScreensAtRest /\ TablesAtRest /\ DevAtRest /\ RecordsInit
    \/ ScreensAtRest /\ TablesAtRest /\ RecordsAtRest /\ DevInit

NextApart ==
    \/ NoQuestion /\ SeedsAtRest /\ CreateAtRest /\ PagesAtRest /\ FormsNext
       /\ UNCHANGED <<questionVars, createVars, pageVars, seedVars>>
    \/ NoQuestion /\ SeedsAtRest /\ FormsAtRest /\ PagesAtRest /\ CreateNext
       /\ UNCHANGED <<questionVars, formVars, pageVars, seedVars>>
    \/ NoQuestion /\ SeedsAtRest /\ FormsAtRest /\ CreateAtRest /\ PagesNext
       /\ UNCHANGED <<questionVars, formVars, createVars, seedVars>>
    \/ ScreensAtRest /\ RecordsAtRest /\ DevAtRest /\ SeedTablesNext
       /\ UNCHANGED <<questionVars, formVars, createVars, pageVars, recordVars, devVars>>
    \/ ScreensAtRest /\ TablesAtRest /\ DevAtRest /\ RecordsNext
       /\ UNCHANGED <<questionVars, formVars, createVars, pageVars, tableVars, devVars>>
    \/ ScreensAtRest /\ TablesAtRest /\ RecordsAtRest /\ DevNext
       /\ UNCHANGED <<questionVars, formVars, createVars, pageVars, tableVars, recordVars>>
    \/ (~NoQuestion \/ ~SeedsAtRest \/ ~CreateAtRest)
       /\ UNCHANGED <<questionVars, formVars, createVars, pageVars, seedVars>>

varsApart == <<questionVars, formVars, createVars, pageVars, seedVars>>

SpecApart == AtRest /\ [][NextApart]_varsApart
=============================================================================
