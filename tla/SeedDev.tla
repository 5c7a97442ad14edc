------------------------------ MODULE SeedDev -------------------------------
(* The development seed (prisma/seed-dev.ts) about one of its users: every *)
(* statement is a commit of its own and keeps or updates what is there, a  *)
(* run may be stopped between two of them, months pass and administrators  *)
(* work on what the seed made.                                             *)
EXTENDS Naturals, FiniteSets

CONSTANTS
    MaxDevRuns,    \* bound: runs of the seed
    MaxEdits,      \* bound: edits of the administrators
    MaxMonth       \* bound: months

VARIABLES
    step,          \* the statement the run is at; 0 between runs
    month,         \* when the run began
    account,       \* the user: whether it is there, is active, and its roles
    staff,         \* employees: by code, whether linked to the user, active, archived
    calendar,      \* the seeded calendar, whether named "General Calendar", and its holidays
    rival,         \* another live calendar is the default
    welcome,       \* seeded announcements: whether titled "Welcome", out, archived, to everybody
    leaveType,     \* "Annual Leave": whether there, of code AL, not archived
    balance,       \* allocated days of the leave balance; 0 is none
    devRuns, devEdits,
    outcome,       \* of the last run, until somebody edits
    rerouted       \* history: edits of an earlier run's rows that later runs do not undo

devVars == <<step, month, account, staff, calendar, rival, welcome, leaveType, balance, devRuns,
             devEdits, outcome, rerouted>>

Accrual == 2                        \* stands for the 21 days of the seed

DevInit ==
    /\ step = 0 /\ month \in 1 .. MaxMonth
    /\ account = [there |-> FALSE, active |-> FALSE, roles |-> {}]
    /\ staff = [c \in {} |-> {}]
    /\ calendar = [there |-> FALSE, named |-> FALSE, live |-> FALSE, default |-> FALSE, holidays |-> {}]
    /\ rival = FALSE /\ welcome = << >> /\ leaveType = {} /\ balance = 0
    /\ devRuns = 0 /\ devEdits = 0 /\ outcome = "none" /\ rerouted = {}

-----------------------------------------------------------------------------
(* The statements, in order.                                               *)

UpsertUser ==
    /\ account' = [account EXCEPT !.there = TRUE, !.active = TRUE]
    /\ UNCHANGED <<staff, calendar, rival, welcome, leaveType, balance>>

UpsertUserRole ==
    /\ account' = [account EXCEPT !.roles = @ \union {"hr_admin"}]
    /\ UNCHANGED <<staff, calendar, rival, welcome, leaveType, balance>>

(* By code; a user is linked to one employee (userId is unique).           *)
MayLinkEmployee == \A c \in DOMAIN staff : "linked" \in staff[c] => c = "EMP-002"

UpsertEmployee ==
    /\ staff' = [c \in DOMAIN staff \union {"EMP-002"} |->
                    (IF c \in DOMAIN staff THEN staff[c] ELSE {})
                      \union (IF c = "EMP-002" THEN {"linked", "active"} ELSE {})]
    /\ UNCHANGED <<account, calendar, rival, welcome, leaveType, balance>>

(* By name, archived or not; one live default (partial unique index).  Of  *)
(* another name there would be two of code DEFAULT, which is unique.       *)
MayDefaultCalendar ==
    IF calendar.there THEN calendar.named /\ ~(rival /\ calendar.live) ELSE ~rival

UpsertCalendar ==
    /\ calendar' = [calendar EXCEPT !.there = TRUE, !.named = TRUE, !.default = TRUE,
                                    !.live = calendar.there => calendar.live]
    /\ UNCHANGED <<account, staff, rival, welcome, leaveType, balance>>

UpsertHoliday(ahead) ==
    /\ calendar' = [calendar EXCEPT !.holidays = @ \union {month + ahead}]
    /\ UNCHANGED <<account, staff, rival, welcome, leaveType, balance>>

(* By its title, archived or not; AnnouncementAudience has no unique key,  *)
(* so check-then-create (seed-dev.ts:285-323).                             *)
Titled == {i \in DOMAIN welcome : "titled" \in welcome[i]}

FindOrCreateAnnouncement ==
    /\ welcome' = IF Titled # {} THEN welcome
                  ELSE [i \in DOMAIN welcome \union {Cardinality(DOMAIN welcome) + 1} |->
                           IF i \in DOMAIN welcome THEN welcome[i] ELSE {"titled", "published"}]
    /\ UNCHANGED <<account, staff, calendar, rival, leaveType, balance>>

FindOrCreateAudience ==
    /\ \E i \in Titled : welcome' = [welcome EXCEPT ![i] = @ \union {"everybody"}]
    /\ UNCHANGED <<account, staff, calendar, rival, leaveType, balance>>

(* By code, archived or not; of another code there would be two of the     *)
(* name, which is unique.                                                  *)
MayNameType == "there" \in leaveType => "coded" \in leaveType

UpsertLeaveType ==
    /\ leaveType' = IF "there" \in leaveType THEN leaveType ELSE {"there", "coded", "live"}
    /\ UNCHANGED <<account, staff, calendar, rival, welcome, balance>>

UpsertBalance ==
    /\ balance' = Accrual
    /\ UNCHANGED <<account, staff, calendar, rival, welcome, leaveType>>

-----------------------------------------------------------------------------
StartDevSeed ==
    /\ step = 0 /\ devRuns < MaxDevRuns
    /\ step' = 1 /\ devRuns' = devRuns + 1 /\ outcome' = "running"
    /\ \E now \in month .. MaxMonth : month' = now
    /\ UNCHANGED <<account, staff, calendar, rival, welcome, leaveType, balance, devEdits, rerouted>>

Allowed ==
    (step = 3 => MayLinkEmployee) /\ (step = 4 => MayDefaultCalendar) /\ (step = 9 => MayNameType)

DevStatement ==
    /\ step \in 1 .. 10 /\ Allowed
    /\ \/ step = 1 /\ UpsertUser
       \/ step = 2 /\ UpsertUserRole
       \/ step = 3 /\ UpsertEmployee
       \/ step = 4 /\ UpsertCalendar
       \/ step \in {5, 6} /\ UpsertHoliday(step - 4)
       \/ step = 7 /\ FindOrCreateAnnouncement
       \/ step = 8 /\ FindOrCreateAudience
       \/ step = 9 /\ UpsertLeaveType
       \/ step = 10 /\ UpsertBalance
    /\ step' = (step + 1) % 11
    /\ outcome' = IF step = 10 THEN "done" ELSE outcome
    /\ UNCHANGED <<month, devRuns, devEdits, rerouted>>

(* A statement the database refuses ends the run where it is, as does a    *)
(* stop of the process.                                                    *)
DevBreaksOff(how) ==
    /\ step > 0 /\ step' = 0 /\ outcome' = how
    /\ how = "refused" => ~Allowed
    /\ UNCHANGED <<month, account, staff, calendar, rival, welcome, leaveType, balance, devRuns, devEdits,
                   rerouted>>

-----------------------------------------------------------------------------
(* Between two runs administrators edit the rows.                          *)

ChangesRole ==
    /\ account.roles # {} /\ account' = [account EXCEPT !.roles = {"employee"}]
    /\ rerouted' = rerouted \union {"role"}
    /\ UNCHANGED <<staff, calendar, rival, welcome, leaveType, balance>>

Offboards ==
    /\ \E c \in DOMAIN staff :
         /\ "archived" \notin staff[c]
         /\ staff' = [staff EXCEPT ![c] = (@ \ {"active"}) \union {"archived"}]
    /\ account' = [account EXCEPT !.active = FALSE]
    /\ rerouted' = rerouted \union {"employee"}
    /\ UNCHANGED <<calendar, rival, welcome, leaveType, balance>>

Recodes ==
    /\ DOMAIN staff = {"EMP-002"} /\ "archived" \notin staff["EMP-002"]
    /\ staff' = [c \in {"other"} |-> staff["EMP-002"]]
    /\ rerouted' = rerouted \union {"code"}
    /\ UNCHANGED <<account, calendar, rival, welcome, leaveType, balance>>

MakesDefault(general) ==
    /\ calendar.there /\ rival = general /\ (general => calendar.live)
    /\ rival' = ~general /\ calendar' = [calendar EXCEPT !.default = general]
    /\ rerouted' = rerouted \union {"default"}
    /\ UNCHANGED <<account, staff, welcome, leaveType, balance>>

ArchivesCalendar(live) ==
    /\ calendar.there /\ calendar.live # live /\ ~calendar.default
    /\ calendar' = [calendar EXCEPT !.live = live]
    /\ UNCHANGED <<account, staff, rival, welcome, leaveType, balance, rerouted>>

RenamesCalendar ==
    /\ calendar.live /\ calendar' = [calendar EXCEPT !.named = ~@]
    /\ rerouted' = rerouted \union {"name"}
    /\ UNCHANGED <<account, staff, rival, welcome, leaveType, balance>>

(* An announcement is archived and restored by its status, as a draft, and *)
(* edited while it is not archived.                                        *)
ChangesWelcome(i, to, mark) ==
    /\ welcome' = [welcome EXCEPT ![i] = to]
    /\ rerouted' = rerouted \union mark
    /\ UNCHANGED <<account, staff, calendar, rival, leaveType, balance>>

ArchivesWelcome(i) ==
    /\ "archived" \notin welcome[i]
    /\ ChangesWelcome(i, (welcome[i] \ {"published"}) \union {"archived"}, {"welcome"})

RestoresWelcome(i) ==
    "archived" \in welcome[i] /\ ChangesWelcome(i, welcome[i] \ {"archived"}, {})

PublishesWelcome(i) ==
    "archived" \notin welcome[i] /\ ChangesWelcome(i, welcome[i] \union {"published"}, {})

RetitlesWelcome(i) ==
    /\ "archived" \notin welcome[i]
    /\ ChangesWelcome(i, IF i \in Titled THEN welcome[i] \ {"titled"} ELSE welcome[i] \union {"titled"},
                      {"title"})

AddressesWelcome(i) ==
    "archived" \notin welcome[i] /\ ChangesWelcome(i, welcome[i] \ {"everybody"}, {})

EditsWelcome ==
    \E i \in DOMAIN welcome :
        \/ ArchivesWelcome(i) \/ RestoresWelcome(i) \/ PublishesWelcome(i)
        \/ RetitlesWelcome(i) \/ AddressesWelcome(i)

RecodesType ==
    /\ "live" \in leaveType
    /\ leaveType' = IF "coded" \in leaveType THEN leaveType \ {"coded"} ELSE leaveType \union {"coded"}
    /\ rerouted' = rerouted \union {"typeCode"}
    /\ UNCHANGED <<account, staff, calendar, rival, welcome, balance>>

ArchivesType ==
    /\ "live" \in leaveType /\ leaveType' = leaveType \ {"live"}
    /\ rerouted' = rerouted \union {"type"}
    /\ UNCHANGED <<account, staff, calendar, rival, welcome, balance>>

AdjustsBalance ==
    /\ balance = Accrual /\ balance' = 1
    /\ UNCHANGED <<account, staff, calendar, rival, welcome, leaveType, rerouted>>

Edits ==
    /\ step = 0 /\ devEdits < MaxEdits
    /\ \/ ChangesRole \/ Offboards \/ Recodes \/ MakesDefault(TRUE) \/ MakesDefault(FALSE)
       \/ ArchivesCalendar(TRUE) \/ ArchivesCalendar(FALSE) \/ RenamesCalendar
       \/ EditsWelcome \/ RecodesType \/ ArchivesType \/ AdjustsBalance
    /\ devEdits' = devEdits + 1 /\ outcome' = "edited"
    /\ UNCHANGED <<step, month, devRuns>>

DevNext ==
    \/ StartDevSeed \/ DevStatement \/ Edits
    \/ \E how \in {"refused", "stopped"} : DevBreaksOff(how)

-----------------------------------------------------------------------------
(* "Idempotent -- re-running ... does not duplicate rows" (seed-dev.ts:8-9): *)
(* a run that ends leaves the seeded rows, once each and in use, whatever  *)
(* was stopped halfway or edited before in these ways, but for those it    *)
(* does not undo: a role that was changed is now one of two, an employee   *)
(* offboarded, a leave type archived and an announcement taken down stay   *)
(* so, and one of another title is joined by another.  Only another code,  *)
(* of the employee or the leave type, another name of the calendar or      *)
(* another default one makes the database refuse a run.                    *)
DevReruns ==
    /\ outcome = "done" =>
         /\ account.active /\ "hr_admin" \in account.roles
         /\ "role" \notin rerouted => account.roles = {"hr_admin"}
         /\ DOMAIN staff = {"EMP-002"} /\ {"linked", "active"} \subseteq staff["EMP-002"]
         /\ "employee" \notin rerouted => "archived" \notin staff["EMP-002"]
         /\ calendar.named /\ calendar.default /\ ~(calendar.live <=> rival)
         /\ {month + 1, month + 2} \subseteq calendar.holidays
         /\ \E i \in Titled : "everybody" \in welcome[i]
         /\ "title" \notin rerouted => DOMAIN welcome = Titled /\ Titled = {1}
         /\ "welcome" \notin rerouted => \A i \in Titled : "published" \in welcome[i]
         /\ "coded" \in leaveType /\ balance = Accrual
         /\ "type" \notin rerouted => "live" \in leaveType
    /\ outcome = "refused" => rerouted \intersect {"code", "default", "name", "typeCode"} # {}
=============================================================================
