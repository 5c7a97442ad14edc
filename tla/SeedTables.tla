----------------------------- MODULE SeedTables -----------------------------
(* The demo and bench seeds as scripts over the tables of the one          *)
(* organisation each is about: every statement is a commit of its own, the *)
(* script wipes what an earlier run left before it creates anything, and   *)
(* the people of the organisation may be at work meanwhile.                *)
EXTENDS Naturals, Sequences, SequencesExt

CONSTANTS
    MaxRuns,   \* bound: runs of a seed
    MaxActs    \* bound: rows people add

VARIABLES
    seed,      \* which of the two seeds
    stored,    \* the tables that hold rows of the organisation
    script,    \* what is left of the run under way
    ended,     \* how the last run ended
    env,       \* what the run finds configured
    began,     \* history: the tables when the run began
    busy,      \* history: somebody added rows since the run began
    runs, acts

tableVars == <<seed, stored, script, ended, env, began, busy, runs, acts>>

-----------------------------------------------------------------------------
(* The schema: which rows a row cannot be without, and which of those      *)
(* cannot be deleted under it (onDelete: Restrict).  The rest cascades.    *)

OfOrganization ==
    {"orgSetting", "role", "department", "designation", "location", "attendancePolicy", "leaveType",
     "holidayCalendar", "announcement", "documentCategory", "invite", "auditLog", "user", "employee"}

Needs ==
    {<<t, "organization">> : t \in OfOrganization} \union
    {<<"refreshToken", "user">>, <<"userRole", "user">>, <<"userRole", "role">>, <<"rolePermission", "role">>,
     <<"notification", "user">>, <<"notificationPreference", "user">>, <<"passwordResetToken", "user">>,
     <<"twoFactorChallenge", "user">>, <<"attendanceRecord", "employee">>,
     <<"attendanceRegularization", "employee">>, <<"leaveBalance", "employee">>,
     <<"leaveBalance", "leaveType">>, <<"leaveRequest", "employee">>, <<"leaveRequest", "leaveType">>,
     <<"leaveApproval", "leaveRequest">>, <<"holiday", "holidayCalendar">>,
     <<"locationHolidayCalendar", "location">>, <<"locationHolidayCalendar", "holidayCalendar">>,
     <<"announcementAudience", "announcement">>, <<"announcementAcknowledgement", "announcement">>,
     <<"announcementAcknowledgement", "employee">>, <<"document", "documentCategory">>,
     <<"documentVersion", "document">>, <<"documentAudience", "document">>,
     <<"documentAcknowledgement", "document">>, <<"documentAcknowledgement", "employee">>}

Restricts ==
    {<<"user", "organization">>, <<"leaveBalance", "leaveType">>,
     <<"leaveRequest", "leaveType">>, <<"document", "documentCategory">>}

AllTables == {"organization"} \union {edge[1] : edge \in Needs}

NeededBy(t) == {edge[2] : edge \in {n \in Needs : n[1] = t}}

(* What goes with the rows of a set of tables. *)
Goes[ts \in SUBSET AllTables] ==
    LET more == ts \union {edge[1] : edge \in {n \in Needs \ Restricts : n[2] \in ts}}
    IN  IF more = ts THEN ts ELSE Goes[more]

Kept(t) == \E edge \in Restricts : edge[1] \in stored /\ edge[2] \in Goes[{t}] \intersect stored

-----------------------------------------------------------------------------
(* The scripts. *)

Wipe(t)   == <<"wipe", t>>
Make(t)   == <<"make", t>>
Need(what) == <<"need", what>>
Each(Do(_), ts) == [i \in DOMAIN ts |-> Do(ts[i])]

Wipes ==
    Each(Wipe, <<"leaveApproval", "leaveRequest", "leaveBalance", "leaveType", "attendanceRecord",
         "attendanceRegularization", "documentAcknowledgement", "documentAudience", "documentVersion",
         "document", "documentCategory", "announcementAcknowledgement", "announcementAudience",
         "announcement", "notification", "locationHolidayCalendar", "holiday", "holidayCalendar",
         "attendancePolicy", "employee", "department", "designation", "location", "userRole",
         "rolePermission", "role", "refreshToken", "user", "orgSetting", "organization">>)

Company ==
    Each(Make, <<"organization", "role", "rolePermission", "documentCategory", "location",
         "department", "designation", "holidayCalendar", "holiday", "locationHolidayCalendar",
         "attendancePolicy">>)

People == <<Need("passwords")>> \o Each(Make, <<"user", "userRole", "employee">>)

WorkRecords ==
    Each(Make, <<"leaveType", "attendanceRecord", "attendanceRegularization", "leaveBalance",
                 "leaveRequest", "leaveApproval">>)

News == Each(Make, <<"announcement", "announcementAudience", "announcementAcknowledgement">>)

Files == Each(Make, <<"document", "documentVersion", "documentAudience", "notification">>)

DemoScript == Company \o People \o WorkRecords \o News \o <<Need("storage")>> \o Files

(* The bench seed has the same sections, but makes up its password, keeps  *)
(* no files and enters leave before attendance.                            *)
BenchCompany == Company
BenchPeople  == Tail(People)
BenchRecords ==
    Each(Make, <<"leaveType", "leaveRequest", "leaveApproval", "leaveBalance", "attendanceRecord",
                 "attendanceRegularization">>)

BenchScript == BenchCompany \o BenchPeople \o BenchRecords \o News \o Files

Made == {step[2] : step \in {s \in ToSet(DemoScript) : s[1] = "make"}}

-----------------------------------------------------------------------------
SeedTablesInit ==
    /\ seed \in {"demo", "bench"}
    /\ stored = {} /\ script = << >> /\ ended = "never" /\ env = {}
    /\ began = {} /\ busy = FALSE /\ runs = 0 /\ acts = 0

Running == script # << >>

(* A run looks for the organisation of its slug and, if there is one,      *)
(* empties its tables first; the bench seed may be asked for no more.      *)
Run ==
    /\ ~Running /\ runs < MaxRuns
    /\ env' \in IF seed = "demo" THEN SUBSET {"passwords", "storage"} ELSE SUBSET {"deletes"}
    /\ LET makes == IF seed = "demo" THEN DemoScript ELSE BenchScript
       IN  script' = (IF "organization" \in stored THEN Wipes ELSE << >>)
                       \o (IF "deletes" \in env' THEN << >> ELSE makes)
    /\ script' # << >>
    /\ ended' = "running" /\ began' = stored /\ busy' = FALSE /\ runs' = runs + 1
    /\ UNCHANGED <<seed, stored, acts>>

EndRun(how) == script' = << >> /\ ended' = how

GoOn ==
    /\ script' = Tail(script)
    /\ ended' = IF Tail(script) = << >> THEN "done" ELSE ended

Statement ==
    /\ Running
    /\ LET step == Head(script)
       IN  \/ /\ step[1] = "wipe" /\ ~Kept(step[2])
              /\ stored' = stored \ Goes[{step[2]}] /\ GoOn
           \/ /\ step[1] = "wipe" /\ Kept(step[2])
              /\ EndRun("refused") /\ UNCHANGED stored
           \/ /\ step[1] = "make" /\ NeededBy(step[2]) \subseteq stored
              /\ stored' = stored \union {step[2]} /\ GoOn
           \/ /\ step[1] = "make" /\ ~(NeededBy(step[2]) \subseteq stored)
              /\ EndRun("refused") /\ UNCHANGED stored
           \/ /\ step[1] = "need" /\ step[2] \in env
              /\ GoOn /\ UNCHANGED stored
           \/ /\ step[1] = "need" /\ step[2] \notin env
              /\ EndRun(step[2]) /\ UNCHANGED stored
    /\ UNCHANGED <<seed, env, began, busy, runs, acts>>

(* The process is stopped between two statements. *)
Killed == Running /\ EndRun("killed") /\ UNCHANGED <<seed, stored, env, began, busy, runs, acts>>

(* Somebody who can sign in adds a row. *)
Act(t) ==
    /\ acts < MaxActs
    /\ "user" \in stored /\ t \notin stored /\ NeededBy(t) \subseteq stored
    /\ stored' = stored \union {t} /\ acts' = acts + 1 /\ busy' = TRUE
    /\ UNCHANGED <<seed, script, ended, env, began, runs>>

SeedTablesNext ==
    \/ Run \/ Statement \/ Killed
    \/ \E t \in AllTables \ {"organization"} : Act(t)

SeedTablesSpec == SeedTablesInit /\ [][SeedTablesNext]_tableVars

-----------------------------------------------------------------------------
(* Whatever an earlier run or the people left, a run that nobody disturbs  *)
(* is refused nothing and ends with what the script makes and nothing else *)
(* ("re-running converges to the same end state", seed-demo.ts:13-15).     *)
RerunConverges ==
    /\ ended = "refused" => busy
    /\ ended = "done" /\ ~busy => stored = IF "deletes" \in env THEN {} ELSE Made

(* "a missing var fails before any DB writes" (seed-demo.ts:394-396).      *)
FailsBeforeWrites == ended = "passwords" => stored = began
=============================================================================
