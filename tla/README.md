# Staffly in TLA+

Staffly (product name PeopleFlow) is a multi-tenant HR system: a NestJS API
(`src/apps/api`) on PostgreSQL through Prisma, and two Next.js portals
(`src/apps/admin`, `src/apps/employee`) that share hooks and a fetch client
(`src/packages/ui`). This directory models the API where a request's outcome
depends on what other requests do at the same time, the rules it computes, and the
portals where what a person sees or sends depends on what happened since; it checks
the models with TLC on small instances and proves what matters most with TLAPS
for instances of any size.

One pattern of the code explains most of what follows. A handler **reads and
checks first, outside any transaction**, and then **writes by primary key**, in a
single statement or a transaction that does not read the checked state again.
PostgreSQL runs at its default isolation (READ COMMITTED), Node serves any number
of requests at once, and there are no application locks. So between a handler's
check and its write any other handler may commit. The portals repeat the pattern
one level up: a page fetches, a person looks and types, and the save goes out
when the record may long be another. Each module models a handler as a chain of
actions, one for each statement whose result is used later, and lets the chains
of all callers interleave. The questions are always the same: what does the code
promise when nothing comes in between, and what is left of the promise when
something does? Where something is left out of a promise, a *history variable* names
exactly the cases in which it may fail.

## 1. Inventory

Paths are relative to `src/apps/api/src/` unless they begin with another
directory of the repository. `PROJECT.json` lists every component with its
status, and every hazard at its line with the property that watches it.

| Component | Source | State | Operations | Modules |
|---|---|---|---|---|
| Leave rules | `leave/leave-rules.ts` | none | units of a range, overlap, available balance | `LeaveRules` |
| Leave requests, balances, types | `leave/*.service.ts` | `leave_types`, `leave_balances`, `leave_requests`, `leave_approvals` | apply, approve, reject, cancel, lazy bootstrap, adjustment, archive | `Leave` |
| Users and the super-admin guard | `rbac/users.service.ts`, `employees/employees.service.ts` | `users`, `user_roles`, `employees.status` | assign, deactivate, activate, offboard, restore | `UserTable`, `Accounts` |
| Sessions and password resets | `auth/tokens.service.ts`, `auth/auth.service.ts` | `refresh_tokens`, `password_resets` | sign-in, rotation, reuse detection, logout, forgot, reset | `Sessions` |
| Sign-in limits | `auth/auth.service.ts` | counters on `users`, `two_factor_challenges` | failed passwords, lock, second factor | `SignInLimits` |
| Roles, permissions, invitations | `rbac/roles.service.ts`, `rbac/invites.service.ts`, `auth/auth.service.ts` | `roles`, `role_permissions`, `user_roles`, `invites` | create, update, delete, restore, assign; create, revoke, resend, accept | `Membership` |
| Attendance | `attendance/*.service.ts` | one record per employee and date, requests to correct it | check-in, check-out, regularize, decide | `Attendance` |
| Defaults | `holidays/holiday-calendars.service.ts`, `attendance/policies.service.ts` | two tables with one default row | create, set default, update, remove, restore | `Defaults` |
| Holidays | `holidays/holidays.service.ts`, `location-calendar-assignments.service.ts`, `holiday-lookup.service.ts` | the days of a calendar, the calendar of a location | add, remove, assign, unassign, look up | `Holidays` |
| Announcements, notifications | `announcements/announcements.service.ts` | announcements, audiences, acknowledgements, inbox rows | draft, edit, schedule, publish, tick, archive, restore, acknowledge | `Announcements` |
| Documents, categories | `documents/*.service.ts` | documents, versions, acknowledgements, categories | create, edit, upload, publish, archive, delete, restore, acknowledge | `Documents` |
| Audiences | the two audience resolvers, the feeds | none | who rules mean, from both sides | `Readers` |
| Caller scope | `rbac/caller-scope.service.ts` | none | team, filters, may act on | `Reach` |
| Local time | `attendance/local-date.ts`, `common/timezone.ts`, `dashboard/date-windows.ts` | none | date of an instant, instant of a wall clock, windows | `LocalTime` |
| Dashboards | `dashboard/dashboard.service.ts` | none | counts, groups, series | `Dashboard`, `Readers`, `LocalTime` |
| Tenant isolation | `tenant/prisma-tenant.extension.ts` | the organisation of the request | rewrites every query | `Reach` |
| Fetch client | `packages/ui/src/api/client.ts` | cookies, csrf tokens of the tabs, calls | call, refresh on 401, retry, sign-in, sign-out | `PortalClient` |
| Query cache | `packages/ui/src/api/*.ts` | cached answers by key | every query and mutation hook of both portals | `QueryKeys`, `QueryCache` |
| Edit forms | dialogs and pages of `apps/admin` | a draft beside the fetched record | open, type, save, refetch, close | `Forms` |
| Lists | the paged pages of both portals | the address, the search box | search, filter, toggle, page, Back | `ListPages` |
| Pages that create | `apps/admin/app/(app)/announcements/new`, `documents/new` | audience, preview, file, the save under way | change, preview, upload, save, publish | `CreatePages` |
| Record pages | the detail pages of both portals | none | which actions are offered | `Offers` |
| Seeds | `apps/api/prisma/seed-*.ts`, `verify-demo.ts` | all tables of an organisation | wipe, create, upsert | `SeedTables`, `SeedRecords`, `SeedDev` |
| Sign-up, audit log, mail, storage, health, configuration, deployment | the rest | rows without rules, or none | last write wins, or I/O | not modelled (section 7) |

**How the parts meet.** All API components share the database and nothing else: no
in-process state survives a request and no queue connects them. The couplings
are rows one component reads and another writes. Sign-in reads the status that
account handlers write; refresh does *not* read it. Deactivation revokes tokens
in a statement of its own after it wrote the status. Offboarding writes employee
and user in one transaction and no token. Accepting an invite activates the user
and then signs him in. An application for leave reads the type, the holidays and
the balance in three queries and commits in a fourth. Publishing an announcement
reads its audience before the transaction that flips the status and writes the
inbox rows. The dashboards count rows of all the others. The portals hold copies of
what the API answered; the only thing that tells a page its copy is outdated is the list
of keys a mutation hook names.

**What is hard**, by component, and the property that would notice:

| Component | Hazard | Property |
|---|---|---|
| Leave | two decisions on one request move its units twice; two applications overlook each other; half days on holidays | `LedgerReconciles`, `BalanceAlgebra`, `TerminalIsFinal`, `NoOverlap`, `NoOverdraft`, `CountsHalves` |
| Accounts | the last-super-admin guard counts first, the write comes later | `AdminRemains` |
| Sessions | a rotation stores its child behind a walk, a reset or a deactivation; a sign-in straddles one | `ReuseLeavesStrays`, `ResetLeavesStrays`, `DisabledLeavesStrays`, `...IfAlone` |
| Sign-in limits | counters read, incremented in memory, written back; attempts checked before they are counted | `GuessesLimited`, `LinksOpenOnce` |
| Membership | a role deleted under an assignment; two assignments; resent, revoked and doubly accepted invites | `NothingHidden`, `OneOfEach`, `LinksOpenOnce`, `ExpiredIsNotAccepted` |
| Attendance | double punches; a request decided twice; a punch behind a correction | `OneStory`, `CorrectionStands`, `RecordsAreTimeSheets` |
| Defaults | a default made, cleared or archived under another request; an index for one table and none for the other | `OneDefault` |
| Holidays | a calendar assigned, cleared or archived while somebody's is looked up | `LookupsAnswer` |
| Announcements | the tick against a manual publish; edits under a publication; a published one scheduled again | `NotifiedOnce`, `ScheduleCoherent`, `BellMatchesFeed` |
| Documents | terms changed while it is published; versions uploaded at once; a category deleted under a document | `SignersAreReaders`, `VersionsAreALog`, `FiledRight` |
| Rules | two sides that answer one question by separate code; cycles and depth of reporting lines; changes of the clocks; queries rewritten operation by operation | `ReadersAgree`, `DashboardsAddUp`, `ReachIsSound`, `DaysAgree` |
| Portals | overlapping refreshes; calls waiting for a csrf token; an answer older than a mutation; keys nobody named; a form filled before the record changed; a page past the end; a preview older than what is chosen, a record made twice; buttons the API refuses | `Transparent`, `CallsEnd`, `NothingStale`, `Recovers`, `SavesWhatIsTyped`, `PagesUsable`, `OffersAccepted` |
| Seeds | thirty commits over tables that restrict each other, stopped anywhere and run again | `SeedsConverge` |

## 2. Modules

```
Tables ─┬─ UserTable ── Accounts, Sessions ── Identity ─┬─ IdentityProofs
        │                                               └─ MCIdentity
        ├─ Leave (with LeaveRules) ── LeaveProofs, MCLeave
        ├─ Membership, SignInLimits ── Access ─┬─ AccessProofs
        │                                      │  OneTimeLink <── LinksOpenOnce
        ├─ Announcements, Documents ───────────┼─ PublicationsProofs
        │                                      │  VersionLog <── VersionsAreALog
        │                                      └─ MCAdministration
        ├─ Attendance, Defaults ── Holidays ─┬─ WorkdayProofs
        │                                    │  TimeSheet <── RecordsAreTimeSheets
        │                                    └─ MCWorkday
        └─ Forms ─┐
ListPages ── CreatePages ─┬─ PagesProofs
LeaveRules, Readers, Reach│
  LocalTime ── Dashboard, │
  Offers, SeedTables,     │
  SeedRecords, SeedDev ───┴─ MCScreens ── RulesProofs
PortalClient, QueryKeys ── QueryCache ── PortalProofs, MCPortal
```

(`<──`: an abstract specification instantiated by a refinement mapping.)

**Tables.** A database table is a partial function from identities to rows;
`Put` inserts a row, `Drop` removes one. Requests in flight are kept the same
way: the domain of `applying`, `deciding`, `requests` or `calls` is the set of
callers that are between two statements, the value is what they have read.

### The API

**LeaveRules** (`leave-rules.ts`). Days are integers and leave is counted in half
days, so the code's 0.5 is 1 and every amount is an integer.

**Leave** (three services). Apply is five actions, as the numbered comments of
`apply` have it: `ApplyReadType` (type, units, bounds), `ApplyCheckOverlap`,
`ApplyEnsureBalance`, `ApplyCheckBalance`, `ApplyCreate` (the transaction).
Approve and reject are `DecideRead`/`DecideCommit`, cancel is
`CancelRead`/`CancelCommit`. What the read saw travels with the call (`seen`,
`units`, `row`, `config`), because the code commits with it: `Moved` moves the
balance by the status that was *read*. `stale` is a history variable: the
requests some commit decided on a status the row no longer had. `unseen` is
another: the pairs of requests of which the second was created after the
overlap check of the first and before its insert. `granted`
stands for allocated + carryForward + adjusted. Permission and team checks
(`canActOnEmployee`) may refuse a call; that is the call not being made.

**UserTable, Accounts** (`users.service.ts`, `employees.service.ts`). Of a user's
roles only `super_admin` is kept: the guard asks for nothing else and no endpoint
grants it. `Begin` is the first read of assignRole, deactivate or offboard;
`CheckSuper` and `CountSupers` are the two queries of `ensureNotLastSuperAdmin`;
`CommitAssign`, `CommitDeactivate`, `CommitOffboard` are the writes;
`FinishDeactivate` stands for the statement that revokes the tokens. `Fail` ends
a request anywhere: what was committed stays. Activate and restore read first
too, but what they write does not depend on it, so each is one action.

**Sessions** (`tokens.service.ts`, `auth.service.ts`). A token knows its parent,
its ancestors (`line`), whether it is live, and how many resets its user had when
the session was opened (`since`). Sign-in is `SigninRead` (status and password)
and `SigninIssue`; the second factor only widens the gap between them. Refresh is
`RefreshRead`, then either `RotateIssue` and `RotateRetire`, or for a dead token
the walk: `WalkVisit` reads the children of one token, `WalkRevoke` revokes all
seen in one statement. `ResetRead`/`ResetCommit` change the password; `Logout`,
`ForgotPassword` are one statement each that decides anything. `Abort` ends a
call anywhere. History variables: `resets` counts committed resets, `burnt` holds
the tokens whose reuse was answered, `strays` the tokens issued behind the back
of what should have ended them.

**Identity** composes the two over the shared users table. Its own content is the
joint steps: `Deactivated` (revoke and report), `Offboarded` (tokens left alone),
`Joined` (an accepted invite goes on to sign in), `Failed`. `NextReliable` is
`Next` without failures; `NextAlone` is `NextReliable` with one handler at a time.
`DeactivationSparesSessions` is what the users page tells the administrator. In the proofs
`SpecEither` has handlers alone or in any interleaving, as its constant variable `alone` says.

**Membership** (`roles.service.ts`, `invites.service.ts`, `assignRole` of
`users.service.ts`, `acceptInvite`). Roles with what they grant, who holds which,
and the invites of an address. `Effective` is what the permission guard grants,
deleted roles included, `Shown` what the lists show. Creation, update and deletion of
roles, assignment, and creation, resending, revocation and acceptance of invites
are each a read and a commit. History: `orphaned` (roles given after their
deletion was decided), `mixed` (people with two roles, and why), `crowded`
(addresses with two invites), `torn` (links two requests acted on, and those accepted
although a resend had marked them expired, which `ExpiredIsNotAccepted` says cannot be).

**SignInLimits** (`signIn`, `verifyTwoFactor`). A guess reads the counter, takes
the time of a password hash, and writes back the value it computed; a challenge
is read, then counted or consumed. A password reset sets the counter back and lifts the
lock (`PasswordReset`). `LockExact`: with no overlap the lock falls
exactly at the limit; `AttemptsBounded`: challenges exceed theirs only by the
calls that overlapped.

**Attendance** (`attendance.service.ts`, `regularizations.service.ts`). One record
for an employee and a local date, kept unique by an index: `CheckInCommit` of a
call that saw no record fails if there is one. `Corrected` replaces the times
asked for and keeps minutes worked and lateness, as the code does. History:
`blurred` days, `disputed` requests. **TimeSheet** is the promise: a punch fills a
time that is not there, only a correction replaces one and signs for it.

**Defaults.** Making a row the default is `...Read`, `Unset...` (what the first
statement of the transaction saw) and a commit. `IndexAllows` is the partial
unique index of calendars; policies have none. History: `undermined`, `overlooked`.

**Holidays.** The days of the calendars of `Defaults`, the calendar of each location, and the
lookup: the assignment of the employee's location, and in a second query the default.
History: `had` (the calendars an employee had since his lookup began), `overtaken` (lookups
under which the assignment they read was changed). Employees whose calendar is looked up are
taken to exist; one deleted meanwhile is answered "none" at once
(`holiday-lookup.service.ts:22`).

**Access** sets `Membership` and `SignInLimits` side by side. They share no row; both hand
out what is to be used once, and `LinksOpenOnce` says of both that they implement **OneTimeLink**.

**Announcements** (`announcements.service.ts`). `phase`, times and audience of an
announcement; publishing resolves the audience before its transaction; the tick
takes what was due one by one and publishes it without looking again. History
counts entries into the published state and notifications sent. In an instance
with one announcement the tick's remaining list is exercised only as far as
one entry.

**Documents** (`documents.service.ts`, `document-categories.service.ts`). Every
operation that changes a document, its versions, its acknowledgements or its
category. The object store is external: a file is there when the upload is
confirmed. **VersionLog** is the promise of the versions: appended, never lost or
replaced, the last one shown. History: `unlocked`, `astray`, `regraded`.

### The rules

**Readers, Reach, LocalTime, Dashboard, Offers** have operators and no
variables. `MCScreens` asks each of them every question of a small instance: a
question is an initial state, and the property compares the code's answer with
a reference definition, or with the answer another part of the code gives to the same question.

* `Readers`: the audience side (rules to employees) against the feed side
  (employee to rules), for announcements, documents, downloads and both dashboards.
* `Reach`: the walk over the reporting lines against chains of managers; the rewriting of
  arguments by the tenant extension, run over a two-organisation table, against the same
  query over a table with one organisation.
* `LocalTime`: two-pass conversion of wall clocks, resolution of zones, windows.
* `Dashboard`: the counts of the admin dashboard against each other.
* `Offers`: for every record a page can show, the actions offered against those the
  API's guards accept.

### The portals

**PortalClient** (`client.ts`). The cookies of a browser, the csrf token of each
tab, and calls with their one refresh and one retry. `excuses` (history) names
what may cost a call: an ended session, a failing network, refreshes that ran at
once, cookies renewed under it.

**QueryKeys, QueryCache.** `QueryKeys` is a table: for every query hook its key and the
facts it shows, for every mutation hook the facts it changes, the keys it makes
stale and what it puts into the cache. `QueryCache` runs one view of a tab against
mutations, other people's changes, fetches that read before they answer, polling, and closing and
opening the page; the query library itself is external. `LeftStale` lists the
pairs of mutation and view that the hooks leave stale: these and no others.

**Forms.** Twelve edit forms over a record that others write too. A form fills its fields when opened or
at every fetch (each as its code has it), sends all fields or
only some, and converts moments on the way out and back. `TypedArrives` and
`UntouchedStays` name what they except.

**ListPages.** Eighteen lists of both portals: address, search box with its
pause, filters, toggles, page number and the browser's Back, against the page
arithmetic and limits of `common/pagination.ts`. `TreeViews` is the one list that asks for
everything at once.

**CreatePages.** The two pages of the admin portal that make an announcement and a document.
Every change of the form sets a timer of its own (the cleanup that `form.watch` is handed is
never called), a timer asks for a preview of the audience, and answers arrive in any order. A save is one
request, or two where publishing is a request of its own, and any of them may fail
before or after it was obeyed. A save that succeeds only tells the page to leave
(`router.push`); until `Gone` its buttons work. History: `crossed`, `broken`, `again`.

**SeedTables** runs the demo and bench seeds as scripts over tables whose rows
restrict each other's deletion; they may stop at any statement. **SeedRecords**
makes up the leave, attendance and balances of one employee from any draws.
**SeedDev** is the development seed about one user, with months passing and
administrators editing between runs: the role, the employee and his code, the calendar (renamed,
archived, another one made default), the welcome announcement (retitled, archived, restored,
addressed to others), the leave type and the balance. `rerouted` records the edits that no
later run undoes.

**MC modules** give the small sets, the symmetry and, where a run is about an
instance with less concurrency, the restricted next-state relation. They restrict
behaviours and never replace a definition. Components that share no row are
checked side by side in one run: each behaviour moves one of them and leaves
the others at rest, so the state space is a sum and not a product.

## 3. Runs

The second column says what moves at once in the instance; its full size is the
run's configuration and the list of bounds below.

| Run | Instance | What it shows |
|---|---|---|
| `leave` | any two of two applications and two decisions, types archived and restored meanwhile | `BalanceAlgebra`, `TerminalIsFinal`: what breaks is traced to a commit on an outdated status or to an application without a balance row, and to nothing else; `NoOverlap`, `NoOverdraft`: two requests share a day, or overdraw a row, only if one was created between the other's checks and its insert, or a commit on an outdated status brought one back |
| `identity` | handlers alone; two admin requests with two calls about one user, failures anywhere; accounts, and sessions, by themselves with two overlapping calls | alone: `OneLiveIfAlone`, `ResetOnceIfAlone`, `SignedOutIfAlone`; all: `DisabledLeavesStrays`, `AdminRemains` (one request at a time while two users hold super_admin, any overlap after), `ReuseLeavesStrays`, `ResetLeavesStrays` |
| `administration` | memberships, limits, announcements, documents: two overlapping calls each | `NothingHidden`, `OneOfEach`, `GuessesLimited`, `NotifiedOnce`, `ScheduleCoherent`, `BellMatchesFeed`, `SignersAreReaders`, `FiledRight`; refinements `LinksOpenOnce`, `VersionsAreALog` |
| `workday` | attendance, calendars and their locations, policies: two overlapping calls each | `OneStory`, `CorrectionStands`, `OneDefault`, `LookupsAnswer`; refinement `RecordsAreTimeSheets` |
| `screens` | 137 000 questions to the rules; forms, lists, pages that create, seeds | `CountsHalves`, `ReadersAgree`, `DashboardsAddUp`, `ReachIsSound`, `DaysAgree`, `OffersAccepted`, `PagesUsable` (`ListsUsable`, `PreviewFollows`, `CreatesOnce`), `SeedsConverge`, `SavesWhatIsTyped` |
| `portal` | two tabs and two calls; every view and mutation of both portals | `Transparent`, `NothingStale`; liveness `CallsEnd`, `Recovers` |
| `leave_two_deciders` | violates `LedgerReconciles` | an approval and a cancellation both pass the status check, both move the balance |
| `identity_offboard` | violates `DisabledIsSignedOut` | offboarding leaves the sessions alive, where the docs say they are revoked |
| `users_page` | violates `DeactivationSparesSessions` | deactivation revokes the sessions, where the page that asks for confirmation says they are not revoked |
| `invites_resent` | violates `ExpiredIsNotAccepted` | the link of an invite that was sent again still opens, where a comment says it cannot be accepted |
| `departments` | violates `PagesLoad` | the departments tab asks for 200 rows, the API refuses more than 100 |
| `demo_passwords` | violates `FailsBeforeWrites` | the demo seed looks for its passwords after it has wiped the old organisation, where its comment says before any write |

A run with one call at a time states a promise without exception; a run with
overlapping calls states what is left of it; a violation run shows, on the
promise as the repository words it, that an exception is real.

**What the properties except, and the code does.** Each is a definition of a
module and not a remark:

* *Rules.* Personal documents whose subject has left count as missing signatures;
  expired announcements count as owed on the employee dashboard. An hour a zone
  skips has no instant. The team includes the manager; a removed manager cuts off
  the reports below; regularizations are not narrowed to the team. The guard does not ask whether a role is
  deleted (`NothingHidden` is about that).
* *Tenant isolation.* A query whose data names another organisation passes as it is, and so do
  nested reads and writes and operations the extension does not list (such as `updateManyAndReturn`).
* *Offers* (`InVain`). The page of a deleted document keeps its buttons, an archived
  employee can be edited but not restored, a system role can be edited and never saved
  though `settings/roles/[id]/page.tsx:118` calls it editable.
* *Forms.* Saving an untouched announcement moves its times by the browser's
  offset and keeps its first audience rule only; clearing an optional field in a
  dialog never reaches the API; a save sends back the fields as they were filled. Noted without a
  property: a dialog closed while its save runs and opened again may run two saves at once, which
  the model does not follow.
* *Lists.* On the leave and regularization pages of the admin portal choosing "All"
  returns to "pending"; a search of blanks or of more than 120 characters is refused
  (`Unanswered`), and no input of the pages limits what is typed.
* *Pages that create.* Two previews whose answers cross leave the older one on show; a save
  that failed after the API had obeyed it, or whose second request failed, makes another record
  when it is repeated, and so does each click while the page has been told to leave and has not
  left. Noted without a property: a select that a change of audience type has hidden
  keeps its value and is sent, which the API refuses; the page of documents never
  sends the employee of an audience, so "specific employees" is refused whatever is chosen.
* *Query cache* (`LeftStale`). Exactly the pairs it lists: the audit trail after any mutation,
  the structure views and names shown elsewhere after the structure hooks (they name a key no view
  is under), the admin dashboard after another time zone of the organisation, and further pairs;
  a mutation that settles during the first fetch of a view, or a fetch that outlives its page.
* *Memberships.* An invite a resend marked expired opens until its own time runs out
  (`invites_resent`); the promise of `OneTimeLink` leaves it out as `torn`.
* *Development seed.* A user whose role an administrator changed ends with two; an offboarded
  employee stays archived though active, and so do an archived leave type and announcement; beside
  a retitled announcement the next run makes another. A changed code of the employee or the leave
  type, another name of the calendar or another default one makes the next run fail.
* *Seeded records.* `used` may exceed what was allocated, and units count weekends
  and holidays, which the API would not; on weekends and holidays check 4 of
  `verify-demo.ts` fails.

**Bounds, and why they are enough.** Every check in the API is about one employee,
one user, one row or one chain, and its races are between two handlers, so:

* *Leave*: one employee and one type, since no guard relates two, and two
  requests, since every property is about one or two. Two handlers are in flight
  (`MCInFlight`), of any kinds; one while the type is archived or its leave
  approves itself, and once a request was decided on an outdated status, which the
  properties except and which happens to one request. The ranges: two days, and a day apart; the same one
  asked for twice overlaps, and a grant of two days does not cover both, so
  `NoOverdraft` meets its bound. `Grants` holds the opening grant only: an adjustment below what is used
  would overdraw the row by HR's own decision.
* *Accounts*: three users, so that two founders and another exist; in the composition
  the founders stay as they are and all is about the third (`AboutAnn`).
* *Sessions*: three tokens: a parent, the child behind the walk, and its own child;
  two while races are about one user and the chain is not the question. Token and reset
  identities are never reused and run out, so these runs do not check deadlock.
  Two resets, so that a session can be opened between two; two tokens with them. Tokens and links
  are alike and are used in one order (`InTurn`).
* *Membership*: one person, two roles of which one is the system's, one permission,
  two invites. One collision is followed as far as it goes, a second one of
  another kind on top of it is left out (`OneCollision`).
* *The violation runs* take as little as shows the disagreement: one caller and handlers alone
  for `users_page`, one call about invites at a time for `invites_resent`.
* *SignInLimits*: limits of two in place of five; failures up to one past the limit.
* *Announcements, Documents*: one of each with two writers; two moments, so that a
  time can be before or after another; two publications; two versions.
* *Attendance*: one day of four minutes: before, at and after the end of grace and the half-day
  threshold; two regularizations. *Defaults*: three rows of each, so that two
  new ones can compete beside an old one. *Holidays*: one location and employees elsewhere, two
  calendars, two dates, two requests in all.
* *Rules*: all holidays and ranges of five days; all rows of one employee beside a
  plain one; all graphs of four employees, one chain longer than the depth of the walk;
  zones two hours to either side with any change of the clocks, days of six hours;
  all tables of two keys in two organisations.
* *Portal*: two tabs and two calls, one once a session that ended is at its third token; one failure; one view at a time under two
  mutations, the second only on views that answers are put into (`Meets`).
* *Forms*: one record, one write of others, one field typed into, one save at a time. *Lists*: one
  row a page and three rows, four entries of history. *Pages that create*: four changes or saves. *Seeds*: two runs and one
  row added by people for the tables; three runs, three edits and two months for the development seed.

Each bound is a named constant that guards an action; what exceeds it is not
explored and nothing else changes.

**Refinements.** `OneTimeLink` (an invite or challenge opens once, and not after it ended),
`TimeSheet` and `VersionLog` are specifications of their own; `LinksOpenOnce`,
`RecordsAreTimeSheets` and `VersionsAreALog` instantiate them with mappings from the
tables. Where overlapping calls, or the link of a resent invite, break the promise the mapping says so
(`Blurred`, `torn`) and the abstract specification takes the step to that value, which is
final for a link and for a day.

**Fairness.** The API is checked for safety only: no handler waits for another,
nothing retries, and the tick of scheduled announcements has no caller outside the
tests, so "eventually" would be a statement about callers. The portals do
wait. `ClientFairness` is weak fairness of `Proceed`: a call that can go on does,
because its promise is resolved by the event loop; the network may refuse, and
it answers or fails. `CacheFairness` is weak fairness of the poll and of the
server's answer, and strong fairness of the answer's arrival, which a closing page may disable
again and again; failures of the network are bounded by `MaxFailures`, as no poll
catches up with a network that always fails.

## 4. Proofs

The theorems hold for any employees, users, callers, tokens and calendars.

**Leave** (`LeaveProofs`). `TypeCorrect`: `Spec => []TypeOK`, one lemma per handler.
`BalanceAlgebraHolds`: `Spec => []BalanceAlgebra`. The sums are stated as cardinalities of sets
of half days (`HalfDays`), so that `UnitsAdd` and `UnitsSame` follow from the theorems on finite
sets without induction over data. `BalanceAlgebra` alone is not inductive: a commit moves what
its call read, so `LedgerInv` adds that an application about to create with `row` set has its
balance row, and so has every request marked as reserved. `LedgerHoldsWithOneDecider`: with a
single decider `stale` stays empty (`FreshInv`: what a decision read is still the status of its
row), which turns the algebra into `LedgerReconciles` for any number of concurrent applicants.
`NoOverlapHolds`: for any applicants and deciders, two active requests of an employee share a day
only if one was created between the other's check and its insert (`unseen`) or was brought back
on an outdated status (`stale`). `FreeWhenChecked` adds that what the overlap check found still
holds of every request it saw: to be brought back is the only other way to become active.
`NoOverdraftHolds`: leave that is counted is overdrawn only where two requests charged to the row
did not see each other (`Raced`), whoever applies and decides, as long as HR lowers no total (`TotalsKept`) and no update turns a type that is not counted into one that is
(`KindsKept`); both are behaviours the code allows and the guard does not look at.
`TerminalIsFinalHolds`: rejected and cancelled are final but for a commit on an outdated status,
under any overlap.

**Accounts** (`IdentityProofs`). `AccountsTypeCorrect`. `GuardedAlone`: one admin
request at a time never removes the last active super admin, from any founders and
in spite of failures. The strengthening `Covered` says that a request past the
guard is about a user beside whom another active super admin stands; it is lost
as soon as a second request runs, which is why the theorem needs `OneAtATime`.
`FounderStays`: founded with one super admin, as sign-up does, the organisation
keeps him under *any* overlap; `FounderInv` says he is the only user ever
counted, and that no request about him gets past the guard. Between them the two
theorems bound the one gap: several super admins and overlapping requests, which
no endpoint can set up but a seed can.

**Sessions** (`IdentityProofs`). `SessionsTypeCorrect`, and `ReuseEscapes`:
`SessionsSpec => []ReuseLeavesStrays`. The invariant has two parts beside the
types. `Forest`: the ancestors of a token are rows, it is not one of them, and
each is its parent or the parent of another. `WalksReach`: every live descendant of
a walk's token that is no stray is reached by the walk, that is, it has been seen
or descends from a token still queued. When the queue is empty the walk has seen
them all and `WalkRevoke` revokes them.

**Identity** (`IdentityProofs`). `TypeCorrect`; `DisabledEscapes`
(`DisabledLeavesStrays`) and `ResetEscapes` (`ResetLeavesStrays`) for the
composition, which lifts the step lemmas of both parts; and
`IdentityImplementsAccounts`: `Spec => AccountsSpec`, every step of the
composition is a step of the accounts or leaves them unchanged, so what is proved
of Accounts holds of the whole.

*Handlers alone* (`SpecEither`). `OneLiveHolds`, `ResetOnceHolds` and `SignedOutHolds` state the
three `...IfAlone` promises for any users, clients, tokens and links. The invariant `SerialInv`
says that one handler is in flight, that what it read is still so (`StillTrue`: the user active,
the token live, the link unused), and, of chains, `Newest`: two live tokens of a chain are the
same one, or a rotation is about to retire one of them. `Forest` is what makes a new child a
relative of nothing live but its parent. `SignedOutHolds` adds the hypothesis `NobodyLeaves`,
because offboarding ends no session even when it runs alone (`identity_offboard`); its invariant
is `DisabledIsSignedOut` itself.

**Memberships and limits** (`AccessProofs`). `MembershipTypeCorrect`, `NothingHiddenHolds` and
`OneOfEachHolds` from `MemberInv`: a call acts on rows that exist (`CallsKnow`), a role held and
not orphaned is not about to be deleted (`HeldStays`), a link was used as often as its status
says (`UsesCounted`), and cardinalities are turned into "any two are equal" (`AtMostOne`), which
needs no counting. `LimitsTypeCorrect` and `GuessesLimitedHolds`: `AttemptsCovered` bounds the
attempts made *and those in flight* by the limit and the callers less one, for any limit and any
number of callers. `LinksImplement`: `MembershipSpec /\ LimitsSpec => LinksOpenOnce`, one lemma
per action that says to which step of a link it maps.

**Attendance** (`WorkdayProofs`). `OneStoryHolds`, `CorrectionStandsHolds` and
`RecordsImplementTimeSheet` (`AttendanceSpec => RecordsAreTimeSheets`), for any
number of days, calls, requests and minutes. Neither invariant is inductive
alone. `TimesPast` adds that no time of a record or of a call is later than the
clock, which is what puts a check-out after its check-in. `CallsKnow` says what a call may still
rely on: the row it saw is there unless the day is blurred, a decision saw its
request pending. `SignedByDecided`: who signs a record is a request and is
decided. With these a commit either fills a time the time sheet had open, signs for a
correction, or notes the day in `blurred`, where the abstract sheet is `Blurred`
too; every other step is a stutter.

**Defaults and holidays** (`WorkdayProofs`). `OneDefaultHolds`. That two calendars are never
default is the index and nothing else; that one always is needs `SawNoDefault`: a request about
to switch off or archive saw a row that was no default, so it takes the flag away only from a row
that became the default since, which is `undermined`. `LookupsAnswerHolds`: whatever happens
under a lookup, it answers a calendar the employee had since it began. `AsksKnow` and `HadNow`
carry it: history has the calendar he has now, and one who is about to be given the default has
no other, unless he was given one since.

**Documents** (`PublicationsProofs`). `SignersAreReadersHolds`, `FiledRightHolds`, and
`VersionsImplementLog` (`DocumentsSpec => VersionsAreALog`). `CurrentIsLast`: the
pointer of a document is to its last version. `RowsHold`: what was
acknowledged is published, and stays so, and a category is never erased. `TasksKnow`: an edit in
flight saw its document unpublished, a signature is asked of a reader, a
number in flight is at most one above the last version. So the number the unique key lets
through is the next one and writing it appends; and terms are rewritten either before
anybody could sign or under the eyes of `unlocked`.

**Announcements** (`PublicationsProofs`). `AnnouncementsTypeCorrect`, `NotifiedOnceHolds`,
`ScheduleCoherentHolds`, `BellMatchesFeedHolds`, for any announcements, users, requests and
ticks. The three are inductive together with `JobsKnow`: the status a request read allowed it,
the times it checked were coherent, and what it is to deliver was not published yet.

**Lists and pages that create** (`PagesProofs`). `ListsUsableHolds`: for any finite list and any
screen of `PagedLists`, no page in the history is past the end (`PastExists`) unless rows went or
the toggle of archived rows kept the page (`moved`); `ListsFit` checks the eighteen screens by
their definitions. `PreviewFollowsHolds` numbers the previews: an outcome on show is the newest's
unless `crossed`, and the newest was asked with what is chosen now unless a timer is pending.
`CreatesOnceHolds` ties the records made to the stage of the save and to where the page is: a page
that is leaving has its record, and each save begun since (`again`) makes at most one more. `PagesUsableHolds` is their
conjunction, as the run checks it.

**Edit forms** (`PagesProofs`). `SavesWhatIsTypedHolds`: `FormsSpec => SavesWhatIsTyped`, an
action property, for each of the twelve forms and whatever is typed, fetched and written by
others in any order. `FormsInv` follows a value from the keyboard to the database: the draft has
the fields of its form (`OfForm`), a form that sends differences compares with what it was filled
from (`Compared`), what was typed stands in the draft until a fetch that refills it (`AsTyped`),
what was not is what the record showed (`Untouched`), a save under way leaves in its fields what
it sent until the user types or a fetch refills them (`StillSent`), and carries what was typed
and otherwise what the fields were filled with (`Sent`).

**Rules** (`RulesProofs`). The six properties `CountsHalves`, `ReadersAgree`, `ReachIsSound`,
`DaysAgree`, `OffersAccepted` and `DashboardsAddUp` as theorems of `SpecApart`, for any depth of
the walk, length of day and last day asked for: the question never changes (`QuestionStays`), so
it is enough that every question has the right answer. They rest on theorems about the rules
themselves, stated for *any* input: `TenantIsolation` (any tables, keys and organisations),
`TeamWithinDepth` (any reporting lines, cycles included), `GrantsOnlyWiden` (any staff and
grants), `ReadersAreOne` (any people and rules), `UnitsAreHalves` (any range, holidays and
flags), `WallClockInverts` (any zone that changes its clocks once), `CheckInShown`,
`CheckInCounted`, and `GroupsAddUp`, `TrendAddsUp`, `StaffAddsUp`, `LeaveAddsUp`, `OwedAddsUp`
for any finite tables (`LeaveAddsUp` assumes that no request was cancelled, which one of its two
queries leaves out and the other does not). What the folds and recursive functions of these rules
compute is an induction over data. The induction theorems of the library take the formula as a
parameter, which the provers cannot instantiate; here each induction is an argument about a least
counterexample (`LeastNumber`, `LeastSet`: a nonempty set of numbers, or of finite sets, has a
minimal element), and a sum is the size of a union of disjoint sets (`TotalCounts`), so adding up
is counting rows.

**Seeds** (`RulesProofs`). `RerunsConverge`, `RecordsHeld` and `DevSeedReruns`, and
`ConvergingSeeds` for the three together, for any number of runs, breakdowns, acts, draws, days,
edits and months. *Tables:* whatever happened, the tables stored are closed under what their rows
need (`Whole`), as the database sees to, and a run that nobody disturbs either is still wiping,
with a script under which each deletion is allowed and leaves nothing behind (`Emptying`), or is
making rows whose needs are there (`Sound`). What a deletion takes with it, `Goes`, is the least
set closed under `Cascades` (`GoesLeast`). *Records:* `OpenApart` (open requests share no day)
and `Closed` (the books are the counts of what was drawn). *Development:* `Behind(n)` says that a
run is past statement n, and `DevKept` gives, for every statement, what has been true since: the
part of the final promise that statement makes, and that only an edit listed in `rerouted` can
take back.

**Query cache** (`PortalProofs`). `NothingStaleHolds`, for any table of hooks in which the keys a
mutation makes stale and those it puts cover what it changes, `LeftStale` aside
(`KeysAssumption`; the run evaluates it over the hooks as they are, `LeftStale` listing the stale pairs and no
others). What is marked fresh, and
what a fetch in flight will mark, has read every change that was answered (`FreshKeeps`,
`FetchKeeps`).

**Fetch client** (`PortalProofs`). `TransparentHolds`: for any tabs and any calls, a call
outlives its access token unless one of the `excuses` happened. The invariant `Calm` says what is
undisturbed until then: the jar holds a token, live unless a refresh is about to bring its
successor; at most one refresh is at the server; whoever has a csrf token in hand has that of the
jar; and a call that has refreshed finds the access token fresh.

Assumptions used: the named ones of the modules (`LeaveAssumption`, `UsersAssumption`,
`SessionsAssumption`, `MembershipAssumption`, `LimitsAssumption`, `AttendanceAssumption`,
`DefaultsAssumption`, `HolidaysAssumption`, `AnnouncementsAssumption`, `DocumentsAssumption`,
`ListPagesAssumption`, `QueryCacheAssumption`, `KeysAssumption`, `ReachAssumption`,
`LocalTimeAssumption`, `SeedRecordsAssumption`, `NoneAssumption`, `UnboundAssumption`), which the
runs evaluate: constants have their types, identities of requests and users are finite, and the
values that stand for "nothing" (`NoToken`, `Unset`, `Blurred`, `None`, `Unbound`) are none of
the others. What a theorem assumes beyond that stands in its statement:
`OneDecider`, `OneAtATime`, `TotalsKept`, `KindsKept`, `NobodyLeaves`, finite lists and tables.

**Only model-checked.** The liveness of `portal`, `CallsEnd` and `Recovers`: they need fairness,
which the prover cannot reason about. Every other property of the passing runs is a theorem, some
under the hypotheses named above where the run restricts its instance in the same way; its run
shows on a small instance that the theorem speaks of something, and its mutant that the code
could break it.

## 5. Abstractions

* **A transaction is one action.** Its statements hold the locks of what they wrote
  until it commits, and what matters of what it reads is either a step of its own
  (`Unset...`, `ReplaceNumber`) or read again under the lock. A transaction that fails
  leaves nothing, so failing is the action not being taken, or `Lost`, `Fails`,
  `Refused`, `Rejected` where a call in flight ends.
* **A refusal is a step not taken.** A handler that answers 4xx before it writes
  changes nothing. Permission and scope checks are refusals; whether they ask
  the right question is checked by itself (`Reach`, `Offers`).
* **Time.** Expiry of a token or a reset is a refusal, that of an invite or a
  challenge a step, and either may come at any moment. Where times decide a state
  (attendance, announcements) there is a clock; locks of sign-in are cleared by a
  step that stands for the wait.
* **Balances.** `ensureBalancesForCycle` creates the missing rows of all active types;
  with one type it is one row, created when a call first needs it.
* **Orders left open.** The walk over a token family and the tick of scheduled
  announcements take their rows in any order; so do sets of permissions and readers.
* **Data.** Passwords are not modelled: a password is right or it is not. Titles,
  notes and files are model values. Audit rows and mails come after the
  commit of a handler and nothing reads them.
* **Queries in one step.** The queries a handler makes before it writes are steps of
  their own where what each of them saw is used apart (`Leave`, `Accounts`, the walk of
  `Sessions`, `ReplaceNumber`). Elsewhere (`SignRead`, `AckRead`, `EditRead`) they are one step,
  and writes of others that fall between two of them are not explored; those that fall
  behind the last are.

## 6. Plan

In the order of what it adds:

1. `OneDefault` of policies under one editor at a time, without exceptions.
2. That `Holidays` implements `Defaults` as `Identity` implements `Accounts`.

## 7. Not modelled

* **Sign-up and bootstrap** (`rbac/org-bootstrap.service.ts`): one transaction of
  inserts into an organisation nobody else can address yet. The modules start
  from what it leaves: `Founders`, the seeded categories, the Standard calendar.
* **The days a lookup brings to leave**: any set of days to `LeaveRules`; `Holidays` follows the
  lookup only as far as the calendar.
* **Audit log** (`audit/`): inserted after the handler's commit, failures
  swallowed, read by one list and by no handler.
* **Mail, object storage, health, configuration**: I/O without state here. Uploads
  are confirmed before `create` and `replaceFile` see them.
* **HTTP plumbing**: guards, pipes and filters keep no state; the page arithmetic is in
  `ListPages`, what a guard grants is `Effective` of `Membership`.
* **Organisation structure**: rows whose one rule is a unique name. Its forms and lists are
  modelled. Not explored: the API takes any parent of a department, and only the
  dialog leaves out those below it among the rows it can see (`shared.ts:66-70` calls that
  best effort); delete one of a chain, move the other below it, restore the
  first, and both are their own ancestors and in no tree.
* **Organisation profile and settings**: single rows of which the last write wins; their
  forms and cached views are modelled.
* **Employee records**: creation and import keep unique codes and nothing else;
  offboarding, restore, reporting lines and the edit form are modelled.
* **Parts of dashboards, forms and seeds**: the lists of the latest rows, the dialogs that only
  create, `seed.ts`, which upserts one table of permissions.
* **The scheduler of announcements**: `runScheduledPublishTick` is modelled as a step that
  may come at any time; nothing in the repository outside the tests calls it.
* **Deployment** (`infra/`, `deploy/`): scripts around the system, not part of it.
