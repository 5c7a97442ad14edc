----------------------------- MODULE QueryKeys ------------------------------
(***************************************************************************)
(* The views of the two portals and the mutations of their data            *)
(* (packages/ui/src/api/*.ts): the key a view is cached under and the facts *)
(* it shows; the facts a mutation changes and the keys it makes stale.  A  *)
(* fact is named coarsely, after the rows it is kept in: "employees" is    *)
(* everything on employee rows, "documentAcks" the rows of signed documents *)
(* and so on; "spareRoles", "spareDepartments" and the like are rows that  *)
(* come and go while nothing refers to them, and the flag of the default   *)
(* calendar.  Parameters of a key (filters, ids) only refine it: keys are  *)
(* matched by prefix, so they are left out.  So are permissions and team   *)
(* scope: a view is that of a caller who may see all of it.                *)
(***************************************************************************)
EXTENDS Sequences, SequencesExt, TLC

View(key, shows)   == [key |-> key, shows |-> shows]
Hook(facts, stale) == [writes |-> facts, stales |-> stale, puts |-> {}]

\* A hook that also puts its answer into the cache (setQueryData).
Putting(hook, key) == [hook EXCEPT !.puts = {key}]

AdminKey    == <<"dashboard", "admin">>
EmployeeKey == <<"dashboard", "employee">>
MeKey       == <<"auth", "me">>
Boards      == {AdminKey, EmployeeKey}

-----------------------------------------------------------------------------
(* Sessions, roles, users and invites (session.ts, rbac.ts) *)

SessionViews ==
    "session" :> View(MeKey, {"session", "organization", "userRoles", "roles"})

SessionHooks ==
    LET signsIn == Putting(Hook({"session"}, {MeKey}), MeKey)
    IN  [hook \in {"signIn", "verifyTwoFactor", "acceptInvite"} |-> signsIn]

RoleViews ==
    LET shown == {"roles", "spareRoles", "userRoles"}
    IN  [roles |-> View(<<"rbac", "roles", "list">>, shown),
         role  |-> View(<<"rbac", "roles", "detail">>, shown)]

PermissionsView == "permissions" :> View(<<"rbac", "permissions">>, {})

UsersView ==
    "users" :> View(<<"rbac", "users", "list">>,
                    {"users", "userRoles", "roles", "employees"})

InvitesView == "invites" :> View(<<"rbac", "invites", "list">>, {"invites"})

\* A role is created, deleted and restored while nobody holds it: "spareRoles".
RoleHooks ==
    LET stale == {<<"rbac", "roles">>}
    IN  [createRole  |-> Hook({"spareRoles"}, stale),
         updateRole  |-> Hook({"roles"}, stale),
         deleteRole  |-> Hook({"spareRoles"}, stale),
         restoreRole |-> Hook({"spareRoles"}, stale)]

UserHooks ==
    LET users == <<"rbac", "users">>
    IN  [assignUserRole |-> Hook({"userRoles"}, {users, <<"rbac", "roles">>}),
         deactivateUser |-> Hook({"users"}, {users}),
         activateUser   |-> Hook({"users"}, {users})]

InviteHooks ==
    [hook \in {"createInvite", "revokeInvite", "resendInvite"} |->
        Hook({"invites"}, {<<"rbac", "invites">>})]

-----------------------------------------------------------------------------
(* Employees and the organisation's structure (employees.ts, org-structure.ts) *)

EmployeeViews ==
    LET shown == {"employees", "departments", "designations", "locations"}
    IN  [employees |-> View(<<"employees", "list">>, shown),
         employee  |-> View(<<"employees", "detail">>, shown)]

\* The lists other pages choose from.
PickerViews ==
    [departments  |-> View(<<"org", "departments">>, {"departments", "spareDepartments"}),
     designations |-> View(<<"org", "designations">>, {"designations", "spareDesignations"}),
     locations    |-> View(<<"org", "locations">>, {"locations", "spareLocations"})]

\* Offboarding disables the account of the employee, restoring enables it.
EmployeeHooks ==
    LET stale == {<<"employees">>, AdminKey}
    IN  [createEmployee  |-> Hook({"employees"}, stale),
         updateEmployee  |-> Hook({"employees"}, stale),
         deleteEmployee  |-> Hook({"employees", "users"}, stale),
         restoreEmployee |-> Hook({"employees", "users"},
                                  stale \union {<<"rbac", "users">>})]

OrgViews ==
    LET managed == <<"org", "employees-by-manager">>
    IN  [orgDepartments  |-> PickerViews.departments,
         orgDesignations |-> PickerViews.designations,
         orgLocations    |-> PickerViews.locations,
         byManager       |-> View(managed, {"employees", "departments",
                                            "designations", "locations"})]

MyEmployeeView ==
    "myEmployee" :> View(<<"org", "me">>, {"employees", "departments",
                                           "designations", "locations"})

\* orgKeys.all: no view of the structure is cached under it.
OrgAll == <<"org-structure">>

DepartmentHooks ==
    [hook \in {"createDepartment", "updateDepartment",
               "deleteDepartment", "restoreDepartment"} |->
        Hook(IF hook = "updateDepartment" THEN {"departments"}
                                          ELSE {"spareDepartments"}, {OrgAll})]
DesignationHooks ==
    [hook \in {"createDesignation", "updateDesignation",
               "deleteDesignation", "restoreDesignation"} |->
        Hook(IF hook = "updateDesignation" THEN {"designations"}
                                           ELSE {"spareDesignations"}, {OrgAll})]
LocationHooks ==
    [hook \in {"createLocation", "updateLocation",
               "deleteLocation", "restoreLocation"} |->
        Hook(IF hook = "updateLocation" THEN {"locations"}
                                        ELSE {"spareLocations"}, {OrgAll})]

-----------------------------------------------------------------------------
(* The organisation and the holidays (organization.ts, holidays.ts) *)

OrganizationViews ==
    [organization |-> View(<<"organization", "profile">>, {"organization"}),
     settings     |-> View(<<"organization", "settings">>, {"settings"})]

OrganizationHooks ==
    LET profile == Putting(Hook({"organization"}, {MeKey}),
                           OrganizationViews.organization.key)
    IN  [updateOrganization |-> [profile EXCEPT !.writes = @ \union {"timezone"}],
         confirmLogo        |-> profile,
         updateOrgSettings  |-> Putting(Hook({"settings"}, {}),
                                        OrganizationViews.settings.key)]

HolidayViews ==
    [calendars        |-> View(<<"holidays", "calendars", "list">>,
                               {"calendars", "spareCalendars"}),
     calendar         |-> View(<<"holidays", "calendars", "detail">>,
                               {"calendars", "spareCalendars", "holidays"}),
     holidays         |-> View(<<"holidays", "list">>, {"holidays"}),
     locationCalendar |-> View(<<"holidays", "location">>,
                               {"locationCalendars", "calendars"})]

MyHolidaysView ==
    "myHolidays" :> View(<<"holidays", "me">>,
                         {"holidays", "calendars", "locationCalendars"})

CalendarHooks ==
    [hook \in {"createCalendar", "updateCalendar", "deleteCalendar",
               "restoreCalendar", "setDefaultCalendar"} |->
        Hook(IF hook = "updateCalendar" THEN {"calendars"} ELSE {"spareCalendars"},
             {<<"holidays">>})]

HolidayHooks ==
    [hook \in {"createHoliday", "updateHoliday", "deleteHoliday"} |->
        Hook({"holidays"}, {<<"holidays">>} \union Boards)]

AssignmentHooks ==
    [hook \in {"assignCalendar", "unassignCalendar"} |->
        Hook({"locationCalendars"}, {<<"holidays">>})]

-----------------------------------------------------------------------------
(* Announcements, documents and the bell
   (announcements.ts, documents.ts, notifications.ts) *)

AnnouncementViews ==
    [announcements   |-> View(<<"announcements", "list">>,
                              {"announcements", "drafts", "announcementAcks"}),
     announcement    |-> View(<<"announcements", "detail">>,
                              {"announcements", "drafts", "announcementAcks"}),
     acknowledgements |-> View(<<"announcements", "acks">>,
                               {"announcementAcks", "employees"})]

MyAnnouncementsView ==
    "myAnnouncements" :> View(<<"announcements", "me">>,
                              {"announcements", "announcementAcks"})

\* Publishing puts a row in the bell of everybody addressed.
AnnouncementHooks ==
    LET all    == {<<"announcements">>}
        draft  == Hook({"announcements"}, all \union {AdminKey})
        public == Hook({"announcements"}, all \union Boards)
    IN  [createAnnouncement  |-> [draft EXCEPT !.writes = {"drafts"}],
         updateAnnouncement  |-> draft,
         publishAnnouncement |-> [public EXCEPT !.writes = @ \union {"notifications"}],
         archiveAnnouncement |-> public,
         restoreAnnouncement |-> Hook({"drafts"}, all)]

AcknowledgeHook ==
    "acknowledgeAnnouncement" :>
        Hook({"announcementAcks"}, {<<"announcements">>, EmployeeKey})

DocumentViews ==
    [categories   |-> View(<<"documents", "categories">>,
                           {"categories", "spareCategories"}),
     documents    |-> View(<<"documents", "list">>,
                           {"documents", "categories", "documentAcks"}),
     document     |-> View(<<"documents", "detail">>,
                           {"documents", "categories", "documentAcks"}),
     documentAcks |-> View(<<"documents", "acks">>, {"documentAcks", "employees"}),
     pendingAcks  |-> View(<<"documents", "pending">>,
                           {"documents", "documentAcks", "employees"})]

MyDocumentsView ==
    "myDocuments" :> View(<<"documents", "me">>,
                          {"documents", "categories", "documentAcks"})

CategoryHooks ==
    [hook \in {"createCategory", "updateCategory", "deleteCategory", "restoreCategory"} |->
        Hook(IF hook = "updateCategory" THEN {"categories"} ELSE {"spareCategories"},
             {<<"documents", "categories">>})]

DocumentHooks ==
    LET admin  == Hook({"documents"}, {<<"documents">>, AdminKey})
        public == Hook({"documents"}, {<<"documents">>} \union Boards)
    IN  [createDocument    |-> admin,
         updateDocument    |-> admin,
         replaceFile       |-> admin,
         publishDocument   |-> public,
         archiveDocument   |-> public,
         unarchiveDocument |-> public,
         deleteDocument    |-> admin,
         restoreDocument   |-> admin]

SignHook ==
    "acknowledgeDocument" :> Hook({"documentAcks"}, {<<"documents">>, EmployeeKey})

NotificationViews ==
    [notifications |-> View(<<"notifications", "list">>, {"notifications"}),
     unreadCount   |-> View(<<"notifications", "unread-count">>, {"notifications"})]

NotificationHooks ==
    [hook \in {"markRead", "markAllRead"} |->
        Hook({"notifications"}, {<<"notifications">>})]

-----------------------------------------------------------------------------
(* Leave, attendance and the dashboards (leave.ts, attendance.ts, dashboard.ts) *)

LeaveViews ==
    [leaveRequests |-> View(<<"leave", "requests", "list">>, {"leave", "leaveTypes"}),
     leaveBalances |-> View(<<"leave", "balances", "list">>, {"leave", "leaveTypes"}),
     leaveTypes    |-> View(<<"leave", "types">>, {"leaveTypes"})]

MyLeaveViews ==
    [myBalances |-> View(<<"leave", "balances", "me">>, {"leave", "leaveTypes"}),
     myRequests |-> View(<<"leave", "requests", "me">>, {"leave", "leaveTypes"})]

\* A request also moves the balance it is taken from: one fact, "leave".
MyLeaveHooks ==
    [hook \in {"applyLeave", "cancelLeave"} |->
        Hook({"leave"}, {<<"leave">>, EmployeeKey})]

DecideLeaveHook ==
    "decideLeave" :> Hook({"leave"}, {<<"leave">>} \union Boards)

AttendanceViews ==
    [attendance       |-> View(<<"attendance", "list">>, {"attendance"}),
     attendanceRecord |-> View(<<"attendance", "detail">>, {"attendance"}),
     regularizations  |-> View(<<"attendance", "regularizations">>,
                               {"regularizations"})]

MyAttendanceView ==
    "myAttendance" :> View(<<"attendance", "me">>, {"attendance", "regularizations"})

DecideRegularizationHook ==
    "decideRegularization" :>
        Hook({"attendance", "regularizations"}, {<<"attendance">>, AdminKey})

RegularizeHook ==
    "createRegularization" :>
        Hook({"regularizations"}, {<<"attendance">>, EmployeeKey})

ClockHooks ==
    [hook \in {"checkIn", "checkOut"} |->
        Hook({"attendance"}, {<<"attendance">>} \union Boards)]

\* What "today" is follows the time zone of the organisation, for the employee
\* after his own and that of his location.
AdminBoard ==
    "adminDashboard" :>
        View(AdminKey, {"employees", "departments", "leave", "leaveTypes",
                        "attendance", "regularizations", "documents",
                        "documentAcks", "announcements", "holidays", "calendars",
                        "timezone"})

EmployeeBoard ==
    "employeeDashboard" :>
        View(EmployeeKey, {"employees", "leave", "leaveTypes", "attendance",
                           "regularizations", "documents", "categories",
                           "documentAcks", "announcements", "announcementAcks",
                           "holidays", "calendars", "timezone", "locations"})

\* Views that fetch again by themselves every 30 or 60 seconds.
Polled == {"adminDashboard", "employeeDashboard", "unreadCount"}

AuditView ==
    "auditTrail" :> View(<<"audit", "list">>, {"auditTrail", "employees", "users"})

-----------------------------------------------------------------------------
(* The two portals *)

\* Every change made from the admin portal leaves an entry in the audit log.
Audited(hooks) ==
    [name \in DOMAIN hooks |->
        [hooks[name] EXCEPT !.writes = @ \union {"auditTrail"}]]

Views ==
    [admin |->
        SessionViews @@ RoleViews @@ PermissionsView @@ UsersView @@ InvitesView
        @@ EmployeeViews @@ PickerViews @@ OrgViews @@ OrganizationViews
        @@ HolidayViews @@ AnnouncementViews @@ DocumentViews @@ NotificationViews
        @@ LeaveViews @@ AttendanceViews @@ AdminBoard @@ AuditView,
     employee |->
        SessionViews @@ MyEmployeeView @@ MyHolidaysView @@ MyAnnouncementsView
        @@ MyDocumentsView @@ NotificationViews @@ MyLeaveViews @@ MyAttendanceView
        @@ EmployeeBoard @@ "announcement" :> AnnouncementViews.announcement]

Hooks ==
    [admin |->
        Audited(RoleHooks @@ UserHooks @@ InviteHooks @@ EmployeeHooks
                @@ DepartmentHooks @@ DesignationHooks @@ LocationHooks
                @@ OrganizationHooks @@ CalendarHooks @@ HolidayHooks
                @@ AssignmentHooks @@ AnnouncementHooks @@ CategoryHooks
                @@ DocumentHooks @@ DecideLeaveHook @@ DecideRegularizationHook
                @@ "cancelLeave" :> MyLeaveHooks.cancelLeave)
        @@ SessionHooks @@ NotificationHooks,
     employee |->
        SessionHooks @@ NotificationHooks @@ MyLeaveHooks @@ AcknowledgeHook
        @@ SignHook @@ RegularizeHook @@ ClockHooks]

Changes(hook, view)   == hook.writes \intersect view.shows # {}
Refreshes(hook, view) == \E key \in hook.stales : IsPrefix(key, view.key)

\* The views a mutation changes without making them stale: an open one keeps
\* showing what was there before until something else fetches it again.
LeftStale ==
    ((DOMAIN Hooks.admin \ DOMAIN (SessionHooks @@ NotificationHooks)) \X {"auditTrail"})
    \union ((DOMAIN DepartmentHooks) \X {"departments", "orgDepartments"})
    \union ((DOMAIN DesignationHooks) \X {"designations", "orgDesignations"})
    \union ((DOMAIN LocationHooks) \X {"locations", "orgLocations"})
    \union ({"updateDepartment", "updateDesignation", "updateLocation"}
            \X {"employees", "employee", "byManager"})
    \union {<<"updateDepartment", "adminDashboard">>}
    \union ({"updateRole", "assignUserRole"} \X {"session"})
    \union {<<"updateRole", "users">>}
    \union ((DOMAIN EmployeeHooks)
            \X {"byManager", "acknowledgements", "documentAcks", "pendingAcks"})
    \union ({"createEmployee", "updateEmployee", "deleteEmployee"} \X {"users"})
    \union {<<"updateCalendar", "adminDashboard">>, <<"cancelLeave", "adminDashboard">>}
    \union ({"updateCategory"} \X {"documents", "document"})
    \union ({"publishAnnouncement"} \X (DOMAIN NotificationViews))
    \union ({"updateOrganization", "confirmLogo"} \X {"organization"})
    \union {<<"updateOrganization", "adminDashboard">>}
    \union {<<"updateOrgSettings", "settings">>}
=============================================================================
