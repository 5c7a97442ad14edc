------------------------------- MODULE Offers -------------------------------
(* What the pages offer to do with the record they show, and what the API  *)
(* lets be done with it.  A record is cut down to what either looks at.    *)
EXTENDS Sequences, SequencesExt

Where(cond, actions) == IF cond THEN actions ELSE {}

-----------------------------------------------------------------------------
(* Announcements. *)

(* The field that schedules, once it is shown (scheduleMode), asks for no  *)
(* status and hides the other two.                                         *)
AnnouncementPage(a) ==
    Where(a.status # "archived", {"edit", "archive"})
        \union Where(a.status \in {"draft", "scheduled"} /\ ~a.scheduling, {"publish"})
        \union Where(a.status = "scheduled" /\ ~a.scheduling, {"unschedule"})
        \union Where(a.scheduling, {"schedule"})
        \union Where(a.status = "archived", {"restore"})

AnnouncementApi(a) ==
    {"archive"}
        \union Where(a.status # "archived", {"edit", "unschedule", "publish", "schedule"})
        \union Where(a.status = "archived", {"restore"})

(* Documents. *)
(* mutant: the buttons look at publishedAt alone.                          *)
DocumentPageReadPublished(d) ==
    Where(~d.published, {"edit", "delete"} \union Where(d.file, {"publish"}))
        \union Where(d.published, {"edit", "replace", "archive"})
        \union Where(d.archived /\ ~d.deleted, {"unarchive"})
        \union Where(d.deleted, {"restore"})

DocumentPage(d) ==
    Where(~d.archived, {"edit"})
        \union Where(~d.archived /\ ~d.published, {"delete"} \union Where(d.file, {"publish"}))
        \union Where(~d.archived /\ d.published, {"replace", "archive"})
        \union Where(d.archived /\ ~d.deleted, {"unarchive"})
        \union Where(d.deleted, {"restore"})

DocumentApi(d) ==
    IF d.deleted THEN {"restore"}
    ELSE {"delete", "archive", "unarchive"}
            \union Where(~d.archived, {"edit", "replace"})
            \union Where(~d.archived /\ (d.file \/ d.published), {"publish"})

(* The employee's page picks the document from the feed of myDocuments.    *)
MyDocumentPage(d) ==
    Where(d.published /\ ~d.archived /\ ~d.deleted /\ d.required /\ ~d.signed, {"sign"})
MyDocumentApi(d)  == Where(d.published /\ ~d.archived /\ ~d.deleted, {"sign"})

CategoryPage(c) ==
    Where(c.archived /\ ~c.system, {"restore"})
        \union Where(~c.archived, {"edit"} \union Where(~c.system, {"delete"}))

CategoryApi(c) ==
    IF c.archived THEN {"restore"} ELSE {"edit"} \union Where(~c.system /\ ~c.used, {"delete"})

(* Holiday calendars and their holidays. *)
CalendarPage(k) ==
    {"addHoliday"} \union
    IF k.archived THEN {"restore"}
    ELSE {"edit"} \union Where(~k.default, {"setDefault", "delete"})

CalendarApi(k) ==
    IF k.archived THEN {"restore"}
    ELSE {"addHoliday", "edit", "setDefault"} \union Where(~k.default, {"delete"})

-----------------------------------------------------------------------------
(* Roles, users, invites and employees. *)

RolePage(r) ==
    Where(~r.archived, {"save"})
        \union Where(~r.system, IF r.archived THEN {"restore"} ELSE {"delete"})

RoleApi(r) ==
    IF r.system THEN {}
    ELSE IF r.archived THEN {"restore"}
    ELSE {"save"} \union Where(~r.used, {"delete"})

(* A user's roles come as a list of which the page looks at the first. *)
UserPage(u) ==
    Where(u.roles = <<>> \/ Head(u.roles) # "super_admin",
          {"changeRole"} \union
          IF u.disabled THEN {"activate"} ELSE Where(~u.self, {"deactivate"}))

LastAdmin(u) == u.onlyAdmin /\ "super_admin" \in ToSet(u.roles)

UserApi(u) ==
    {"activate"}
        \union Where(~LastAdmin(u), {"changeRole"})
        \union Where(~u.self /\ (u.disabled \/ ~LastAdmin(u)), {"deactivate"})

InvitePage(i) == Where(i.status = "pending", {"resend", "revoke"})

InviteApi(i) ==
    Where(i.status = "pending", {"revoke"})
        \union Where(i.status \in {"pending", "expired"}, {"resend"})

EmployeePage(e) ==
    {"edit"} \union Where(e.archived, {"restore"}) \union Where(~e.offboarded, {"offboard"})

EmployeeApi(e) ==
    IF e.archived THEN {"restore"} ELSE {"edit"} \union Where(~e.onlyAdmin, {"offboard"})

-----------------------------------------------------------------------------
(* Leave requests, corrections and the day. *)

LeavePage(r) ==
    Where(r.status = "pending", {"approve", "reject"})
        \union Where(r.status \in {"pending", "approved"}, {"cancel"})

LeaveApi(r) ==
    Where(r.status = "pending", {"approve", "reject"})
        \union Where(r.status \in {"pending", "approved"}, {"cancel"})

CorrectionPage(r) == Where(r.status = "pending", {"approve", "reject"})
CorrectionApi(r)  == Where(r.status = "pending", {"approve", "reject"})

DayPage(day) == Where(~day.out, IF day.in THEN {"checkOut"} ELSE {"checkIn"})

DayApi(day) ==
    Where(~day.in, {"checkIn"}) \union Where(day.in /\ ~day.out, {"checkOut"})
=============================================================================
