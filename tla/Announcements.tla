--------------------------- MODULE Announcements ---------------------------
(***************************************************************************)
(* Announcements and the notifications they raise                          *)
(* (announcements/announcements.service.ts).  A request reads the          *)
(* announcement, then writes it; publishing also reads the audience,       *)
(* before its transaction.  The tick that publishes what is due takes the  *)
(* due ones one after another.  An audience is the set of active employees *)
(* its rules resolve to (AudienceRules says which).                        *)
(***************************************************************************)
EXTENDS Integers, FiniteSets, Tables

CONSTANTS
    Announcements,  \* identities; bounds how many are made
    Staff,          \* active employees
    Users,          \* those with a user account
    Moments,        \* times an announcement may be scheduled for or expire at
    Edits,          \* what an update may bring
    MaxSent,        \* bound of the publications of one announcement
    Writers,        \* requests and ticks that run concurrently
    Never,          \* no time
    Kept            \* a field an update leaves alone

Time     == Moments \union {Never}
NoticeEdit == [scheduled: Time \union {Kept}, expires: Time \union {Kept},
               audience: (SUBSET Staff) \union {Kept}]

ASSUME AnnouncementsAssumption ==
    /\ Users \subseteq Staff
    /\ Moments \subseteq Nat /\ Never \notin Nat /\ Kept \notin Time
    /\ MaxSent \in Nat
    /\ Edits \subseteq NoticeEdit

VARIABLES
    notices,     \* the announcements
    sent,        \* per announcement and user: notifications sent
    acks,        \* the acknowledgements
    jobs,        \* calls in flight: what each has read
    entries,     \* history: how often each was published while it was not
    told,        \* history: whom its last publication notified
    contested,   \* history: announcements written on a status they no longer had
    crossed,     \* history: announcements whose times changed under a check of them
    retargeted   \* history: audiences changed under a publication or after it

noticeVars == <<notices, sent, acks, jobs, entries, told, contested, crossed, retargeted>>
traces     == <<entries, told, contested, crossed, retargeted>>

Phase  == {"draft", "scheduled", "published", "archived"}
Notice == [phase: Phase, scheduled: Time, expires: Time, dated: BOOLEAN,
           audience: SUBSET Staff]   \* dated: publishedAt is set
Job    == [kind: {"edit"}, on: Announcements, saw: Phase, dated: BOOLEAN, times: Time \X Time,
           edit: NoticeEdit]
            \union [kind: {"schedule"}, on: Announcements, saw: Phase, times: Time \X Time,
                    time: Moments]
            \union [kind: {"publish", "archive", "restore"}, on: Announcements, saw: Phase]
            \union [kind: {"deliver"}, on: Announcements, saw: Phase, to: SUBSET Users,
                    read: SUBSET Staff, rest: SUBSET Announcements]
            \union [kind: {"tick"}, rest: SUBSET Announcements]
            \union [kind: {"ack"}, on: Announcements, by: Staff]

Times(a) == <<notices[a].scheduled, notices[a].expires>>

Coherent(scheduled, expires) == Never \notin {scheduled, expires} => scheduled < expires

Working(w, kind) == w \in DOMAIN jobs /\ jobs[w].kind = kind
Take(w, job)     == w \notin DOMAIN jobs /\ jobs' = Put(jobs, w, job)
Finish(w)        == jobs' = Drop(jobs, w)


AnnouncementsInit ==
    /\ notices = << >>
    /\ sent = [a \in Announcements |-> [u \in Users |-> 0]]
    /\ acks = {}
    /\ jobs = << >>
    /\ entries = [a \in Announcements |-> 0]
    /\ told = [a \in Announcements |-> {}]
    /\ contested = {} /\ crossed = {} /\ retargeted = {}

-----------------------------------------------------------------------------
CreateNotice(a, scheduled, expires, audience) ==
    /\ a \in Announcements \ DOMAIN notices
    /\ Coherent(scheduled, expires)
    /\ notices' = Put(notices, a, [phase |-> "draft", scheduled |-> scheduled,
                                   expires |-> expires, dated |-> FALSE, audience |-> audience])
    /\ UNCHANGED <<sent, acks, jobs, traces>>

(* What every request on an announcement begins with.                      *)
ReadNotice(w, a, job) ==
    /\ a \in DOMAIN notices
    /\ Take(w, job)
    /\ UNCHANGED <<notices, sent, acks, traces>>

(* What every write ends with: row is what it leaves.                      *)
WriteNotice(w, row) ==
    LET a == jobs[w].on
    IN  /\ notices' = [notices EXCEPT ![a] = row]
        /\ contested' = NoteIf(notices[a].phase # jobs[w].saw, contested, a)

NoteCrossed(w) == crossed' = NoteIf(Times(jobs[w].on) # jobs[w].times, crossed, jobs[w].on)

Brought(field, old) == IF field = Kept THEN old ELSE field

\* mutant: an archived announcement may be edited into a schedule
EditReadUnchecked(w, a, edit) ==
    /\ a \in DOMAIN notices /\ notices[a].phase # "archived"
    /\ ReadNotice(w, a, [kind |-> "edit", on |-> a, saw |-> notices[a].phase,
                          dated |-> notices[a].dated, times |-> Times(a), edit |-> edit])

EditRead(w, a, edit) ==
    /\ a \in DOMAIN notices /\ notices[a].phase # "archived"
    /\ {edit.scheduled, edit.expires} # {Kept} =>
          Coherent(Brought(edit.scheduled, notices[a].scheduled),
                   Brought(edit.expires, notices[a].expires))
    /\ ReadNotice(w, a, [kind |-> "edit", on |-> a, saw |-> notices[a].phase,
                          dated |-> notices[a].dated, times |-> Times(a), edit |-> edit])

(* Clearing the time of a scheduled announcement makes it a draft again.   *)
EditCommit(w) ==
    /\ Working(w, "edit")
    /\ LET a       == jobs[w].on
           edit    == jobs[w].edit
           unplans == /\ edit.scheduled = Never
                      /\ jobs[w].saw = "scheduled" /\ ~jobs[w].dated
       IN  /\ WriteNotice(w, [notices[a] EXCEPT
                  !.phase     = IF unplans THEN "draft" ELSE @,
                  !.scheduled = Brought(edit.scheduled, @),
                  !.expires   = Brought(edit.expires, @),
                  !.audience  = Brought(edit.audience, @)])
           /\ retargeted' = NoteIf(edit.audience # Kept, retargeted, a)
    /\ NoteCrossed(w)
    /\ Finish(w)
    /\ UNCHANGED <<sent, acks, entries, told>>

(* publish with a time; one that is published already is taken back.       *)
ScheduleRead(w, a, time) ==
    /\ a \in DOMAIN notices /\ notices[a].phase # "archived"
    /\ Coherent(time, notices[a].expires)
    /\ ReadNotice(w, a, [kind |-> "schedule", on |-> a, saw |-> notices[a].phase,
                          times |-> Times(a), time |-> time])

ScheduleCommit(w) ==
    /\ Working(w, "schedule")
    /\ WriteNotice(w, [notices[jobs[w].on] EXCEPT
           !.phase = "scheduled", !.scheduled = jobs[w].time, !.dated = FALSE])
    /\ NoteCrossed(w)
    /\ Finish(w)
    /\ UNCHANGED <<sent, acks, entries, told, retargeted>>

\* mutant: what is published is published again
PublishReadAgain(w, a) ==
    /\ a \in DOMAIN notices /\ notices[a].phase # "archived"
    /\ ReadNotice(w, a, [kind |-> "publish", on |-> a, saw |-> notices[a].phase])

PublishRead(w, a) ==
    /\ a \in DOMAIN notices /\ notices[a].phase \notin {"archived", "published"}
    /\ ReadNotice(w, a, [kind |-> "publish", on |-> a, saw |-> notices[a].phase])

ArchiveRead(w, a) ==
    /\ a \in DOMAIN notices /\ notices[a].phase # "archived"
    /\ ReadNotice(w, a, [kind |-> "archive", on |-> a, saw |-> notices[a].phase])

RestoreRead(w, a) ==
    /\ a \in DOMAIN notices /\ notices[a].phase = "archived"
    /\ ReadNotice(w, a, [kind |-> "restore", on |-> a, saw |-> notices[a].phase])

MoveCommit(w, kind, phase) ==
    /\ Working(w, kind)
    /\ WriteNotice(w, [notices[jobs[w].on] EXCEPT !.phase = phase])
    /\ Finish(w)
    /\ UNCHANGED <<sent, acks, entries, told, crossed, retargeted>>

ArchiveCommit(w) == MoveCommit(w, "archive", "archived")
RestoreCommit(w) == MoveCommit(w, "restore", "draft")

-----------------------------------------------------------------------------
(* The fan-out.                                                            *)

(* Those without a user account are skipped.                               *)
Recipients(a) == notices[a].audience \intersect Users

\* mutant: everybody with an account is told
DeliveryToAll(a, saw, rest) ==
    [kind |-> "deliver", on |-> a, saw |-> saw, rest |-> rest,
     read |-> notices[a].audience, to |-> Users]

(* The recipients are looked up before the transaction that notifies them. *)
Delivery(a, saw, rest) ==
    [kind |-> "deliver", on |-> a, saw |-> saw, rest |-> rest,
     read |-> notices[a].audience, to |-> Recipients(a)]

Gather(w) ==
    /\ Working(w, "publish")
    /\ jobs' = [jobs EXCEPT ![w] = Delivery(@.on, @.saw, {})]
    /\ UNCHANGED <<notices, sent, acks, traces>>

TickRead(w, now) ==
    LET due == {a \in DOMAIN notices : /\ notices[a].phase = "scheduled"
                                       /\ notices[a].scheduled # Never
                                       /\ notices[a].scheduled <= now}
    IN  /\ due # {}
        /\ Take(w, [kind |-> "tick", rest |-> due])
        /\ UNCHANGED <<notices, sent, acks, traces>>

(* Nothing of the announcement is read again.                              *)
TickNext(w, a) ==
    /\ Working(w, "tick") /\ a \in jobs[w].rest
    /\ jobs' = [jobs EXCEPT ![w] = Delivery(a, "scheduled", @.rest \ {a})]
    /\ UNCHANGED <<notices, sent, acks, traces>>

Deliver(w) ==
    /\ Working(w, "deliver")
    /\ LET a  == jobs[w].on
           to == jobs[w].to
       IN  /\ entries[a] < MaxSent /\ \A u \in to : sent[a][u] < MaxSent
           /\ WriteNotice(w, [notices[a] EXCEPT
                  !.phase = "published", !.dated = TRUE, !.scheduled = Never])
           /\ sent' = [sent EXCEPT ![a] = [u \in Users |-> IF u \in to THEN @[u] + 1 ELSE @[u]]]
           /\ entries' = [entries EXCEPT ![a] = IF notices[a].phase = "published" THEN @ ELSE @ + 1]
           /\ told' = [told EXCEPT ![a] = to]
           /\ retargeted' = IF notices[a].audience = jobs[w].read THEN retargeted \ {a} ELSE retargeted \union {a}
           /\ jobs' = IF jobs[w].rest = {} THEN Drop(jobs, w)
                      ELSE [jobs EXCEPT ![w] = [kind |-> "tick", rest |-> @.rest]]
    /\ UNCHANGED <<acks, crossed>>

-----------------------------------------------------------------------------
(* Acknowledgements.                                                       *)

(* The status, the audience and the acknowledgement are read one after     *)
(* another; what is read between them is read at once here.                *)
AckRead(w, a, e) ==
    /\ a \in DOMAIN notices /\ notices[a].phase = "published"
    /\ e \in notices[a].audience /\ <<a, e>> \notin acks
    /\ ReadNotice(w, a, [kind |-> "ack", on |-> a, by |-> e])

(* The unique key refuses a second acknowledgement.                        *)
AckCommit(w) ==
    /\ Working(w, "ack") /\ <<jobs[w].on, jobs[w].by>> \notin acks
    /\ acks' = acks \union {<<jobs[w].on, jobs[w].by>>}
    /\ Finish(w)
    /\ UNCHANGED <<notices, sent, traces>>

(* A statement fails; a tick leaves the rest of what was due for the next. *)
Fails(w) ==
    /\ w \in DOMAIN jobs
    /\ Finish(w)
    /\ UNCHANGED <<notices, sent, acks, traces>>

AnnouncementsNext ==
    \/ \E a \in Announcements, scheduled, expires \in Time, audience \in SUBSET Staff :
          CreateNotice(a, scheduled, expires, audience)
    \/ \E w \in Writers :
          \/ EditCommit(w) \/ ScheduleCommit(w) \/ ArchiveCommit(w) \/ RestoreCommit(w)
          \/ Gather(w) \/ Deliver(w) \/ AckCommit(w) \/ Fails(w)
          \/ \E now \in Moments : TickRead(w, now)
          \/ \E a \in Announcements :
                \/ PublishRead(w, a) \/ ArchiveRead(w, a) \/ RestoreRead(w, a) \/ TickNext(w, a)
                \/ \E edit \in Edits : EditRead(w, a, edit)
                \/ \E time \in Moments : ScheduleRead(w, a, time)
                \/ \E e \in Staff : AckRead(w, a, e)

AnnouncementsSpec == AnnouncementsInit /\ [][AnnouncementsNext]_noticeVars

-----------------------------------------------------------------------------
AnnouncementsTypeOK ==
    /\ DOMAIN notices \subseteq Announcements
    /\ \A a \in DOMAIN notices : notices[a] \in Notice
    /\ sent \in [Announcements -> [Users -> 0 .. MaxSent]]
    /\ acks \subseteq (DOMAIN notices) \X Staff
    /\ DOMAIN jobs \subseteq Writers
    /\ \A w \in DOMAIN jobs : jobs[w] \in Job
    /\ entries \in [Announcements -> Nat]
    /\ told \in [Announcements -> SUBSET Users]
    /\ contested \subseteq DOMAIN notices
    /\ crossed \subseteq DOMAIN notices
    /\ retargeted \subseteq DOMAIN notices

(* Nobody is notified twice of one publication ("Re-publishing an          *)
(* already-published announcement is a no-op", publish,                    *)
(* announcements.service.ts:248-249), unless two publications, or one and  *)
(* a change of status, overlap.                                            *)
NotifiedOnce ==
    \A a \in Announcements \ contested, u \in Users : sent[a][u] <= entries[a]

(* An announcement that is scheduled has a time, before it expires, and no *)
(* date of publication (assertSchedulingCoherent,                          *)
(* announcements.service.ts:703-715; update, :206-214), unless times or    *)
(* status changed under a request that had checked them.                   *)
ScheduleCoherent ==
    \A a \in DOMAIN notices \ (contested \union crossed) :
        notices[a].phase = "scheduled" =>
            /\ notices[a].scheduled # Never /\ ~notices[a].dated
            /\ Coherent(notices[a].scheduled, notices[a].expires)

(* Those notified of a published announcement are those who see it in      *)
(* their feed, as far as they have an account (publishNowInternal,         *)
(* announcements.service.ts:615-680), unless its audience was changed      *)
(* during the publication or after it.                                     *)
BellMatchesFeed ==
    \A a \in DOMAIN notices \ retargeted :
        notices[a].phase = "published" => told[a] = Recipients(a)
=============================================================================
