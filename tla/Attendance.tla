----------------------------- MODULE Attendance -----------------------------
(***************************************************************************)
(* Check-in, check-out and the correction of what they recorded            *)
(* (attendance/attendance.service.ts, regularizations.service.ts).  There  *)
(* is one record for an employee and a local date, kept unique by an       *)
(* index.  A punch takes the time, reads the record, then writes it; a     *)
(* decision reads the request, then a transaction writes both.             *)
(***************************************************************************)
EXTENDS Integers, FiniteSets, Tables

CONSTANTS
    EmployeeDays,  \* an employee on a local date
    LastMinute,    \* bound of the clock
    Requests,      \* identities of regularizations; bounds how many are made
    Callers,       \* calls that run concurrently
    LateAfter,     \* start of the day plus grace of the default policy
    HalfDay,       \* half-day threshold of the default policy
    Asked,         \* the pairs of times a regularization may ask for
    Unset,         \* no time, no number, no request
    Blurred        \* a day nothing is promised about

Minutes == 0 .. LastMinute

ASSUME AttendanceAssumption ==
    /\ LastMinute \in Nat /\ LateAfter \in Nat /\ HalfDay \in Nat
    /\ Unset \notin Minutes \union Requests
    /\ Asked \subseteq (Minutes \union {Unset}) \X (Minutes \union {Unset})
    /\ <<Unset, Unset>> \notin Asked
    /\ Blurred \notin [in: Minutes \union {Unset}, out: Minutes \union {Unset},
                       by: Requests \union {Unset}]

VARIABLES
    clock,      \* minutes since the day began
    records,    \* the attendance records
    requests,   \* the regularizations
    calls,      \* calls in flight: what each has read
    blurred,    \* history: days a punch wrote over what it had not read
    disputed    \* history: regularizations decided on a status they no longer had

attendanceVars == <<clock, records, requests, calls, blurred, disputed>>

Moment  == Minutes \union {Unset}
Record  == [in: Moment, out: Moment, worked: Moment, late: BOOLEAN,
            status: {"present", "half_day"}, by: Requests \union {Unset}]
Status  == {"pending", "approved", "rejected"}
Request == [day: EmployeeDays, in: Moment, out: Moment, status: Status]
Call    == [kind: {"in", "out"}, day: EmployeeDays, at: Minutes, saw: {Unset} \union Record]
             \union [kind: {"decide"}, request: Requests, decision: Status \ {"pending"}]

NoRecord == [in |-> Unset, out |-> Unset, worked |-> Unset, late |-> FALSE,
             status |-> "present", by |-> Unset]

Doing(c, kind) == c \in DOMAIN calls /\ calls[c].kind = kind
RowOf(d)       == IF d \in DOMAIN records THEN records[d] ELSE Unset
Current(d)     == IF d \in DOMAIN records THEN records[d] ELSE NoRecord

AttendanceInit ==
    /\ clock = 0
    /\ records = << >>
    /\ requests = << >>
    /\ calls = << >>
    /\ blurred = {} /\ disputed = {}

Tick ==
    /\ clock < LastMinute
    /\ clock' = clock + 1
    /\ UNCHANGED <<records, requests, calls, blurred, disputed>>

-----------------------------------------------------------------------------
(* Punches.                                                                *)

Punch(c, kind, d) ==
    /\ c \notin DOMAIN calls
    /\ calls' = Put(calls, c, [kind |-> kind, day |-> d, at |-> clock, saw |-> RowOf(d)])
    /\ UNCHANGED <<clock, records, requests, blurred, disputed>>

\* mutant: a day already begun is begun again
CheckInReadAny(c, d) == Current(d).out = Unset /\ Punch(c, "in", d)

CheckInRead(c, d) == Current(d).in = Unset /\ Punch(c, "in", d)

CheckOutRead(c, d) ==
    /\ Current(d).in # Unset /\ Current(d).out = Unset
    /\ Punch(c, "out", d)

(* The record changed between the read of a punch and its write.           *)
Overtaken(c) == RowOf(calls[c].day) # calls[c].saw

WriteDay(c, row) ==
    /\ records' = Put(records, calls[c].day, row)
    /\ blurred' = IF Overtaken(c) THEN blurred \union {calls[c].day} ELSE blurred
    /\ calls' = Drop(calls, c)
    /\ UNCHANGED <<clock, requests, disputed>>

(* A call that saw no record inserts one, and fails if there is one now.   *)
CheckInCommit(c) ==
    /\ Doing(c, "in")
    /\ calls[c].saw = Unset => calls[c].day \notin DOMAIN records
    /\ WriteDay(c, [Current(calls[c].day) EXCEPT
           !.in = calls[c].at, !.status = "present", !.late = calls[c].at > LateAfter])

\* mutant: the minutes worked are judged before they are known
CheckOutCommitEarly(c) ==
    /\ Doing(c, "out")
    /\ LET began  == calls[c].saw.in
           worked == IF calls[c].at < began THEN 0 ELSE calls[c].at - began
       IN  WriteDay(c, [Current(calls[c].day) EXCEPT
               !.out = calls[c].at, !.worked = worked,
               !.status = IF calls[c].at < HalfDay THEN "half_day" ELSE "present"])

CheckOutCommit(c) ==
    /\ Doing(c, "out")
    /\ LET began  == calls[c].saw.in
           worked == IF calls[c].at < began THEN 0 ELSE calls[c].at - began
       IN  WriteDay(c, [Current(calls[c].day) EXCEPT
               !.out = calls[c].at, !.worked = worked,
               !.status = IF worked < HalfDay THEN "half_day" ELSE "present"])

-----------------------------------------------------------------------------
(* Regularizations.                                                        *)

Regularize(r, d, times) ==
    /\ r \in Requests \ DOMAIN requests
    /\ requests' = Put(requests, r,
           [day |-> d, in |-> times[1], out |-> times[2], status |-> "pending"])
    /\ UNCHANGED <<clock, records, calls, blurred, disputed>>

DecideRead(c, r, decision) ==
    /\ c \notin DOMAIN calls
    /\ r \in DOMAIN requests /\ requests[r].status = "pending"
    /\ calls' = Put(calls, c, [kind |-> "decide", request |-> r, decision |-> decision])
    /\ UNCHANGED <<clock, records, requests, blurred, disputed>>

(* An approved time replaces the one recorded; the minutes worked, and     *)
(* whether he was late, stay what they were.                               *)
Corrected(row, r) ==
    [row EXCEPT !.in  = IF requests[r].in = Unset THEN @ ELSE requests[r].in,
                !.out = IF requests[r].out = Unset THEN @ ELSE requests[r].out,
                !.status = "present", !.by = r]

\* mutant: a rejection is applied to the record like an approval
DecideCommitAlways(c) ==
    /\ Doing(c, "decide")
    /\ LET r == calls[c].request
           d == requests[r].day
       IN  /\ requests' = [requests EXCEPT ![r].status = calls[c].decision]
           /\ records' = Put(records, d, Corrected(Current(d), r))
           /\ disputed' = IF requests[r].status = "pending" THEN disputed ELSE disputed \union {r}
    /\ calls' = Drop(calls, c)
    /\ UNCHANGED <<clock, blurred>>

DecideCommit(c) ==
    /\ Doing(c, "decide")
    /\ LET r == calls[c].request
           d == requests[r].day
           approves == calls[c].decision = "approved"
       IN  /\ requests' = [requests EXCEPT ![r].status = calls[c].decision]
           /\ records' = IF approves THEN Put(records, d, Corrected(Current(d), r)) ELSE records
           /\ disputed' = IF requests[r].status = "pending" THEN disputed ELSE disputed \union {r}
    /\ calls' = Drop(calls, c)
    /\ UNCHANGED <<clock, blurred>>

(* A call is refused by a later check or a statement of it fails.          *)
Lost(c) ==
    /\ c \in DOMAIN calls
    /\ calls' = Drop(calls, c)
    /\ UNCHANGED <<clock, records, requests, blurred, disputed>>

AttendanceNext ==
    \/ Tick
    \/ \E r \in Requests, d \in EmployeeDays, times \in Asked : Regularize(r, d, times)
    \/ \E c \in Callers :
          \/ \E d \in EmployeeDays : CheckInRead(c, d) \/ CheckOutRead(c, d)
          \/ \E r \in Requests, decision \in {"approved", "rejected"} : DecideRead(c, r, decision)
          \/ CheckInCommit(c) \/ CheckOutCommit(c) \/ DecideCommit(c) \/ Lost(c)

AttendanceSpec == AttendanceInit /\ [][AttendanceNext]_attendanceVars

-----------------------------------------------------------------------------
AttendanceTypeOK ==
    /\ clock \in Minutes
    /\ DOMAIN records \subseteq EmployeeDays
    /\ \A d \in DOMAIN records : records[d] \in Record
    /\ DOMAIN requests \subseteq Requests
    /\ \A r \in DOMAIN requests : requests[r] \in Request
    /\ DOMAIN calls \subseteq Callers
    /\ \A c \in DOMAIN calls : calls[c] \in Call
    /\ blurred \subseteq EmployeeDays
    /\ disputed \subseteq DOMAIN requests

(* A record nobody corrected tells one story: late, minutes worked and     *)
(* half day are those of the two times (checkIn and checkOut,              *)
(* attendance.service.ts:98-210).  A correction keeps the old minutes, and *)
(* two calls about one day may each leave half of theirs.                  *)
OneStory ==
    \A d \in DOMAIN records \ blurred :
        LET row == records[d] IN
        row.by = Unset =>
            /\ row.in # Unset
            /\ row.late <=> row.in > LateAfter
            /\ IF row.out = Unset THEN row.worked = Unset /\ row.status = "present"
               ELSE /\ row.worked = row.out - row.in
                    /\ row.status = "half_day" <=> row.worked < HalfDay

(* A record names the request that corrected it last: it was approved, and *)
(* the times it asked for stand ("is_regularized=true, regularization_id   *)
(* set", docs/01-information-architecture.md:623; decide,                  *)
(* regularizations.service.ts:141-175).                                    *)
CorrectionStands ==
    \A d \in DOMAIN records \ blurred :
        LET row == records[d]
            r   == row.by
        IN  r \notin {Unset} \union disputed =>
                /\ requests[r].status = "approved"
                /\ requests[r].in \in {Unset, row.in}
                /\ requests[r].out \in {Unset, row.out}

(* Punches fill in what is missing and nothing else, and what replaces a   *)
(* time signs for it (attendance.service.ts:98-210,                        *)
(* regularizations.service.ts:141-175): the record implements TimeSheet.   *)
Sheet(d) ==
    IF d \in blurred \union {requests[r].day : r \in disputed} THEN Blurred
    ELSE [in |-> Current(d).in, out |-> Current(d).out, by |-> Current(d).by]

AbstractSheet == INSTANCE TimeSheet
    WITH Days <- EmployeeDays, Times <- Minutes, Corrections <- Requests,
         sheet <- [d \in EmployeeDays |-> Sheet(d)]

RecordsAreTimeSheets == AbstractSheet!Spec
=============================================================================
