--------------------------- MODULE WorkdayProofs ----------------------------
(***************************************************************************)
(* What the records of attendance promise, for any employees, days,        *)
(* regularizations and overlapping calls, and that they implement          *)
(* TimeSheet; what holds of default calendars and policies for any of them *)
(* and any editors; and which calendar a lookup answers.                   *)
(***************************************************************************)
EXTENDS Attendance, Holidays, TLAPS

-----------------------------------------------------------------------------
(* Attendance.                                                             *)

(* A time nobody corrected is in the past.                                 *)
TimesPast ==
    \A d \in DOMAIN records :
        records[d].by = Unset /\ records[d].in # Unset => records[d].in <= clock

(* What a call knows: a check-in saw no check-in, a check-out saw one that *)
(* is not later than itself, a decision is about a request.                *)
CallsKnow ==
    \A c \in DOMAIN calls :
        LET call == calls[c] IN
        /\ call.kind = "in" => call.at <= clock /\ (call.saw = Unset \/ call.saw.in = Unset)
        /\ call.kind = "out" =>
              /\ call.at <= clock /\ call.day \in DOMAIN records /\ call.saw \in Record
              /\ call.saw.in # Unset /\ call.saw.out = Unset
              /\ call.saw.by = Unset => call.saw.in <= call.at
        /\ call.kind = "decide" => call.request \in DOMAIN requests

(* A request that corrected a record has been decided.                     *)
SignedByDecided ==
    \A d \in DOMAIN records :
        records[d].by # Unset =>
            records[d].by \in DOMAIN requests /\ requests[records[d].by].status # "pending"

AttendanceInv ==
    AttendanceTypeOK /\ TimesPast /\ CallsKnow /\ SignedByDecided /\ OneStory /\ CorrectionStands

LEMMA AttendanceInitially == AttendanceInit => AttendanceInv
  <1> SUFFICES ASSUME AttendanceInit PROVE AttendanceInv
    OBVIOUS
  <1>1. DOMAIN records = {} /\ DOMAIN requests = {} /\ DOMAIN calls = {} /\ clock \in Minutes
    BY AttendanceAssumption DEF AttendanceInit, Minutes
  <1>2. AttendanceTypeOK
    BY <1>1 DEF AttendanceInit, AttendanceTypeOK
  <1> QED
    BY <1>1, <1>2 DEF AttendanceInv, TimesPast, CallsKnow, SignedByDecided, OneStory, CorrectionStands

-----------------------------------------------------------------------------
(* Steps that leave the records alone.                                     *)

LEMMA TickKeeps == ASSUME AttendanceInv, Tick PROVE AttendanceInv'
  <1> USE AttendanceAssumption DEF AttendanceInv, Tick
  <1>1. clock \in Nat /\ clock' \in Minutes /\ clock' = clock + 1
    BY DEF AttendanceTypeOK, Minutes
  <1>2. AttendanceTypeOK'
    BY <1>1 DEF AttendanceTypeOK
  <1>3. TimesPast'
    BY <1>1 DEF AttendanceTypeOK, TimesPast, Record, Moment, Minutes
  <1>4. CallsKnow'
    <2> SUFFICES ASSUME NEW c \in DOMAIN calls PROVE CallsKnow!(c)'
      BY DEF CallsKnow
    <2>1. CASE calls[c].kind \in {"in", "out"}
      BY <1>1, <2>1 DEF AttendanceTypeOK, CallsKnow, Call, Minutes
    <2>2. CASE calls[c].kind \notin {"in", "out"}
      BY <2>2 DEF AttendanceTypeOK, CallsKnow, Call
    <2> QED BY <2>1, <2>2
  <1> QED BY <1>2, <1>3, <1>4 DEF SignedByDecided, OneStory, CorrectionStands, RowOf

(* A call that begins or is lost changes nothing but the calls.            *)
LEMMA CallBegins ==
    ASSUME AttendanceInv, NEW c \in Callers, NEW call \in Call,
           calls' = Put(calls, c, call),
           call.kind = "in" => call.at <= clock /\ (call.saw = Unset \/ call.saw.in = Unset),
           call.kind = "out" =>
              /\ call.at <= clock /\ call.day \in DOMAIN records /\ call.saw \in Record
              /\ call.saw.in # Unset /\ call.saw.out = Unset
              /\ call.saw.by = Unset => call.saw.in <= call.at,
           call.kind = "decide" => call.request \in DOMAIN requests,
           UNCHANGED <<clock, records, requests, blurred, disputed>>
    PROVE  AttendanceInv'
  <1>1. /\ DOMAIN calls' = DOMAIN calls \union {c}
        /\ \A b \in DOMAIN calls' : calls'[b] = IF b = c THEN call ELSE calls[b]
    BY DEF Put
  <1>2. AttendanceTypeOK'
    BY <1>1 DEF AttendanceInv, AttendanceTypeOK
  <1>3. CallsKnow'
    BY <1>1 DEF AttendanceInv, CallsKnow
  <1> QED
    BY <1>2, <1>3 DEF AttendanceInv, TimesPast, SignedByDecided, OneStory, CorrectionStands

LEMMA CallEnds ==
    ASSUME AttendanceInv, NEW c, calls' = Drop(calls, c),
           UNCHANGED clock, DOMAIN records \subseteq DOMAIN records',
           DOMAIN requests \subseteq DOMAIN requests'
    PROVE  /\ DOMAIN calls' \subseteq Callers
           /\ \A b \in DOMAIN calls' : calls'[b] \in Call
           /\ CallsKnow'
  <1>1. /\ DOMAIN calls' = DOMAIN calls \ {c}
        /\ \A b \in DOMAIN calls' : calls'[b] = calls[b]
    BY DEF Drop, Restrict
  <1> QED BY <1>1 DEF AttendanceInv, AttendanceTypeOK, CallsKnow

LEMMA LostKeeps == ASSUME AttendanceInv, NEW c \in Callers, Lost(c) PROVE AttendanceInv'
  <1>1. /\ DOMAIN calls' \subseteq Callers
        /\ \A b \in DOMAIN calls' : calls'[b] \in Call
        /\ CallsKnow'
    BY CallEnds DEF Lost
  <1> QED
    BY <1>1 DEF Lost, AttendanceInv, AttendanceTypeOK, TimesPast, SignedByDecided,
                OneStory, CorrectionStands
LEMMA PunchReadKeeps ==
    ASSUME AttendanceInv, NEW c \in Callers, NEW d \in EmployeeDays,
           CheckInRead(c, d) \/ CheckOutRead(c, d)
    PROVE  AttendanceInv'
  <1> USE AttendanceAssumption
  <1>1. /\ clock \in Minutes /\ clock \in Nat
        /\ d \in DOMAIN records => records[d] \in Record
    BY DEF AttendanceInv, AttendanceTypeOK, Minutes
  <1>2. CASE CheckInRead(c, d)
    <2> DEFINE call == [kind |-> "in", day |-> d, at |-> clock, saw |-> RowOf(d)]
    <2>1. call \in Call /\ call.at <= clock /\ (call.saw = Unset \/ call.saw.in = Unset)
      BY <1>1, <1>2 DEF CheckInRead, Current, RowOf, Call
    <2>2. /\ calls' = Put(calls, c, call)
          /\ UNCHANGED <<clock, records, requests, blurred, disputed>>
      BY <1>2 DEF CheckInRead, Punch
    <2>3. call.kind = "in"
      OBVIOUS
    <2> HIDE DEF call
    <2> QED BY <2>1, <2>2, <2>3, CallBegins
  <1>3. CASE CheckOutRead(c, d)
    <2> DEFINE call == [kind |-> "out", day |-> d, at |-> clock, saw |-> RowOf(d)]
    <2>0. d \in DOMAIN records /\ RowOf(d) = records[d]
      BY <1>3 DEF CheckOutRead, Current, RowOf, NoRecord
    <2>1. /\ call \in Call /\ call.at <= clock
          /\ call.day \in DOMAIN records /\ call.saw \in Record
          /\ call.saw.in # Unset /\ call.saw.out = Unset
      BY <1>1, <1>3, <2>0 DEF CheckOutRead, Current, Call
    <2>2. call.saw.by = Unset => call.saw.in <= call.at
      BY <2>0, <2>1 DEF AttendanceInv, TimesPast
    <2>3. /\ calls' = Put(calls, c, call)
          /\ UNCHANGED <<clock, records, requests, blurred, disputed>>
      BY <1>3 DEF CheckOutRead, Punch
    <2>4. call.kind = "out"
      OBVIOUS
    <2> HIDE DEF call
    <2> QED BY <2>1, <2>2, <2>3, <2>4, CallBegins
  <1> QED BY <1>2, <1>3

LEMMA DecideReadKeeps ==
    ASSUME AttendanceInv, NEW c \in Callers, NEW r \in Requests,
           NEW decision \in {"approved", "rejected"}, DecideRead(c, r, decision)
    PROVE  AttendanceInv'
  <1> DEFINE call == [kind |-> "decide", request |-> r, decision |-> decision]
  <1>1. call \in Call /\ call.kind = "decide" /\ call.request \in DOMAIN requests
    BY DEF DecideRead, Call, Status
  <1>2. /\ calls' = Put(calls, c, call)
        /\ UNCHANGED <<clock, records, requests, blurred, disputed>>
    BY DEF DecideRead
  <1> HIDE DEF call
  <1> QED BY <1>1, <1>2, CallBegins

LEMMA RegularizeKeeps ==
    ASSUME AttendanceInv, NEW r \in Requests, NEW d \in EmployeeDays, NEW times \in Asked,
           Regularize(r, d, times)
    PROVE  AttendanceInv'
  <1> DEFINE request == [day |-> d, in |-> times[1], out |-> times[2], status |-> "pending"]
  <1>1. /\ r \notin DOMAIN requests /\ DOMAIN requests' = DOMAIN requests \union {r}
        /\ \A q \in DOMAIN requests' : requests'[q] = IF q = r THEN request ELSE requests[q]
        /\ UNCHANGED <<clock, records, calls, blurred, disputed>>
    BY DEF Regularize, Put
  <1>2. request \in Request
    BY AttendanceAssumption DEF Request, Moment, Status
  <1> HIDE DEF request
  <1>3. AttendanceTypeOK'
    BY <1>1, <1>2 DEF AttendanceInv, AttendanceTypeOK
  <1>4. CallsKnow' /\ SignedByDecided'
    BY <1>1 DEF AttendanceInv, CallsKnow, SignedByDecided
  <1>5. CorrectionStands'
    BY <1>1 DEF AttendanceInv, SignedByDecided, CorrectionStands
  <1> QED BY <1>1, <1>3, <1>4, <1>5 DEF AttendanceInv, TimesPast, OneStory

-----------------------------------------------------------------------------
(* Steps that write a record.                                              *)

(* A punch nobody overtook writes over the record its call read.           *)
LEMMA WriteDayRows ==
    ASSUME AttendanceInv, NEW c \in Callers, c \in DOMAIN calls, NEW row, WriteDay(c, row)
    PROVE  LET d == calls[c].day IN
           /\ DOMAIN records' = DOMAIN records \union {d}
           /\ \A e \in DOMAIN records' : records'[e] = IF e = d THEN row ELSE records[e]
           /\ blurred \subseteq blurred' /\ blurred' \subseteq blurred \union {d}
           /\ d \notin blurred' => RowOf(d) = calls[c].saw
           /\ calls' = Drop(calls, c) /\ UNCHANGED <<clock, requests, disputed>>
  BY DEF WriteDay, Put, Overtaken

LEMMA CheckInKeeps ==
    ASSUME AttendanceInv, NEW c \in Callers, CheckInCommit(c)
    PROVE  AttendanceInv'
  <1> USE AttendanceAssumption
  <1> DEFINE call == calls[c]
             d    == call.day
             old  == Current(d)
             row  == [old EXCEPT !.in = call.at, !.status = "present", !.late = call.at > LateAfter]
  <1>1. /\ c \in DOMAIN calls /\ call.kind = "in" /\ call \in Call
        /\ d \in EmployeeDays /\ call.at \in Minutes
        /\ call.at <= clock /\ (call.saw = Unset \/ call.saw.in = Unset)
        /\ call.saw = Unset => d \notin DOMAIN records
        /\ WriteDay(c, row)
    BY DEF CheckInCommit, Doing, AttendanceInv, AttendanceTypeOK, CallsKnow, Call
  <1>2. old \in Record
    BY DEF Current, NoRecord, AttendanceInv, AttendanceTypeOK, Record, Moment
  <1>3. /\ row \in Record /\ row.in = call.at /\ row.by = old.by /\ row.out = old.out
        /\ row.worked = old.worked /\ row.status = "present" /\ (row.late <=> row.in > LateAfter)
    <2>1. (call.at > LateAfter) \in BOOLEAN /\ call.at \in Moment
      BY <1>1 DEF Minutes, Moment
    <2> HIDE DEF old, call
    <2> QED BY <1>2, <2>1 DEF Record
  <1> HIDE DEF row
  <1>4. /\ DOMAIN records' = DOMAIN records \union {d}
        /\ \A e \in DOMAIN records' : records'[e] = IF e = d THEN row ELSE records[e]
        /\ blurred \subseteq blurred' /\ blurred' \subseteq blurred \union {d}
        /\ d \notin blurred' => RowOf(d) = call.saw
        /\ calls' = Drop(calls, c) /\ UNCHANGED <<clock, requests, disputed>>
    BY <1>1, WriteDayRows
  <1>5. d \notin blurred' => old.in = Unset
    BY <1>1, <1>4 DEF Current, RowOf, NoRecord
  <1>6. /\ DOMAIN calls' \subseteq Callers /\ CallsKnow'
        /\ \A b \in DOMAIN calls' : calls'[b] \in Call
    BY <1>4, CallEnds
  <1>7. AttendanceTypeOK'
    BY <1>1, <1>3, <1>4, <1>6 DEF AttendanceInv, AttendanceTypeOK
  <1>8. TimesPast'
    BY <1>1, <1>3, <1>4 DEF AttendanceInv, TimesPast
  <1>9. SignedByDecided'
    BY <1>3, <1>4 DEF AttendanceInv, SignedByDecided, Current, NoRecord
  <1>10. OneStory'
    <2>1. d \notin blurred' /\ row.by = Unset => old = NoRecord
      BY <1>3, <1>4, <1>5 DEF AttendanceInv, OneStory, Current
    <2>2. row.in # Unset /\ NoRecord.out = Unset /\ NoRecord.worked = Unset
      BY <1>1, <1>3 DEF NoRecord
    <2> QED BY <1>3, <1>4, <2>1, <2>2 DEF AttendanceInv, OneStory
  <1>11. CorrectionStands'
    BY <1>3, <1>4, <1>5 DEF AttendanceInv, CorrectionStands, Current, NoRecord
  <1> QED BY <1>6, <1>7, <1>8, <1>9, <1>10, <1>11 DEF AttendanceInv
LEMMA CheckOutKeeps ==
    ASSUME AttendanceInv, NEW c \in Callers, CheckOutCommit(c)
    PROVE  AttendanceInv'
  <1> USE AttendanceAssumption
  <1> DEFINE call   == calls[c]
             d      == call.day
             old    == Current(d)
             worked == IF call.at < call.saw.in THEN 0 ELSE call.at - call.saw.in
             row    == [old EXCEPT !.out = call.at, !.worked = worked,
                                   !.status = IF worked < HalfDay THEN "half_day" ELSE "present"]
  <1>1. /\ c \in DOMAIN calls /\ call.kind = "out" /\ call \in Call
        /\ d \in EmployeeDays /\ call.at \in Minutes
        /\ d \in DOMAIN records /\ old = records[d] /\ old \in Record
        /\ call.saw \in Record /\ call.saw.in \in Minutes /\ call.saw.out = Unset
        /\ call.saw.by = Unset => call.saw.in <= call.at
    BY DEF CheckOutCommit, Doing, AttendanceInv, AttendanceTypeOK, CallsKnow, Call, Current,
           Record, Moment
  <1>2. WriteDay(c, row)
    BY DEF CheckOutCommit
  <1>3. worked \in Minutes /\ (worked < HalfDay) \in BOOLEAN
    BY <1>1 DEF Minutes
  <1>4. call.saw.by = Unset => worked = call.at - call.saw.in
    BY <1>1 DEF Minutes
  <1>5. /\ row \in Record /\ row.out = call.at /\ row.by = old.by /\ row.in = old.in
        /\ row.worked = worked /\ row.late = old.late
        /\ row.status = "half_day" <=> worked < HalfDay
    <2> HIDE DEF worked, old, call
    <2>1. old \in Record /\ worked \in Minutes /\ call.at \in Minutes
      BY <1>1, <1>3
    <2>2. row \in Record
      BY <2>1 DEF Record, Moment
    <2> QED BY <2>1, <2>2 DEF Record
  <1> HIDE DEF row, worked
  <1>6. /\ DOMAIN records' = DOMAIN records
        /\ \A e \in DOMAIN records' : records'[e] = IF e = d THEN row ELSE records[e]
        /\ blurred \subseteq blurred' /\ blurred' \subseteq blurred \union {d}
        /\ d \notin blurred' => old = call.saw
        /\ calls' = Drop(calls, c) /\ UNCHANGED <<clock, requests, disputed>>
    <2>1. /\ DOMAIN records' = DOMAIN records \union {d}
          /\ \A e \in DOMAIN records' : records'[e] = IF e = d THEN row ELSE records[e]
          /\ blurred \subseteq blurred' /\ blurred' \subseteq blurred \union {d}
          /\ d \notin blurred' => RowOf(d) = call.saw
          /\ calls' = Drop(calls, c) /\ UNCHANGED <<clock, requests, disputed>>
      BY <1>1, <1>2, WriteDayRows
    <2>2. RowOf(d) = old
      BY <1>1 DEF RowOf
    <2> HIDE DEF old
    <2> QED BY <1>1, <2>1, <2>2
  <1>7. /\ DOMAIN calls' \subseteq Callers /\ CallsKnow'
        /\ \A b \in DOMAIN calls' : calls'[b] \in Call
    BY <1>6, CallEnds
  <1>8. AttendanceTypeOK'
    BY <1>1, <1>5, <1>6, <1>7 DEF AttendanceInv, AttendanceTypeOK
  <1>9. TimesPast' /\ SignedByDecided'
    BY <1>1, <1>5, <1>6 DEF AttendanceInv, TimesPast, SignedByDecided
  <1>10. OneStory'
    <2>1. d \notin blurred' /\ row.by = Unset =>
             /\ row.in = call.saw.in /\ row.in # Unset /\ (row.late <=> row.in > LateAfter)
             /\ row.out # Unset /\ row.worked = row.out - row.in
      <3> SUFFICES ASSUME d \notin blurred', row.by = Unset
                   PROVE  /\ row.in = call.saw.in /\ row.in # Unset
                          /\ (row.late <=> row.in > LateAfter)
                          /\ row.out # Unset /\ row.worked = row.out - row.in
        OBVIOUS
      <3>1. old = call.saw /\ old.by = Unset
        BY <1>5, <1>6
      <3>2. d \in DOMAIN records \ blurred /\ records[d].by = Unset
        BY <1>1, <1>6, <3>1
      <3>3. records[d].in # Unset /\ (records[d].late <=> records[d].in > LateAfter)
        BY <3>2 DEF AttendanceInv, OneStory
      <3> HIDE DEF old, call, d
      <3> QED BY <1>1, <1>4, <1>5, <3>1, <3>3
    <2> QED BY <1>5, <1>6, <2>1 DEF AttendanceInv, OneStory
  <1>11. CorrectionStands'
    BY <1>1, <1>5, <1>6 DEF AttendanceInv, CorrectionStands
  <1> QED BY <1>7, <1>8, <1>9, <1>10, <1>11 DEF AttendanceInv

LEMMA DecideKeeps ==
    ASSUME AttendanceInv, NEW c \in Callers, DecideCommit(c)
    PROVE  AttendanceInv'
  <1> USE AttendanceAssumption
  <1> DEFINE call == calls[c]
             r    == call.request
             d    == requests[r].day
             old  == Current(d)
             row  == Corrected(old, r)
  <1>1. /\ c \in DOMAIN calls /\ call.kind = "decide" /\ call \in Call
        /\ r \in Requests /\ r \in DOMAIN requests /\ requests[r] \in Request
        /\ d \in EmployeeDays /\ call.decision \in Status \ {"pending"}
    BY DEF DecideCommit, Doing, AttendanceInv, AttendanceTypeOK, CallsKnow, Call, Request
  <1>2. /\ requests' = [requests EXCEPT ![r].status = call.decision]
        /\ records' = IF call.decision = "approved" THEN Put(records, d, row) ELSE records
        /\ disputed' = IF requests[r].status = "pending" THEN disputed ELSE disputed \union {r}
        /\ calls' = Drop(calls, c) /\ UNCHANGED <<clock, blurred>>
    BY DEF DecideCommit
  <1>3. old \in Record
    BY DEF Current, NoRecord, AttendanceInv, AttendanceTypeOK, Record, Moment
  <1>4. /\ row \in Record /\ row.by = r
        /\ requests[r].in \in {Unset, row.in} /\ requests[r].out \in {Unset, row.out}
    <2> HIDE DEF old
    <2> QED BY <1>1, <1>3 DEF Corrected, Record, Request
  <1> HIDE DEF row
  <1>5. /\ DOMAIN requests' = DOMAIN requests
        /\ \A q \in DOMAIN requests : q # r => requests'[q] = requests[q]
        /\ requests'[r] \in Request /\ requests'[r].status = call.decision
        /\ requests'[r].in = requests[r].in /\ requests'[r].out = requests[r].out
        /\ requests'[r].day = d
    BY <1>1, <1>2 DEF Request
  <1>6. /\ DOMAIN records' \subseteq DOMAIN records \union {d} /\ DOMAIN records \subseteq DOMAIN records'
        /\ \A e \in DOMAIN records' :
              \/ e \in DOMAIN records /\ records'[e] = records[e]
              \/ e = d /\ records'[e] = row /\ call.decision = "approved"
    BY <1>2 DEF Put
  <1>7. /\ DOMAIN calls' \subseteq Callers /\ CallsKnow'
        /\ \A b \in DOMAIN calls' : calls'[b] \in Call
    BY <1>2, <1>5, <1>6, CallEnds
  <1>8. AttendanceTypeOK'
    BY <1>1, <1>2, <1>4, <1>5, <1>6, <1>7 DEF AttendanceInv, AttendanceTypeOK
  <1>9. TimesPast'
    BY <1>1, <1>2, <1>4, <1>6 DEF AttendanceInv, TimesPast
  <1>10. SignedByDecided'
    BY <1>1, <1>4, <1>5, <1>6 DEF AttendanceInv, SignedByDecided
  <1>11. OneStory'
    BY <1>1, <1>2, <1>4, <1>6 DEF AttendanceInv, OneStory
  <1>12. CorrectionStands'
    <2> SUFFICES ASSUME NEW e \in DOMAIN records' \ blurred',
                        records'[e].by \notin {Unset} \union disputed'
                 PROVE  LET by == records'[e].by IN
                        /\ requests'[by].status = "approved"
                        /\ requests'[by].in \in {Unset, records'[e].in}
                        /\ requests'[by].out \in {Unset, records'[e].out}
      BY DEF CorrectionStands
    <2>1. CASE e = d /\ records'[e] = row /\ call.decision = "approved"
      BY <1>4, <1>5, <2>1
    <2>2. CASE e \in DOMAIN records /\ records'[e] = records[e]
      <3>1. records[e].by # r
        BY <1>1, <1>2, <2>2 DEF AttendanceInv, SignedByDecided
      <3>2. records[e].by \in DOMAIN requests
        BY <2>2 DEF AttendanceInv, SignedByDecided
      <3>3. records[e].by \notin {Unset} \union disputed /\ e \notin blurred
        BY <1>2, <2>2
      <3> QED BY <1>5, <2>2, <3>1, <3>2, <3>3 DEF AttendanceInv, CorrectionStands
    <2> QED BY <1>6, <2>1, <2>2
  <1> QED BY <1>7, <1>8, <1>9, <1>10, <1>11, <1>12 DEF AttendanceInv

LEMMA AttendanceInvariant == AttendanceSpec => []AttendanceInv
  <1>1. AttendanceInv /\ [AttendanceNext]_attendanceVars => AttendanceInv'
    <2> SUFFICES ASSUME AttendanceInv, [AttendanceNext]_attendanceVars PROVE AttendanceInv'
      OBVIOUS
    <2>1. CASE AttendanceNext
      BY <2>1, TickKeeps, LostKeeps, PunchReadKeeps, DecideReadKeeps, RegularizeKeeps,
         CheckInKeeps, CheckOutKeeps, DecideKeeps
         DEF AttendanceNext
    <2>2. CASE UNCHANGED attendanceVars
      BY <2>2 DEF attendanceVars, AttendanceInv, AttendanceTypeOK, TimesPast, CallsKnow,
                  SignedByDecided, OneStory, CorrectionStands
    <2> QED BY <2>1, <2>2
  <1> QED BY <1>1, AttendanceInitially, PTL DEF AttendanceSpec
-----------------------------------------------------------------------------
(* The records implement TimeSheet.                                        *)

Sheets == [d \in EmployeeDays |-> Sheet(d)]

(* Days nothing is promised about.                                         *)
Given(d) == d \in blurred \union {requests[r].day : r \in disputed}

LEMMA SheetsInitially == AttendanceInit => AbstractSheet!Init
  BY DEF AttendanceInit, AbstractSheet!Init, Sheet, Current, NoRecord

(* A step of one day is one of the sheet if it is given up or takes a time *)
(* the sheet allows.                                                       *)
LEMMA OneDayMoves ==
    ASSUME AttendanceInv, NEW d \in EmployeeDays,
           \A e \in EmployeeDays \ {d} : Sheet(e)' = Sheet(e),
           \/ Sheet(d)' = Blurred \/ Sheet(d)' = Sheet(d)
           \/ /\ ~Given(d) /\ Current(d).in = Unset
              /\ \E t \in Minutes : Sheet(d)' = [Sheet(d) EXCEPT !.in = t]
           \/ /\ ~Given(d) /\ Current(d).in # Unset /\ Current(d).out = Unset
              /\ \E t \in Minutes : Sheet(d)' = [Sheet(d) EXCEPT !.out = t]
           \/ /\ ~Given(d)
              /\ \E asked \in AbstractSheet!Amendments, r \in Requests \ {Current(d).by} :
                    Sheet(d)' = [in  |-> IF asked.in = Unset THEN Current(d).in ELSE asked.in,
                                 out |-> IF asked.out = Unset THEN Current(d).out ELSE asked.out,
                                 by  |-> r]
    PROVE  [AbstractSheet!Next]_Sheets
  <1> USE AttendanceAssumption
  <1> DEFINE day == [in |-> Current(d).in, out |-> Current(d).out, by |-> Current(d).by]
  <1>1. ~Given(d) => Sheet(d) = day /\ day # Blurred
    <2>1. Current(d) \in Record
      BY DEF Current, NoRecord, AttendanceInv, AttendanceTypeOK, Record, Moment
    <2> QED BY <2>1 DEF Given, Sheet, Record, Moment
  <1>2. /\ \A v : Sheet(d)' = v => Sheets' = [Sheets EXCEPT ![d] = v]
        /\ Sheets[d] = Sheet(d) /\ DOMAIN Sheets = EmployeeDays
    BY DEF Sheets
  <1>3. CASE Sheet(d)' = Sheet(d)
    BY <1>3 DEF Sheets
  <1>4. CASE Sheet(d)' = Blurred
    <2>1. AbstractSheet!Blur(d)
      BY <1>4 DEF AbstractSheet!Blur
    <2> QED BY <2>1 DEF AbstractSheet!Next
  <1>5. ASSUME ~Given(d), Current(d).in = Unset,
               NEW t \in Minutes, Sheet(d)' = [Sheet(d) EXCEPT !.in = t]
        PROVE  AbstractSheet!Next
    <2>1. Sheets[d] # Blurred /\ Sheets[d].in = Unset
      BY <1>1, <1>2, <1>5
    <2>2. Sheets' = [Sheets EXCEPT ![d].in = t]
      BY <1>2, <1>5
    <2>3. AbstractSheet!PunchIn(d)
      BY <2>1, <2>2 DEF AbstractSheet!PunchIn, Sheets
    <2> QED BY <2>3 DEF AbstractSheet!Next
  <1>6. ASSUME ~Given(d), Current(d).in # Unset, Current(d).out = Unset,
               NEW t \in Minutes, Sheet(d)' = [Sheet(d) EXCEPT !.out = t]
        PROVE  AbstractSheet!Next
    <2>1. Sheets[d] # Blurred /\ Sheets[d].in # Unset /\ Sheets[d].out = Unset
      BY <1>1, <1>2, <1>6
    <2>2. Sheets' = [Sheets EXCEPT ![d].out = t]
      BY <1>2, <1>6
    <2>3. AbstractSheet!PunchOut(d)
      BY <2>1, <2>2 DEF AbstractSheet!PunchOut, Sheets
    <2> QED BY <2>3 DEF AbstractSheet!Next
  <1>7. ASSUME ~Given(d),
               NEW asked \in AbstractSheet!Amendments, NEW r \in Requests \ {Current(d).by},
               Sheet(d)' = [in  |-> IF asked.in = Unset THEN Current(d).in ELSE asked.in,
                            out |-> IF asked.out = Unset THEN Current(d).out ELSE asked.out,
                            by  |-> r]
        PROVE  AbstractSheet!Next
    <2>1. /\ Sheets[d] # Blurred /\ r \in Requests \ {Sheets[d].by}
          /\ Sheets[d].in = Current(d).in /\ Sheets[d].out = Current(d).out
      BY <1>1, <1>2, <1>7
    <2>2. Sheets' = [Sheets EXCEPT ![d] =
                        [in  |-> IF asked.in = Unset THEN Sheets[d].in ELSE asked.in,
                         out |-> IF asked.out = Unset THEN Sheets[d].out ELSE asked.out,
                         by  |-> r]]
      BY <1>2, <1>7, <2>1
    <2>3. AbstractSheet!Correct(d)
      BY <2>1, <2>2 DEF AbstractSheet!Correct, Sheets
    <2> QED BY <2>3 DEF AbstractSheet!Next
  <1> QED BY <1>3, <1>4, <1>5, <1>6, <1>7
(* Days a step does not write keep their sheet.                            *)
LEMMA OtherDays ==
    ASSUME AttendanceInv, NEW d \in EmployeeDays,
           \A e \in EmployeeDays \ {d} : Current(e)' = Current(e) /\ (Given(e)' <=> Given(e))
    PROVE  \A e \in EmployeeDays \ {d} : Sheet(e)' = Sheet(e)
  BY DEF Sheet, Given

LEMMA QuietSteps ==
    ASSUME AttendanceInv, UNCHANGED <<records, blurred, disputed>>,
           \A r \in DOMAIN requests : requests'[r] = requests[r]
    PROVE  UNCHANGED Sheets
  <1>1. \A r \in disputed : requests'[r] = requests[r]
    BY DEF AttendanceInv, AttendanceTypeOK
  <1> QED BY <1>1 DEF Sheets, Sheet, Current

(* A punch fills a time that was not there, or gives the day up.           *)
LEMMA PunchMoves ==
    ASSUME AttendanceInv, NEW c \in Callers, CheckInCommit(c) \/ CheckOutCommit(c)
    PROVE  [AbstractSheet!Next]_Sheets
  <1> USE AttendanceAssumption
  <1>0. PICK d \in EmployeeDays : d = calls[c].day
    BY DEF CheckInCommit, CheckOutCommit, Doing, AttendanceInv, AttendanceTypeOK, Call
  <1>1. /\ c \in DOMAIN calls /\ calls[c] \in Call /\ calls[c].kind \in {"in", "out"}
        /\ d \in EmployeeDays /\ calls[c].at \in Minutes
        /\ CheckInCommit(c) =>
              /\ calls[c].saw = Unset \/ calls[c].saw.in = Unset
              /\ calls[c].saw = Unset => d \notin DOMAIN records
        /\ CheckOutCommit(c) =>
              /\ d \in DOMAIN records /\ calls[c].saw.in # Unset /\ calls[c].saw.out = Unset
    BY <1>0 DEF CheckInCommit, CheckOutCommit, Doing, AttendanceInv, AttendanceTypeOK, CallsKnow, Call
  <1>2. PICK row :
          /\ WriteDay(c, row) /\ row.by = Current(d).by
          /\ \/ CheckInCommit(c) /\ row.in = calls[c].at /\ row.out = Current(d).out
             \/ CheckOutCommit(c) /\ row.out = calls[c].at /\ row.in = Current(d).in
    <2>1. Current(d) \in Record
      BY <1>1 DEF Current, NoRecord, AttendanceInv, AttendanceTypeOK, Record, Moment
    <2>2. CASE CheckInCommit(c)
      <3> DEFINE row == [Current(d) EXCEPT !.in = calls[c].at, !.status = "present",
                                           !.late = calls[c].at > LateAfter]
      <3>1. WriteDay(c, row)
        BY <1>0, <2>2 DEF CheckInCommit
      <3>2. row.in = calls[c].at /\ row.out = Current(d).out /\ row.by = Current(d).by
        BY <2>1 DEF Record
      <3> HIDE DEF row
      <3> QED BY <2>2, <3>1, <3>2
    <2>3. CASE CheckOutCommit(c)
      <3> DEFINE began  == calls[c].saw.in
                 worked == IF calls[c].at < began THEN 0 ELSE calls[c].at - began
                 row == [Current(d) EXCEPT !.out = calls[c].at, !.worked = worked,
                            !.status = IF worked < HalfDay THEN "half_day" ELSE "present"]
      <3>1. WriteDay(c, row)
        BY <1>0, <2>3 DEF CheckOutCommit
      <3>2. row.out = calls[c].at /\ row.in = Current(d).in /\ row.by = Current(d).by
        <4> HIDE DEF worked
        <4> QED BY <2>1 DEF Record
      <3> HIDE DEF row
      <3> QED BY <2>3, <3>1, <3>2
    <2> QED BY <2>2, <2>3
  <1>3. /\ DOMAIN records' = DOMAIN records \union {d}
        /\ \A e \in DOMAIN records' : records'[e] = IF e = d THEN row ELSE records[e]
        /\ blurred \subseteq blurred' /\ blurred' \subseteq blurred \union {d}
        /\ d \notin blurred' => RowOf(d) = calls[c].saw
        /\ UNCHANGED <<requests, disputed>>
    BY <1>0, <1>2 DEF WriteDay, Put, Overtaken
  <1>4. \A e \in EmployeeDays \ {d} : Sheet(e)' = Sheet(e)
    <2>1. \A e \in EmployeeDays \ {d} : Current(e)' = Current(e)
      BY <1>3 DEF Current
    <2>2. \A e \in EmployeeDays \ {d} : Given(e)' <=> Given(e)
      BY <1>3 DEF Given
    <2> QED BY <2>1, <2>2 DEF Sheet, Given
  <1>5. CASE Given(d)'
    <2>1. Sheet(d)' = Blurred
      BY <1>5 DEF Given, Sheet
    <2> QED BY <1>1, <1>4, <2>1, OneDayMoves
  <1>6. CASE ~Given(d)'
    <2>1. ~Given(d) /\ d \notin blurred'
      BY <1>3, <1>6 DEF Given
    <2>2. Sheet(d)' = [in |-> row.in, out |-> row.out, by |-> row.by]
      BY <1>3, <1>6 DEF Given, Sheet, Current
    <2>3. Sheet(d) = [in |-> Current(d).in, out |-> Current(d).out, by |-> Current(d).by]
      BY <2>1 DEF Given, Sheet
    <2>4. CASE CheckInCommit(c) /\ row.in = calls[c].at /\ row.out = Current(d).out
      <3>1. Current(d).in = Unset
        BY <1>1, <1>3, <2>1, <2>4 DEF RowOf, Current, NoRecord
      <3>2. Sheet(d)' = [Sheet(d) EXCEPT !.in = calls[c].at]
        BY <1>2, <2>2, <2>3, <2>4
      <3> QED BY <1>1, <1>4, <2>1, <3>1, <3>2, OneDayMoves
    <2>5. CASE CheckOutCommit(c) /\ row.out = calls[c].at /\ row.in = Current(d).in
      <3>1. Current(d).in # Unset /\ Current(d).out = Unset
        BY <1>1, <1>3, <2>1, <2>5 DEF RowOf, Current
      <3>2. Sheet(d)' = [Sheet(d) EXCEPT !.out = calls[c].at]
        BY <1>2, <2>2, <2>3, <2>5
      <3> QED BY <1>1, <1>4, <2>1, <3>1, <3>2, OneDayMoves
    <2> QED BY <1>2, <2>4, <2>5
  <1> QED BY <1>5, <1>6

(* A decision replaces times and signs for it, or gives the day up.        *)
LEMMA DecisionMoves ==
    ASSUME AttendanceInv, NEW c \in Callers, DecideCommit(c)
    PROVE  [AbstractSheet!Next]_Sheets
  <1> USE AttendanceAssumption
  <1>0a. PICK r \in DOMAIN requests, d \in EmployeeDays :
           r = calls[c].request /\ d = requests[r].day
    BY DEF DecideCommit, Doing, AttendanceInv, AttendanceTypeOK, CallsKnow, Call, Request
  <1>0. PICK decision, row : decision = calls[c].decision /\ row = Corrected(Current(d), r)
    OBVIOUS
  <1>1. /\ r \in Requests /\ requests[r] \in Request
        /\ disputed \subseteq DOMAIN requests
    BY DEF DecideCommit, Doing, AttendanceInv, AttendanceTypeOK, CallsKnow, Call, Request
  <1>2. /\ requests' = [requests EXCEPT ![r].status = decision]
        /\ records' = IF decision = "approved" THEN Put(records, d, row) ELSE records
        /\ disputed' = IF requests[r].status = "pending" THEN disputed ELSE disputed \union {r}
        /\ UNCHANGED blurred
    BY <1>0, <1>0a DEF DecideCommit
  <1>3. \A q \in DOMAIN requests : requests'[q].day = requests[q].day
    BY <1>1, <1>2 DEF AttendanceInv, AttendanceTypeOK, Request
  <1>4. \A e \in EmployeeDays \ {d} : Sheet(e)' = Sheet(e)
    <2>1. \A e \in EmployeeDays \ {d} : Current(e)' = Current(e)
      BY <1>2 DEF Current, Put
    <2>2. \A e \in EmployeeDays \ {d} : Given(e)' <=> Given(e)
      BY <1>0, <1>0a, <1>1, <1>2, <1>3 DEF Given
    <2> QED BY <1>1, <2>1, <2>2, OtherDays
  <1>5. CASE Given(d)'
    <2>1. Sheet(d)' = Blurred
      BY <1>5 DEF Given, Sheet
    <2> QED BY <1>1, <1>4, <2>1, OneDayMoves
  <1>6. CASE ~Given(d)'
    <2>1. requests[r].status = "pending"
      BY <1>0, <1>0a, <1>1, <1>2, <1>3, <1>6 DEF Given
    <2>2. ~Given(d)
      BY <1>1, <1>2, <1>3, <1>6, <2>1 DEF Given
    <2>3. CASE decision # "approved"
      <3>1. Sheet(d)' = Sheet(d)
        BY <1>2, <1>6, <2>2, <2>3 DEF Given, Sheet, Current
      <3> QED BY <1>1, <1>4, <3>1, OneDayMoves
    <2>4. CASE decision = "approved"
      <3> DEFINE asked == [in |-> requests[r].in, out |-> requests[r].out]
      <3>1. Current(d) \in Record
        BY DEF Current, NoRecord, AttendanceInv, AttendanceTypeOK, Record, Moment
      <3>2. Current(d)' = row
        BY <1>2, <2>4 DEF Current, Put
      <3>3. Sheet(d)' = [in  |-> IF asked.in = Unset THEN Current(d).in ELSE asked.in,
                         out |-> IF asked.out = Unset THEN Current(d).out ELSE asked.out,
                         by  |-> r]
        <4>1. /\ row.by = r
              /\ row.in  = IF requests[r].in = Unset THEN Current(d).in ELSE requests[r].in
              /\ row.out = IF requests[r].out = Unset THEN Current(d).out ELSE requests[r].out
          BY <1>0, <3>1 DEF Corrected, Record
        <4>2. Sheet(d)' = [in |-> row.in, out |-> row.out, by |-> row.by]
          BY <1>6, <3>2 DEF Given, Sheet
        <4> QED BY <4>1, <4>2
      <3>4. asked \in AbstractSheet!Amendments
        BY <1>1 DEF AbstractSheet!Amendments, Request, Moment
      <3>5. r # Current(d).by
        BY <1>1, <2>1 DEF AttendanceInv, SignedByDecided, Current, NoRecord
      <3> HIDE DEF asked
      <3> QED BY <1>1, <1>4, <2>2, <3>3, <3>4, <3>5, OneDayMoves
    <2> QED BY <2>3, <2>4
  <1> QED BY <1>5, <1>6

-----------------------------------------------------------------------------
(* Records, requests and calls keep their types under any overlap.         *)
THEOREM AttendanceTypeCorrect == AttendanceSpec => []AttendanceTypeOK
  BY AttendanceInvariant, PTL DEF AttendanceInv

(* A record nobody corrected and no two calls overtook each other on tells *)
(* one story, for any employees, days and calls.                           *)
THEOREM OneStoryHolds == AttendanceSpec => []OneStory
  BY AttendanceInvariant, PTL DEF AttendanceInv

(* The correction a record names was approved and its times stand, unless  *)
(* it was decided twice or the day was overtaken.                          *)
THEOREM CorrectionStandsHolds == AttendanceSpec => []CorrectionStands
  BY AttendanceInvariant, PTL DEF AttendanceInv

(* Whatever overlaps, each step of the handlers is for every day a punch   *)
(* into an empty time, a signed correction, nothing, or the loss of the    *)
(* day to two calls that overtook each other.                              *)
THEOREM RecordsImplementTimeSheet == AttendanceSpec => RecordsAreTimeSheets
  <1>1. AttendanceInv /\ [AttendanceNext]_attendanceVars => [AbstractSheet!Next]_Sheets
    <2> SUFFICES ASSUME AttendanceInv, [AttendanceNext]_attendanceVars
                 PROVE  [AbstractSheet!Next]_Sheets
      OBVIOUS
    <2>1. CASE Tick \/ UNCHANGED attendanceVars
      BY <2>1, QuietSteps DEF Tick, attendanceVars
    <2>2. ASSUME NEW r \in Requests, NEW d \in EmployeeDays, NEW times \in Asked,
                 Regularize(r, d, times)
          PROVE  UNCHANGED Sheets
      <3>1. \A q \in DOMAIN requests : requests'[q] = requests[q]
        BY <2>2 DEF Regularize, Put
      <3> QED BY <2>2, <3>1, QuietSteps DEF Regularize
    <2>3. ASSUME NEW c \in Callers,
                 \/ \E d \in EmployeeDays : CheckInRead(c, d) \/ CheckOutRead(c, d)
                 \/ \E r \in Requests, decision \in {"approved", "rejected"} :
                       DecideRead(c, r, decision)
                 \/ Lost(c)
          PROVE  UNCHANGED Sheets
      BY <2>3, QuietSteps DEF CheckInRead, CheckOutRead, Punch, DecideRead, Lost
    <2> QED BY <2>1, <2>2, <2>3, PunchMoves, DecisionMoves DEF AttendanceNext
  <1>2. QED
    BY <1>1, SheetsInitially, AttendanceInvariant, PTL
       DEF AttendanceSpec, RecordsAreTimeSheets, AbstractSheet!Spec, Sheets

-----------------------------------------------------------------------------
(* Defaults.                                                               *)

(* Beside the types: a request that turns a calendar's flag off, or takes  *)
(* the calendar away, read that it was not the default.                    *)
SawNoDefault ==
    \A e \in DOMAIN edits : edits[e].kind \in {"clear", "archive"} => ~edits[e].saw

DefaultsInv == DefaultsTypeOK /\ SawNoDefault /\ OneDefault

LEMMA DefaultsInitially == DefaultsInit => DefaultsInv
  <1> SUFFICES ASSUME DefaultsInit PROVE DefaultsInv
    OBVIOUS
  <1>1. /\ DOMAIN edits = {} /\ DOMAIN policies = {}
        /\ DOMAIN calendars = {Standard}
        /\ calendars[Standard] = [live |-> TRUE, default |-> TRUE]
    BY DEF DefaultsInit
  <1>2. DefaultsTypeOK
    BY <1>1, DefaultsAssumption DEF DefaultsInit, DefaultsTypeOK, Row
  <1>3. SawNoDefault
    BY <1>1 DEF SawNoDefault
  <1>4. LiveDefaults(calendars) = {Standard} /\ LiveDefaults(policies) = {}
    BY <1>1 DEF LiveDefaults, Flagged
  <1> QED BY <1>2, <1>3, <1>4 DEF DefaultsInv, OneDefault, AtMostOne

-----------------------------------------------------------------------------
(* A request that only reads changes nothing but what it carries.          *)
LEMMA EditKept ==
    ASSUME DefaultsInv, NEW e \in Editors, NEW edit \in Edit,
           edit.kind \in {"clear", "archive"} => ~edit.saw,
           edits' = Put(edits, e, edit) \/ (e \in DOMAIN edits /\ edits' = [edits EXCEPT ![e] = edit]),
           UNCHANGED <<calendars, policies, undermined, overlooked>>
    PROVE  DefaultsInv'
  <1>1. /\ DOMAIN edits' = DOMAIN edits \union {e}
        /\ \A f \in DOMAIN edits' : edits'[f] = IF f = e THEN edit ELSE edits[f]
    BY DEF Put
  <1>2. DefaultsTypeOK'
    BY <1>1 DEF DefaultsInv, DefaultsTypeOK
  <1>3. SawNoDefault'
    BY <1>1 DEF DefaultsInv, SawNoDefault
  <1> QED BY <1>2, <1>3 DEF DefaultsInv, OneDefault, LiveDefaults, Flagged

(* A request that goes takes nothing with it.                              *)
LEMMA EditDropped ==
    ASSUME DefaultsInv, NEW e \in Editors, Goes(e)
    PROVE  /\ DOMAIN edits' \subseteq Editors
           /\ \A f \in DOMAIN edits' : edits'[f] \in Edit
           /\ SawNoDefault'
  <1>1. /\ DOMAIN edits' = DOMAIN edits \ {e}
        /\ \A f \in DOMAIN edits' : edits'[f] = edits[f]
    BY DEF Goes, Drop, Restrict
  <1> QED BY <1>1 DEF DefaultsInv, DefaultsTypeOK, SawNoDefault

-----------------------------------------------------------------------------
(* Calendars.                                                              *)

(* A transaction on calendars that the index allows, and that leaves a     *)
(* live default or admits it does not, keeps all that is promised.         *)
LEMMA CalendarsWritten ==
    ASSUME DefaultsInv,
           DOMAIN calendars' \subseteq Calendars,
           \A k \in DOMAIN calendars' : calendars'[k] \in Row,
           AtMostOne(LiveDefaults(calendars')),
           undermined' \in BOOLEAN, undermined' \/ LiveDefaults(calendars') # {},
           UNCHANGED <<policies, overlooked>>,
           \/ UNCHANGED edits
           \/ \E e \in Editors : Goes(e)
    PROVE  DefaultsInv'
  <1>1. /\ DOMAIN edits' \subseteq Editors
        /\ \A f \in DOMAIN edits' : edits'[f] \in Edit
        /\ SawNoDefault'
    BY EditDropped DEF DefaultsInv, DefaultsTypeOK, SawNoDefault
  <1> QED BY <1>1 DEF DefaultsInv, DefaultsTypeOK, OneDefault, LiveDefaults, Flagged

LEMMA PoliciesWritten ==
    ASSUME DefaultsInv,
           DOMAIN policies' \subseteq Policies,
           \A k \in DOMAIN policies' : policies'[k] \in Row,
           overlooked' \subseteq DOMAIN policies',
           AtMostOne(LiveDefaults(policies') \ overlooked'),
           UNCHANGED <<calendars, undermined>>,
           \/ UNCHANGED edits
           \/ \E e \in Editors : Goes(e)
    PROVE  DefaultsInv'
  <1>1. /\ DOMAIN edits' \subseteq Editors
        /\ \A f \in DOMAIN edits' : edits'[f] \in Edit
        /\ SawNoDefault'
    BY EditDropped DEF DefaultsInv, DefaultsTypeOK, SawNoDefault
  <1> QED BY <1>1 DEF DefaultsInv, DefaultsTypeOK, OneDefault, AtMostOne, LiveDefaults, Flagged

LEMMA CalendarsStep ==
    ASSUME DefaultsInv, CalendarsNext
    PROVE  DefaultsInv'
  <1> USE DefaultsAssumption
  <1> DEFINE Live(k) == calendars[k].live
  <1>0. /\ DOMAIN calendars \subseteq Calendars
        /\ \A k \in DOMAIN calendars : calendars[k] \in Row
        /\ undermined \in BOOLEAN
        /\ AtMostOne(LiveDefaults(calendars))
        /\ undermined \/ LiveDefaults(calendars) # {}
        /\ Flagged(calendars) \subseteq Calendars
    BY DEF DefaultsInv, DefaultsTypeOK, OneDefault, Flagged
  <1>1. ASSUME NEW k \in Calendars, CreateCalendar(k)
        PROVE  DefaultsInv'
    <2>1. /\ DOMAIN calendars' = DOMAIN calendars \union {k}
          /\ \A l \in DOMAIN calendars' : calendars'[l] \in Row
          /\ LiveDefaults(calendars') = LiveDefaults(calendars)
      BY <1>0, <1>1 DEF CreateCalendar, Put, Row, LiveDefaults, Flagged
    <2> QED BY <1>0, <1>1, <2>1, CalendarsWritten DEF CreateCalendar
  <1>2. ASSUME NEW k \in Calendars, RestoreCalendar(k)
        PROVE  DefaultsInv'
    <2>1. /\ DOMAIN calendars' = DOMAIN calendars
          /\ \A l \in DOMAIN calendars' : calendars'[l] \in Row
          /\ LiveDefaults(calendars) \subseteq LiveDefaults(calendars')
          /\ AtMostOne(LiveDefaults(calendars'))
      BY <1>0, <1>2 DEF RestoreCalendar, WriteCalendars, IndexAllows, Row, LiveDefaults, Flagged
    <2> QED BY <1>0, <1>2, <2>1, CalendarsWritten DEF RestoreCalendar
  <1>3. ASSUME NEW e \in Editors, CreateDefaultCalendar(e)
        PROVE  DefaultsInv'
    <2> DEFINE edit == [kind |-> "unsetCalendars", row |-> NewRow, old |-> Flagged(calendars)]
    <2>1. edit \in Edit /\ edit.kind \notin {"clear", "archive"}
      BY <1>0 DEF Edit
    <2>2. edits' = Put(edits, e, edit) /\ UNCHANGED <<calendars, policies, undermined, overlooked>>
      BY <1>3 DEF CreateDefaultCalendar, Begin
    <2> HIDE DEF edit
    <2> QED BY <2>1, <2>2, EditKept
  <1>4. ASSUME NEW e \in Editors, UnsetCalendars(e)
        PROVE  DefaultsInv'
    <2> DEFINE edit == [kind |-> "unsetCalendars", row |-> edits[e].row,
                        old |-> Flagged(calendars) \ {edits[e].row}]
    <2>1. e \in DOMAIN edits /\ edits[e] \in Edit /\ edits[e].kind = "calendar"
      BY <1>4 DEF UnsetCalendars, Editing, DefaultsInv, DefaultsTypeOK
    <2>2. edit \in Edit /\ edit.kind \notin {"clear", "archive"}
      BY <1>0, <2>1 DEF Edit
    <2>3. /\ edits' = [edits EXCEPT ![e] = edit]
          /\ UNCHANGED <<calendars, policies, undermined, overlooked>>
      BY <1>4 DEF UnsetCalendars
    <2> HIDE DEF edit
    <2> QED BY <2>1, <2>2, <2>3, EditKept
  <1>5. ASSUME NEW e \in Editors, Refused(e)
        PROVE  DefaultsInv'
    BY <1>0, <1>5, CalendarsWritten DEF Refused, LiveDefaults, Flagged
  <1>6. ASSUME NEW e \in Editors, SetDefaultCommit(e)
        PROVE  DefaultsInv'
    <2> DEFINE rows == Swapped(calendars, edits[e].old, edits[e].row)
    <2>1. edits[e] \in Edit /\ edits[e].row \in Calendars
      BY <1>6 DEF SetDefaultCommit, Editing, DefaultsInv, DefaultsTypeOK, Edit
    <2>2. /\ DOMAIN rows \subseteq Calendars
          /\ \A k \in DOMAIN rows : rows[k] \in Row
          /\ \/ edits[e].row \in DOMAIN calendars /\ ~Live(edits[e].row)
             \/ edits[e].row \in LiveDefaults(rows)
      <3>2. \A l \in DOMAIN calendars : calendars[l] \in Row
        BY <1>0
      <3>3. /\ DOMAIN rows = DOMAIN calendars \union {edits[e].row}
            /\ \A l \in DOMAIN rows : rows[l] \in Row
            /\ \/ edits[e].row \in DOMAIN calendars /\ ~calendars[edits[e].row].live
               \/ edits[e].row \in LiveDefaults(rows)
        BY <3>2 DEF Swapped, Put, Row, LiveDefaults, Flagged
      <3> HIDE DEF rows
      <3> QED BY <1>0, <2>1, <3>3
    <2>3. /\ calendars' = rows /\ AtMostOne(LiveDefaults(rows))
          /\ undermined' = (undermined \/ ~Live(edits[e].row))
          /\ Goes(e) /\ UNCHANGED <<policies, overlooked>>
      BY <1>6 DEF SetDefaultCommit, WriteCalendars, IndexAllows
    <2> HIDE DEF rows
    <2>4. undermined' \in BOOLEAN /\ (undermined' \/ LiveDefaults(rows) # {})
      BY <2>2, <2>3
    <2> QED BY <2>2, <2>3, <2>4, CalendarsWritten
  <1>7. ASSUME NEW e \in Editors, KeepCommit(e)
        PROVE  DefaultsInv'
    <2>1. /\ DOMAIN calendars' = DOMAIN calendars
          /\ \A k \in DOMAIN calendars' : calendars'[k] \in Row
          /\ \A k \in DOMAIN calendars : /\ calendars'[k].live = calendars[k].live
                                         /\ calendars[k].default => calendars'[k].default
      BY <1>0, <1>7 DEF KeepCommit, WriteCalendars, Row
    <2>2. LiveDefaults(calendars) \subseteq LiveDefaults(calendars')
      BY <2>1 DEF LiveDefaults, Flagged
    <2>3. AtMostOne(LiveDefaults(calendars'))
      BY <1>7 DEF KeepCommit, WriteCalendars, IndexAllows
    <2> QED BY <1>0, <1>7, <2>1, <2>2, <2>3, CalendarsWritten DEF KeepCommit
  <1>8. ASSUME NEW e \in Editors, ClearCommit(e) \/ ArchiveCommit(e)
        PROVE  DefaultsInv'
    <2>1. ~edits[e].saw
      BY <1>8 DEF ClearCommit, ArchiveCommit, Editing, DefaultsInv, SawNoDefault
    <2>2. /\ DOMAIN calendars' = DOMAIN calendars
          /\ \A k \in DOMAIN calendars' : calendars'[k] \in Row
          /\ LiveDefaults(calendars') \subseteq LiveDefaults(calendars)
      <3>1. CASE ClearCommit(e)
        BY <1>0, <3>1 DEF ClearCommit, Row, LiveDefaults, Flagged
      <3>2. CASE ArchiveCommit(e)
        BY <1>0, <3>2 DEF ArchiveCommit, Row, LiveDefaults, Flagged
      <3> QED BY <1>8, <3>1, <3>2
    <2>3. CASE edits[e].row \in DOMAIN calendars /\ calendars[edits[e].row].default
      <3>1. undermined' = TRUE
        BY <1>0, <1>8, <2>1, <2>3 DEF ClearCommit, ArchiveCommit, Row
      <3> QED BY <1>0, <1>8, <2>2, <3>1, CalendarsWritten DEF ClearCommit, ArchiveCommit, AtMostOne
    <2>4. CASE ~(edits[e].row \in DOMAIN calendars /\ calendars[edits[e].row].default)
      <3>1. LiveDefaults(calendars') = LiveDefaults(calendars)
        BY <1>0, <1>8, <2>4 DEF ClearCommit, ArchiveCommit, Row, LiveDefaults, Flagged
      <3>2. undermined' \in BOOLEAN /\ (undermined => undermined')
        BY <1>0, <1>8 DEF ClearCommit, ArchiveCommit
      <3> QED BY <1>0, <1>8, <2>2, <3>1, <3>2, CalendarsWritten DEF ClearCommit, ArchiveCommit
    <2> QED BY <2>3, <2>4
  <1>9. ASSUME NEW e \in Editors, NEW k \in Calendars, SetDefaultRead(e, k)
        PROVE  DefaultsInv'
    <2> DEFINE edit == [kind |-> IF calendars[k].default THEN "keep" ELSE "calendar", row |-> k]
    <2>1. edit \in Edit /\ edit.kind \notin {"clear", "archive"}
      BY DEF Edit
    <2>2. edits' = Put(edits, e, edit) /\ UNCHANGED <<calendars, policies, undermined, overlooked>>
      BY <1>9 DEF SetDefaultRead, Begin
    <2> HIDE DEF edit
    <2> QED BY <2>1, <2>2, EditKept
  <1>10. ASSUME NEW e \in Editors, NEW k \in Calendars, NEW kind \in {"clear", "archive"},
                ~calendars[k].default, k \in DOMAIN calendars,
                Begin(e, [kind |-> kind, row |-> k, saw |-> calendars[k].default]),
                UNCHANGED <<calendars, policies, undermined, overlooked>>
         PROVE  DefaultsInv'
    <2> DEFINE edit == [kind |-> kind, row |-> k, saw |-> calendars[k].default]
    <2>1. edit \in Edit /\ ~edit.saw
      BY <1>0, <1>10 DEF Edit, Row
    <2>2. edits' = Put(edits, e, edit)
      BY <1>10 DEF Begin
    <2> HIDE DEF edit
    <2> QED BY <1>10, <2>1, <2>2, EditKept
  <1>11. ASSUME NEW e \in Editors, NEW k \in Calendars, InsertDefault(e, k)
         PROVE  DefaultsInv'
    <2> DEFINE rows == Swapped(calendars, edits[e].old, k)
    <2>1. /\ DOMAIN rows \subseteq Calendars
          /\ \A l \in DOMAIN rows : rows[l] \in Row
          /\ k \in LiveDefaults(rows)
      <3>1. k \notin DOMAIN calendars
        BY <1>11 DEF InsertDefault
      <3>2. \A l \in DOMAIN calendars : calendars[l] \in Row
        BY <1>0
      <3>3. /\ DOMAIN rows = DOMAIN calendars \union {k}
            /\ \A l \in DOMAIN rows : rows[l] \in Row
            /\ \/ k \in DOMAIN calendars /\ ~calendars[k].live
               \/ k \in LiveDefaults(rows)
        BY <3>2 DEF Swapped, Put, Row, LiveDefaults, Flagged
      <3> HIDE DEF rows
      <3> QED BY <1>0, <3>1, <3>3
    <2>2. /\ calendars' = rows /\ AtMostOne(LiveDefaults(rows))
          /\ Goes(e) /\ UNCHANGED <<policies, undermined, overlooked>>
      BY <1>11 DEF InsertDefault, WriteCalendars, IndexAllows
    <2> HIDE DEF rows
    <2> QED BY <1>0, <2>1, <2>2, CalendarsWritten
  <1> QED
    BY <1>1, <1>2, <1>3, <1>4, <1>5, <1>6, <1>7, <1>8, <1>9, <1>10, <1>11
       DEF CalendarsNext, ClearRead, ArchiveRead
-----------------------------------------------------------------------------
(* Policies.                                                               *)

LEMMA PoliciesStep ==
    ASSUME DefaultsInv, PoliciesNext
    PROVE  DefaultsInv'
  <1> USE DefaultsAssumption
  <1>0. /\ DOMAIN policies \subseteq Policies
        /\ \A k \in DOMAIN policies : policies[k] \in Row
        /\ overlooked \subseteq DOMAIN policies
        /\ AtMostOne(LiveDefaults(policies) \ overlooked)
        /\ LiveDefaults(policies) \subseteq Policies
    BY DEF DefaultsInv, DefaultsTypeOK, OneDefault, LiveDefaults, Flagged
  <1>1. ASSUME NEW k \in Policies, CreatePolicy(k)
        PROVE  DefaultsInv'
    <2>1. /\ DOMAIN policies' = DOMAIN policies \union {k}
          /\ \A l \in DOMAIN policies' : policies'[l] \in Row
          /\ LiveDefaults(policies') = LiveDefaults(policies)
      BY <1>0, <1>1 DEF CreatePolicy, Put, Row, LiveDefaults, Flagged
    <2> QED BY <1>0, <1>1, <2>1, PoliciesWritten DEF CreatePolicy
  <1>2. ASSUME NEW e \in Editors, CreateDefaultPolicy(e)
        PROVE  DefaultsInv'
    <2> DEFINE edit == [kind |-> "unsetPolicies", row |-> NewRow, old |-> LiveDefaults(policies)]
    <2>1. edit \in Edit /\ edit.kind \notin {"clear", "archive"}
      BY <1>0 DEF Edit
    <2>2. edits' = Put(edits, e, edit) /\ UNCHANGED <<calendars, policies, undermined, overlooked>>
      BY <1>2 DEF CreateDefaultPolicy, Begin
    <2> HIDE DEF edit
    <2> QED BY <2>1, <2>2, EditKept
  <1>3. ASSUME NEW e \in Editors, NEW kind \in {"policy", "clearPolicy", "archivePolicy"},
               NEW k \in Policies, PolicyRead(e, kind, k)
        PROVE  DefaultsInv'
    <2> DEFINE edit == [kind |-> kind, row |-> k]
    <2>1. edit \in Edit /\ edit.kind \notin {"clear", "archive"}
      BY DEF Edit
    <2>2. edits' = Put(edits, e, edit) /\ UNCHANGED <<calendars, policies, undermined, overlooked>>
      BY <1>3 DEF PolicyRead, Begin
    <2> HIDE DEF edit
    <2> QED BY <2>1, <2>2, EditKept
  <1>4. ASSUME NEW e \in Editors, UnsetPolicies(e)
        PROVE  DefaultsInv'
    <2> DEFINE edit == [kind |-> "unsetPolicies", row |-> edits[e].row,
                        old |-> LiveDefaults(policies) \ {edits[e].row}]
    <2>1. e \in DOMAIN edits /\ edits[e] \in Edit /\ edits[e].kind = "policy"
      BY <1>4 DEF UnsetPolicies, Editing, DefaultsInv, DefaultsTypeOK
    <2>2. edit \in Edit /\ edit.kind \notin {"clear", "archive"}
      BY <1>0, <2>1 DEF Edit
    <2>3. /\ edits' = [edits EXCEPT ![e] = edit]
          /\ UNCHANGED <<calendars, policies, undermined, overlooked>>
      BY <1>4 DEF UnsetPolicies
    <2> HIDE DEF edit
    <2> QED BY <2>1, <2>2, <2>3, EditKept
  <1>5. ASSUME NEW e \in Editors, Refused(e)
        PROVE  DefaultsInv'
    BY <1>0, <1>5, PoliciesWritten DEF Refused, LiveDefaults, Flagged
  <1>6. ASSUME NEW e \in Editors, NEW k \in Policies, DefaultPolicyCommit(e, k)
        PROVE  DefaultsInv'
    <2> DEFINE rows == Swapped(policies, edits[e].old, k)
    <2>1. /\ policies' = rows /\ Goes(e) /\ UNCHANGED <<calendars, undermined>>
          /\ overlooked' = IF LiveDefaults(policies) \subseteq edits[e].old \union {k}
                           THEN overlooked ELSE overlooked \union {k}
      BY <1>6 DEF DefaultPolicyCommit
    <2>2. /\ DOMAIN rows = DOMAIN policies \union {k}
          /\ \A l \in DOMAIN rows : rows[l] \in Row
      BY <1>0 DEF Swapped, Put, Row
    <2>3. LiveDefaults(rows) \subseteq (LiveDefaults(policies) \ edits[e].old) \union {k}
      BY <1>0 DEF Swapped, Put, Row, LiveDefaults, Flagged
    <2> HIDE DEF rows
    <2>4. overlooked' \subseteq DOMAIN rows
      BY <1>0, <2>1, <2>2
    <2>5. AtMostOne(LiveDefaults(rows) \ overlooked')
      <3>1. CASE LiveDefaults(policies) \subseteq edits[e].old \union {k}
        BY <2>3, <3>1 DEF AtMostOne
      <3>2. CASE ~(LiveDefaults(policies) \subseteq edits[e].old \union {k})
        BY <1>0, <2>1, <2>3, <3>2 DEF AtMostOne
      <3> QED BY <3>1, <3>2
    <2> QED BY <1>0, <2>1, <2>2, <2>4, <2>5, PoliciesWritten
  <1>7. ASSUME NEW e \in Editors, ClearPolicyCommit(e) \/ ArchivePolicyCommit(e)
        PROVE  DefaultsInv'
    <2>1. /\ DOMAIN policies' = DOMAIN policies
          /\ \A k \in DOMAIN policies' : policies'[k] \in Row
          /\ LiveDefaults(policies') \subseteq LiveDefaults(policies)
      <3>1. CASE ClearPolicyCommit(e)
        BY <1>0, <3>1 DEF ClearPolicyCommit, Row, LiveDefaults, Flagged
      <3>2. CASE ArchivePolicyCommit(e)
        BY <1>0, <3>2 DEF ArchivePolicyCommit, Row, LiveDefaults, Flagged
      <3> QED BY <1>7, <3>1, <3>2
    <2>2. Goes(e) /\ UNCHANGED <<calendars, undermined, overlooked>>
      BY <1>7 DEF ClearPolicyCommit, ArchivePolicyCommit
    <2>3. AtMostOne(LiveDefaults(policies') \ overlooked')
      BY <1>0, <2>1, <2>2 DEF AtMostOne
    <2> QED BY <1>0, <2>1, <2>2, <2>3, PoliciesWritten
  <1> QED
    BY <1>1, <1>2, <1>3, <1>4, <1>5, <1>6, <1>7 DEF PoliciesNext

-----------------------------------------------------------------------------
(* Every reachable state has the invariant.                                *)
LEMMA DefaultsInvariant == DefaultsSpec => []DefaultsInv
  <1>1. DefaultsInv /\ [DefaultsNext]_defaultVars => DefaultsInv'
    <2> SUFFICES ASSUME DefaultsInv, [DefaultsNext]_defaultVars PROVE DefaultsInv'
      OBVIOUS
    <2>1. CASE DefaultsNext
      BY <2>1, CalendarsStep, PoliciesStep DEF DefaultsNext
    <2>2. CASE UNCHANGED defaultVars
      BY <2>2 DEF defaultVars, DefaultsInv, DefaultsTypeOK, SawNoDefault, OneDefault,
                  AtMostOne, LiveDefaults, Flagged
    <2> QED BY <2>1, <2>2
  <1> QED BY <1>1, DefaultsInitially, PTL DEF DefaultsSpec

(* Both tables and the requests in flight keep their types, however the    *)
(* statements of calendar and policy requests interleave.                  *)
THEOREM DefaultsTypeCorrect == DefaultsSpec => []DefaultsTypeOK
  BY DefaultsInvariant, PTL DEF DefaultsInv

(* However many editors overlap, an organisation has at most one default   *)
(* calendar and keeps one unless the flag was given behind the back of a   *)
(* request that turned it off; and of two default policies one was made by *)
(* a transaction that overlooked the other.                                *)
THEOREM OneDefaultHolds == DefaultsSpec => []OneDefault
  BY DefaultsInvariant, PTL DEF DefaultsInv

-----------------------------------------------------------------------------
(* Holidays.                                                               *)

(* What a request knows: the calendar to assign is one that exists, and an *)
(* employee who is about to be given the default has no other, unless he   *)
(* was given one since.                                                    *)
AsksKnow ==
    \A a \in DOMAIN asks :
        LET ask == asks[a] IN
        /\ ask.kind = "assign" => ask.calendar \in DOMAIN calendars
        /\ ask.kind = "fallback" => a \in overtaken \/ ask.place \notin DOMAIN assigned

(* History has the calendar an employee has now.                           *)
HadNow == \A a \in Looking : CalendarAt(asks[a].place) \in had[a]

HolidaysInv == DefaultsInv /\ HolidaysTypeOK /\ AsksKnow /\ HadNow /\ LookupsAnswer

LEMMA HolidaysInitially == HolidaysInit => HolidaysInv
  <1> SUFFICES ASSUME HolidaysInit PROVE HolidaysInv
    OBVIOUS
  <1>1. DefaultsInv
    BY DefaultsInitially DEF HolidaysInit
  <1>2. DOMAIN asks = {} /\ Looking = {} /\ DOMAIN assigned = {}
    BY DEF HolidaysInit, Looking
  <1>3. had \in [Looking -> SUBSET (Calendars \union {None})]
    BY <1>2 DEF HolidaysInit
  <1> QED BY <1>1, <1>2, <1>3
          DEF HolidaysInit, HolidaysInv, HolidaysTypeOK, DefaultsInv, AsksKnow, HadNow, LookupsAnswer

-----------------------------------------------------------------------------
(* Calendars are only ever added, and a default taken away unseen stays    *)
(* noted.                                                                  *)
LEMMA CalendarsGrow ==
    ASSUME DefaultsInv, CalendarsNext
    PROVE  DOMAIN calendars \subseteq DOMAIN calendars' /\ (undermined => undermined')
  <1>1. ASSUME NEW table, NEW old, NEW row
        PROVE  DOMAIN table \subseteq DOMAIN Swapped(table, old, row)
    BY DEF Swapped, Put
  <1>2. ASSUME NEW k \in Calendars, CreateCalendar(k) \/ RestoreCalendar(k)
        PROVE  DOMAIN calendars \subseteq DOMAIN calendars' /\ undermined' = undermined
    BY <1>2 DEF CreateCalendar, RestoreCalendar, WriteCalendars, Put
  <1>3. ASSUME NEW e \in Editors, NEW k \in Calendars, InsertDefault(e, k)
        PROVE  DOMAIN calendars \subseteq DOMAIN calendars' /\ undermined' = undermined
    BY <1>1, <1>3 DEF InsertDefault, WriteCalendars
  <1>4. ASSUME NEW e \in Editors, SetDefaultCommit(e)
        PROVE  DOMAIN calendars \subseteq DOMAIN calendars' /\ (undermined => undermined')
    BY <1>1, <1>4 DEF SetDefaultCommit, WriteCalendars
  <1>5. ASSUME NEW e \in Editors, KeepCommit(e) \/ ClearCommit(e) \/ ArchiveCommit(e)
        PROVE  DOMAIN calendars \subseteq DOMAIN calendars' /\ (undermined => undermined')
    <2>1. CASE KeepCommit(e)
      BY <2>1 DEF KeepCommit, WriteCalendars
    <2>2. CASE ClearCommit(e)
      BY <2>2 DEF ClearCommit
    <2>3. CASE ArchiveCommit(e)
      BY <2>3 DEF ArchiveCommit
    <2> QED BY <1>5, <2>1, <2>2, <2>3
  <1>6. ASSUME NEW e \in Editors, CreateDefaultCalendar(e) \/ UnsetCalendars(e) \/ Refused(e)
        PROVE  calendars' = calendars /\ undermined' = undermined
    BY <1>6 DEF CreateDefaultCalendar, UnsetCalendars, Refused
  <1>7. ASSUME NEW e \in Editors, NEW k \in Calendars,
               SetDefaultRead(e, k) \/ ClearRead(e, k) \/ ArchiveRead(e, k)
        PROVE  calendars' = calendars /\ undermined' = undermined
    BY <1>7 DEF SetDefaultRead, ClearRead, ArchiveRead
  <1> QED BY <1>2, <1>3, <1>4, <1>5, <1>6, <1>7 DEF CalendarsNext

(* The default is the one live row that has the flag.                      *)
LEMMA TheDefault ==
    ASSUME DefaultsInv
    PROVE  /\ \A k \in LiveDefaults(calendars) : k = DefaultCalendar
           /\ LiveDefaults(calendars) = {} => DefaultCalendar = None /\ undermined
           /\ DefaultCalendar \in Calendars \union {None}
  <1>1. AtMostOne(LiveDefaults(calendars)) /\ LiveDefaults(calendars) \subseteq Calendars
    BY DEF DefaultsInv, DefaultsTypeOK, OneDefault, LiveDefaults, Flagged
  <1>2. CASE LiveDefaults(calendars) = {}
    BY <1>2 DEF DefaultCalendar, DefaultsInv, OneDefault
  <1>3. CASE LiveDefaults(calendars) # {}
    <2>1. DefaultCalendar \in LiveDefaults(calendars)
      BY <1>3 DEF DefaultCalendar
    <2> QED BY <1>1, <1>3, <2>1 DEF AtMostOne
  <1> QED BY <1>2, <1>3

(* What a step remembers: nothing is forgotten while a lookup goes on, the *)
(* calendar its employee now has is added, and so is a change of what he   *)
(* was assigned.                                                           *)
LEMMA Remembered ==
    ASSUME HolidaysInv, Remember, DefaultsInv',
           (DOMAIN assigned \subseteq Locations)',
           (\A l \in DOMAIN assigned : assigned[l] \in DOMAIN calendars)'
    PROVE  /\ had' \in [Looking' -> SUBSET (Calendars \union {None})]
           /\ overtaken' \subseteq Looking'
           /\ HadNow'
           /\ \A a \in Looking' \intersect Looking :
                 /\ had[a] \subseteq had'[a]
                 /\ a \in overtaken => a \in overtaken'
                 /\ LET place == asks[a].place IN
                    \/ a \in overtaken'
                    \/ place \in DOMAIN assigned <=> place \in DOMAIN assigned'
  <1>1. \A place : CalendarAt(place)' \in Calendars \union {None}
    <2>1. DefaultCalendar' \in Calendars \union {None}
      <3>1. (LiveDefaults(calendars) \subseteq Calendars)'
        BY DEF DefaultsInv, DefaultsTypeOK, LiveDefaults, Flagged
      <3> QED BY <3>1 DEF DefaultCalendar
    <2>2. DOMAIN calendars' \subseteq Calendars
      BY DEF DefaultsInv, DefaultsTypeOK
    <2> QED BY <2>1, <2>2 DEF CalendarAt
  <1>2. had \in [Looking -> SUBSET (Calendars \union {None})]
    BY DEF HolidaysInv, HolidaysTypeOK
  <1>3. /\ had' \in [Looking' -> SUBSET (Calendars \union {None})]
        /\ \A a \in Looking' \intersect Looking : had[a] \subseteq had'[a]
        /\ \A a \in Looking' : CalendarAt(asks[a].place)' \in had'[a]
    BY <1>1, <1>2 DEF Remember
  <1>4. HadNow'
    BY <1>3 DEF HadNow
  <1>5. overtaken' \subseteq Looking'
    BY DEF Remember
  <1>6. ASSUME NEW a \in Looking' \intersect Looking
        PROVE  /\ a \in overtaken => a \in overtaken'
               /\ LET place == asks[a].place IN
                  \/ a \in overtaken'
                  \/ place \in DOMAIN assigned <=> place \in DOMAIN assigned'
    BY <1>6 DEF Remember
  <1> QED BY <1>3, <1>4, <1>5, <1>6

-----------------------------------------------------------------------------
(* A step keeps the invariant if every request it does not leave as it was *)
(* knows what it must.                                                     *)
LEMMA HolidaysKept ==
    ASSUME HolidaysInv, Remember, DefaultsInv',
           DOMAIN calendars \subseteq DOMAIN calendars', undermined => undermined',
           days' \subseteq Calendars \X Dates, places' \subseteq Locations,
           (DOMAIN assigned \subseteq Locations)',
           (\A l \in DOMAIN assigned : assigned[l] \in DOMAIN calendars)',
           DOMAIN asks' \subseteq Askers,
           \A a \in DOMAIN asks' :
              \/ a \in DOMAIN asks /\ asks'[a] = asks[a]
              \/ /\ asks'[a] \in Ask
                 /\ asks'[a].kind = "assign" => asks'[a].calendar \in DOMAIN calendars
                 /\ asks'[a].kind = "fallback" =>
                       a \in overtaken' \/ asks'[a].place \notin DOMAIN assigned'
                 /\ asks'[a].kind = "answered" =>
                       /\ a \in overtaken' \/ asks'[a].calendar \in had'[a]
                       /\ undermined' \/ asks'[a].calendar # None
    PROVE  HolidaysInv'
  <1> DEFINE Same(a) == a \in DOMAIN asks /\ asks'[a] = asks[a]
  <1>1. /\ had' \in [Looking' -> SUBSET (Calendars \union {None})]
        /\ overtaken' \subseteq Looking'
        /\ HadNow'
        /\ \A a \in Looking' \intersect Looking :
              /\ had[a] \subseteq had'[a]
              /\ a \in overtaken => a \in overtaken'
              /\ LET place == asks[a].place IN
                 \/ a \in overtaken'
                 \/ place \in DOMAIN assigned <=> place \in DOMAIN assigned'
    BY Remembered
  <1>2. HolidaysTypeOK'
    <2>1. \A a \in DOMAIN asks' : asks'[a] \in Ask
      BY DEF HolidaysInv, HolidaysTypeOK
    <2> QED BY <1>1, <2>1 DEF HolidaysTypeOK, DefaultsInv
  <1>3. ASSUME NEW a \in DOMAIN asks', Same(a), a \in Looking'
        PROVE  a \in Looking
    BY <1>3 DEF Looking
  <1>4. AsksKnow'
    <2> SUFFICES ASSUME NEW a \in DOMAIN asks'
                 PROVE  /\ asks'[a].kind = "assign" => asks'[a].calendar \in DOMAIN calendars'
                        /\ asks'[a].kind = "fallback" =>
                              a \in overtaken' \/ asks'[a].place \notin DOMAIN assigned'
      BY DEF AsksKnow
    <2>1. CASE Same(a)
      <3>1. asks[a].kind = "fallback" => a \in overtaken \/ asks[a].place \notin DOMAIN assigned
        BY <2>1 DEF HolidaysInv, AsksKnow
      <3>2. asks[a].kind = "assign" => asks[a].calendar \in DOMAIN calendars
        BY <2>1 DEF HolidaysInv, AsksKnow
      <3>3. asks[a].kind = "fallback" => a \in Looking' \intersect Looking
        BY <2>1 DEF Looking
      <3> QED BY <1>1, <2>1, <3>1, <3>2, <3>3
    <2>2. CASE ~Same(a)
      BY <2>2
    <2> QED BY <2>1, <2>2
  <1>5. LookupsAnswer'
    <2> SUFFICES ASSUME NEW a \in Looking', asks'[a].kind = "answered"
                 PROVE  /\ a \in overtaken' \/ asks'[a].calendar \in had'[a]
                        /\ undermined' \/ asks'[a].calendar # None
      BY DEF LookupsAnswer
    <2>0. a \in DOMAIN asks'
      BY DEF Looking
    <2>1. CASE Same(a)
      <3>1. a \in Looking
        BY <1>3, <2>0, <2>1
      <3>2. /\ a \in overtaken \/ asks[a].calendar \in had[a]
            /\ undermined \/ asks[a].calendar # None
        BY <2>1, <3>1 DEF HolidaysInv, LookupsAnswer
      <3> QED BY <1>1, <2>1, <3>1, <3>2
    <2>2. CASE ~Same(a)
      BY <2>0, <2>2
    <2> QED BY <2>1, <2>2
  <1> QED BY <1>1, <1>2, <1>4, <1>5 DEF HolidaysInv

(* A request that begins, one that goes on and one that ends.              *)
LEMMA AskMoves ==
    ASSUME HolidaysInv, NEW a \in Askers, NEW ask
    PROVE  /\ Starts(a, ask) => /\ a \notin DOMAIN asks /\ a \notin Looking
                                /\ DOMAIN asks' = DOMAIN asks \union {a}
                                /\ asks'[a] = ask
                                /\ \A b \in DOMAIN asks : asks'[b] = asks[b]
           /\ a \in DOMAIN asks /\ GoesOn(a, ask) =>
                 /\ DOMAIN asks' = DOMAIN asks
                 /\ asks'[a] = ask
                 /\ \A b \in DOMAIN asks : b # a => asks'[b] = asks[b]
           /\ Ends(a) => /\ DOMAIN asks' = DOMAIN asks \ {a}
                         /\ \A b \in DOMAIN asks' : asks'[b] = asks[b]
  BY DEF Starts, GoesOn, Ends, Put, Drop, Restrict, Looking

LEMMA LookupAnswers ==
    ASSUME HolidaysInv, Remember, UNCHANGED <<defaultVars, assigned>>, NEW a \in Askers,
           LookupAssigned(a) \/ LookupDefault(a)
    PROVE  /\ a \in DOMAIN asks /\ DOMAIN asks' = DOMAIN asks
           /\ \A b \in DOMAIN asks : b # a => asks'[b] = asks[b]
           /\ asks'[a] \in Ask /\ asks'[a].kind \in {"fallback", "answered"}
           /\ asks'[a].kind = "fallback" => asks'[a].place \notin DOMAIN assigned'
           /\ asks'[a].kind = "answered" =>
                 /\ a \in overtaken' \/ asks'[a].calendar \in had'[a]
                 /\ undermined' \/ asks'[a].calendar # None
  <1> DEFINE place == asks[a].place
  <1>0. /\ a \in Looking /\ asks[a] \in Ask /\ asks[a].kind \in {"lookup", "fallback"}
        /\ place \in Locations \union {Nowhere}
        /\ DOMAIN assigned \subseteq Locations
        /\ DefaultsInv /\ CalendarAt(place) \in had[a]
    <2>1. a \in DOMAIN asks /\ asks[a].kind \in {"lookup", "fallback"}
      BY DEF LookupAssigned, LookupDefault, Asks
    <2>2. asks[a] \in Ask
      BY <2>1 DEF HolidaysInv, HolidaysTypeOK
    <2> QED BY <2>1, <2>2 DEF HolidaysInv, HolidaysTypeOK, HadNow, Looking, Ask
  <1>1. DefaultsInv'
    BY <1>0 DEF defaultVars, DefaultsInv, DefaultsTypeOK, SawNoDefault, OneDefault,
                AtMostOne, LiveDefaults, Flagged
  <1>2. DOMAIN calendars \subseteq Calendars
    BY <1>0 DEF DefaultsInv, DefaultsTypeOK
  <1>3. a \in Looking' => had[a] \subseteq had'[a] /\ (a \in overtaken => a \in overtaken')
    BY <1>0 DEF Remember
  <1>4. CASE LookupAssigned(a)
    <2>1. CASE place \in DOMAIN assigned
      <3>1. GoesOn(a, [kind |-> "answered", place |-> place, calendar |-> assigned[place]])
        BY <1>4, <2>1 DEF LookupAssigned
      <3>2. assigned[place] \in Calendars /\ assigned[place] = CalendarAt(place)
        BY <1>2, <2>1 DEF HolidaysInv, HolidaysTypeOK, CalendarAt
      <3>3. asks'[a] = [kind |-> "answered", place |-> place, calendar |-> assigned[place]]
            /\ DOMAIN asks' = DOMAIN asks /\ \A b \in DOMAIN asks : b # a => asks'[b] = asks[b]
        BY <1>0, <3>1 DEF GoesOn, Looking
      <3>4. a \in Looking'
        BY <1>0, <3>3 DEF Looking
      <3> QED BY <1>0, <1>3, <3>2, <3>3, <3>4, HolidaysAssumption DEF Looking, Ask
    <2>2. CASE place \notin DOMAIN assigned
      <3>1. GoesOn(a, [kind |-> "fallback", place |-> place])
        BY <1>4, <2>2 DEF LookupAssigned
      <3>2. asks'[a] = [kind |-> "fallback", place |-> place]
            /\ DOMAIN asks' = DOMAIN asks /\ \A b \in DOMAIN asks : b # a => asks'[b] = asks[b]
        BY <1>0, <3>1 DEF GoesOn, Looking
      <3> QED BY <1>0, <2>2, <3>2 DEF Looking, Ask
    <2> QED BY <2>1, <2>2
  <1>5. CASE LookupDefault(a)
    <2>1. PICK k \in IF LiveDefaults(calendars) = {} THEN {None} ELSE LiveDefaults(calendars) :
             GoesOn(a, [kind |-> "answered", place |-> place, calendar |-> k])
      BY <1>5 DEF LookupDefault
    <2>2. k = DefaultCalendar /\ k \in Calendars \union {None} /\ (undermined \/ k # None)
      <3>1. LiveDefaults(calendars) \subseteq Calendars
        BY <1>2 DEF LiveDefaults, Flagged
      <3> QED BY <1>0, <2>1, <3>1, TheDefault, HolidaysAssumption
    <2>3. asks'[a] = [kind |-> "answered", place |-> place, calendar |-> k]
          /\ DOMAIN asks' = DOMAIN asks /\ \A b \in DOMAIN asks : b # a => asks'[b] = asks[b]
      BY <1>0, <2>1 DEF GoesOn, Looking
    <2>4. a \in Looking'
      BY <1>0, <2>3 DEF Looking
    <2>5. a \in overtaken \/ k \in had[a]
      <3>1. a \in overtaken \/ place \notin DOMAIN assigned
        BY <1>0, <1>5 DEF HolidaysInv, AsksKnow, LookupDefault, Asks
      <3> QED BY <1>0, <2>2, <3>1 DEF CalendarAt
    <2>6. undermined' = undermined
      BY DEF defaultVars
    <2> QED BY <1>0, <1>3, <2>2, <2>3, <2>4, <2>5, <2>6 DEF Looking, Ask
  <1> QED BY <1>4, <1>5

(* Steps of the services of this module: the calendars stay.               *)
LEMMA OwnKeeps ==
    ASSUME HolidaysInv, Remember, OwnNext, UNCHANGED defaultVars
    PROVE  HolidaysInv'
  <1>0. /\ DefaultsInv' /\ UNCHANGED <<calendars, undermined>>
        /\ days \subseteq Calendars \X Dates /\ places \subseteq Locations
        /\ DOMAIN calendars \subseteq Calendars
        /\ DOMAIN assigned \subseteq Locations
        /\ \A l \in DOMAIN assigned : assigned[l] \in DOMAIN calendars
        /\ DOMAIN asks \subseteq Askers
        /\ \A a \in DOMAIN asks : asks[a] \in Ask
    BY DEF HolidaysInv, HolidaysTypeOK, defaultVars, DefaultsInv, DefaultsTypeOK, SawNoDefault,
           OneDefault, AtMostOne, LiveDefaults, Flagged
  <1>1. ASSUME NEW l \in Locations, RemoveLocation(l) \/ RestoreLocation(l)
        PROVE  HolidaysInv'
    <2>1. places' \subseteq Locations /\ UNCHANGED <<days, assigned, asks>>
      BY <1>0, <1>1 DEF RemoveLocation, RestoreLocation
    <2> QED BY <1>0, <2>1, HolidaysKept
  <1>2. ASSUME NEW k \in Calendars, NEW date \in Dates, NEW to \in Dates,
               RemoveHoliday(k, date) \/ MoveHoliday(k, date, to)
        PROVE  HolidaysInv'
    <2>1. days' \subseteq Calendars \X Dates /\ UNCHANGED <<places, assigned, asks>>
      BY <1>0, <1>2 DEF RemoveHoliday, MoveHoliday
    <2> QED BY <1>0, <2>1, HolidaysKept
  <1>3. ASSUME NEW a \in Askers, NEW ask \in Ask, Starts(a, ask),
               UNCHANGED <<days, places, assigned>>,
               ask.kind = "assign" => ask.calendar \in DOMAIN calendars,
               ask.kind \notin {"fallback", "answered"}
        PROVE  HolidaysInv'
    <2>1. /\ DOMAIN asks' = DOMAIN asks \union {a} /\ asks'[a] = ask
          /\ \A b \in DOMAIN asks : asks'[b] = asks[b]
      BY <1>3, AskMoves
    <2> QED BY <1>0, <1>3, <2>1, HolidaysKept
  <1>4. ASSUME NEW a \in Askers, Ends(a), UNCHANGED places,
               days' \subseteq Calendars \X Dates, (DOMAIN assigned \subseteq Locations)',
               (\A l \in DOMAIN assigned : assigned[l] \in DOMAIN calendars)'
        PROVE  HolidaysInv'
    <2>1. DOMAIN asks' = DOMAIN asks \ {a} /\ \A b \in DOMAIN asks' : asks'[b] = asks[b]
      BY <1>4, AskMoves
    <2> QED BY <1>0, <1>4, <2>1, HolidaysKept
  <1>5. ASSUME NEW a \in Askers, NEW k \in Calendars, NEW dates \in SUBSET Dates,
               AddRead(a, k, dates)
        PROVE  HolidaysInv'
    BY <1>3, <1>5 DEF AddRead, Ask
  <1>6. ASSUME NEW a \in Askers, NEW l \in Locations, NEW k \in Calendars,
               AssignRead(a, l, k)
        PROVE  HolidaysInv'
    BY <1>3, <1>6 DEF AssignRead, Ask, LiveCalendars
  <1>7. ASSUME NEW a \in Askers, NEW l \in Locations, UnassignRead(a, l)
        PROVE  HolidaysInv'
    BY <1>3, <1>7 DEF UnassignRead, Ask
  <1>8. ASSUME NEW a \in Askers, NEW place \in Locations \union {Nowhere}, LookupPlace(a, place)
        PROVE  HolidaysInv'
    BY <1>3, <1>8 DEF LookupPlace, Ask
  <1>9. ASSUME NEW a \in Askers, AddCommit(a)
        PROVE  HolidaysInv'
    <2>1. asks[a].calendar \in Calendars /\ asks[a].dates \subseteq Dates
      BY <1>0, <1>9 DEF AddCommit, Asks, Ask
    <2>2. days' \subseteq Calendars \X Dates
      BY <1>0, <1>9, <2>1 DEF AddCommit
    <2> QED BY <1>0, <1>4, <1>9, <2>2 DEF AddCommit
  <1>10. ASSUME NEW a \in Askers, AssignCommit(a)
         PROVE  HolidaysInv'
    <2>1. asks[a].place \in Locations /\ asks[a].calendar \in DOMAIN calendars
      BY <1>0, <1>10 DEF AssignCommit, Asks, Ask, HolidaysInv, AsksKnow
    <2>2. /\ DOMAIN assigned' = DOMAIN assigned \union {asks[a].place}
          /\ \A l \in DOMAIN assigned' :
                assigned'[l] = IF l = asks[a].place THEN asks[a].calendar ELSE assigned[l]
      BY <1>10 DEF AssignCommit, Put
    <2>3. (DOMAIN assigned \subseteq Locations)'
      BY <1>0, <2>1, <2>2
    <2>4. (\A l \in DOMAIN assigned : assigned[l] \in DOMAIN calendars)'
      BY <1>0, <2>1, <2>2
    <2> QED BY <1>0, <1>4, <1>10, <2>3, <2>4 DEF AssignCommit
  <1>11. ASSUME NEW a \in Askers, UnassignCommit(a)
         PROVE  HolidaysInv'
    <2>1. /\ DOMAIN assigned' = DOMAIN assigned \ {asks[a].place}
          /\ \A l \in DOMAIN assigned' : assigned'[l] = assigned[l]
      BY <1>11 DEF UnassignCommit, Drop, Restrict
    <2>2. (DOMAIN assigned \subseteq Locations)'
      BY <1>0, <2>1
    <2>3. (\A l \in DOMAIN assigned : assigned[l] \in DOMAIN calendars)'
      BY <1>0, <2>1
    <2> QED BY <1>0, <1>4, <1>11, <2>2, <2>3 DEF UnassignCommit
  <1>12. ASSUME NEW a \in Askers, AskEnds(a)
         PROVE  HolidaysInv'
    BY <1>0, <1>4, <1>12 DEF AskEnds
  <1>13. ASSUME NEW a \in Askers, LookupAssigned(a) \/ LookupDefault(a)
         PROVE  HolidaysInv'
    <2>1. UNCHANGED <<defaultVars, days, places, assigned>>
      BY <1>13 DEF LookupAssigned, LookupDefault
    <2>2. /\ a \in DOMAIN asks /\ DOMAIN asks' = DOMAIN asks
          /\ \A b \in DOMAIN asks : b # a => asks'[b] = asks[b]
          /\ asks'[a] \in Ask /\ asks'[a].kind \in {"fallback", "answered"}
          /\ asks'[a].kind = "fallback" => asks'[a].place \notin DOMAIN assigned'
          /\ asks'[a].kind = "answered" =>
                /\ a \in overtaken' \/ asks'[a].calendar \in had'[a]
                /\ undermined' \/ asks'[a].calendar # None
      BY <1>13, <2>1, LookupAnswers
    <2> QED BY <1>0, <2>1, <2>2, HolidaysKept
  <1> QED BY <1>1, <1>2, <1>5, <1>6, <1>7, <1>8, <1>9, <1>10, <1>11, <1>12, <1>13 DEF OwnNext

(* Steps of the calendars themselves: the requests here stay.              *)
LEMMA CalendarsKeepHolidays ==
    ASSUME HolidaysInv, Remember, CalendarsNext, UNCHANGED ownVars
    PROVE  HolidaysInv'
  <1>1. DefaultsInv' /\ DOMAIN calendars \subseteq DOMAIN calendars' /\ (undermined => undermined')
    BY CalendarsStep, CalendarsGrow DEF HolidaysInv
  <1>2. /\ days' \subseteq Calendars \X Dates /\ places' \subseteq Locations
        /\ DOMAIN asks' \subseteq Askers /\ asks' = asks
        /\ (DOMAIN assigned \subseteq Locations)'
    BY DEF ownVars, HolidaysInv, HolidaysTypeOK
  <1>3. (\A l \in DOMAIN assigned : assigned[l] \in DOMAIN calendars)'
    BY <1>1 DEF ownVars, HolidaysInv, HolidaysTypeOK
  <1> QED BY <1>1, <1>2, <1>3, HolidaysKept

LEMMA HolidaysInvariant == HolidaysSpec => []HolidaysInv
  <1>1. HolidaysInv /\ [HolidaysNext]_holidayVars => HolidaysInv'
    <2> SUFFICES ASSUME HolidaysInv, [HolidaysNext]_holidayVars PROVE HolidaysInv'
      OBVIOUS
    <2>1. CASE HolidaysNext
      BY <2>1, OwnKeeps, CalendarsKeepHolidays DEF HolidaysNext
    <2>2. CASE UNCHANGED holidayVars
      <3>1. UNCHANGED <<days, places, assigned, asks, had, overtaken,
                        calendars, policies, edits, undermined, overlooked>>
        BY <2>2 DEF holidayVars, ownVars, defaultVars
      <3>2. DefaultsInv'
        BY <3>1 DEF HolidaysInv, DefaultsInv, DefaultsTypeOK, SawNoDefault, OneDefault,
                    AtMostOne, LiveDefaults, Flagged
      <3>3. \A place : CalendarAt(place)' = CalendarAt(place)
        BY <3>1 DEF CalendarAt, DefaultCalendar, LiveDefaults, Flagged
      <3>4. HolidaysTypeOK' /\ AsksKnow' /\ LookupsAnswer'
        BY <3>1, <3>2 DEF HolidaysInv, HolidaysTypeOK, DefaultsInv, AsksKnow, LookupsAnswer, Looking
      <3>5. HadNow'
        BY <3>1, <3>3 DEF HolidaysInv, HadNow, Looking
      <3> QED BY <3>2, <3>4, <3>5 DEF HolidaysInv
    <2> QED BY <2>1, <2>2
  <1> QED BY <1>1, HolidaysInitially, PTL DEF HolidaysSpec

(* Holidays, assignments and the requests between two statements keep      *)
(* their types; an assigned calendar exists.                               *)
THEOREM HolidaysTypeCorrect == HolidaysSpec => []HolidaysTypeOK
  BY HolidaysInvariant, PTL DEF HolidaysInv

(* Whatever is assigned, unassigned, made default or archived while        *)
(* somebody's calendar is looked up, the answer is one he had since the    *)
(* lookup began, unless his location was given another under it; and there *)
(* is one, unless the default was taken away unseen.                       *)
THEOREM LookupsAnswerHolds == HolidaysSpec => []LookupsAnswer
  BY HolidaysInvariant, PTL DEF HolidaysInv
=============================================================================
