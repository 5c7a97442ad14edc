----------------------------- MODULE MCWorkday -----------------------------
(* Attendance, attendance policies, holiday calendars on their own and     *)
(* with their locations: each behaviour moves one of them and leaves the   *)
(* others as they began.                                                   *)
EXTENDS Attendance, Holidays, TLC

CONSTANTS d1, r1, r2, c1, c2, std, k2, k3, pol1, pol2, pol3, e1, e2, l1

Symmetry ==
    Permutations(Requests) \union Permutations(Callers) \union Permutations(Editors)
      \union Permutations(Policies) \union Permutations(Calendars \ {Standard})

MCAsked == {<<1, Unset>>, <<Unset, 2>>, <<0, 3>>}

LocationsAtRest == days = {} /\ places = Locations /\ assigned = << >> /\ asks = << >>
KeepLocations   == LocationsAtRest /\ UNCHANGED <<ownVars, had, overtaken>>

CalendarEdits == {"calendar", "keep", "clear", "archive", "unsetCalendars"}

NoPolicies  == policies = << >> /\ \A e \in DOMAIN edits : edits[e].kind \in CalendarEdits
NoCalendars == /\ calendars = [k \in {Standard} |-> [live |-> TRUE, default |-> TRUE]]
               /\ \A e \in DOMAIN edits : edits[e].kind \notin CalendarEdits

(* Two calendars and two requests in all; the days of a calendar, which    *)
(* decide nothing else, change on their own.                               *)
FewHolidays ==
    /\ DOMAIN calendars' \subseteq {std, k2}
    /\ Cardinality(DOMAIN asks') + Cardinality(DOMAIN edits') <= 2
    /\ Cardinality(days') <= 1
    /\ days' # {} => edits' = << >> /\ assigned' = << >> /\ places' = Locations

AtRest == AttendanceInit /\ HolidaysInit

SpecApart ==
    /\ AtRest
    /\ [][ \/ HolidaysInit /\ UNCHANGED holidayVars /\ AttendanceNext
           \/ /\ AttendanceInit /\ UNCHANGED attendanceVars
              /\ \/ NoPolicies /\ HolidaysNext /\ FewHolidays
                 \/ NoPolicies /\ KeepLocations /\ CalendarsNext
                 \/ NoCalendars /\ KeepLocations /\ PoliciesNext
         ]_<<attendanceVars, holidayVars>>
=============================================================================
