------------------------------ MODULE Holidays ------------------------------
(***************************************************************************)
(* The days of holiday calendars (holidays/holidays.service.ts), the       *)
(* calendar assigned to a location                                         *)
(* (holidays/location-calendar-assignments.service.ts), and which calendar *)
(* an employee has (holidays/holiday-lookup.service.ts): his location's,   *)
(* else the default.  The calendars themselves are those of Defaults.      *)
(***************************************************************************)
EXTENDS Defaults

CONSTANTS
    Locations,   \* locations of the organisation
    Dates,       \* calendar days
    Askers,      \* requests to these services that run concurrently
    Nowhere,     \* an employee without a location
    None         \* no calendar

ASSUME HolidaysAssumption == Nowhere \notin Locations /\ None \notin Calendars

VARIABLES
    days,       \* holidays: calendar and date, unique together
    places,     \* the locations that are not deleted
    assigned,   \* the calendar of each location that was given one
    asks,       \* requests in flight: what each has read
    had,        \* history: the calendars an employee had since his lookup began
    overtaken   \* history: lookups under which the assignment they read was changed

ownVars     == <<days, places, assigned, asks>>
holidayVars == <<ownVars, had, overtaken, defaultVars>>

Ask == [kind: {"add"}, calendar: Calendars, dates: SUBSET Dates]
         \union [kind: {"assign"}, place: Locations, calendar: Calendars]
         \union [kind: {"unassign"}, place: Locations]
         \union [kind: {"lookup", "fallback"}, place: Locations \union {Nowhere}]
         \union [kind: {"answered"}, place: Locations \union {Nowhere},
                 calendar: Calendars \union {None}]

LiveCalendars  == {k \in DOMAIN calendars : calendars[k].live}
Looking        == {a \in DOMAIN asks : asks[a].kind \in {"lookup", "fallback", "answered"}}
Asks(a, kind)  == a \in DOMAIN asks /\ asks[a].kind = kind
Starts(a, ask) == a \notin DOMAIN asks /\ asks' = Put(asks, a, ask)
GoesOn(a, ask) == asks' = [asks EXCEPT ![a] = ask]
Ends(a)        == asks' = Drop(asks, a)

DefaultCalendar ==
    IF LiveDefaults(calendars) = {} THEN None ELSE CHOOSE k \in LiveDefaults(calendars) : TRUE

(* The calendar of those who work at a place. *)
CalendarAt(place) == IF place \in DOMAIN assigned THEN assigned[place] ELSE DefaultCalendar

HolidaysInit ==
    /\ DefaultsInit
    /\ days = {} /\ places = Locations /\ assigned = << >> /\ asks = << >>
    /\ had = << >> /\ overtaken = {}

-----------------------------------------------------------------------------
(* The days of a calendar.                                                 *)

(* create, with one date, and bulkUpsert begin by looking for the calendar.*)
AddRead(a, k, dates) ==
    /\ k \in LiveCalendars
    /\ Starts(a, [kind |-> "add", calendar |-> k, dates |-> dates])
    /\ UNCHANGED <<days, places, assigned>>

(* The unique index refuses a date that is there to create; bulkUpsert     *)
(* writes over it, all of its items in one transaction.  The calendar may  *)
(* be gone by then.                                                        *)
AddCommit(a) ==
    /\ Asks(a, "add")
    /\ days' = days \union ({asks[a].calendar} \X asks[a].dates)
    /\ Ends(a)
    /\ UNCHANGED <<places, assigned>>

(* update gives a holiday another date that is free, remove deletes it; the *)
(* calendar is not looked at.                                              *)
MoveHoliday(k, date, to) ==
    /\ <<k, date>> \in days /\ <<k, to>> \notin days
    /\ days' = (days \ {<<k, date>>}) \union {<<k, to>>}
    /\ UNCHANGED <<places, assigned, asks>>

RemoveHoliday(k, date) ==
    /\ <<k, date>> \in days
    /\ days' = days \ {<<k, date>>}
    /\ UNCHANGED <<places, assigned, asks>>

-----------------------------------------------------------------------------
(* Locations and their calendars.  A location keeps its calendar while it  *)
(* is deleted, and a calendar its locations.                               *)

RemoveLocation(l) ==
    /\ l \in places
    /\ places' = places \ {l}
    /\ UNCHANGED <<days, assigned, asks>>

RestoreLocation(l) ==
    /\ l \in Locations \ places
    /\ places' = places \union {l}
    /\ UNCHANGED <<days, assigned, asks>>

AssignRead(a, l, k) ==
    /\ l \in places /\ k \in LiveCalendars
    /\ Starts(a, [kind |-> "assign", place |-> l, calendar |-> k])
    /\ UNCHANGED <<days, places, assigned>>

AssignCommit(a) ==
    /\ Asks(a, "assign")
    /\ assigned' = Put(assigned, asks[a].place, asks[a].calendar)
    /\ Ends(a)
    /\ UNCHANGED <<days, places>>

UnassignRead(a, l) ==
    /\ l \in DOMAIN assigned
    /\ Starts(a, [kind |-> "unassign", place |-> l])
    /\ UNCHANGED <<days, places, assigned>>

(* Whatever calendar the location has by now; if none, the delete fails.   *)
UnassignCommit(a) ==
    /\ Asks(a, "unassign") /\ asks[a].place \in DOMAIN assigned
    /\ assigned' = Drop(assigned, asks[a].place)
    /\ Ends(a)
    /\ UNCHANGED <<days, places>>

-----------------------------------------------------------------------------
(* Which calendar an employee has: read his location, then its calendar,   *)
(* then, if it has none, the default; then the days of the answer, which a *)
(* leave request subtracts.                                                *)

LookupPlace(a, place) ==
    /\ Starts(a, [kind |-> "lookup", place |-> place])
    /\ UNCHANGED <<days, places, assigned>>

LookupAssigned(a) ==
    /\ Asks(a, "lookup")
    /\ LET place == asks[a].place
       IN  GoesOn(a, IF place \in DOMAIN assigned
                     THEN [kind |-> "answered", place |-> place, calendar |-> assigned[place]]
                     ELSE [kind |-> "fallback", place |-> place])
    /\ UNCHANGED <<days, places, assigned>>

\* mutant: any live calendar will do
LookupDefaultAny(a) ==
    /\ Asks(a, "fallback")
    /\ \E k \in IF LiveCalendars = {} THEN {None} ELSE LiveCalendars :
          GoesOn(a, [kind |-> "answered", place |-> asks[a].place, calendar |-> k])
    /\ UNCHANGED <<days, places, assigned>>

LookupDefault(a) ==
    /\ Asks(a, "fallback")
    /\ \E k \in IF LiveDefaults(calendars) = {} THEN {None} ELSE LiveDefaults(calendars) :
          GoesOn(a, [kind |-> "answered", place |-> asks[a].place, calendar |-> k])
    /\ UNCHANGED <<days, places, assigned>>

(* The days are read, a constraint refuses a write, or a statement fails.  *)
AskEnds(a) ==
    /\ a \in DOMAIN asks
    /\ Ends(a)
    /\ UNCHANGED <<days, places, assigned>>

OwnNext ==
    \/ \E l \in Locations : RemoveLocation(l) \/ RestoreLocation(l)
    \/ \E k \in Calendars, date \in Dates :
          RemoveHoliday(k, date) \/ \E to \in Dates : MoveHoliday(k, date, to)
    \/ \E a \in Askers :
          \/ AddCommit(a) \/ AssignCommit(a) \/ UnassignCommit(a)
          \/ LookupAssigned(a) \/ LookupDefault(a) \/ AskEnds(a)
          \/ \E k \in Calendars, dates \in SUBSET Dates : AddRead(a, k, dates)
          \/ \E l \in Locations : UnassignRead(a, l) \/ \E k \in Calendars : AssignRead(a, l, k)
          \/ \E place \in Locations \union {Nowhere} : LookupPlace(a, place)

(* After each step: what the employees looked up for have.                 *)
Remember ==
    /\ had' = [a \in Looking' |-> (IF a \in Looking THEN had[a] ELSE {})
                                     \union {CalendarAt(asks[a].place)'}]
    /\ overtaken' = {a \in Looking' :
          a \in Looking /\ (a \in overtaken \/ LET place == asks[a].place IN
              \/ (place \in DOMAIN assigned) # (place \in DOMAIN assigned')
              \/ place \in DOMAIN assigned /\ assigned'[place] # assigned[place])}

HolidaysNext ==
    /\ \/ OwnNext /\ UNCHANGED defaultVars
       \/ CalendarsNext /\ UNCHANGED ownVars
    /\ Remember

HolidaysSpec == HolidaysInit /\ [][HolidaysNext]_holidayVars

-----------------------------------------------------------------------------
HolidaysTypeOK ==
    /\ DefaultsTypeOK
    /\ days \subseteq Calendars \X Dates
    /\ places \subseteq Locations
    /\ DOMAIN assigned \subseteq Locations
    /\ \A l \in DOMAIN assigned : assigned[l] \in DOMAIN calendars
    /\ DOMAIN asks \subseteq Askers
    /\ \A a \in DOMAIN asks : asks[a] \in Ask
    /\ had \in [Looking -> SUBSET (Calendars \union {None})]
    /\ overtaken \subseteq Looking

(* Whoever asks for leave is answered a calendar he had at some moment     *)
(* since the request began to look for it, unless his location was given   *)
(* another or none in between (resolveCalendarIdForEmployee,               *)
(* holiday-lookup.service.ts:15-36); and some calendar, "Returns null only *)
(* when neither path yields one" (:8-9), as long as the default was not    *)
(* taken away unseen.                                                      *)
LookupsAnswer ==
    \A a \in Looking : asks[a].kind = "answered" =>
        /\ a \in overtaken \/ asks[a].calendar \in had[a]
        /\ undermined \/ asks[a].calendar # None
=============================================================================
