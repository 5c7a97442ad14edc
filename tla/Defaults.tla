------------------------------ MODULE Defaults ------------------------------
(***************************************************************************)
(* The two tables of an organisation of which one row is the default:      *)
(* holiday calendars (holidays/holiday-calendars.service.ts) and           *)
(* attendance policies (attendance/policies.service.ts).                   *)
(*                                                                         *)
(* Making a row the default is a transaction of two statements: unset the  *)
(* others, then set or insert the one.  The first sees what is committed   *)
(* when it runs; of two such transactions neither may see the other's row. *)
(* For calendars a partial unique index then refuses the second; policies  *)
(* have none.                                                              *)
(***************************************************************************)
EXTENDS Tables

CONSTANTS
    Calendars, Policies,   \* identities of rows; bound how many are made
    Standard,              \* the default calendar sign-up creates
    Editors,               \* requests that run concurrently
    NewRow                 \* in place of the identity of a row not yet inserted

ASSUME DefaultsAssumption == Standard \in Calendars /\ NewRow \notin Calendars \union Policies

VARIABLES
    calendars,    \* the calendars that exist
    policies,     \* the policies that exist
    edits,        \* requests in flight: what each has read
    undermined,   \* history: a commit took the default away unseen
    overlooked    \* history: policies made default past one their request did not see

defaultVars == <<calendars, policies, edits, undermined, overlooked>>

Row  == [live: BOOLEAN, default: BOOLEAN]
Edit == [kind: {"calendar", "keep"}, row: Calendars]
          \union [kind: {"clear", "archive"}, row: Calendars, saw: BOOLEAN]
          \union [kind: {"unsetCalendars"}, row: Calendars \union {NewRow}, old: SUBSET Calendars]
          \union [kind: {"policy", "clearPolicy", "archivePolicy"}, row: Policies]
          \union [kind: {"unsetPolicies"}, row: Policies \union {NewRow}, old: SUBSET Policies]

Flagged(table)      == {k \in DOMAIN table : table[k].default}
LiveDefaults(table) == {k \in Flagged(table) : table[k].live}
AtMostOne(rows)     == \A k, l \in rows : k = l

Editing(e, kind) == e \in DOMAIN edits /\ edits[e].kind = kind
Begin(e, edit)   == e \notin DOMAIN edits /\ edits' = Put(edits, e, edit)
Goes(e)          == edits' = Drop(edits, e)

DefaultsInit ==
    /\ calendars = [k \in {Standard} |-> [live |-> TRUE, default |-> TRUE]]
    /\ policies = << >>
    /\ edits = << >>
    /\ undermined = FALSE
    /\ overlooked = {}

(* The rows after a transaction that clears the flag of old and gives it   *)
(* to row, which it may have to insert.                                    *)
Swapped(table, old, row) ==
    Put([k \in DOMAIN table |-> IF k \in old THEN [table[k] EXCEPT !.default = FALSE]
                                             ELSE table[k]],
        row, [live |-> IF row \in DOMAIN table THEN table[row].live ELSE TRUE,
              default |-> TRUE])

-----------------------------------------------------------------------------
(* Holiday calendars.                                                      *)

(* holiday_calendars_one_default_per_org                                   *)
IndexAllows(rows) == AtMostOne(LiveDefaults(rows))

WriteCalendars(rows) == IndexAllows(rows) /\ calendars' = rows

CreateCalendar(k) ==
    /\ k \in Calendars \ DOMAIN calendars
    /\ calendars' = Put(calendars, k, [live |-> TRUE, default |-> FALSE])
    /\ UNCHANGED <<policies, edits, undermined, overlooked>>

CreateDefaultCalendar(e) ==
    /\ Begin(e, [kind |-> "unsetCalendars", row |-> NewRow, old |-> Flagged(calendars)])
    /\ UNCHANGED <<calendars, policies, undermined, overlooked>>

(* setDefault, and update with isDefault: true; the default itself is left *)
(* alone by the one and written again by the other.                        *)
SetDefaultRead(e, k) ==
    /\ k \in DOMAIN calendars /\ calendars[k].live
    /\ Begin(e, [kind |-> IF calendars[k].default THEN "keep" ELSE "calendar", row |-> k])
    /\ UNCHANGED <<calendars, policies, undermined, overlooked>>

\* mutant: the default may be turned off
ClearReadAny(e, k) ==
    /\ k \in DOMAIN calendars /\ calendars[k].live
    /\ Begin(e, [kind |-> "clear", row |-> k, saw |-> calendars[k].default])
    /\ UNCHANGED <<calendars, policies, undermined, overlooked>>

(* update with isDefault: false ("default_required")                       *)
ClearRead(e, k) ==
    /\ k \in DOMAIN calendars /\ calendars[k].live /\ ~calendars[k].default
    /\ Begin(e, [kind |-> "clear", row |-> k, saw |-> calendars[k].default])
    /\ UNCHANGED <<calendars, policies, undermined, overlooked>>

(* remove ("default_undeletable")                                          *)
ArchiveRead(e, k) ==
    /\ k \in DOMAIN calendars /\ calendars[k].live /\ ~calendars[k].default
    /\ Begin(e, [kind |-> "archive", row |-> k, saw |-> calendars[k].default])
    /\ UNCHANGED <<calendars, policies, undermined, overlooked>>

UnsetCalendars(e) ==
    /\ Editing(e, "calendar")
    /\ edits' = [edits EXCEPT ![e] = [kind |-> "unsetCalendars", row |-> @.row,
                                      old |-> Flagged(calendars) \ {@.row}]]
    /\ UNCHANGED <<calendars, policies, undermined, overlooked>>

InsertDefault(e, k) ==
    /\ Editing(e, "unsetCalendars") /\ edits[e].row = NewRow
    /\ k \in Calendars \ DOMAIN calendars
    /\ WriteCalendars(Swapped(calendars, edits[e].old, k))
    /\ Goes(e)
    /\ UNCHANGED <<policies, undermined, overlooked>>

SetDefaultCommit(e) ==
    /\ Editing(e, "unsetCalendars") /\ edits[e].row # NewRow
    /\ WriteCalendars(Swapped(calendars, edits[e].old, edits[e].row))
    /\ undermined' = (undermined \/ ~calendars[edits[e].row].live)
    /\ Goes(e)
    /\ UNCHANGED <<policies, overlooked>>

(* It was the default when read, so no other is unset.                     *)
KeepCommit(e) ==
    /\ Editing(e, "keep")
    /\ WriteCalendars([calendars EXCEPT ![edits[e].row].default = TRUE])
    /\ Goes(e)
    /\ UNCHANGED <<policies, undermined, overlooked>>

ClearCommit(e) ==
    /\ Editing(e, "clear")
    /\ calendars' = [calendars EXCEPT ![edits[e].row].default = FALSE]
    /\ undermined' = (undermined \/ calendars[edits[e].row].default # edits[e].saw)
    /\ Goes(e)
    /\ UNCHANGED <<policies, overlooked>>

ArchiveCommit(e) ==
    /\ Editing(e, "archive")
    /\ calendars' = [calendars EXCEPT ![edits[e].row].live = FALSE]
    /\ undermined' = (undermined \/ calendars[edits[e].row].default # edits[e].saw)
    /\ Goes(e)
    /\ UNCHANGED <<policies, overlooked>>

RestoreCalendar(k) ==
    /\ k \in DOMAIN calendars /\ ~calendars[k].live
    /\ WriteCalendars([calendars EXCEPT ![k].live = TRUE])
    /\ UNCHANGED <<policies, edits, undermined, overlooked>>

-----------------------------------------------------------------------------
(* Attendance policies.                                                    *)

CreatePolicy(k) ==
    /\ k \in Policies \ DOMAIN policies
    /\ policies' = Put(policies, k, [live |-> TRUE, default |-> FALSE])
    /\ UNCHANGED <<calendars, edits, undermined, overlooked>>

CreateDefaultPolicy(e) ==
    /\ Begin(e, [kind |-> "unsetPolicies", row |-> NewRow, old |-> LiveDefaults(policies)])
    /\ UNCHANGED <<calendars, policies, undermined, overlooked>>

PolicyRead(e, kind, k) ==
    /\ k \in DOMAIN policies /\ policies[k].live
    /\ Begin(e, [kind |-> kind, row |-> k])
    /\ UNCHANGED <<calendars, policies, undermined, overlooked>>

UnsetPolicies(e) ==
    /\ Editing(e, "policy")
    /\ edits' = [edits EXCEPT ![e] = [kind |-> "unsetPolicies", row |-> @.row,
                                      old |-> LiveDefaults(policies) \ {@.row}]]
    /\ UNCHANGED <<calendars, policies, undermined, overlooked>>

DefaultPolicyCommit(e, k) ==
    /\ Editing(e, "unsetPolicies")
    /\ IF edits[e].row = NewRow THEN k \in Policies \ DOMAIN policies ELSE k = edits[e].row
    /\ policies' = Swapped(policies, edits[e].old, k)
    /\ overlooked' = IF LiveDefaults(policies) \subseteq edits[e].old \union {k}
                     THEN overlooked ELSE overlooked \union {k}
    /\ Goes(e)
    /\ UNCHANGED <<calendars, undermined>>

ClearPolicyCommit(e) ==
    /\ Editing(e, "clearPolicy")
    /\ policies' = [policies EXCEPT ![edits[e].row].default = FALSE]
    /\ Goes(e)
    /\ UNCHANGED <<calendars, undermined, overlooked>>

ArchivePolicyCommit(e) ==
    /\ Editing(e, "archivePolicy")
    /\ policies' = [policies EXCEPT ![edits[e].row].live = FALSE]
    /\ Goes(e)
    /\ UNCHANGED <<calendars, undermined, overlooked>>

(* A constraint refuses the write or a statement fails: all is rolled back *)
Refused(e) ==
    /\ e \in DOMAIN edits
    /\ Goes(e)
    /\ UNCHANGED <<calendars, policies, undermined, overlooked>>

CalendarsNext ==
    \/ \E k \in Calendars : CreateCalendar(k) \/ RestoreCalendar(k)
    \/ \E e \in Editors :
          \/ CreateDefaultCalendar(e) \/ UnsetCalendars(e) \/ Refused(e)
          \/ SetDefaultCommit(e) \/ KeepCommit(e) \/ ClearCommit(e) \/ ArchiveCommit(e)
          \/ \E k \in Calendars :
                \/ SetDefaultRead(e, k)
                \/ ClearRead(e, k)
                \/ ArchiveRead(e, k)
                \/ InsertDefault(e, k)

PoliciesNext ==
    \/ \E k \in Policies : CreatePolicy(k)
    \/ \E e \in Editors :
          \/ CreateDefaultPolicy(e) \/ UnsetPolicies(e) \/ Refused(e)
          \/ ClearPolicyCommit(e) \/ ArchivePolicyCommit(e)
          \/ \E k \in Policies :
                \/ \E kind \in {"policy", "clearPolicy", "archivePolicy"} : PolicyRead(e, kind, k)
                \/ DefaultPolicyCommit(e, k)

DefaultsNext == CalendarsNext \/ PoliciesNext

DefaultsSpec == DefaultsInit /\ [][DefaultsNext]_defaultVars

-----------------------------------------------------------------------------
DefaultsTypeOK ==
    /\ DOMAIN calendars \subseteq Calendars
    /\ \A k \in DOMAIN calendars : calendars[k] \in Row
    /\ DOMAIN policies \subseteq Policies
    /\ \A k \in DOMAIN policies : policies[k] \in Row
    /\ DOMAIN edits \subseteq Editors
    /\ \A e \in DOMAIN edits : edits[e] \in Edit
    /\ undermined \in BOOLEAN
    /\ overlooked \subseteq DOMAIN policies

(* The organisation has exactly one default calendar, however requests     *)
(* overlap: the index refuses the transaction that did not see the other   *)
(* (20260602141351_holidays/migration.sql:59-63), and none turns the       *)
(* default off or archives it ("default_required", "default_undeletable",  *)
(* holiday-calendars.service.ts:130-134, 200-204) unless it read it before *)
(* it became the default.  Two default policies, which no index guards,    *)
(* come only of transactions that overlooked each other                    *)
(* (unsetExistingDefault, policies.service.ts:127-141).                    *)
OneDefault ==
    /\ AtMostOne(LiveDefaults(calendars))
    /\ undermined \/ LiveDefaults(calendars) # {}
    /\ AtMostOne(LiveDefaults(policies) \ overlooked)
=============================================================================
