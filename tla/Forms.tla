------------------------------- MODULE Forms --------------------------------
(***************************************************************************)
(* The edit forms of the admin portal, one at a time over one record that  *)
(* others write as well.  A form copies what the page shows of the record, *)
(* the user types, a save sends a patch and the API applies it as it       *)
(* comes; the page learns what became of the record at the next fetch.     *)
(* A field stands for all of its kind: name is required, note is optional, *)
(* when is a moment edited on a clock, and audience a list of rules of     *)
(* which the form has room for one.                                        *)
(***************************************************************************)
EXTENDS Integers, Sequences, FiniteSets, Tables

CONSTANTS
    Offset,     \* how many hours the clock of the browser is ahead of UTC
    Hours,      \* the hours of a day, which stand for all moments
    MaxTyped,   \* fields typed in of one opened form, those on their way included
    MaxWrites   \* writes by others

ASSUME FormsAssumption == Hours \in Nat \ {0} /\ Offset \in 0 .. Hours - 1

(* What tells one form from another: whether it copies the record once, or *)
(* again whenever the page's copy changes (live); whether it stays after a *)
(* save (page); whether it sends every field or those that differ from the *)
(* page's copy (diff); the optional fields of which it sends an empty one. *)
Dialog(fields) == [fields |-> fields, live |-> FALSE, page |-> FALSE, diff |-> FALSE, clears |-> {}]

DepartmentDialog  == Dialog({"name", "note"})
DesignationDialog == Dialog({"name", "note"})
LocationDialog    == Dialog({"name", "note"})
CategoryDialog    == Dialog({"name", "note"})
HolidayDialog     == Dialog({"name", "note"})
CalendarDialog    == [Dialog({"name", "note"}) EXCEPT !.live = TRUE]
EmployeeEdit      == Dialog({"name", "note"})
RoleEdit          == [Dialog({"name", "note"}) EXCEPT !.live = TRUE, !.page = TRUE]
AnnouncementEdit  == [Dialog({"name", "when", "audience"}) EXCEPT !.live = TRUE]
DocumentEdit      == [Dialog({"name", "note", "when"}) EXCEPT !.live = TRUE, !.clears = {"note", "when"}]
OrganizationSettings == [fields |-> {"name", "note"}, live |-> TRUE, page |-> TRUE,
                         diff |-> TRUE, clears |-> {"note"}]
BrandingColor     == [OrganizationSettings EXCEPT !.fields = {"name"}]

EditForms == {DepartmentDialog, DesignationDialog, LocationDialog, CategoryDialog, HolidayDialog,
              CalendarDialog, EmployeeEdit, RoleEdit, AnnouncementEdit, DocumentEdit,
              OrganizationSettings, BrandingColor}

VARIABLES
    form,     \* which form
    row,      \* the record, field by field
    shown,    \* the page's copy of it
    values,   \* what the form holds while it is open, nothing else
    base,     \* the copy the form was last filled from
    saving,   \* the patch on its way and its answer's, nothing else
    typed,    \* history: what the user typed since the form was opened or last sent
    wiped,    \* history: a refill went over something typed
    writes    \* history: how often others wrote

formVars == <<form, row, shown, values, base, saving, typed, wiped, writes>>

-----------------------------------------------------------------------------
(* A value is a sequence: of the rules of an audience, of the one value of *)
(* another field or of none.                                               *)
Empty == <<>>

Kinds == [name     |-> {<<1>>, <<2>>},
          note     |-> {Empty, <<1>>},
          when     |-> {Empty} \union {<<hour>> : hour \in 0 .. Hours - 1},
          audience |-> {<<1>>, <<1, 2>>}]

Inputs == [Kinds EXCEPT !.audience = {<<1>>, <<2>>}]

Records(f) == {r \in [f.fields -> UNION {Kinds[k] : k \in f.fields}] : \A k \in f.fields : r[k] \in Kinds[k]}

IsOpen   == DOMAIN values # {}
IsSaving == DOMAIN saving # {}
IsAnswered == DOMAIN saving.answer # {}

(* A moment is shown by its UTC clock (toISOString().slice(0, 16)) and what *)
(* the field holds is read on the browser's (new Date(...)); only the first *)
(* rule of an audience is shown.                                           *)
ShownAs(k, v) == IF k = "audience" THEN SubSeq(v, 1, 1) ELSE v

Meant(k, v) ==
    IF k = "when" THEN [i \in DOMAIN v |-> (v[i] + Hours - Offset) % Hours] ELSE v

Filled(r) == [k \in DOMAIN r |-> ShownAs(k, r[k])]

FormsInit ==
    /\ form \in EditForms
    /\ row \in Records(form)
    /\ shown = row /\ values = <<>> /\ base = row /\ saving = <<>>
    /\ typed = <<>> /\ wiped = FALSE /\ writes = 0

(* One save at a time: a form that was closed while its save ran is opened *)
(* again when that has ended.                                              *)
Open ==
    /\ ~IsOpen /\ ~IsSaving
    /\ values' = Filled(shown) /\ base' = shown
    /\ typed' = <<>> /\ wiped' = FALSE
    /\ UNCHANGED <<form, row, shown, saving, writes>>

SentTyped == IF IsSaving THEN DOMAIN saving.typed ELSE {}

(* Only the button that saves waits for the answer: the fields, Cancel and *)
(* Escape do not.                                                          *)
Type(k, v) ==
    /\ IsOpen /\ values[k] # v
    /\ Cardinality(DOMAIN typed \union SentTyped \union {k}) <= MaxTyped
    /\ values' = Put(values, k, v)
    /\ typed' = Put(typed, k, v)
    /\ UNCHANGED <<form, row, shown, base, saving, wiped, writes>>

Close ==
    /\ IsOpen
    /\ values' = <<>> /\ typed' = <<>> /\ wiped' = FALSE
    /\ UNCHANGED <<form, row, shown, base, saving, writes>>

(* An empty field is left out of the patch (emptyToUndef) unless the form  *)
(* sends null for it.                                                      *)
\* mutant: a cleared field is never sent
PatchFilled ==
    LET sent == {k \in DOMAIN values : /\ values[k] # Empty
                                       /\ form.diff => values[k] # ShownAs(k, shown[k])}
    IN  [k \in sent |-> Meant(k, values[k])]

Patch ==
    LET sent == {k \in DOMAIN values : /\ values[k] = Empty => k \in form.clears
                                       /\ form.diff => values[k] # ShownAs(k, shown[k])}
    IN  [k \in sent |-> Meant(k, values[k])]

Save ==
    /\ IsOpen /\ ~IsSaving
    /\ DOMAIN Patch # {}
    /\ saving' = [patch |-> Patch, answer |-> <<>>,
                  typed |-> typed, base |-> base,
                  wiped |-> wiped, refilled |-> FALSE]
    /\ typed' = <<>> /\ wiped' = FALSE
    /\ UNCHANGED <<form, row, shown, values, base, writes>>

Patched(r) == [k \in DOMAIN r |-> IF k \in DOMAIN saving.patch THEN saving.patch[k] ELSE r[k]]

(* The API writes what the patch names, whoever wrote the record since. *)
Commit ==
    /\ IsSaving /\ ~IsAnswered
    /\ row' = Patched(row)
    /\ saving' = [saving EXCEPT !.answer = row']
    /\ UNCHANGED <<form, shown, values, base, typed, wiped, writes>>

(* A live form is filled again as soon as the page's copy is another. *)
Show(copy) ==
    /\ shown' = copy
    /\ IF IsOpen /\ form.live /\ copy # shown
       THEN /\ values' = Filled(copy) /\ base' = copy
            /\ wiped' = (wiped \/ DOMAIN typed # {})
       ELSE UNCHANGED <<values, base, wiped>>

(* A dialog closes; the settings pages put the answer in place of their    *)
(* copy, the role's page waits for the next fetch.                         *)
Answered ==
    /\ IsSaving /\ IsAnswered
    /\ saving' = <<>>
    /\ CASE form.diff -> Show(saving.answer) /\ UNCHANGED typed
         [] form.page /\ ~form.diff -> /\ base' = IF saving.refilled THEN base ELSE Patched(base)
                                      /\ UNCHANGED <<values, shown, typed, wiped>>
         [] OTHER -> /\ values' = <<>> /\ typed' = <<>> /\ wiped' = FALSE
                     /\ UNCHANGED <<shown, base>>
    /\ UNCHANGED <<form, row, writes>>

(* The form, if it is open, stays as it is when the API refuses. *)
Refused ==
    /\ IsSaving /\ ~IsAnswered
    /\ saving' = <<>>
    /\ IF IsOpen
       THEN /\ typed' = [k \in DOMAIN typed \union DOMAIN saving.typed |->
                            IF k \in DOMAIN typed THEN typed[k] ELSE saving.typed[k]]
            /\ wiped' = (wiped \/ saving.wiped \/ saving.refilled)
       ELSE UNCHANGED <<typed, wiped>>
    /\ UNCHANGED <<form, row, shown, values, base, writes>>

Refetch ==
    /\ shown # row
    /\ Show(row)
    /\ saving' = IF IsSaving /\ IsOpen /\ form.live THEN [saving EXCEPT !.refilled = TRUE] ELSE saving
    /\ UNCHANGED <<form, row, typed, writes>>

OthersWrite(k, v) ==
    /\ writes < MaxWrites /\ row[k] # v
    /\ row' = Put(row, k, v) /\ writes' = writes + 1
    /\ UNCHANGED <<form, shown, values, base, saving, typed, wiped>>

FormsNext ==
    \/ Open \/ Close \/ Save \/ Commit \/ Answered \/ Refused \/ Refetch
    \/ \E k \in DOMAIN row : \E v \in Inputs[k] : Type(k, v)
    \/ \E k \in DOMAIN row : \E v \in Kinds[k] : OthersWrite(k, v)

FormsSpec == FormsInit /\ [][FormsNext]_formVars

-----------------------------------------------------------------------------
(* What the user typed is what the record holds after the save: not when a *)
(* fetch refilled the form under the user's hands (the [ann], [doc], [role] *)
(* and [data] effects), and an empty field only where the form sends null. *)
(* A settings page compares with its copy, so a value typed back to it is  *)
(* none of its changes.                                                    *)
TypedArrives ==
    [][Commit =>
        \A k \in DOMAIN saving.typed :
           (/\ ~saving.wiped
            /\ saving.typed[k] = Empty => k \in form.clears
            /\ form.diff => saving.typed[k] # saving.base[k])
           => row'[k] = Meant(k, saving.typed[k])]_formVars

(* A save leaves alone what the user did not touch, but for three things:  *)
(* a form that sends every field brings back what it was filled with over  *)
(* what others wrote since; a moment moves by the browser's offset each    *)
(* time (announcements/[id]/page.tsx:197-202, documents/[id]/page.tsx:163); *)
(* and only the first rule of an audience is kept                          *)
(* (announcements/[id]/page.tsx:127-135).                                  *)
UntouchedStays ==
    [][Commit =>
        \A k \in DOMAIN row \ DOMAIN saving.typed :
           \/ row'[k] = row[k]
           \/ ~form.diff /\ row[k] # saving.base[k]
           \/ k = "when" /\ row'[k] = Meant(k, row[k])
           \/ k = "audience" /\ row'[k] = SubSeq(row[k], 1, 1)]_formVars

(* A save of an edit form writes what was typed and nothing else, with the *)
(* exceptions the two name.                                                *)
SavesWhatIsTyped == TypedArrives /\ UntouchedStays
=============================================================================
