---------------------------- MODULE CreatePages -----------------------------
(***************************************************************************)
(* The pages of the admin portal on which an announcement and a document   *)
(* are made (announcements/new/page.tsx, documents/new/page.tsx): whom it  *)
(* is for, the preview of how many that are, the file, and the requests    *)
(* that save and publish.  The select of departments stands for those of   *)
(* designations, locations and employment types as well.                   *)
(***************************************************************************)
EXTENDS ListPages, FiniteSets, Tables

CONSTANT MaxChanges   \* bounds what the user changes and how often he saves

ASSUME CreatePagesAssumption == MaxChanges \in Nat

(* What tells one page from the other: the selects it does not send, and   *)
(* whether a category makes the record personal, a file is needed, and     *)
(* publishing is a request of its own.                                     *)
NewAnnouncement == [unsent |-> {}, personal |-> FALSE, file |-> FALSE, publishes |-> TRUE]
NewDocument     == [unsent |-> {"employee"}, personal |-> TRUE, file |-> TRUE, publishes |-> FALSE]

NewPages == {NewAnnouncement, NewDocument}

VARIABLES
    newPage,    \* which page
    chosen,     \* the kind of audience and the selects that hold a value
    isPersonal, \* whether the category is a personal one
    timers,     \* changes not previewed yet, each with what its timer was set with
    previews,   \* previews asked for, by their number
    preview,    \* the audience whose size is shown, or NoPreview
    stage,      \* of the save that is under way, or "editing"
    place,      \* whether the page is here, has been told to leave, or is gone
    sent,       \* what it sent
    file,       \* the file to upload
    made,       \* how many records there are
    changes,    \* how much was changed and how often saved
    rung,       \* how many timers have gone off
    newest,     \* history: the last of them whose outcome was shown
    crossed,    \* history: one was shown after a later one
    broken,     \* history: how often a save failed after it made a record
    again       \* history: how often one more was begun on the page that was leaving

createVars == <<newPage, chosen, isPersonal, timers, previews, preview, stage, place, sent, file,
                made, changes, rung, newest, crossed, broken, again>>
previewVars == <<timers, previews, preview, rung, newest, crossed>>
saveVars    == <<stage, place, sent, made, broken, again>>

-----------------------------------------------------------------------------
Selects   == {"department", "employee"}
Types     == {"all_employees"} \union Selects
NoPreview == <<>>

(* formValuesToAudiences, buildAudiences: every select that holds a value  *)
(* is sent, the shown one and those that a change of type has hidden.      *)
AudienceOf(values) == [values EXCEPT !.filled = @ \ newPage.unsent]

(* AudienceItem: a value for the select of the type and for no other.      *)
WellFormed(audience) ==
    audience.filled = IF audience.type = "all_employees" THEN {} ELSE {audience.type}

(* A personal document needs its employee, whatever else was chosen.       *)
Taken(save) ==
    IF save.personal THEN "employee" \in save.values.filled ELSE WellFormed(AudienceOf(save.values))

CreateInit ==
    /\ newPage \in NewPages
    /\ chosen = [type |-> "all_employees", filled |-> {}] /\ isPersonal = FALSE
    /\ timers = <<>> /\ previews = <<>> /\ preview = NoPreview
    /\ stage = "editing" /\ place = "here" /\ sent = <<>> /\ file = "none" /\ made = 0
    /\ changes = 0 /\ rung = 0 /\ newest = 0 /\ crossed = FALSE /\ broken = 0 /\ again = 0

-----------------------------------------------------------------------------
(* Each change of the form sets a timer of its own: what the callback of   *)
(* form.watch returns to clear it is never called.  The timer previews     *)
(* with what the page knew of the category when it was set.                *)
Changed ==
    /\ place # "gone" /\ changes < MaxChanges
    /\ changes' = changes + 1
    /\ timers' = Append(timers, [values |-> chosen', personal |-> isPersonal])
    /\ UNCHANGED <<newPage, previews, preview, rung, newest, crossed, file, saveVars>>

(* The kind of audience, what the select that shows holds, or another      *)
(* field, which changes neither.                                           *)
ChooseAudience(values) ==
    /\ chosen' = values
    /\ \/ values.filled = chosen.filled /\ (isPersonal => values = chosen)
       \/ \E select \in {chosen.type, IF isPersonal THEN "employee" ELSE chosen.type} \intersect Selects :
             values = [chosen EXCEPT !.filled = IF select \in @ THEN @ \ {select} ELSE @ \union {select}]
    /\ Changed /\ UNCHANGED isPersonal

ChooseCategory ==
    /\ newPage.personal
    /\ isPersonal' = ~isPersonal /\ UNCHANGED chosen
    /\ Changed

(* doPreview of the oldest timer.                                          *)
TimerGoesOff ==
    /\ timers # <<>> /\ place # "gone"
    /\ timers' = Tail(timers) /\ rung' = rung + 1
    /\ IF Head(timers).personal
       THEN preview' = NoPreview /\ newest' = rung' /\ UNCHANGED previews
       ELSE /\ previews' = Put(previews, rung', AudienceOf(Head(timers).values))
            /\ UNCHANGED <<preview, newest>>
    /\ UNCHANGED <<newPage, chosen, isPersonal, crossed, file, changes, saveVars>>

Shown(n, audience) ==
    /\ n \in DOMAIN previews /\ place # "gone"
    /\ previews' = Drop(previews, n)
    /\ preview' = audience
    /\ crossed' = (crossed \/ n < newest)
    /\ newest' = IF n < newest THEN newest ELSE n
    /\ UNCHANGED <<newPage, chosen, isPersonal, timers, rung, file, changes, saveVars>>

PreviewAnswered(n) == n \in DOMAIN previews /\ WellFormed(previews[n]) /\ Shown(n, previews[n])

\* mutant: a preview that fails leaves the one before it
PreviewFailedKeeping(n) == Shown(n, preview)

(* The API refuses the audience, or the request is lost.                   *)
PreviewFailed(n) == Shown(n, NoPreview)

-----------------------------------------------------------------------------
(* The file is uploaded as soon as it is chosen.                           *)
UploadMoves(from, to) ==
    /\ newPage.file /\ place # "gone"
    /\ file \in from /\ file' = to
    /\ UNCHANGED <<newPage, chosen, isPersonal, changes, saveVars, previewVars>>

(* handleSaveDraft, handlePublishNow, handleSchedule; handleSubmit.  The   *)
(* buttons rest only while a request is under way: they work again while   *)
(* the page is leaving.                                                    *)
SaveRecord(publish) ==
    /\ stage = "editing" /\ place # "gone" /\ changes < MaxChanges
    /\ newPage.file => file = "ready"
    /\ stage' = "creating" /\ changes' = changes + 1
    /\ sent' = [values |-> chosen, personal |-> isPersonal, publish |-> publish]
    /\ again' = IF place = "leaving" THEN again + 1 ELSE again
    /\ UNCHANGED <<newPage, chosen, isPersonal, place, file, made, broken, previewVars>>

(* A save under way goes on when the page is gone.                         *)
SaveGoesOn(to, records, failures) ==
    /\ stage' = to /\ made' = made + records /\ broken' = broken + failures
    /\ UNCHANGED <<newPage, chosen, isPersonal, file, sent, again, changes, previewVars>>

(* router.push only begins to leave.                                       *)
Leaves == place' = IF place = "gone" THEN "gone" ELSE "leaving"

Created ==
    /\ stage = "creating" /\ Taken(sent)
    /\ IF sent.publish /\ newPage.publishes
       THEN SaveGoesOn("publishing", 1, 0) /\ UNCHANGED place
       ELSE SaveGoesOn("editing", 1, 0) /\ Leaves

CreatedUnheard ==
    stage = "creating" /\ Taken(sent) /\ SaveGoesOn("editing", 1, 1) /\ UNCHANGED place

CreateFailed == stage = "creating" /\ SaveGoesOn("editing", 0, 0) /\ UNCHANGED place
Published    == stage = "publishing" /\ SaveGoesOn("editing", 0, 0) /\ Leaves

(* The form stays as it is, and what is saved next is another record.      *)
PublishFailed == stage = "publishing" /\ SaveGoesOn("editing", 0, 1) /\ UNCHANGED place

(* The page of the record has loaded and takes the place of this one.      *)
Gone ==
    /\ place = "leaving" /\ place' = "gone"
    /\ UNCHANGED <<newPage, chosen, isPersonal, stage, sent, file, made, changes, broken, again,
                   previewVars>>

CreateNext ==
    \/ \E values \in [type : Types, filled : SUBSET Selects] : ChooseAudience(values)
    \/ ChooseCategory \/ TimerGoesOff
    \/ \E n \in DOMAIN previews : PreviewAnswered(n) \/ PreviewFailed(n)
    \/ UploadMoves({"none", "ready"}, "uploading")
    \/ UploadMoves({"uploading"}, "ready") \/ UploadMoves({"uploading"}, "none")
    \/ \E publish \in BOOLEAN : SaveRecord(publish)
    \/ Created \/ CreatedUnheard \/ CreateFailed \/ Published \/ PublishFailed \/ Gone

CreateSpec == CreateInit /\ [][CreateNext]_createVars

-----------------------------------------------------------------------------
(* Once nothing is under way, the preview that is shown counts the         *)
(* audience that would be saved, unless the outcomes of two previews       *)
(* crossed (doPreview, announcements/new/page.tsx:129-152,                 *)
(* documents/new/page.tsx:134-161).                                        *)
PreviewFollows ==
    timers = <<>> /\ previews = <<>> /\ ~isPersonal /\ ~crossed
        => preview \in {NoPreview, AudienceOf(chosen)}

(* While no save is under way, the records made are one of each save that  *)
(* failed when it had made one (unheard, or not published), and, of a page *)
(* that has been told to leave, the one it leaves for and at most one of   *)
(* each save begun since (announcements/new/page.tsx:154-228,              *)
(* documents/new/page.tsx:191-231).                                        *)
CreatesOnce ==
    stage = "editing" => made - broken \in IF place = "here" THEN {0} ELSE 1 .. again + 1

(* The pages with lists and those that make a record do what they show.    *)
PagesUsable == ListsUsable /\ PreviewFollows /\ CreatesOnce
=============================================================================
