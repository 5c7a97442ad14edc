----------------------------- MODULE ListPages ------------------------------
(***************************************************************************)
(* The paged lists of both portals.  A page keeps its search, filter,      *)
(* archived toggle and page number in the URL, asks the API for that page  *)
(* and offers the others; a search box copies itself into the URL after a  *)
(* pause.  One filter stands for all selects and date fields of a page.    *)
(***************************************************************************)
EXTENDS Integers, Sequences, SequencesExt

CONSTANTS
    Screens,    \* the lists looked at
    Listed,     \* what there is to list, some of Item
    PageSize,   \* rows of a page, 20 in the code
    MaxPast     \* length of the browser's history

ASSUME ListPagesAssumption == PageSize \in 1 .. 100 /\ MaxPast \in Nat \ {0}

(* What tells one list from another: its inputs, those among them that go  *)
(* back to the first page, the filter used when the URL has none, how many *)
(* rows it asks for at once and how many the API gives at most.            *)
List(inputs) == [inputs |-> inputs, resets |-> inputs, default |-> "",
                 size |-> PageSize, most |-> 100]

KeepsPageOnToggle(screen) == [screen EXCEPT !.resets = @ \ {"archived"}]

EmployeesList     == KeepsPageOnToggle(List({"search", "filter", "archived"}))
DocumentsList     == KeepsPageOnToggle(List({"search", "filter", "archived"}))
HolidaysList      == KeepsPageOnToggle(List({"search", "archived"}))
RolesList         == KeepsPageOnToggle(List({"search", "archived"}))
AnnouncementsList == List({"search", "filter"})
UsersList         == List({"search"})
InvitesList       == List({"filter"})
AuditLogList      == List({"search", "filter"})
AttendanceList    == List({"filter"})
BalancesList      == List({"filter"})
CalendarList      == [List({"filter"}) EXCEPT !.most = 500]
LeaveList         == [List({"filter"}) EXCEPT !.default = "pending"]
CorrectionsList   == [List({"filter"}) EXCEPT !.default = "pending"]
DesignationsList  == List({"search", "archived"})
LocationsList     == List({"search", "archived"})
MyLeaveList       == List({"filter"})
MyNoticesList     == List({"filter"})
MyDocumentsList   == List({"filter"})

(* No list but a tree of everything, of 200 rows at once. *)
DepartmentsView   == [List({"archived"}) EXCEPT !.size = 200]

PagedLists ==
    {EmployeesList, DocumentsList, HolidaysList, RolesList, AnnouncementsList, UsersList,
     InvitesList, AuditLogList, AttendanceList, BalancesList, CalendarList, LeaveList,
     CorrectionsList, DesignationsList, LocationsList, MyLeaveList, MyNoticesList, MyDocumentsList}

TreeViews == {DepartmentsView}

VARIABLES
    screen,   \* which list
    past,     \* the browser's history, the current URL last
    box,      \* the text in the search box
    rows,     \* what there still is to list
    moved     \* history: rows went, or the toggle kept the page

pageVars == <<screen, past, box, rows, moved>>

-----------------------------------------------------------------------------
Item    == [joe : BOOLEAN, status : {"pending", "done"}, archived : BOOLEAN]
Texts   == {"", " ", "joe", "long"}   \* blanks, a name, more than 120 characters
Filters == {"", "pending", "done"}
First   == [search |-> "", filter |-> "", archived |-> FALSE, page |-> 1]

url == Last(past)

Fits(item, at) ==
    LET status == IF at.filter = "" THEN screen.default ELSE at.filter
    IN  /\ at.search = "joe" => item.joe
        /\ status # "" => item.status = status
        /\ item.archived => at.archived

(* pageOf: at least one page, an empty one. *)
TotalPages(at) ==
    LET found == Cardinality({item \in rows : Fits(item, at)})
    IN  IF found = 0 THEN 1 ELSE (found + screen.size - 1) \div screen.size

(* What the page asks for, and what the API's schema lets through: no more *)
(* rows than its maximum, no search of blanks, which it trims first, and   *)
(* none of more than 120 characters.                                       *)
Query(at) == [size |-> screen.size, page |-> at.page, search |-> at.search]

Unanswered == {" ", "long"}
Accepts(q) == q.size \in 1 .. screen.most /\ q.page >= 1 /\ q.search \notin Unanswered

-----------------------------------------------------------------------------
PagesInit ==
    /\ screen \in Screens
    /\ past = <<First>> /\ box = "" /\ rows = Listed /\ moved = FALSE

\* mutant: the page number stays whatever changes
PushKeeping(input, next) ==
    /\ input \in screen.inputs /\ Len(past) < MaxPast
    /\ past' = Append(past, next)

(* updateParams: some inputs drop the page number. *)
Push(input, next) ==
    /\ input \in screen.inputs /\ Len(past) < MaxPast
    /\ past' = Append(past, IF input \in screen.resets THEN [next EXCEPT !.page = 1] ELSE next)

Typed(text) ==
    /\ "search" \in screen.inputs /\ box' = text
    /\ UNCHANGED <<screen, past, rows, moved>>

(* The timer of the search box: whenever the box differs from the URL, the *)
(* browser's Back included, the box wins.                                  *)
Debounced ==
    /\ box # url.search
    /\ Push("search", [url EXCEPT !.search = box])
    /\ UNCHANGED <<screen, box, rows, moved>>

Choose(filter) ==
    /\ filter # url.filter
    /\ Push("filter", [url EXCEPT !.filter = filter])
    /\ UNCHANGED <<screen, box, rows, moved>>

ToggleArchived ==
    /\ Push("archived", [url EXCEPT !.archived = ~@])
    /\ moved' = (moved \/ "archived" \notin screen.resets)
    /\ UNCHANGED <<screen, box, rows>>

(* The pager shows when an answer came and says there is more than one     *)
(* page.                                                                   *)
Turn(page) ==
    /\ Len(past) < MaxPast
    /\ Accepts(Query(url)) /\ TotalPages(url) > 1
    /\ page \in {url.page - 1, url.page + 1} \intersect 1 .. TotalPages(url)
    /\ past' = Append(past, [url EXCEPT !.page = page])
    /\ UNCHANGED <<screen, box, rows, moved>>

Back ==
    /\ Len(past) > 1
    /\ past' = Front(past)
    /\ UNCHANGED <<screen, box, rows, moved>>

(* Somebody removes a row and the list is fetched again. *)
RowGoes(item) ==
    /\ rows' = rows \ {item} /\ moved' = TRUE
    /\ UNCHANGED <<screen, past, box>>

PagesNext ==
    \/ Debounced \/ ToggleArchived \/ Back
    \/ \E text \in Texts : Typed(text)
    \/ \E filter \in Filters : Choose(filter)
    \/ \E page \in 1 .. Cardinality(Listed) : Turn(page)
    \/ \E item \in rows : RowGoes(item)

PagesSpec == PagesInit /\ [][PagesNext]_pageVars

-----------------------------------------------------------------------------
(* The API answers what the lists ask, but for a search of blanks alone or *)
(* of more than 120 characters, which every search box sends and every     *)
(* query schema refuses.                                                   *)
PagesLoad == Accepts(Query(url)) \/ url.search \in Unanswered

(* Nobody looks at a page past the last one, where nothing is listed and   *)
(* no pager leads back: only when rows went meanwhile, or the archived     *)
(* toggle of the employees, documents, calendars and roles shrank the list *)
(* under the page number it keeps.                                         *)
NeverStranded == url.page > TotalPages(url) => moved

(* A list page can always be used: it loads and has a way back to rows.    *)
ListsUsable == PagesLoad /\ NeverStranded
=============================================================================
