----------------------------- MODULE PagesProofs -----------------------------
(***************************************************************************)
(* The lists can always be used, a preview that has settled is that of the *)
(* audience chosen, and a page makes one record but for the saves that     *)
(* broke: for any lists of the code but the tree of departments, any rows, *)
(* page size and length of history, and however often the user changes     *)
(* what he made.  What is typed into an edit form is what its save writes, *)
(* whatever is fetched and written while it is open.                       *)
(***************************************************************************)
EXTENDS CreatePages, Forms, FiniteSetTheorems, TLAPS

-----------------------------------------------------------------------------
(* The lists.  Every URL of the history, not only the one in front, is of  *)
(* a page that exists, until rows go or a toggle keeps the page: Back      *)
(* brings any of them up again.                                            *)

PageNumbers == Nat \ {0}

Address == [search : Texts, filter : Filters, archived : BOOLEAN, page : PageNumbers]

Addressed ==
    /\ screen \in PagedLists
    /\ past \in Seq(Address) /\ past # <<>>
    /\ box \in Texts
    /\ rows \subseteq Listed
    /\ moved \in BOOLEAN

PastExists == ~moved => \A i \in 1 .. Len(past) : past[i].page <= TotalPages(past[i])

ListsInv == Addressed /\ PastExists

(* Every list of the code asks for no more rows than the API gives, and    *)
(* goes back to the first page on whatever it does not keep the page on.   *)
Fitting(s) ==
    /\ s.size = PageSize /\ s.most \in {100, 500}
    /\ s.resets \in {s.inputs, s.inputs \ {"archived"}}

Shape(i) == [inputs : {i}, resets : {i, i \ {"archived"}}, default : {"", "pending"},
             size : {PageSize}, most : {100, 500}]

LEMMA ListsFit == \A s \in PagedLists : Fitting(s)
<1>1. ASSUME NEW i, NEW s \in Shape(i)
      PROVE  Fitting(s)
  <2>1. s.size = PageSize /\ s.most \in {100, 500} /\ s.inputs = i /\ s.resets \in {i, i \ {"archived"}}
    BY DEF Shape
  <2> QED BY <2>1 DEF Fitting
<1>2. \A i : List(i) \in Shape(i) /\ List(i).resets = i
  BY DEF List, Shape
<1>3. ASSUME NEW i, NEW s \in Shape(i)
      PROVE  /\ [s EXCEPT !.resets = i \ {"archived"}] \in Shape(i)
             /\ [s EXCEPT !.default = "pending"] \in Shape(i)
             /\ [s EXCEPT !.most = 500] \in Shape(i)
  <2> DEFINE I == {i}
             R == {i, i \ {"archived"}}
             D == {"", "pending"}
             S == {PageSize}
             M == {100, 500}
             Shapes == [inputs : I, resets : R, default : D, size : S, most : M]
  <2>1. i \ {"archived"} \in R /\ "pending" \in D /\ 500 \in M
    OBVIOUS
  <2>2. Shapes = Shape(i)
    BY DEF Shape
  <2> HIDE DEF I, R, D, S, M
  <2>3. s \in Shapes
    BY <2>2, Zenon
  <2>4. [s EXCEPT !.resets = i \ {"archived"}] \in Shapes
    BY <2>1, <2>3
  <2>5. [s EXCEPT !.default = "pending"] \in Shapes /\ [s EXCEPT !.most = 500] \in Shapes
    BY <2>1, <2>3
  <2> QED BY <2>2, <2>4, <2>5, ZenonT(60)
<1>4. ASSUME NEW i
      PROVE  /\ KeepsPageOnToggle(List(i)) \in Shape(i)
             /\ [List(i) EXCEPT !.default = "pending"] \in Shape(i)
             /\ [List(i) EXCEPT !.most = 500] \in Shape(i)
  <2>1. KeepsPageOnToggle(List(i)) = [List(i) EXCEPT !.resets = i \ {"archived"}]
    BY <1>2, Zenon DEF KeepsPageOnToggle
  <2> DEFINE s == List(i)
  <2>2. s \in Shape(i)
    BY <1>2
  <2> HIDE DEF s
  <2>3. /\ [s EXCEPT !.resets = i \ {"archived"}] \in Shape(i)
        /\ [s EXCEPT !.default = "pending"] \in Shape(i)
        /\ [s EXCEPT !.most = 500] \in Shape(i)
    BY <1>3, <2>2, ZenonT(60)
  <2> QED BY <2>1, <2>3, ZenonT(60) DEF s
<1>4a. ASSUME NEW i
      PROVE  /\ Fitting(List(i)) /\ Fitting(KeepsPageOnToggle(List(i)))
             /\ Fitting([List(i) EXCEPT !.default = "pending"])
             /\ Fitting([List(i) EXCEPT !.most = 500])
  <2>1. Fitting(List(i)) /\ Fitting(KeepsPageOnToggle(List(i)))
    BY <1>1, <1>2, <1>4, Zenon
  <2>2. Fitting([List(i) EXCEPT !.default = "pending"])
    BY <1>1, <1>4, Zenon
  <2>3. Fitting([List(i) EXCEPT !.most = 500])
    BY <1>1, <1>4, Zenon
  <2> QED BY <2>1, <2>2, <2>3
<1>5. /\ Fitting(EmployeesList) /\ Fitting(DocumentsList) /\ Fitting(HolidaysList) /\ Fitting(RolesList)
  BY <1>4a, ZenonT(60) DEF EmployeesList, DocumentsList, HolidaysList, RolesList
<1>6. /\ Fitting(AnnouncementsList) /\ Fitting(UsersList) /\ Fitting(InvitesList)
      /\ Fitting(AuditLogList) /\ Fitting(AttendanceList) /\ Fitting(BalancesList)
  BY <1>4a, ZenonT(60) DEF AnnouncementsList, UsersList, InvitesList, AuditLogList, AttendanceList, BalancesList
<1>7. /\ Fitting(DesignationsList) /\ Fitting(LocationsList) /\ Fitting(MyLeaveList)
      /\ Fitting(MyNoticesList) /\ Fitting(MyDocumentsList)
  BY <1>4a, ZenonT(60) DEF DesignationsList, LocationsList, MyLeaveList, MyNoticesList, MyDocumentsList
<1>8. Fitting(CalendarList) /\ Fitting(LeaveList) /\ Fitting(CorrectionsList)
  BY <1>4a, ZenonT(60) DEF CalendarList, LeaveList, CorrectionsList
<1> QED BY <1>5, <1>6, <1>7, <1>8 DEF PagedLists

(* What is typed changes no page before it is searched for.                *)
LEMMA SamePages ==
  ASSUME ListsInv, UNCHANGED <<screen, past, rows, moved>>, box' \in Texts
  PROVE  ListsInv'
<1>1. Addressed'
  BY DEF ListsInv, Addressed
<1>2. \A at : TotalPages(at)' = TotalPages(at)
  BY DEF TotalPages, Fits
<1>3. ASSUME ~moved', NEW i \in 1 .. Len(past)
      PROVE  past'[i].page <= TotalPages(past[i])'
  BY <1>2, <1>3 DEF ListsInv, PastExists
<1>4. PastExists'
  BY <1>2, <1>3 DEF PastExists
<1> QED
  BY <1>1, <1>4 DEF ListsInv

(* pageOf counts at least one page.                                        *)
LEMMA SomePage ==
    ASSUME IsFiniteSet(Listed), Addressed, NEW at \in Address
    PROVE  TotalPages(at) \in Nat /\ TotalPages(at) >= 1
<1> DEFINE found == Cardinality({item \in rows : Fits(item, at)})
<1>1. found \in Nat
  <2>1. {item \in rows : Fits(item, at)} \subseteq Listed
    BY DEF Addressed
  <2> QED BY <2>1, FS_Subset, FS_CardinalityType
<1>2. screen.size \in Nat /\ screen.size >= 1
  <2>1. Fitting(screen)
    BY ListsFit DEF Addressed
  <2> QED BY <2>1, ListPagesAssumption DEF Fitting
<1> HIDE DEF found
<1>3. \A n, d \in Nat : n >= 1 /\ d >= 1 => (n + d - 1) \div d \in Nat /\ (n + d - 1) \div d >= 1
  OBVIOUS
<1> QED BY <1>1, <1>2, <1>3 DEF TotalPages, found

LEMMA ListsInitially ==
    ASSUME IsFiniteSet(Listed), Screens \subseteq PagedLists
    PROVE  PagesInit => ListsInv
<1> SUFFICES ASSUME PagesInit PROVE ListsInv
  OBVIOUS
<1>1. First \in Address /\ First.page = 1
  BY DEF First, Address, Texts, Filters, PageNumbers
<1>2. Addressed
  <2>1. past \in Seq(Address) /\ past # <<>>
    <3>1. \A at \in Address : <<at>> \in Seq(Address) /\ <<at>> # <<>>
      OBVIOUS
    <3>2. past = <<First>>
      BY DEF PagesInit
    <3> QED BY <1>1, <3>1, <3>2, Zenon
  <2>2. box \in Texts
    BY DEF PagesInit, Texts
  <2> QED BY <2>1, <2>2 DEF PagesInit, Addressed
<1>3. Len(past) = 1 /\ past[1] = First
  BY DEF PagesInit
<1>4. TotalPages(First) \in Nat /\ TotalPages(First) >= 1
  BY <1>1, <1>2, SomePage
<1>5. PastExists
  BY <1>1, <1>3, <1>4 DEF PastExists
<1> QED BY <1>2, <1>5 DEF ListsInv

(* The current URL is one of the history.                                  *)
LEMMA Current ==
    ASSUME Addressed
    PROVE  url = past[Len(past)] /\ Len(past) \in 1 .. Len(past) /\ url \in Address
BY DEF Addressed, url, Last

(* What an input makes of the URL.                                         *)
LEMMA Typing ==
    ASSUME NEW at \in Address, NEW text \in Texts, NEW filter \in Filters, NEW page \in PageNumbers
    PROVE  /\ [at EXCEPT !.search = text] \in Address
           /\ [at EXCEPT !.filter = filter] \in Address
           /\ [at EXCEPT !.archived = ~@] \in Address
           /\ [at EXCEPT !.page = page] \in Address /\ [at EXCEPT !.page = page].page = page
<1>1. [at EXCEPT !.search = text] \in Address
  BY DEF Address
<1>2. [at EXCEPT !.filter = filter] \in Address
  BY DEF Address
<1>3. [at EXCEPT !.archived = ~@] \in Address
  BY DEF Address
<1>4. [at EXCEPT !.page = page] \in Address /\ [at EXCEPT !.page = page].page = page
  BY DEF Address
<1> QED BY <1>1, <1>2, <1>3, <1>4

(* A URL more, on a page that exists or with the history noting why not.   *)
LEMMA Pushed ==
    ASSUME IsFiniteSet(Listed), ListsInv, NEW next \in Address,
           past' = Append(past, next), UNCHANGED <<screen, box, rows>>,
           moved' \in BOOLEAN, moved => moved',
           moved' \/ next.page <= TotalPages(next)
    PROVE  ListsInv'
<1>1. Addressed'
  BY DEF ListsInv, Addressed
<1>2. PastExists'
  <2> SUFFICES ASSUME ~moved', NEW i \in 1 .. Len(past')
               PROVE  (past[i].page <= TotalPages(past[i]))'
    BY DEF PastExists
  <2>1. \A at : TotalPages(at)' = TotalPages(at)
    BY DEF TotalPages, Fits
  <2>2. past \in Seq(Address) /\ ~moved
    BY DEF ListsInv, Addressed
  <2>3. CASE i = Len(past) + 1
    <3>1. past'[i] = next
      BY <2>2, <2>3
    <3> QED BY <2>1, <3>1
  <2>4. CASE i \in 1 .. Len(past)
    <3>1. past'[i] = past[i]
      BY <2>2, <2>4
    <3>2. past[i].page <= TotalPages(past[i])
      BY <2>2, <2>4 DEF ListsInv, PastExists
    <3> QED BY <2>1, <3>1, <3>2
  <2> QED BY <2>2, <2>3, <2>4
<1> QED BY <1>1, <1>2 DEF ListsInv

(* An input that goes back to the first page.                              *)
LEMMA PushedFirst ==
    ASSUME IsFiniteSet(Listed), ListsInv, NEW input, NEW next \in Address,
           Push(input, next), input # "archived", UNCHANGED <<screen, box, rows, moved>>
    PROVE  ListsInv'
<1> DEFINE at == [next EXCEPT !.page = 1]
<1>1. at \in Address /\ at.page = 1
  BY DEF Address, PageNumbers
<1>2. past' = Append(past, at)
  <2>1. Fitting(screen)
    BY ListsFit DEF ListsInv, Addressed
  <2>2. input \in screen.inputs /\ input \in screen.resets
    BY <2>1 DEF Push, Fitting
  <2> QED BY <2>2 DEF Push
<1> HIDE DEF at
<1>3. TotalPages(at) \in Nat /\ TotalPages(at) >= 1
  BY <1>1, SomePage DEF ListsInv
<1>4. moved \in BOOLEAN
  BY DEF ListsInv, Addressed
<1> QED BY <1>1, <1>2, <1>3, <1>4, Pushed

LEMMA DebouncedStays ==
    ASSUME IsFiniteSet(Listed), ListsInv, Debounced
    PROVE  ListsInv'
<1>1. url \in Address /\ box \in Texts
  BY Current DEF ListsInv, Addressed
<1>2. [url EXCEPT !.search = box] \in Address
  BY <1>1 DEF Address
<1> QED BY <1>2, PushedFirst DEF Debounced

LEMMA ChooseStays ==
    ASSUME IsFiniteSet(Listed), ListsInv, NEW filter \in Filters, Choose(filter)
    PROVE  ListsInv'
<1>1. url \in Address
  BY Current DEF ListsInv
<1>2. [url EXCEPT !.filter = filter] \in Address
  BY <1>1 DEF Address
<1> QED BY <1>2, PushedFirst DEF Choose

(* The toggle of four lists keeps the page, and is noted.                  *)
LEMMA ToggleStays ==
    ASSUME IsFiniteSet(Listed), ListsInv, ToggleArchived
    PROVE  ListsInv'
<1> DEFINE next == [url EXCEPT !.archived = ~@]
<1>1. next \in Address
  <2>1. url \in Address
    BY Current DEF ListsInv
  <2> QED BY <2>1 DEF Address
<1> HIDE DEF next
<1>2. moved \in BOOLEAN
  BY DEF ListsInv, Addressed
<1>3. CASE "archived" \in screen.resets
  <2> DEFINE at == [next EXCEPT !.page = 1]
  <2>1. at \in Address /\ at.page = 1
    BY <1>1 DEF Address, PageNumbers
  <2>2. past' = Append(past, at)
    BY <1>3 DEF ToggleArchived, Push, next
  <2> HIDE DEF at
  <2>3. TotalPages(at) \in Nat /\ TotalPages(at) >= 1
    BY <2>1, SomePage DEF ListsInv
  <2>4. UNCHANGED <<screen, box, rows>> /\ moved' = moved
    BY <1>2, <1>3 DEF ToggleArchived
  <2> QED BY <1>2, <2>1, <2>2, <2>3, <2>4, Pushed
<1>4. CASE "archived" \notin screen.resets
  <2>1. past' = Append(past, next) /\ moved' = TRUE
    BY <1>2, <1>4 DEF ToggleArchived, Push, next
  <2>2. UNCHANGED <<screen, box, rows>>
    BY DEF ToggleArchived
  <2> QED BY <1>1, <2>1, <2>2, Pushed
<1> QED BY <1>3, <1>4

(* The pager only offers pages there are.                                  *)
LEMMA TurnStays ==
    ASSUME IsFiniteSet(Listed), ListsInv, NEW page \in Nat, Turn(page)
    PROVE  ListsInv'
<1> DEFINE next == [url EXCEPT !.page = page]
<1>1. url \in Address
  BY Current DEF ListsInv
<1>2. TotalPages(url) \in Nat
  BY <1>1, SomePage DEF ListsInv
<1>3. page \in 1 .. TotalPages(url)
  BY DEF Turn
<1>4. next \in Address /\ next.page = page
  BY <1>1, <1>2, <1>3 DEF Address, PageNumbers
<1>5. TotalPages(next) = TotalPages(url)
  <2>1. /\ next.search = url.search /\ next.filter = url.filter /\ next.archived = url.archived
    BY <1>1 DEF Address
  <2> HIDE DEF next
  <2>2. \A item : Fits(item, next) = Fits(item, url)
    BY <2>1 DEF Fits
  <2>3. {item \in rows : Fits(item, next)} = {item \in rows : Fits(item, url)}
    BY <2>2
  <2> QED BY <2>3, Zenon DEF TotalPages
<1>6. past' = Append(past, next) /\ UNCHANGED <<screen, box, rows>> /\ moved' = moved
  BY DEF Turn
<1>7. moved \in BOOLEAN
  BY DEF ListsInv, Addressed
<1> HIDE DEF next
<1> QED BY <1>2, <1>3, <1>4, <1>5, <1>6, <1>7, Pushed

LEMMA BackStays ==
    ASSUME ListsInv, Back
    PROVE  ListsInv'
<1>1. past \in Seq(Address) /\ Len(past) > 1
  BY DEF ListsInv, Addressed, Back
<1>2. /\ past' \in Seq(Address) /\ Len(past') = Len(past) - 1
      /\ \A i \in 1 .. Len(past') : past'[i] = past[i]
  BY <1>1 DEF Back, Front
<1>3. Addressed'
  BY <1>1, <1>2 DEF ListsInv, Addressed, Back
<1>4. PastExists'
  <2>1. \A at : TotalPages(at)' = TotalPages(at)
    BY DEF TotalPages, Fits, Back
  <2>2. UNCHANGED moved
    BY DEF Back
  <2> SUFFICES ASSUME ~moved', NEW i \in 1 .. Len(past')
               PROVE  (past[i].page <= TotalPages(past[i]))'
    BY DEF PastExists
  <2>3. i \in 1 .. Len(past) /\ past'[i] = past[i]
    BY <1>1, <1>2
  <2>4. past[i].page <= TotalPages(past[i])
    BY <2>2, <2>3 DEF ListsInv, PastExists
  <2> QED BY <2>1, <2>3, <2>4
<1> QED BY <1>3, <1>4 DEF ListsInv

THEOREM ListsInvariant ==
    ASSUME IsFiniteSet(Listed), Screens \subseteq PagedLists
    PROVE  PagesSpec => []ListsInv
<1>1. PagesInit => ListsInv
  BY ListsInitially
<1>2. ListsInv /\ [PagesNext]_pageVars => ListsInv'
  <2> SUFFICES ASSUME ListsInv, [PagesNext]_pageVars PROVE ListsInv'
    OBVIOUS
  <2>1. CASE Debounced
    BY <2>1, DebouncedStays
  <2>2. CASE ToggleArchived
    BY <2>2, ToggleStays
  <2>3. CASE Back
    BY <2>3, BackStays
  <2>4. ASSUME NEW text \in Texts, Typed(text) PROVE ListsInv'
    BY <2>4, SamePages DEF Typed
  <2>5. ASSUME NEW filter \in Filters, Choose(filter) PROVE ListsInv'
    BY <2>5, ChooseStays
  <2>6. ASSUME NEW page \in 1 .. Cardinality(Listed), Turn(page) PROVE ListsInv'
    <3>1. page \in Nat
      BY FS_CardinalityType
    <3> QED BY <2>6, <3>1, TurnStays
  <2>7. ASSUME NEW item \in rows, RowGoes(item) PROVE ListsInv'
    BY <2>7 DEF ListsInv, Addressed, PastExists, RowGoes
  <2>8. CASE UNCHANGED pageVars
    BY <2>8, SamePages DEF ListsInv, Addressed, pageVars
  <2> QED BY <2>1, <2>2, <2>3, <2>4, <2>5, <2>6, <2>7, <2>8 DEF PagesNext
<1> QED BY <1>1, <1>2, PTL DEF PagesSpec

(* Of any lists but the tree: they load and nobody is left past the last   *)
(* page (apps/admin/app/(app)/employees/page.tsx:70-129 and the others).   *)
THEOREM ListsUsableHolds ==
    ASSUME IsFiniteSet(Listed), Screens \subseteq PagedLists
    PROVE  PagesSpec => []ListsUsable
<1>1. ListsInv => ListsUsable
  <2> SUFFICES ASSUME ListsInv PROVE ListsUsable
    OBVIOUS
  <2>1. url \in Address /\ url = past[Len(past)] /\ Len(past) \in 1 .. Len(past)
    BY Current DEF ListsInv
  <2>2. PagesLoad
    <3>1. Fitting(screen)
      BY ListsFit DEF ListsInv, Addressed
    <3>2. screen.size \in 1 .. screen.most
      BY <3>1, ListPagesAssumption DEF Fitting
    <3>3. url.page >= 1
      BY <2>1 DEF Address, PageNumbers
    <3> QED BY <3>2, <3>3 DEF PagesLoad, Accepts, Query
  <2>3. NeverStranded
    <3>1. TotalPages(url) \in Nat /\ url.page \in Nat
      BY <2>1, SomePage DEF ListsInv, Address, PageNumbers
    <3> QED BY <2>1, <3>1 DEF ListsInv, PastExists, NeverStranded
  <2> QED BY <2>2, <2>3 DEF ListsUsable
<1> QED BY <1>1, ListsInvariant, PTL

-----------------------------------------------------------------------------
(* The preview.  The last timer set is for the audience chosen; once it    *)
(* has gone off, the last preview asked for is, and until that one is      *)
(* answered no other can be mistaken for it.                               *)

Pending == [values : [type : Types, filled : SUBSET Selects], personal : BOOLEAN]

PreviewTypes ==
    /\ chosen \in [type : Types, filled : SUBSET Selects] /\ isPersonal \in BOOLEAN
    /\ timers \in Seq(Pending)
    /\ rung \in Nat /\ newest \in 0 .. rung /\ crossed \in BOOLEAN
    /\ DOMAIN previews \subseteq 1 .. rung

LastTimer   == timers # <<>> => timers[Len(timers)].values = chosen
LastAsked   == newest = rung \/ rung \in DOMAIN previews
AskedChosen == timers = <<>> /\ rung \in DOMAIN previews => previews[rung] = AudienceOf(chosen)
ShownChosen ==
    timers = <<>> /\ newest = rung /\ ~crossed => preview \in {NoPreview, AudienceOf(chosen)}

PreviewInv == PreviewTypes /\ LastTimer /\ LastAsked /\ AskedChosen /\ ShownChosen

LEMMA PreviewInitially == CreateInit => PreviewInv
<1> SUFFICES ASSUME CreateInit PROVE PreviewInv
  OBVIOUS
<1>1. PreviewTypes
  <2>1. chosen \in [type : Types, filled : SUBSET Selects]
    <3>1. "all_employees" \in Types /\ {} \in SUBSET Selects
      BY DEF Types
    <3>2. \A t \in Types, f \in SUBSET Selects :
              [type |-> t, filled |-> f] \in [type : Types, filled : SUBSET Selects]
      OBVIOUS
    <3> QED BY <3>1, <3>2 DEF CreateInit
  <2>2. DOMAIN previews = {} /\ timers \in Seq(Pending)
    BY DEF CreateInit
  <2>3. crossed \in BOOLEAN /\ isPersonal \in BOOLEAN
    BY Zenon DEF CreateInit
  <2>4. rung \in Nat /\ newest \in 0 .. rung
    <3>1. rung = 0 /\ newest = 0
      BY Zenon DEF CreateInit
    <3> QED BY <3>1
  <2>5. DOMAIN previews \subseteq 1 .. rung
    BY <2>2
  <2> QED BY <2>1, <2>2, <2>3, <2>4, <2>5 DEF PreviewTypes
<1> QED BY <1>1 DEF CreateInit, PreviewInv, LastTimer, LastAsked, AskedChosen, ShownChosen

(* A change sets the last timer, for what it chooses.                      *)
LEMMA ChangedStays ==
    ASSUME PreviewInv, Changed, isPersonal' \in BOOLEAN,
           chosen' \in [type : Types, filled : SUBSET Selects]
    PROVE  PreviewInv'
<1> DEFINE set == [values |-> chosen', personal |-> isPersonal]
<1>1. set \in Pending /\ set.values = chosen'
  BY DEF PreviewInv, PreviewTypes, Pending
<1>2. timers' = Append(timers, set) /\ timers \in Seq(Pending)
  BY DEF Changed, PreviewInv, PreviewTypes
<1> HIDE DEF set
<1>3. timers' \in Seq(Pending) /\ timers' # <<>> /\ timers'[Len(timers')] = set
  BY <1>1, <1>2
<1>4. UNCHANGED <<previews, preview, rung, newest, crossed>>
  BY DEF Changed
<1>5. PreviewTypes'
  BY <1>3, <1>4 DEF PreviewInv, PreviewTypes
<1>6. LastTimer' /\ AskedChosen' /\ ShownChosen'
  BY <1>1, <1>3 DEF LastTimer, AskedChosen, ShownChosen
<1>7. LastAsked'
  BY <1>4 DEF PreviewInv, LastAsked
<1> QED BY <1>5, <1>6, <1>7 DEF PreviewInv

LEMMA TimerStays ==
    ASSUME PreviewInv, TimerGoesOff
    PROVE  PreviewInv'
<1>1. /\ timers \in Seq(Pending) /\ timers # <<>>
      /\ Head(timers) \in Pending /\ timers' = Tail(timers) /\ timers' \in Seq(Pending)
  BY DEF TimerGoesOff, PreviewInv, PreviewTypes
<1>2. rung' = rung + 1 /\ UNCHANGED <<newPage, chosen, isPersonal, crossed>>
  BY DEF TimerGoesOff
<1>3. LastTimer'
  <2>1. CASE timers' = <<>>
    BY <2>1 DEF LastTimer
  <2>2. CASE timers' # <<>>
    <3>1. timers'[Len(timers')] = timers[Len(timers)]
      BY <1>1, <2>2
    <3> QED BY <1>1, <1>2, <3>1 DEF PreviewInv, LastTimer
  <2> QED BY <2>1, <2>2
<1>4. timers' = <<>> => Head(timers).values = chosen
  <2>1. Len(timers') = Len(timers) - 1 /\ Head(timers) = timers[1] /\ Len(timers) \in Nat
    BY <1>1
  <2>2. timers' = <<>> => Len(timers') = 0
    OBVIOUS
  <2>3. timers' = <<>> => Len(timers) = 1
    BY <2>1, <2>2
  <2> QED BY <1>1, <2>1, <2>3 DEF PreviewInv, LastTimer
<1>5. \A picked : AudienceOf(picked)' = AudienceOf(picked)
  BY <1>2 DEF AudienceOf
<1>6. CASE Head(timers).personal
  <2>1. preview' = NoPreview /\ newest' = rung' /\ UNCHANGED previews
    BY <1>6 DEF TimerGoesOff
  <2>2. PreviewTypes'
    BY <1>1, <1>2, <2>1 DEF PreviewInv, PreviewTypes
  <2>3. rung' \notin DOMAIN previews'
    BY <1>2, <2>1 DEF PreviewInv, PreviewTypes
  <2> QED BY <1>3, <2>1, <2>2, <2>3 DEF PreviewInv, LastAsked, AskedChosen, ShownChosen
<1>7. CASE ~Head(timers).personal
  <2>1. previews' = Put(previews, rung', AudienceOf(Head(timers).values)) /\ UNCHANGED <<preview, newest>>
    BY <1>7 DEF TimerGoesOff
  <2>2. /\ DOMAIN previews' = DOMAIN previews \union {rung'}
        /\ previews'[rung'] = AudienceOf(Head(timers).values)
    BY <2>1 DEF Put
  <2>3. PreviewTypes'
    BY <1>1, <1>2, <2>1, <2>2 DEF PreviewInv, PreviewTypes
  <2>4. newest' # rung'
    BY <1>2, <2>1 DEF PreviewInv, PreviewTypes
  <2>5. AskedChosen'
    BY <1>2, <1>4, <1>5, <2>2 DEF AskedChosen
  <2> QED BY <1>3, <2>2, <2>3, <2>4, <2>5 DEF PreviewInv, LastAsked, ShownChosen
<1> QED BY <1>6, <1>7

(* What is shown of the last preview is the audience chosen, or nothing;   *)
(* what is shown of another leaves the last one to come, or crosses it.    *)
LEMMA ShownStays ==
    ASSUME PreviewInv, NEW n, NEW audience, Shown(n, audience),
           audience \in {NoPreview, previews[n]}
    PROVE  PreviewInv'
<1>1. /\ n \in DOMAIN previews /\ previews' = Drop(previews, n) /\ preview' = audience
      /\ UNCHANGED <<newPage, chosen, isPersonal, timers, rung>>
  BY DEF Shown
<1>2. n \in Nat /\ n <= rung /\ rung \in Nat /\ newest \in 0 .. rung /\ crossed \in BOOLEAN
  BY <1>1 DEF PreviewInv, PreviewTypes
<1>3. /\ crossed' = (crossed \/ n < newest)
      /\ newest' = IF n < newest THEN newest ELSE n
  BY DEF Shown
<1>4. /\ DOMAIN previews' = DOMAIN previews \ {n}
      /\ \A x \in DOMAIN previews' : previews'[x] = previews[x]
  BY <1>1 DEF Drop, Restrict
<1>5. \A picked : AudienceOf(picked)' = AudienceOf(picked)
  BY <1>1 DEF AudienceOf
<1>6. PreviewTypes'
  BY <1>1, <1>2, <1>3, <1>4 DEF PreviewInv, PreviewTypes
<1>7. LastTimer'
  BY <1>1 DEF PreviewInv, LastTimer
<1>8. LastAsked'
  BY <1>1, <1>2, <1>3, <1>4 DEF PreviewInv, LastAsked
<1>9. AskedChosen'
  BY <1>1, <1>4, <1>5 DEF PreviewInv, AskedChosen
<1>10. ShownChosen'
  <2> SUFFICES ASSUME timers' = <<>>, newest' = rung', ~crossed'
               PROVE  preview' \in {NoPreview, AudienceOf(chosen)'}
    BY DEF ShownChosen
  <2>1. n = rung
    BY <1>1, <1>2, <1>3
  <2>2. previews[n] = AudienceOf(chosen)
    BY <1>1, <2>1 DEF PreviewInv, AskedChosen
  <2>3. AudienceOf(chosen)' = AudienceOf(chosen)
    BY <1>1 DEF AudienceOf
  <2> QED BY <1>1, <2>2, <2>3
<1> QED BY <1>6, <1>7, <1>8, <1>9, <1>10 DEF PreviewInv

LEMMA ElsewhereStays ==
    ASSUME PreviewInv, UNCHANGED <<newPage, chosen, isPersonal, previewVars>>
    PROVE  PreviewInv'
<1>1. UNCHANGED <<timers, previews, preview, rung, newest, crossed>>
  BY DEF previewVars
<1>2. AudienceOf(chosen)' = AudienceOf(chosen)
  BY DEF AudienceOf
<1>3. PreviewTypes' /\ LastTimer' /\ LastAsked'
  BY <1>1 DEF PreviewInv, PreviewTypes, LastTimer, LastAsked
<1>4. AskedChosen'
  BY <1>1, <1>2 DEF PreviewInv, AskedChosen
<1>5. ShownChosen'
  BY <1>1, <1>2 DEF PreviewInv, ShownChosen
<1> QED BY <1>3, <1>4, <1>5 DEF PreviewInv

THEOREM PreviewInvariant == CreateSpec => []PreviewInv
<1>1. PreviewInv /\ [CreateNext]_createVars => PreviewInv'
  <2> SUFFICES ASSUME PreviewInv, [CreateNext]_createVars PROVE PreviewInv'
    OBVIOUS
  <2>1. ASSUME NEW picked \in [type : Types, filled : SUBSET Selects], ChooseAudience(picked)
        PROVE  PreviewInv'
    <3>1. chosen' = picked /\ isPersonal' = isPersonal /\ Changed
      BY <2>1 DEF ChooseAudience
    <3> QED BY <3>1, ChangedStays DEF PreviewInv, PreviewTypes
  <2>2. CASE ChooseCategory
    <3>1. chosen' = chosen /\ isPersonal' = ~isPersonal /\ Changed
      BY <2>2 DEF ChooseCategory
    <3>2. isPersonal' \in BOOLEAN /\ chosen' \in [type : Types, filled : SUBSET Selects]
      BY <3>1 DEF PreviewInv, PreviewTypes
    <3> QED BY <3>1, <3>2, ChangedStays
  <2>3. CASE TimerGoesOff
    BY <2>3, TimerStays
  <2>4. ASSUME NEW n, PreviewAnswered(n) PROVE PreviewInv'
    BY <2>4, ShownStays DEF PreviewAnswered
  <2>5. ASSUME NEW n, PreviewFailed(n) PROVE PreviewInv'
    BY <2>5, ShownStays DEF PreviewFailed
  <2>6. ASSUME NEW from, NEW to, UploadMoves(from, to) PROVE PreviewInv'
    BY <2>6, ElsewhereStays DEF UploadMoves
  <2>7. ASSUME NEW publish, SaveRecord(publish) PROVE PreviewInv'
    BY <2>7, ElsewhereStays DEF SaveRecord
  <2>8. ASSUME NEW to, NEW records, NEW failures, SaveGoesOn(to, records, failures) PROVE PreviewInv'
    BY <2>8, ElsewhereStays DEF SaveGoesOn
  <2>9. CASE Created \/ CreatedUnheard \/ CreateFailed \/ Published \/ PublishFailed
    BY <2>8, <2>9 DEF Created, CreatedUnheard, CreateFailed, Published, PublishFailed
  <2>11. CASE Gone
    BY <2>11, ElsewhereStays DEF Gone
  <2>10. CASE UNCHANGED createVars
    BY <2>10, ElsewhereStays DEF createVars, previewVars
  <2> QED BY <2>1, <2>2, <2>3, <2>4, <2>5, <2>6, <2>7, <2>9, <2>10, <2>11 DEF CreateNext
<1> QED BY <1>1, PreviewInitially, PTL DEF CreateSpec

(* The preview that is shown counts the audience chosen, once nothing is   *)
(* under way and if no two crossed (documents/new/page.tsx:134-161).       *)
THEOREM PreviewFollowsHolds == CreateSpec => []PreviewFollows
<1>1. PreviewInv => PreviewFollows
  <2> SUFFICES ASSUME PreviewInv, timers = <<>>, previews = <<>>, ~crossed
               PROVE  preview \in {NoPreview, AudienceOf(chosen)}
    BY DEF PreviewFollows
  <2>1. DOMAIN previews = {}
    OBVIOUS
  <2>2. newest = rung
    BY <2>1 DEF PreviewInv, LastAsked
  <2> QED BY <2>2 DEF PreviewInv, ShownChosen
<1> QED BY <1>1, PreviewInvariant, PTL

-----------------------------------------------------------------------------
(* What is saved.  How many records there are follows from how far the     *)
(* last save came and from how many were begun since the page was told to  *)
(* leave.                                                                  *)

MadeByStage ==
    /\ made \in Nat /\ broken \in Nat
    /\ again \in Nat
    /\ stage \in {"editing", "creating", "publishing"}
    /\ place \in {"here", "leaving", "gone"}
    /\ LET done == made - broken - (IF stage = "publishing" THEN 1 ELSE 0)
       IN  IF place = "here" THEN done = 0 /\ again = 0
           ELSE /\ done \in 1 .. again + 1
                /\ stage # "editing" => done <= again

(* A save makes one record, and another only after it broke or while the   *)
(* page is leaving (announcements/new/page.tsx:154-228).                   *)
THEOREM CreatesOnceHolds == CreateSpec => []CreatesOnce
<1>1. CreateInit => MadeByStage
  BY DEF CreateInit, MadeByStage
<1>2. MadeByStage /\ [CreateNext]_createVars => MadeByStage'
  <2> SUFFICES ASSUME MadeByStage, [CreateNext]_createVars PROVE MadeByStage'
    OBVIOUS
  <2>1. CASE UNCHANGED <<stage, place, made, broken, again>>
    BY <2>1 DEF MadeByStage
  <2>2. CASE \E picked \in [type : Types, filled : SUBSET Selects] : ChooseAudience(picked)
    BY <2>1, <2>2 DEF ChooseAudience, Changed, saveVars
  <2>3. CASE ChooseCategory \/ TimerGoesOff
    BY <2>1, <2>3 DEF ChooseCategory, Changed, TimerGoesOff, saveVars
  <2>4. CASE \E n \in DOMAIN previews : PreviewAnswered(n) \/ PreviewFailed(n)
    BY <2>1, <2>4 DEF PreviewAnswered, PreviewFailed, Shown, saveVars
  <2>5. CASE \E from, to : UploadMoves(from, to)
    BY <2>1, <2>5 DEF UploadMoves, saveVars
  <2>6. ASSUME NEW publish, SaveRecord(publish) PROVE MadeByStage'
    BY <2>6 DEF SaveRecord, MadeByStage
  <2>7. CASE Created
    BY <2>7 DEF Created, SaveGoesOn, Leaves, MadeByStage
  <2>8. CASE CreatedUnheard \/ CreateFailed
    BY <2>8 DEF CreatedUnheard, CreateFailed, SaveGoesOn, MadeByStage
  <2>9. CASE Published \/ PublishFailed
    BY <2>9 DEF Published, PublishFailed, SaveGoesOn, Leaves, MadeByStage
  <2>11. CASE Gone
    BY <2>11 DEF Gone, MadeByStage
  <2>10. CASE UNCHANGED createVars
    BY <2>1, <2>10 DEF createVars
  <2> QED BY <2>2, <2>3, <2>4, <2>5, <2>6, <2>7, <2>8, <2>9, <2>10, <2>11 DEF CreateNext
<1>3. MadeByStage => CreatesOnce
  BY DEF MadeByStage, CreatesOnce
<1> QED BY <1>1, <1>2, <1>3, PTL DEF CreateSpec

-----------------------------------------------------------------------------
(* The pages of the portals, whichever is open beside which.               *)
THEOREM PagesUsableHolds ==
    ASSUME IsFiniteSet(Listed), Screens \subseteq PagedLists
    PROVE  PagesSpec /\ CreateSpec => []PagesUsable
<1>1. ListsUsable /\ PreviewFollows /\ CreatesOnce => PagesUsable
  BY DEF PagesUsable
<1> QED BY <1>1, ListsUsableHolds, PreviewFollowsHolds, CreatesOnceHolds, PTL

-----------------------------------------------------------------------------
(* The edit forms.  A form that compares with the page's copy was filled   *)
(* from it; a field nobody touched since it was filled or sent shows what  *)
(* it was filled with, or is empty and never sent; and a patch is made of  *)
(* what was typed and of what the form was filled with.                    *)

Fields == form.fields

Plain == {"name", "note"}

OfForm ==
    /\ form \in EditForms
    /\ DOMAIN row = Fields /\ DOMAIN shown = Fields /\ DOMAIN base = Fields
    /\ DOMAIN typed \subseteq Fields
    /\ IsOpen => DOMAIN values = Fields
    /\ saving = <<>> \/ saving = [patch |-> saving.patch, answer |-> saving.answer,
                                 typed |-> saving.typed, base |-> saving.base,
                                 wiped |-> saving.wiped, refilled |-> saving.refilled]
    /\ IsSaving => /\ DOMAIN saving.patch \subseteq Fields /\ DOMAIN saving.typed \subseteq Fields
                   /\ IsAnswered => DOMAIN saving.answer = Fields

NeverSent(k) == values[k] = Empty /\ k \notin form.clears

AsFilled(k) == values[k] = ShownAs(k, base[k]) \/ NeverSent(k)

Compared == IsOpen /\ form.diff => base = shown

AsTyped == IsOpen /\ ~wiped => \A k \in DOMAIN typed : values[k] = typed[k]

Untouched ==
    IsOpen /\ ~IsSaving => \A k \in Fields \ DOMAIN typed : AsFilled(k)

(* What was sent is still in its fields until the user or a fetch comes.   *)
StillSent ==
    IsSaving /\ IsOpen =>
        \A k \in Fields \ DOMAIN typed :
            /\ saving.refilled \/ k \notin DOMAIN saving.typed => AsFilled(k)
            /\ ~saving.refilled =>
                 /\ k \in DOMAIN saving.typed /\ ~saving.wiped => values[k] = saving.typed[k]
                 /\ k \in DOMAIN saving.patch => saving.patch[k] = Meant(k, values[k])
                 /\ k \notin DOMAIN saving.patch =>
                      NeverSent(k) \/ (form.diff /\ values[k] = ShownAs(k, shown[k]))

Arrives(k) ==
    /\ ~saving.wiped
    /\ saving.typed[k] = Empty => k \in form.clears
    /\ form.diff => saving.typed[k] # saving.base[k]

Sent ==
    IsSaving =>
        /\ \A k \in DOMAIN saving.typed :
             Arrives(k) => k \in DOMAIN saving.patch /\ saving.patch[k] = Meant(k, saving.typed[k])
        /\ \A k \in DOMAIN saving.patch \ DOMAIN saving.typed :
             ~form.diff /\ saving.patch[k] = Meant(k, ShownAs(k, saving.base[k]))
        /\ IsAnswered => \A k \in DOMAIN saving.patch : saving.answer[k] = saving.patch[k]

FormsInv == OfForm /\ Compared /\ AsTyped /\ Untouched /\ StillSent /\ Sent

LEMMA FormShape ==
    ASSUME NEW f \in EditForms
    PROVE  /\ f.fields # {} /\ f.fields \subseteq {"name", "note", "when", "audience"}
           /\ f.page \/ f.diff => f.fields \subseteq Plain
           /\ f.diff => f.live /\ f.page
<1> DEFINE Good(g) == /\ g.fields # {} /\ g.fields \subseteq {"name", "note", "when", "audience"}
                      /\ g.page \/ g.diff => g.fields \subseteq Plain
                      /\ g.diff => g.live /\ g.page
<1>1. Good(DepartmentDialog) /\ Good(DesignationDialog) /\ Good(LocationDialog)
  BY DEF DepartmentDialog, DesignationDialog, LocationDialog, Dialog
<1>2. Good(CategoryDialog) /\ Good(HolidayDialog) /\ Good(EmployeeEdit)
  BY DEF CategoryDialog, HolidayDialog, EmployeeEdit, Dialog
<1>3. Good(CalendarDialog) /\ Good(AnnouncementEdit) /\ Good(DocumentEdit)
  BY DEF CalendarDialog, AnnouncementEdit, DocumentEdit, Dialog
<1>4. Good(RoleEdit)
  BY DEF RoleEdit, Dialog, Plain
<1>5. Good(OrganizationSettings) /\ Good(BrandingColor)
  BY DEF OrganizationSettings, BrandingColor, Plain
<1> HIDE DEF Good
<1>6. Good(f)
  BY <1>1, <1>2, <1>3, <1>4, <1>5 DEF EditForms
<1> QED
  BY <1>6 DEF Good

LEMMA PlainFields ==
    ASSUME NEW k \in Plain, NEW v
    PROVE  ShownAs(k, v) = v /\ Meant(k, v) = v
BY DEF Plain, ShownAs, Meant

LEMMA FormsInitInv == FormsInit => FormsInv
<1> SUFFICES ASSUME FormsInit PROVE FormsInv
  OBVIOUS
<1>1. DOMAIN row = Fields
  BY DEF FormsInit, Records, Fields
<1>2. ~IsOpen /\ ~IsSaving
  BY DEF FormsInit, IsOpen, IsSaving
<1> QED
  BY <1>1, <1>2 DEF FormsInit, FormsInv, OfForm, Compared, AsTyped, Untouched, StillSent, Sent

LEMMA FormsOpen == FormsInv /\ Open => FormsInv'
<1> SUFFICES ASSUME FormsInv, Open PROVE FormsInv'
  OBVIOUS
<1>1. values' = Filled(shown) /\ base' = shown /\ typed' = <<>> /\ ~IsSaving /\ ~IsSaving'
  BY DEF Open, IsSaving
<1>2. DOMAIN values' = Fields /\ DOMAIN typed' = {} /\ Fields' = Fields
  BY <1>1 DEF FormsInv, OfForm, Filled, Open, Fields
<1>3. OfForm'
  BY <1>1, <1>2 DEF FormsInv, OfForm, Open, IsOpen
<1>4. Untouched'
  BY <1>1, <1>2 DEF FormsInv, OfForm, Untouched, AsFilled, Filled, Fields
<1>5. Compared' /\ AsTyped' /\ StillSent' /\ Sent'
  BY <1>1, <1>2 DEF Compared, AsTyped, StillSent, Sent, Open
<1> QED
  BY <1>3, <1>4, <1>5 DEF FormsInv

LEMMA FormsClose == FormsInv /\ Close => FormsInv'
<1> SUFFICES ASSUME FormsInv, Close PROVE FormsInv'
  OBVIOUS
<1>1. /\ ~IsOpen' /\ typed' = <<>> /\ UNCHANGED <<form, row, shown, base, saving>>
      /\ Fields' = Fields /\ (IsSaving' <=> IsSaving) /\ (IsAnswered' <=> IsAnswered)
  BY DEF Close, IsOpen, IsSaving, IsAnswered, Fields
<1>2. OfForm'
  BY <1>1 DEF FormsInv, OfForm
<1>3. Sent'
  BY <1>1 DEF FormsInv, Sent, Arrives
<1> QED
  BY <1>1, <1>2, <1>3 DEF FormsInv, Compared, AsTyped, Untouched, StillSent

LEMMA FormsType == FormsInv /\ (\E k \in DOMAIN row : \E v \in Inputs[k] : Type(k, v)) => FormsInv'
<1> SUFFICES ASSUME FormsInv, NEW k \in DOMAIN row, NEW v, Type(k, v) PROVE FormsInv'
  OBVIOUS
<1>1. k \in Fields /\ Fields' = Fields /\ DOMAIN values = Fields /\ IsOpen
  BY DEF FormsInv, OfForm, Type, Fields
<1>2. /\ DOMAIN values' = Fields /\ values'[k] = v
      /\ \A i \in Fields : i # k => values'[i] = values[i]
  BY <1>1 DEF Type, Put
<1>3. /\ DOMAIN typed' = DOMAIN typed \union {k} /\ typed'[k] = v
      /\ \A i \in DOMAIN typed : i # k => typed'[i] = typed[i]
  BY DEF Type, Put
<1>4. UNCHANGED <<form, row, shown, base, saving, wiped>>
  BY DEF Type
<1>5. IsOpen' /\ (IsSaving' <=> IsSaving) /\ (IsAnswered' <=> IsAnswered)
  BY <1>1, <1>2, <1>4 DEF IsOpen, IsSaving, IsAnswered
<1>6. OfForm'
  BY <1>1, <1>2, <1>3, <1>4, <1>5 DEF FormsInv, OfForm
<1>7. Compared' /\ AsTyped'
  BY <1>1, <1>2, <1>3, <1>4, <1>5 DEF FormsInv, OfForm, Compared, AsTyped
<1>8. Untouched'
  BY <1>1, <1>2, <1>3, <1>4, <1>5 DEF FormsInv, Untouched, AsFilled, NeverSent
<1>9. StillSent'
  BY <1>1, <1>2, <1>3, <1>4, <1>5 DEF FormsInv, StillSent, AsFilled, NeverSent
<1>10. Sent'
  BY <1>4, <1>5 DEF FormsInv, Sent, Arrives
<1> QED
  BY <1>6, <1>7, <1>8, <1>9, <1>10 DEF FormsInv

LEMMA FormsSave == FormsInv /\ Save => FormsInv'
<1> SUFFICES ASSUME FormsInv, Save PROVE FormsInv'
  OBVIOUS
<1> DEFINE patch == Patch
<1>1. /\ IsOpen /\ ~IsSaving /\ typed' = <<>> /\ UNCHANGED <<form, row, shown, values, base>>
      /\ saving' = [patch |-> patch, answer |-> <<>>, typed |-> typed, base |-> base,
                    wiped |-> wiped, refilled |-> FALSE]
  BY DEF Save
<1>2. /\ IsOpen' /\ IsSaving' /\ ~IsAnswered' /\ Fields' = Fields /\ DOMAIN typed' = {}
  <2>1. DOMAIN saving' = {"patch", "answer", "typed", "base", "wiped", "refilled"} /\ saving'.answer = <<>>
    BY <1>1
  <2> QED
    BY <1>1, <2>1 DEF IsOpen, IsSaving, IsAnswered, Fields
<1>3. \A k : k \in DOMAIN patch <=>
          /\ k \in DOMAIN values /\ (values[k] = Empty => k \in form.clears)
          /\ form.diff => values[k] # ShownAs(k, shown[k])
  BY DEF Patch
<1>4. \A k \in DOMAIN patch : patch[k] = Meant(k, values[k])
  BY DEF Patch
<1>5. DOMAIN values = Fields /\ DOMAIN typed \subseteq Fields
  BY <1>1 DEF FormsInv, OfForm
<1> HIDE DEF patch
<1>6. OfForm'
  BY <1>1, <1>2, <1>3, <1>5 DEF FormsInv, OfForm
<1>7. Compared' /\ AsTyped' /\ Untouched'
  BY <1>1, <1>2 DEF FormsInv, Compared, AsTyped, Untouched
<1>8. StillSent'
  <2>1. ASSUME NEW k \in Fields
        PROVE  /\ k \notin DOMAIN typed => AsFilled(k)
               /\ k \in DOMAIN typed /\ ~wiped => values[k] = typed[k]
               /\ k \in DOMAIN patch => patch[k] = Meant(k, values[k])
               /\ k \notin DOMAIN patch => NeverSent(k) \/ (form.diff /\ values[k] = ShownAs(k, shown[k]))
    BY <1>1, <1>3, <1>4, <1>5 DEF FormsInv, AsTyped, Untouched, NeverSent
  <2>2. /\ saving'.typed = typed /\ saving'.wiped = wiped /\ saving'.patch = patch /\ saving'.refilled = FALSE
        /\ Fields' = Fields
        /\ \A k : (AsFilled(k)' <=> AsFilled(k)) /\ (NeverSent(k)' <=> NeverSent(k))
    BY <1>1, <1>2 DEF AsFilled, NeverSent
  <2> QED
    BY <1>1, <2>1, <2>2 DEF StillSent
<1>9. Sent'
  <2>1. /\ saving'.typed = typed /\ saving'.wiped = wiped /\ saving'.patch = patch /\ saving'.base = base
    BY <1>1
  <2>2. ASSUME NEW k \in DOMAIN typed, Arrives(k)'
        PROVE  k \in DOMAIN patch /\ patch[k] = Meant(k, typed[k])
    <3>1. /\ ~wiped /\ (typed[k] = Empty => k \in form.clears) /\ (form.diff => typed[k] # base[k])
      BY <1>1, <2>1, <2>2 DEF Arrives
    <3>2. values[k] = typed[k]
      BY <1>1, <3>1 DEF FormsInv, AsTyped
    <3>3. form.diff => values[k] # ShownAs(k, shown[k])
      <4>1. form.diff => base = shown /\ k \in Plain
        BY <1>1, <1>5, FormShape DEF FormsInv, OfForm, Compared, Fields
      <4> QED
        BY <3>1, <3>2, <4>1, PlainFields
    <3> QED
      BY <1>3, <1>4, <1>5, <3>1, <3>2, <3>3
  <2>3. ASSUME NEW k \in DOMAIN patch \ DOMAIN typed
        PROVE  ~form.diff /\ patch[k] = Meant(k, ShownAs(k, base[k]))
    <3>1. k \in Fields /\ ~NeverSent(k)
      BY <1>3, <1>5, <2>3 DEF NeverSent
    <3>2. values[k] = ShownAs(k, base[k])
      BY <1>1, <2>3, <3>1 DEF FormsInv, Untouched, AsFilled
    <3>3. form.diff => base = shown
      BY <1>1 DEF FormsInv, Compared
    <3> QED
      BY <1>3, <1>4, <2>3, <3>2, <3>3
  <2> QED
    BY <1>1, <1>2, <2>1, <2>2, <2>3 DEF Sent
<1> QED
  BY <1>6, <1>7, <1>8, <1>9 DEF FormsInv

LEMMA SavingRecord ==
    ASSUME FormsInv, IsSaving
    PROVE  /\ saving = [patch |-> saving.patch, answer |-> saving.answer,
                        typed |-> saving.typed, base |-> saving.base,
                        wiped |-> saving.wiped, refilled |-> saving.refilled]
           /\ IsOpen => DOMAIN values = Fields
           /\ DOMAIN saving.patch \subseteq Fields /\ DOMAIN saving.typed \subseteq Fields
<1>1. DOMAIN <<>> = {}
  OBVIOUS
<1> QED
  BY <1>1 DEF FormsInv, OfForm, IsSaving

LEMMA FormsCommit == FormsInv /\ Commit => FormsInv'
<1> SUFFICES ASSUME FormsInv, Commit PROVE FormsInv'
  OBVIOUS
<1>1. IsSaving /\ ~IsAnswered /\ UNCHANGED <<form, shown, values, base, typed, wiped, writes>>
  BY DEF Commit
<1>2. /\ DOMAIN row' = Fields /\ Fields' = Fields
      /\ \A k \in DOMAIN saving.patch : row'[k] = saving.patch[k]
  <2>1. DOMAIN row = Fields /\ DOMAIN saving.patch \subseteq Fields
    BY <1>1, SavingRecord DEF FormsInv, OfForm
  <2> QED
    BY <1>1, <2>1 DEF Commit, Patched, Fields
<1>3. saving' = [patch |-> saving.patch, answer |-> row', typed |-> saving.typed, base |-> saving.base,
                 wiped |-> saving.wiped, refilled |-> saving.refilled]
  BY <1>1, SavingRecord DEF Commit
<1>4. /\ saving'.patch = saving.patch /\ saving'.typed = saving.typed /\ saving'.base = saving.base
      /\ saving'.wiped = saving.wiped /\ saving'.refilled = saving.refilled /\ saving'.answer = row'
  BY <1>3
<1>5. IsSaving' /\ (IsOpen' <=> IsOpen)
  BY <1>1, <1>3, SavingRecord DEF IsSaving, IsOpen
<1>6. OfForm'
  BY <1>1, <1>2, <1>3, <1>4, <1>5, SavingRecord DEF FormsInv, OfForm
<1>7. Compared' /\ AsTyped' /\ Untouched'
  BY <1>1, <1>5 DEF FormsInv, Compared, AsTyped, Untouched
<1>8. StillSent'
  BY <1>1, <1>2, <1>4, <1>5 DEF FormsInv, StillSent, AsFilled, NeverSent
<1>9. Sent'
  BY <1>1, <1>2, <1>4, <1>5 DEF FormsInv, Sent, Arrives
<1> QED
  BY <1>6, <1>7, <1>8, <1>9 DEF FormsInv

LEMMA FormsRefused == FormsInv /\ Refused => FormsInv'
<1> SUFFICES ASSUME FormsInv, Refused PROVE FormsInv'
  OBVIOUS
<1>1. IsSaving /\ ~IsAnswered /\ saving' = <<>> /\ UNCHANGED <<form, row, shown, values, base, writes>>
  BY DEF Refused
<1>2. ~IsSaving' /\ Fields' = Fields /\ (IsOpen' <=> IsOpen)
  BY <1>1 DEF IsSaving, Fields, IsOpen
<1>3. /\ IsOpen =>
           /\ DOMAIN typed' = DOMAIN typed \union DOMAIN saving.typed
           /\ \A k \in DOMAIN typed' : typed'[k] = IF k \in DOMAIN typed THEN typed[k] ELSE saving.typed[k]
           /\ wiped' = (wiped \/ saving.wiped \/ saving.refilled)
      /\ ~IsOpen => UNCHANGED <<typed, wiped>>
  BY DEF Refused
<1>4. DOMAIN saving.typed \subseteq Fields
  BY <1>1, SavingRecord
<1>5. OfForm'
  BY <1>1, <1>2, <1>3, <1>4 DEF FormsInv, OfForm
<1>6. Compared'
  BY <1>1, <1>2 DEF FormsInv, Compared
<1>7. AsTyped'
  <2> SUFFICES ASSUME IsOpen, ~wiped', NEW k \in DOMAIN typed' PROVE values[k] = typed'[k]
    BY <1>1, <1>2 DEF AsTyped
  <2>1. ~wiped /\ ~saving.wiped /\ ~saving.refilled
    BY <1>3
  <2>2. CASE k \in DOMAIN typed
    BY <1>1, <1>3, <2>1, <2>2, SavingRecord DEF FormsInv, AsTyped
  <2>3. CASE k \notin DOMAIN typed
    BY <1>1, <1>3, <1>4, <2>1, <2>3 DEF FormsInv, StillSent
  <2> QED
    BY <2>2, <2>3
<1>8. Untouched'
  <2>1. ASSUME IsOpen, NEW k \in Fields \ DOMAIN typed' PROVE AsFilled(k)
    BY <1>1, <1>3, <2>1 DEF FormsInv, StillSent
  <2> QED
    BY <1>1, <1>2, <2>1 DEF Untouched, AsFilled, NeverSent
<1>9. StillSent' /\ Sent'
  BY <1>2 DEF StillSent, Sent
<1> QED
  BY <1>5, <1>6, <1>7, <1>8, <1>9 DEF FormsInv

LEMMA FormsOthers == FormsInv /\ (\E k \in DOMAIN row : \E v \in Kinds[k] : OthersWrite(k, v)) => FormsInv'
<1> SUFFICES ASSUME FormsInv, NEW k \in DOMAIN row, NEW v, OthersWrite(k, v) PROVE FormsInv'
  OBVIOUS
<1>1. DOMAIN row' = DOMAIN row /\ UNCHANGED <<form, shown, values, base, saving, typed, wiped>>
  BY DEF OthersWrite, Put
<1> QED
  BY <1>1 DEF FormsInv, OfForm, Compared, AsTyped, Untouched, StillSent, Sent, Arrives, AsFilled,
              NeverSent, IsOpen, IsSaving, IsAnswered, Fields

LEMMA FormsStutter == FormsInv /\ UNCHANGED formVars => FormsInv'
  BY DEF FormsInv, OfForm, Compared, AsTyped, Untouched, StillSent, Sent, Arrives, AsFilled,
         NeverSent, IsOpen, IsSaving, IsAnswered, Fields, formVars

(* What a refill leaves: the copy in the fields, or all as it was. *)
LEMMA Refilled ==
    ASSUME FormsInv, NEW copy, DOMAIN copy = Fields, Show(copy), form' = form
    PROVE  /\ shown' = copy
           /\ IsOpen /\ form.live /\ copy # shown =>
                /\ DOMAIN values' = Fields /\ base' = copy
                /\ wiped' = (wiped \/ DOMAIN typed # {})
                /\ \A k \in Fields : values'[k] = ShownAs(k, copy[k])
           /\ ~(IsOpen /\ form.live /\ copy # shown) => UNCHANGED <<values, base, wiped>>
BY DEF Show, Filled

LEMMA FormsRefetch == FormsInv /\ Refetch => FormsInv'
<1> SUFFICES ASSUME FormsInv, Refetch PROVE FormsInv'
  OBVIOUS
<1>1. Show(row) /\ DOMAIN row = Fields /\ UNCHANGED <<form, row, typed, writes>> /\ Fields' = Fields
  BY DEF Refetch, FormsInv, OfForm, Fields
<1>2. shown # row /\ saving' = IF IsSaving /\ IsOpen /\ form.live THEN [saving EXCEPT !.refilled = TRUE] ELSE saving
  BY DEF Refetch
<1>3. form \in EditForms /\ Fields # {} /\ (form.diff => form.live)
  BY FormShape DEF FormsInv, OfForm, Fields
<1>4. CASE IsOpen /\ form.live
  <2>1. /\ shown' = row /\ base' = row /\ DOMAIN values' = Fields /\ wiped' = (wiped \/ DOMAIN typed # {})
        /\ \A k \in Fields : values'[k] = ShownAs(k, row[k])
    BY <1>1, <1>2, <1>4, Refilled
  <2>2. IsSaving => saving' = [patch |-> saving.patch, answer |-> saving.answer, typed |-> saving.typed,
                              base |-> saving.base, wiped |-> saving.wiped, refilled |-> TRUE]
    BY <1>2, <1>4, SavingRecord
  <2>3. IsSaving => /\ saving'.patch = saving.patch /\ saving'.typed = saving.typed
                    /\ saving'.base = saving.base /\ saving'.wiped = saving.wiped
                    /\ saving'.refilled = TRUE /\ saving'.answer = saving.answer
    BY <2>2
  <2>4. ~IsSaving => saving' = saving
    BY <1>2
  <2>5. IsOpen' /\ (IsSaving' <=> IsSaving) /\ (IsSaving => (IsAnswered' <=> IsAnswered))
    BY <1>3, <2>1, <2>2, <2>3, <2>4 DEF IsOpen, IsSaving, IsAnswered
  <2>6. OfForm'
    <3>1. saving' = <<>> \/ saving' = [patch |-> saving'.patch, answer |-> saving'.answer,
                                 typed |-> saving'.typed, base |-> saving'.base,
                                 wiped |-> saving'.wiped, refilled |-> saving'.refilled]
      BY <2>2, <2>3, <2>4 DEF FormsInv, OfForm
    <3>2. IsSaving' => /\ DOMAIN saving'.patch \subseteq Fields /\ DOMAIN saving'.typed \subseteq Fields
                       /\ IsAnswered' => DOMAIN saving'.answer = Fields
      BY <2>3, <2>5 DEF FormsInv, OfForm
    <3> QED
      BY <1>1, <2>1, <2>5, <3>1, <3>2 DEF FormsInv, OfForm
  <2>7. Compared' /\ AsTyped'
    BY <1>1, <2>1 DEF Compared, AsTyped
  <2>8. \A k \in Fields : AsFilled(k)'
    BY <2>1 DEF AsFilled
  <2>9. Untouched' /\ StillSent'
    BY <1>1, <2>3, <2>5, <2>8 DEF Untouched, StillSent
  <2>10. Sent'
    BY <1>1, <2>3, <2>5 DEF FormsInv, Sent, Arrives
  <2> QED
    BY <2>6, <2>7, <2>9, <2>10 DEF FormsInv
<1>5. CASE ~(IsOpen /\ form.live)
  <2>1. shown' = row /\ UNCHANGED <<values, base, wiped>>
    BY <1>1, <1>5, Refilled
  <2>2. saving' = saving
    BY <1>2, <1>5
  <2>3. IsOpen /\ IsSaving => ~form.diff
    BY <1>3, <1>5
  <2>4. (IsOpen' <=> IsOpen) /\ (IsSaving' <=> IsSaving) /\ (IsAnswered' <=> IsAnswered)
    BY <2>1, <2>2 DEF IsOpen, IsSaving, IsAnswered
  <2>5. OfForm'
    BY <1>1, <2>1, <2>2, <2>4 DEF FormsInv, OfForm
  <2>6. Compared' /\ AsTyped' /\ Untouched'
    BY <1>1, <1>3, <1>5, <2>1, <2>2, <2>4 DEF FormsInv, Compared, AsTyped, Untouched, AsFilled, NeverSent
  <2>7. StillSent'
    <3>1. IsSaving /\ IsOpen => ~form.diff
      BY <2>3
    <3> QED
      BY <1>1, <2>1, <2>2, <2>4, <3>1 DEF FormsInv, StillSent, AsFilled, NeverSent
  <2>8. Sent'
    BY <1>1, <2>1, <2>2, <2>4 DEF FormsInv, Sent, Arrives
  <2> QED
    BY <2>5, <2>6, <2>7, <2>8 DEF FormsInv
<1> QED
  BY <1>4, <1>5

LEMMA FormsAnswered == FormsInv /\ Answered => FormsInv'
<1> SUFFICES ASSUME FormsInv, Answered PROVE FormsInv'
  OBVIOUS
<1>1. /\ IsSaving /\ IsAnswered /\ saving' = <<>> /\ UNCHANGED <<form, row, writes>>
      /\ Fields' = Fields /\ ~IsSaving'
  BY DEF Answered, IsSaving, Fields
<1>2. /\ form \in EditForms /\ (form.diff => form.live) /\ (form.page \/ form.diff => Fields \subseteq Plain)
  BY FormShape DEF FormsInv, OfForm, Fields
<1>3. (IsOpen => DOMAIN values = Fields) /\ DOMAIN saving.patch \subseteq Fields
  BY <1>1, SavingRecord
<1>4. StillSent' /\ Sent'
  BY <1>1 DEF StillSent, Sent
<1>5. /\ DOMAIN row = Fields /\ DOMAIN shown = Fields /\ DOMAIN base = Fields
      /\ DOMAIN typed \subseteq Fields /\ DOMAIN saving.answer = Fields
  BY <1>1 DEF FormsInv, OfForm
<1>6. ASSUME IsOpen, NEW k \in Fields \ DOMAIN typed
      PROVE  /\ saving.refilled => AsFilled(k)
             /\ ~saving.refilled =>
                  /\ k \in DOMAIN saving.patch => saving.patch[k] = Meant(k, values[k])
                  /\ k \notin DOMAIN saving.patch =>
                       NeverSent(k) \/ (form.diff /\ values[k] = ShownAs(k, shown[k]))
  BY <1>1, <1>6 DEF FormsInv, StillSent
<1>10. /\ form.diff => Show(saving.answer)
       /\ form.page \/ form.diff => typed' = typed
       /\ form.page /\ ~form.diff =>
            UNCHANGED <<values, shown, wiped>> /\ base' = IF saving.refilled THEN base ELSE Patched(base)
       /\ ~form.page /\ ~form.diff => values' = <<>> /\ typed' = <<>> /\ UNCHANGED <<shown, base>>
  BY FormShape DEF Answered, FormsInv, OfForm
<1>11. CASE ~IsOpen
  <2>1. DOMAIN shown' = Fields /\ DOMAIN base' = Fields /\ DOMAIN typed' \subseteq Fields /\ ~IsOpen'
    <3>1. CASE form.diff
      BY <1>1, <1>5, <1>10, <1>11, <3>1, Refilled DEF IsOpen
    <3>2. CASE form.page /\ ~form.diff
      BY <1>5, <1>10, <1>11, <3>2 DEF Patched, IsOpen
    <3>3. CASE ~form.page /\ ~form.diff
      BY <1>5, <1>10, <3>3 DEF IsOpen
    <3> QED BY <3>1, <3>2, <3>3
  <2>2. OfForm'
    BY <1>1, <1>5, <2>1 DEF FormsInv, OfForm
  <2> QED
    BY <1>4, <2>1, <2>2 DEF FormsInv, Compared, AsTyped, Untouched
<1>7. CASE IsOpen /\ form.diff
  <2>1. Show(saving.answer) /\ typed' = typed
    BY <1>7, <1>10
  <2>2. CASE saving.answer # shown
    <3>1. /\ shown' = saving.answer /\ base' = saving.answer /\ DOMAIN values' = Fields
          /\ wiped' = (wiped \/ DOMAIN typed # {})
          /\ \A k \in Fields : values'[k] = ShownAs(k, saving.answer[k])
      BY <1>1, <1>2, <1>3, <1>5, <1>7, <2>1, <2>2, Refilled
    <3>2. OfForm'
      BY <1>1, <1>5, <2>1, <3>1 DEF FormsInv, OfForm
    <3>3. Compared' /\ AsTyped' /\ Untouched'
      BY <1>1, <2>1, <3>1 DEF Compared, AsTyped, Untouched, AsFilled
    <3> QED
      BY <1>4, <3>2, <3>3 DEF FormsInv
  <2>3. CASE saving.answer = shown
    <3>1. shown' = shown /\ UNCHANGED <<values, base, wiped>>
      BY <1>1, <1>5, <2>1, <2>3, Refilled
    <3>2. IsOpen' /\ base = shown
      BY <1>7, <3>1 DEF IsOpen, FormsInv, Compared
    <3>3. OfForm'
      BY <1>1, <1>3, <1>5, <1>7, <2>1, <3>1, <3>2 DEF FormsInv, OfForm
    <3>4. Compared' /\ AsTyped'
      BY <1>1, <1>7, <2>1, <3>1, <3>2 DEF FormsInv, Compared, AsTyped
    <3>5. ASSUME NEW k \in Fields \ DOMAIN typed PROVE AsFilled(k)
      <4>1. k \in Plain
        BY <1>2, <1>7
      <4>2. k \in DOMAIN saving.patch => saving.answer[k] = saving.patch[k]
        BY <1>1 DEF FormsInv, Sent
      <4> QED
        BY <1>6, <1>7, <2>3, <3>2, <4>1, <4>2, PlainFields DEF AsFilled
    <3>6. Untouched'
      BY <1>1, <2>1, <3>1, <3>5 DEF Untouched, AsFilled, NeverSent
    <3> QED
      BY <1>4, <3>3, <3>4, <3>6 DEF FormsInv
  <2> QED
    BY <2>2, <2>3
<1>8. CASE IsOpen /\ form.page /\ ~form.diff
  <2>1. /\ UNCHANGED <<values, shown, wiped, typed>>
        /\ base' = IF saving.refilled THEN base ELSE Patched(base)
    BY <1>8, <1>10
  <2>2. DOMAIN base' = Fields
    BY <1>5, <2>1 DEF Patched
  <2>3. IsOpen'
    BY <1>8, <2>1 DEF IsOpen
  <2>4. OfForm'
    BY <1>1, <1>3, <1>5, <1>8, <2>1, <2>2, <2>3 DEF FormsInv, OfForm
  <2>5. Compared' /\ AsTyped'
    BY <1>1, <1>8, <2>1 DEF FormsInv, Compared, AsTyped
  <2>6. ASSUME NEW k \in Fields \ DOMAIN typed
        PROVE  values[k] = ShownAs(k, base'[k]) \/ NeverSent(k)
    <3>1. CASE saving.refilled
      BY <1>6, <1>8, <2>1, <3>1 DEF AsFilled
    <3>2. CASE ~saving.refilled /\ k \in DOMAIN saving.patch
      <4>1. base'[k] = saving.patch[k] /\ k \in Plain
        BY <1>2, <1>5, <1>8, <2>1, <3>2 DEF Patched
      <4> QED
        BY <1>6, <1>8, <3>2, <4>1, PlainFields
    <3>3. CASE ~saving.refilled /\ k \notin DOMAIN saving.patch
      BY <1>6, <1>8, <3>3
    <3> QED
      BY <3>1, <3>2, <3>3
  <2>7. Untouched'
    BY <1>1, <2>1, <2>6 DEF Untouched, AsFilled, NeverSent
  <2> QED
    BY <1>4, <2>4, <2>5, <2>7 DEF FormsInv
<1>9. CASE ~form.page /\ ~form.diff
  <2>1. values' = <<>> /\ typed' = <<>> /\ UNCHANGED <<shown, base>>
    BY <1>9, <1>10
  <2>2. ~IsOpen'
    BY <2>1 DEF IsOpen
  <2>3. OfForm'
    BY <1>1, <1>5, <2>1, <2>2 DEF FormsInv, OfForm
  <2> QED
    BY <1>4, <2>2, <2>3 DEF FormsInv, Compared, AsTyped, Untouched
<1> QED
  BY <1>7, <1>8, <1>9, <1>11

LEMMA FormsStep == FormsInv /\ [FormsNext]_formVars => FormsInv'
  BY FormsOpen, FormsClose, FormsType, FormsSave, FormsCommit, FormsRefused, FormsOthers, FormsStutter,
     FormsRefetch, FormsAnswered DEF FormsNext

LEMMA CommitArrives ==
    ASSUME FormsInv, Commit, NEW k \in DOMAIN saving.typed, Arrives(k)
    PROVE  row'[k] = Meant(k, saving.typed[k])
<1>1. IsSaving
  BY DEF Commit
<1>2. k \in DOMAIN saving.patch /\ saving.patch[k] = Meant(k, saving.typed[k])
  BY <1>1 DEF FormsInv, Sent
<1>3. k \in DOMAIN row
  BY <1>1, <1>2, SavingRecord DEF FormsInv, OfForm
<1> QED
  BY <1>2, <1>3 DEF Commit, Patched

LEMMA CommitSpares ==
    ASSUME FormsInv, Commit, NEW k \in DOMAIN row \ DOMAIN saving.typed
    PROVE  \/ row'[k] = row[k]
           \/ ~form.diff /\ row[k] # saving.base[k]
           \/ k = "when" /\ row'[k] = Meant(k, row[k])
           \/ k = "audience" /\ row'[k] = SubSeq(row[k], 1, 1)
<1>1. IsSaving
  BY DEF Commit
<1>2. row'[k] = IF k \in DOMAIN saving.patch THEN saving.patch[k] ELSE row[k]
  BY DEF Commit, Patched
<1>3. CASE k \in DOMAIN saving.patch /\ row[k] = saving.base[k]
  <2>1. ~form.diff /\ row'[k] = Meant(k, ShownAs(k, row[k]))
    BY <1>1, <1>2, <1>3 DEF FormsInv, Sent
  <2> QED
    BY <2>1 DEF Meant, ShownAs
<1>4. CASE k \in DOMAIN saving.patch /\ row[k] # saving.base[k]
  BY <1>1, <1>4 DEF FormsInv, Sent
<1>5. CASE k \notin DOMAIN saving.patch
  BY <1>2, <1>5
<1> QED
  BY <1>3, <1>4, <1>5

(* A save of any of the twelve edit forms writes what the user typed and   *)
(* nothing else, with the exceptions TypedArrives and UntouchedStays name: *)
(* whatever clock, however much is typed and written meanwhile.            *)
THEOREM SavesWhatIsTypedHolds == FormsSpec => SavesWhatIsTyped
<1>1. FormsInv /\ [FormsNext]_formVars =>
        [Commit => \A k \in DOMAIN saving.typed :
           (/\ ~saving.wiped
            /\ saving.typed[k] = Empty => k \in form.clears
            /\ form.diff => saving.typed[k] # saving.base[k])
           => row'[k] = Meant(k, saving.typed[k])]_formVars
  BY CommitArrives DEF Arrives
<1>2. FormsInv /\ [FormsNext]_formVars =>
        [Commit => \A k \in DOMAIN row \ DOMAIN saving.typed :
           \/ row'[k] = row[k]
           \/ ~form.diff /\ row[k] # saving.base[k]
           \/ k = "when" /\ row'[k] = Meant(k, row[k])
           \/ k = "audience" /\ row'[k] = SubSeq(row[k], 1, 1)]_formVars
  BY CommitSpares
<1> QED
  BY <1>1, <1>2, FormsInitInv, FormsStep, PTL DEF FormsSpec, SavesWhatIsTyped, TypedArrives, UntouchedStays
=============================================================================
