------------------------- MODULE PublicationsProofs -------------------------
(***************************************************************************)
(* What holds of documents and announcements for any of them, any readers  *)
(* and requests that overlap, and that the versions of documents implement *)
(* VersionLog.                                                             *)
(***************************************************************************)
EXTENDS Announcements, Documents, TLAPS

-----------------------------------------------------------------------------
(* Documents.                                                              *)

(* The current version is the last.                                        *)
CurrentIsLast ==
    \A d \in DOMAIN docs : docs[d].current = Len(versions[d])

(* A document's category is a row, and who signed it did so when it was    *)
(* published, which it stays.                                              *)
RowsHold ==
    /\ \A d \in DOMAIN docs : docs[d].category \in DOMAIN categories
    /\ \A s \in DOMAIN signed : docs[s[1]].published

(* What a request in flight knows: an edit saw its document unpublished, a *)
(* signature was asked of a reader, a number follows one that exists, a    *)
(* category about to go was empty.                                         *)
Knows(task) ==
    /\ task.kind = "create" =>
          /\ task.category \in DOMAIN categories
          /\ task.category \notin regraded => task.personal = categories[task.category].personal
    /\ task.kind \in {"amend", "replace", "number", "mark", "sign"} => task.doc \in DOMAIN docs
    /\ task.kind = "amend" => ~task.published
    /\ task.kind = "number" => task.next <= Len(versions[task.doc]) + 1
    /\ task.kind = "mark" => (task.flag = "published" => task.to)
    /\ task.kind = "sign" =>
          /\ docs[task.doc].published /\ task.version <= docs[task.doc].current
          /\ task.doc \notin unlocked => task.by \in docs[task.doc].terms.audience
    /\ task.kind = "removeCategory" =>
          task.category \in DOMAIN categories /\ task.filed = {}

TasksKnow == \A k \in DOMAIN tasks : Knows(tasks[k])

DocumentsInv ==
    /\ DocumentsTypeOK /\ CurrentIsLast /\ RowsHold /\ TasksKnow
    /\ SignersAreReaders /\ FiledRight

LEMMA DocumentsInitially == DocumentsInit => DocumentsInv
  <1> SUFFICES ASSUME DocumentsInit PROVE DocumentsInv
    OBVIOUS
  <1>1. /\ DOMAIN docs = {} /\ DOMAIN versions = {} /\ DOMAIN signed = {} /\ DOMAIN tasks = {}
        /\ unlocked = {} /\ astray = {} /\ regraded = {}
    BY DEF DocumentsInit
  <1>2. DOMAIN categories \subseteq Categories /\ \A c \in DOMAIN categories : categories[c] \in Category
    BY DocumentsAssumption DEF DocumentsInit, Category
  <1> QED
    BY <1>1, <1>2 DEF DocumentsInv, DocumentsTypeOK, CurrentIsLast, RowsHold, TasksKnow,
                      SignersAreReaders, FiledRight

-----------------------------------------------------------------------------
(* Requests that begin and end.                                            *)

LEMMA TaskBegins ==
    ASSUME DocumentsInv, NEW k \in Clerks, NEW task \in Task, Knows(task),
           \/ tasks' = Put(tasks, k, task)
           \/ k \in DOMAIN tasks /\ tasks' = [tasks EXCEPT ![k] = task],
           UNCHANGED <<categories, docs, versions, signed, unlocked, astray, regraded>>
    PROVE  DocumentsInv'
  <1>1. /\ DOMAIN tasks' = DOMAIN tasks \union {k}
        /\ \A j \in DOMAIN tasks' : tasks'[j] = IF j = k THEN task ELSE tasks[j]
    BY DEF Put
  <1>2. DocumentsTypeOK'
    BY <1>1 DEF DocumentsInv, DocumentsTypeOK
  <1>3. TasksKnow'
    <2>1. \A t : Knows(t)' <=> Knows(t)
      BY DEF Knows
    <2> QED BY <1>1, <2>1 DEF DocumentsInv, TasksKnow
  <1> QED
    BY <1>2, <1>3 DEF DocumentsInv, CurrentIsLast, RowsHold, SignersAreReaders, FiledRight

LEMMA TaskEnds ==
    ASSUME DocumentsInv, NEW k, Close(k) \/ UNCHANGED tasks
    PROVE  /\ DOMAIN tasks' \subseteq DOMAIN tasks
           /\ \A j \in DOMAIN tasks' : tasks'[j] = tasks[j] /\ tasks[j] \in Task /\ Knows(tasks[j])
  <1>1. /\ DOMAIN tasks' \subseteq DOMAIN tasks
        /\ \A j \in DOMAIN tasks' : tasks'[j] = tasks[j]
    BY DEF Close, Drop, Restrict
  <1> QED BY <1>1 DEF DocumentsInv, DocumentsTypeOK, TasksKnow

LEMMA RejectedKeeps == ASSUME DocumentsInv, NEW k \in Clerks, Rejected(k) PROVE DocumentsInv'
  <1>1. /\ DOMAIN tasks' \subseteq DOMAIN tasks
        /\ \A j \in DOMAIN tasks' : tasks'[j] = tasks[j] /\ tasks[j] \in Task /\ Knows(tasks[j])
    BY TaskEnds DEF Rejected
  <1>2. \A t : Knows(t)' <=> Knows(t)
    BY DEF Rejected, Knows
  <1> QED
    BY <1>1, <1>2 DEF Rejected, DocumentsInv, DocumentsTypeOK, CurrentIsLast, RowsHold, TasksKnow,
                      SignersAreReaders, FiledRight

(* A request that reads begins with a task that knows what it read.        *)
LEMMA ReadsKeep ==
    ASSUME DocumentsInv, NEW k \in Clerks,
           \/ \E c \in Categories :
                 RemoveCategoryRead(k, c) \/ \E personal \in BOOLEAN : CreateRead(k, c, personal)
           \/ \E d \in Docs :
                 \/ ReplaceRead(k, d)
                 \/ \E flag \in Flag, to \in BOOLEAN : MarkRead(k, d, flag, to)
                 \/ \E e \in Readers : SignRead(k, d, e)
                 \/ \E terms \in Terms : AmendRead(k, d, terms)
    PROVE  DocumentsInv'
  <1>0. /\ \A d \in DOMAIN docs : docs[d] \in Doc
        /\ \A c \in DOMAIN categories : categories[c] \in Category
    BY DEF DocumentsInv, DocumentsTypeOK
  <1>1. ASSUME NEW c \in Categories, RemoveCategoryRead(k, c)
        PROVE  DocumentsInv'
    <2> DEFINE task == [kind |-> "removeCategory", category |-> c, filed |-> FiledIn(c)]
    <2>1. task \in Task /\ Knows(task)
      <3>1. FiledIn(c) = {} /\ c \in DOMAIN categories
        BY <1>1 DEF RemoveCategoryRead
      <3> QED BY <3>1 DEF Task, Knows
    <2>2. /\ tasks' = Put(tasks, k, task)
          /\ UNCHANGED <<categories, docs, versions, signed, unlocked, astray, regraded>>
      BY <1>1 DEF RemoveCategoryRead, Begin
    <2> HIDE DEF task
    <2> QED BY <2>1, <2>2, TaskBegins
  <1>2. ASSUME NEW c \in Categories, NEW personal \in BOOLEAN, CreateRead(k, c, personal)
        PROVE  DocumentsInv'
    <2> DEFINE task == [kind |-> "create", category |-> c, personal |-> personal]
    <2>1. task \in Task /\ Knows(task)
      BY <1>2 DEF CreateRead, Task, Knows
    <2>2. /\ tasks' = Put(tasks, k, task)
          /\ UNCHANGED <<categories, docs, versions, signed, unlocked, astray, regraded>>
      BY <1>2 DEF CreateRead, Begin
    <2> HIDE DEF task
    <2> QED BY <2>1, <2>2, TaskBegins
  <1>3. ASSUME NEW d \in Docs, ReplaceRead(k, d)
        PROVE  DocumentsInv'
    <2> DEFINE task == [kind |-> "replace", doc |-> d]
    <2>1. task \in Task /\ Knows(task)
      BY <1>3 DEF ReplaceRead, InUse, Task, Knows
    <2>2. /\ tasks' = Put(tasks, k, task)
          /\ UNCHANGED <<categories, docs, versions, signed, unlocked, astray, regraded>>
      BY <1>3 DEF ReplaceRead, Begin
    <2> HIDE DEF task
    <2> QED BY <2>1, <2>2, TaskBegins
  <1>4. ASSUME NEW d \in Docs, NEW flag \in Flag, NEW to \in BOOLEAN, MarkRead(k, d, flag, to)
        PROVE  DocumentsInv'
    <2> DEFINE task == [kind |-> "mark", doc |-> d, flag |-> flag, to |-> to]
    <2>1. task \in Task
      BY DEF Task
    <2>2. d \in DOMAIN docs /\ (flag = "published" => to)
      BY <1>4 DEF MarkRead
    <2>3. Knows(task)
      BY <2>2 DEF Knows
    <2>4. /\ tasks' = Put(tasks, k, task)
          /\ UNCHANGED <<categories, docs, versions, signed, unlocked, astray, regraded>>
      BY <1>4 DEF MarkRead, Begin
    <2> HIDE DEF task
    <2> QED BY <2>1, <2>3, <2>4, TaskBegins
  <1>5. ASSUME NEW d \in Docs, NEW e \in Readers, SignRead(k, d, e)
        PROVE  DocumentsInv'
    <2> DEFINE task == [kind |-> "sign", doc |-> d, by |-> e, version |-> docs[d].current]
    <2>1. d \in DOMAIN docs /\ docs[d].published /\ e \in docs[d].terms.audience
      BY <1>5 DEF SignRead, InUse
    <2>2. docs[d].current \in 1 .. MaxVersion
      BY <1>0, <2>1 DEF Doc
    <2>3. task \in Task
      BY <2>2 DEF Task
    <2>4. Knows(task)
      BY <2>1, <2>2, DocumentsAssumption DEF Knows
    <2>5. /\ tasks' = Put(tasks, k, task)
          /\ UNCHANGED <<categories, docs, versions, signed, unlocked, astray, regraded>>
      BY <1>5 DEF SignRead, Begin
    <2> HIDE DEF task
    <2> QED BY <2>3, <2>4, <2>5, TaskBegins
  <1>6. ASSUME NEW d \in Docs, NEW terms \in Terms, AmendRead(k, d, terms)
        PROVE  DocumentsInv'
    <2> DEFINE task == [kind |-> "amend", doc |-> d, published |-> docs[d].published, terms |-> terms]
    <2>1. d \in DOMAIN docs /\ docs[d].published = FALSE
      BY <1>0, <1>6 DEF AmendRead, InUse, Doc
    <2>2. task \in Task /\ Knows(task)
      BY <2>1 DEF Task, Knows
    <2>3. /\ tasks' = Put(tasks, k, task)
          /\ UNCHANGED <<categories, docs, versions, signed, unlocked, astray, regraded>>
      BY <1>6 DEF AmendRead, Begin
    <2> HIDE DEF task
    <2> QED BY <2>2, <2>3, TaskBegins
  <1> QED BY <1>1, <1>2, <1>3, <1>4, <1>5, <1>6

LEMMA NumberKeeps == ASSUME DocumentsInv, NEW k \in Clerks, ReplaceNumber(k) PROVE DocumentsInv'
  <1> USE DocumentsAssumption
  <1> DEFINE next == Len(versions[tasks[k].doc]) + 1
             task == [kind |-> "number", doc |-> tasks[k].doc, next |-> next]
  <1>1. /\ k \in DOMAIN tasks /\ tasks[k].kind = "replace" /\ tasks[k] \in Task
        /\ tasks[k].doc \in DOMAIN docs /\ tasks[k].doc \in Docs
        /\ Len(versions[tasks[k].doc]) \in Nat
    BY DEF ReplaceNumber, At, DocumentsInv, DocumentsTypeOK, TasksKnow, Knows
  <1>2. next \in 1 .. MaxVersion
    BY <1>1 DEF ReplaceNumber
  <1>3. task \in Task /\ Knows(task)
    <2>1. task \in Task
      BY <1>1, <1>2 DEF Task
    <2>2. Knows(task)
      BY <1>1 DEF Knows
    <2> QED BY <2>1, <2>2
  <1>4. /\ tasks' = [tasks EXCEPT ![k] = task]
        /\ UNCHANGED <<categories, docs, versions, signed, unlocked, astray, regraded>>
    BY DEF ReplaceNumber
  <1> HIDE DEF task
  <1> QED BY <1>1, <1>3, <1>4, TaskBegins

-----------------------------------------------------------------------------
(* Categories.                                                             *)

(* A step that writes categories only.                                     *)
LEMMA CategoriesWritten ==
    ASSUME DocumentsInv, NEW k, Close(k) \/ UNCHANGED tasks,
           DOMAIN categories \subseteq DOMAIN categories', DOMAIN categories' \subseteq Categories,
           \A c \in DOMAIN categories' : categories'[c] \in Category,
           regraded \subseteq regraded', regraded' \subseteq DOMAIN categories',
           astray \subseteq astray', astray' \subseteq DOMAIN docs,
           \A c \in DOMAIN categories \ regraded' : categories'[c].personal = categories[c].personal,
           \A d \in DOMAIN docs \ astray' :
               ~docs[d].deleted /\ categories[docs[d].category].live
                   => categories'[docs[d].category].live,
           UNCHANGED <<docs, versions, signed, unlocked>>
    PROVE  DocumentsInv'
  <1>1. /\ DOMAIN tasks' \subseteq DOMAIN tasks
        /\ \A j \in DOMAIN tasks' : tasks'[j] = tasks[j] /\ tasks[j] \in Task /\ Knows(tasks[j])
    BY TaskEnds
  <1>2. DocumentsTypeOK'
    BY <1>1 DEF DocumentsInv, DocumentsTypeOK
  <1>3. TasksKnow'
    <2>1. \A t : Knows(t) => Knows(t)'
      BY DEF Knows
    <2> QED BY <1>1, <2>1 DEF TasksKnow
  <1>4. FiledRight'
    BY DEF DocumentsInv, RowsHold, FiledRight
  <1> QED BY <1>2, <1>3, <1>4 DEF DocumentsInv, CurrentIsLast, RowsHold, SignersAreReaders

LEMMA CategoryStepsKeep ==
    ASSUME DocumentsInv, NEW c \in Categories, NEW active \in BOOLEAN, NEW personal \in BOOLEAN,
           CreateCategory(c, active, personal) \/ UpdateCategory(c, active, personal) \/ RestoreCategory(c)
    PROVE  DocumentsInv'
  <1>0. /\ DOMAIN categories \subseteq Categories
        /\ \A b \in DOMAIN categories : categories[b] \in Category
        /\ regraded \subseteq DOMAIN categories /\ astray \subseteq DOMAIN docs
        /\ \A d \in DOMAIN docs : docs[d].category \in DOMAIN categories
    BY DEF DocumentsInv, DocumentsTypeOK, RowsHold
  <1>1. CASE CreateCategory(c, active, personal)
    <2>1. /\ DOMAIN categories' = DOMAIN categories \union {c}
          /\ \A b \in DOMAIN categories : categories'[b] = categories[b]
          /\ \A b \in DOMAIN categories' : categories'[b] \in Category
      BY <1>0, <1>1 DEF CreateCategory, Put, Category
    <2> QED BY <1>0, <1>1, <2>1, CategoriesWritten DEF CreateCategory
  <1>2. CASE UpdateCategory(c, active, personal)
    <2>1. /\ DOMAIN categories' = DOMAIN categories
          /\ \A b \in DOMAIN categories : categories'[b] \in Category
          /\ \A b \in DOMAIN categories : categories'[b].live = categories[b].live
          /\ \A b \in DOMAIN categories \ {c} : categories'[b] = categories[b]
          /\ c \in DOMAIN categories /\ categories'[c].personal = personal
      BY <1>0, <1>2 DEF UpdateCategory, Category
    <2>2. /\ regraded' = IF personal # categories[c].personal THEN regraded \union {c} ELSE regraded
          /\ UNCHANGED <<docs, versions, signed, tasks, unlocked, astray>>
      BY <1>2 DEF UpdateCategory, NoteIf
    <2>3. \A b \in DOMAIN categories \ regraded' : categories'[b].personal = categories[b].personal
      BY <2>1, <2>2
    <2> QED BY <1>0, <2>1, <2>2, <2>3, CategoriesWritten
  <1>3. CASE RestoreCategory(c)
    <2>1. /\ DOMAIN categories' = DOMAIN categories
          /\ \A b \in DOMAIN categories : categories'[b] \in Category
          /\ \A b \in DOMAIN categories : categories[b].live => categories'[b].live
          /\ \A b \in DOMAIN categories : categories'[b].personal = categories[b].personal
      BY <1>0, <1>3 DEF RestoreCategory, Category
    <2> QED BY <1>0, <1>3, <2>1, CategoriesWritten DEF RestoreCategory
  <1> QED BY <1>1, <1>2, <1>3

LEMMA RemoveCategoryKeeps ==
    ASSUME DocumentsInv, NEW k \in Clerks, RemoveCategoryCommit(k)
    PROVE  DocumentsInv'
  <1>0. /\ DOMAIN categories \subseteq Categories
        /\ \A b \in DOMAIN categories : categories[b] \in Category
        /\ regraded \subseteq DOMAIN categories /\ astray \subseteq DOMAIN docs
        /\ \A d \in DOMAIN docs : docs[d].category \in DOMAIN categories
    BY DEF DocumentsInv, DocumentsTypeOK, RowsHold
  <1>1. PICK c \in DOMAIN categories : c = tasks[k].category /\ tasks[k].filed = {}
    BY DEF RemoveCategoryCommit, At, DocumentsInv, TasksKnow, Knows
  <1>2. /\ categories' = [categories EXCEPT ![c].live = FALSE]
        /\ astray' = astray \union FiledIn(c)
        /\ Close(k) /\ UNCHANGED <<docs, versions, signed, unlocked, regraded>>
    BY <1>1 DEF RemoveCategoryCommit
  <1>3. /\ DOMAIN categories' = DOMAIN categories
        /\ \A b \in DOMAIN categories : categories'[b] \in Category
        /\ \A b \in DOMAIN categories \ {c} : categories'[b] = categories[b]
        /\ \A b \in DOMAIN categories : categories'[b].personal = categories[b].personal
    BY <1>0, <1>2 DEF Category
  <1>4. /\ FiledIn(c) \subseteq DOMAIN docs
        /\ \A d \in DOMAIN docs \ astray' : ~docs[d].deleted => docs[d].category # c
    BY <1>2 DEF FiledIn
  <1> QED BY <1>0, <1>2, <1>3, <1>4, CategoriesWritten

-----------------------------------------------------------------------------
(* Documents.                                                              *)

(* What a step that writes documents starts from.                          *)
LEMMA DocumentsHold ==
    ASSUME DocumentsInv
    PROVE  /\ DOMAIN docs \subseteq Docs /\ DOMAIN versions = DOMAIN docs
           /\ \A d \in DOMAIN docs : docs[d] \in Doc /\ versions[d] \in Seq(Files)
           /\ \A d \in DOMAIN docs : docs[d].current = Len(versions[d])
           /\ \A d \in DOMAIN docs : docs[d].category \in DOMAIN categories
           /\ \A s \in DOMAIN signed : s[1] \in DOMAIN docs /\ s[2] \in Readers
           /\ \A k \in DOMAIN tasks : tasks[k] \in Task /\ Knows(tasks[k])
  BY DEF DocumentsInv, DocumentsTypeOK, CurrentIsLast, RowsHold, TasksKnow

LEMMA CreateKeeps ==
    ASSUME DocumentsInv, NEW k \in Clerks, NEW d \in Docs, NEW f \in Files, NEW terms \in Terms,
           NEW published \in BOOLEAN, CreateCommit(k, d, f, terms, published)
    PROVE  DocumentsInv'
  <1>0. MaxVersion \in Nat /\ MaxVersion >= 1
    BY DocumentsAssumption
  <1>1. /\ DOMAIN tasks' \subseteq DOMAIN tasks
        /\ \A j \in DOMAIN tasks' : tasks'[j] = tasks[j] /\ tasks[j] \in Task /\ Knows(tasks[j])
    BY TaskEnds DEF CreateCommit
  <1>2. PICK c \in DOMAIN categories, personal \in BOOLEAN :
           /\ c = tasks[k].category /\ personal = tasks[k].personal
           /\ c \in Categories
           /\ c \notin regraded => personal = categories[c].personal
    BY DocumentsHold DEF CreateCommit, At, Task, Knows
  <1>3. PICK row \in Doc :
           /\ row = [category |-> c, personal |-> personal, terms |-> terms,
                     published |-> published, archived |-> FALSE, deleted |-> FALSE, current |-> 1]
    <2>1. [category |-> c, personal |-> personal, terms |-> terms, published |-> published,
           archived |-> FALSE, deleted |-> FALSE, current |-> 1] \in Doc
      BY <1>0, <1>2 DEF Doc
    <2> QED BY <2>1
  <1>4. /\ row.category = c /\ row.personal = personal /\ row.current = 1
        /\ d \notin DOMAIN docs
        /\ docs' = Put(docs, d, row) /\ versions' = Put(versions, d, <<f>>)
        /\ astray' = NoteIf(~categories[c].live, astray, d)
        /\ UNCHANGED <<categories, signed, unlocked, regraded>>
    BY <1>2, <1>3 DEF CreateCommit
  <1>5. /\ DOMAIN docs' = DOMAIN docs \union {d} /\ DOMAIN versions' = DOMAIN versions \union {d}
        /\ docs'[d] = row /\ versions'[d] = <<f>>
        /\ \A e \in DOMAIN docs : docs'[e] = docs[e] /\ versions'[e] = versions[e]
        /\ versions'[d] \in Seq(Files) /\ Len(versions'[d]) = 1
    BY <1>4, DocumentsHold DEF Put
  <1> HIDE DEF Doc
  <1>6. /\ astray \subseteq astray' /\ astray' \subseteq astray \union {d}
        /\ ~categories[c].live => d \in astray'
    BY <1>4 DEF NoteIf
  <1>7. DocumentsTypeOK'
    <2>1. /\ DOMAIN docs' \subseteq Docs /\ DOMAIN versions' = DOMAIN docs'
          /\ \A e \in DOMAIN docs' : docs'[e] \in Doc /\ versions'[e] \in Seq(Files)
      BY <1>5, DocumentsHold
    <2>2. DOMAIN signed' \subseteq (DOMAIN docs') \X Readers
      BY <1>4, <1>5 DEF DocumentsInv, DocumentsTypeOK
    <2> QED BY <1>1, <1>4, <1>5, <1>6, <2>1, <2>2 DEF DocumentsInv, DocumentsTypeOK
  <1>8. CurrentIsLast' /\ RowsHold'
    <2>1. CurrentIsLast'
      BY <1>4, <1>5, DocumentsHold DEF CurrentIsLast
    <2>2. \A e \in DOMAIN docs' : docs'[e].category \in DOMAIN categories'
      BY <1>4, <1>5, DocumentsHold
    <2>3. \A s \in DOMAIN signed' : docs'[s[1]].published
      BY <1>4, <1>5, DocumentsHold DEF DocumentsInv, RowsHold
    <2> QED BY <2>1, <2>2, <2>3 DEF RowsHold
  <1>9. TasksKnow'
    <2>1. \A t : Knows(t) => Knows(t)'
      BY <1>4, <1>5, DocumentsHold DEF Knows
    <2> QED BY <1>1, <2>1 DEF TasksKnow
  <1>10. SignersAreReaders'
    BY <1>4, <1>5, DocumentsHold DEF DocumentsInv, SignersAreReaders
  <1>11. FiledRight'
    BY <1>2, <1>4, <1>5, <1>6 DEF DocumentsInv, FiledRight
  <1> QED BY <1>7, <1>8, <1>9, <1>10, <1>11 DEF DocumentsInv

(* An edit that publishing overtook is one the history tells; before that  *)
(* nobody had signed or was about to.                                      *)
LEMMA AmendKeeps == ASSUME DocumentsInv, NEW k \in Clerks, AmendCommit(k) PROVE DocumentsInv'
  <1>1. /\ DOMAIN tasks' \subseteq DOMAIN tasks
        /\ \A j \in DOMAIN tasks' : tasks'[j] = tasks[j] /\ tasks[j] \in Task /\ Knows(tasks[j])
    BY TaskEnds DEF AmendCommit
  <1>2. PICK d \in DOMAIN docs, terms \in Terms :
           d = tasks[k].doc /\ terms = tasks[k].terms /\ tasks[k].published = FALSE
    BY DocumentsHold DEF AmendCommit, At, Task, Knows
  <1>3. /\ docs' = [docs EXCEPT ![d].terms = terms]
        /\ unlocked' = NoteIf(docs[d].published # FALSE, unlocked, d)
        /\ UNCHANGED <<categories, versions, signed, astray, regraded>>
    BY <1>2 DEF AmendCommit
  <1>4. docs[d] \in Doc
    BY DocumentsHold
  <1>5. /\ DOMAIN docs' = DOMAIN docs
        /\ docs'[d] \in Doc
        /\ \A e \in DOMAIN docs \ {d} : docs'[e] = docs[e]
        /\ docs'[d].category = docs[d].category /\ docs'[d].personal = docs[d].personal
        /\ docs'[d].published = docs[d].published /\ docs'[d].deleted = docs[d].deleted
        /\ docs'[d].current = docs[d].current
    BY <1>3, <1>4 DEF Doc
  <1>6. /\ unlocked \subseteq unlocked' /\ unlocked' \subseteq unlocked \union {d}
        /\ docs[d].published => d \in unlocked'
    BY <1>3, <1>4 DEF NoteIf, Doc
  <1> HIDE DEF Doc
  <1>7. DocumentsTypeOK'
    BY <1>1, <1>3, <1>5, <1>6, DocumentsHold DEF DocumentsInv, DocumentsTypeOK
  <1>8. CurrentIsLast' /\ RowsHold'
    BY <1>3, <1>5, DocumentsHold DEF DocumentsInv, CurrentIsLast, RowsHold
  <1>9. TasksKnow'
    <2>1. \A e \in DOMAIN docs :
             /\ docs'[e].published = docs[e].published /\ docs'[e].current = docs[e].current
             /\ docs[e].published /\ e \notin unlocked' =>
                   docs'[e] = docs[e] /\ e \notin unlocked
      BY <1>5, <1>6
    <2>2. UNCHANGED <<categories, versions, regraded>> /\ DOMAIN docs' = DOMAIN docs
      BY <1>3, <1>5
    <2>3. \A t : Knows(t) => Knows(t)'
      BY <2>1, <2>2 DEF Knows
    <2> QED BY <1>1, <2>3 DEF TasksKnow
  <1>10. SignersAreReaders'
    <2>1. \A s \in DOMAIN signed : docs[s[1]].published /\ s[1] \in DOMAIN docs
      BY DocumentsHold DEF DocumentsInv, RowsHold
    <2>2. \A e \in DOMAIN docs :
             /\ docs'[e].current = docs[e].current
             /\ docs[e].published /\ e \notin unlocked' =>
                   docs'[e] = docs[e] /\ e \notin unlocked
      BY <1>5, <1>6
    <2> QED BY <1>3, <2>1, <2>2 DEF DocumentsInv, SignersAreReaders
  <1>11. FiledRight'
    BY <1>3, <1>5 DEF DocumentsInv, FiledRight
  <1> QED BY <1>7, <1>8, <1>9, <1>10, <1>11 DEF DocumentsInv

(* A number that the key lets through follows the last.                    *)
LEMMA ReplaceAppends ==
    ASSUME DocumentsInv, NEW k \in Clerks, NEW f \in Files, ReplaceCommit(k, f)
    PROVE  \E d \in DOMAIN docs :
              /\ Len(versions[d]) + 1 \in 1 .. MaxVersion
              /\ versions' = [versions EXCEPT ![d] = Append(versions[d], f)]
              /\ docs' = [docs EXCEPT ![d].current = Len(versions[d]) + 1]
  <1>1. PICK d \in DOMAIN docs, next \in 1 .. MaxVersion :
           d = tasks[k].doc /\ next = tasks[k].next /\ next <= Len(versions[d]) + 1
    BY DocumentsHold DEF ReplaceCommit, At, Task, Knows
  <1>2. /\ next \notin DOMAIN versions[d]
        /\ versions' = [versions EXCEPT ![d] = Put(versions[d], next, f)]
        /\ docs' = [docs EXCEPT ![d].current = next]
    BY <1>1 DEF ReplaceCommit
  <1>3. versions[d] \in Seq(Files) /\ Len(versions[d]) \in Nat /\ DOMAIN versions[d] = 1 .. Len(versions[d])
    BY DocumentsHold
  <1>4. next = Len(versions[d]) + 1
    BY <1>1, <1>2, <1>3, DocumentsAssumption
  <1>5. Put(versions[d], next, f) = Append(versions[d], f)
    <2>1. DOMAIN versions[d] \union {next} = 1 .. Len(versions[d]) + 1
      BY <1>3, <1>4
    <2>2. Append(versions[d], f) = [i \in 1 .. Len(versions[d]) + 1 |->
                                       IF i = Len(versions[d]) + 1 THEN f ELSE versions[d][i]]
      BY <1>3
    <2> QED BY <1>4, <2>1, <2>2 DEF Put
  <1> QED BY <1>1, <1>2, <1>4, <1>5

LEMMA ReplaceKeeps ==
    ASSUME DocumentsInv, NEW k \in Clerks, NEW f \in Files, ReplaceCommit(k, f)
    PROVE  DocumentsInv'
  <1>0. MaxVersion \in Nat
    BY DocumentsAssumption
  <1>1. /\ DOMAIN tasks' \subseteq DOMAIN tasks
        /\ \A j \in DOMAIN tasks' : tasks'[j] = tasks[j] /\ tasks[j] \in Task /\ Knows(tasks[j])
    BY TaskEnds DEF ReplaceCommit
  <1>2. PICK d \in DOMAIN docs :
           /\ Len(versions[d]) + 1 \in 1 .. MaxVersion
           /\ versions' = [versions EXCEPT ![d] = Append(versions[d], f)]
           /\ docs' = [docs EXCEPT ![d].current = Len(versions[d]) + 1]
    BY ReplaceAppends
  <1>3. UNCHANGED <<categories, signed, unlocked, astray, regraded>>
    BY DEF ReplaceCommit
  <1>4. docs[d] \in Doc /\ versions[d] \in Seq(Files) /\ Len(versions[d]) \in Nat
    BY DocumentsHold
  <1>5. /\ DOMAIN docs' = DOMAIN docs
        /\ docs'[d] \in Doc
        /\ \A e \in DOMAIN docs \ {d} : docs'[e] = docs[e]
        /\ docs'[d].category = docs[d].category /\ docs'[d].personal = docs[d].personal
        /\ docs'[d].published = docs[d].published /\ docs'[d].deleted = docs[d].deleted
        /\ docs'[d].terms = docs[d].terms /\ docs'[d].current = Len(versions[d]) + 1
    BY <1>2, <1>4 DEF Doc
  <1>6. /\ DOMAIN versions' = DOMAIN versions
        /\ versions'[d] \in Seq(Files) /\ Len(versions'[d]) = Len(versions[d]) + 1
        /\ \A e \in DOMAIN versions \ {d} : versions'[e] = versions[e]
    <2>1. d \in DOMAIN versions
      BY DocumentsHold
    <2>2. versions'[d] = Append(versions[d], f)
      BY <1>2, <2>1
    <2>3. Append(versions[d], f) \in Seq(Files) /\ Len(Append(versions[d], f)) = Len(versions[d]) + 1
      BY <1>4
    <2> QED BY <1>2, <2>1, <2>2, <2>3
  <1>7. DocumentsTypeOK'
    BY <1>1, <1>3, <1>5, <1>6, DocumentsHold DEF DocumentsInv, DocumentsTypeOK
  <1>8. CurrentIsLast' /\ RowsHold'
    BY <1>3, <1>5, <1>6, DocumentsHold DEF DocumentsInv, CurrentIsLast, RowsHold
  <1>9. \A e \in DOMAIN docs : /\ docs'[e].published = docs[e].published /\ docs'[e].terms = docs[e].terms
                               /\ Len(versions'[e]) \in Nat /\ Len(versions[e]) \in Nat
                               /\ Len(versions[e]) <= Len(versions'[e])
                               /\ docs[e].current = Len(versions[e]) /\ docs'[e].current = Len(versions'[e])
    <2> SUFFICES ASSUME NEW e \in DOMAIN docs
                 PROVE  /\ docs'[e].published = docs[e].published /\ docs'[e].terms = docs[e].terms
                        /\ Len(versions'[e]) \in Nat /\ Len(versions[e]) \in Nat
                        /\ Len(versions[e]) <= Len(versions'[e])
                        /\ docs[e].current = Len(versions[e]) /\ docs'[e].current = Len(versions'[e])
      OBVIOUS
    <2>1. versions[e] \in Seq(Files) /\ Len(versions[e]) \in Nat /\ docs[e].current = Len(versions[e])
      BY DocumentsHold
    <2>2. CASE e = d
      BY <1>4, <1>5, <1>6, <2>1, <2>2
    <2>3. CASE e # d
      <3>1. docs'[e] = docs[e] /\ versions'[e] = versions[e]
        BY <1>5, <1>6, <2>3, DocumentsHold
      <3> QED BY <2>1, <3>1
    <2> QED BY <2>2, <2>3
  <1>10. TasksKnow'
    <2>1. \A t \in Task : Knows(t) => Knows(t)'
      <3> SUFFICES ASSUME NEW t \in Task, Knows(t) PROVE Knows(t)'
        OBVIOUS
      <3>1. t.kind = "number" => t.next \in Nat
        BY <1>0 DEF Task
      <3>2. t.kind = "sign" => t.version \in Nat
        BY <1>0 DEF Task
      <3> QED BY <1>3, <1>5, <1>9, <3>1, <3>2 DEF Knows
    <2> QED BY <1>1, <2>1 DEF TasksKnow
  <1>11. SignersAreReaders'
    BY SMTT(30), <1>3, <1>9, DocumentsHold DEF DocumentsInv, SignersAreReaders
  <1>12. FiledRight'
    BY <1>3, <1>5 DEF DocumentsInv, FiledRight
  <1> QED BY <1>7, <1>8, <1>10, <1>11, <1>12 DEF DocumentsInv

(* What publishing, archiving, deleting and restoring leave alone; nothing *)
(* unpublishes.                                                            *)
LEMMA MarkWrites ==
    ASSUME DocumentsInv, NEW k \in Clerks, MarkCommit(k)
    PROVE  \E d \in DOMAIN docs :
              /\ DOMAIN docs' = DOMAIN docs
              /\ docs'[d] \in Doc
              /\ \A e \in DOMAIN docs \ {d} : docs'[e] = docs[e]
              /\ docs'[d].category = docs[d].category /\ docs'[d].personal = docs[d].personal
              /\ docs'[d].terms = docs[d].terms /\ docs'[d].current = docs[d].current
              /\ docs[d].published => docs'[d].published
              /\ astray' = NoteIf(~docs'[d].deleted /\ ~categories[docs[d].category].live, astray, d)
  <1>1. PICK d \in DOMAIN docs, flag \in Flag, to \in BOOLEAN :
           d = tasks[k].doc /\ flag = tasks[k].flag /\ to = tasks[k].to /\ (flag = "published" => to)
    BY DocumentsHold DEF MarkCommit, At, Task, Knows
  <1>2. /\ docs' = [docs EXCEPT ![d] = [docs[d] EXCEPT ![flag] = to]]
        /\ astray' = NoteIf(~docs'[d].deleted /\ ~categories[docs[d].category].live, astray, d)
    BY <1>1 DEF MarkCommit
  <1>3. docs[d] \in Doc
    BY DocumentsHold
  <1>4. /\ DOMAIN docs' = DOMAIN docs /\ docs'[d] = [docs[d] EXCEPT ![flag] = to]
        /\ \A e \in DOMAIN docs \ {d} : docs'[e] = docs[e]
    BY <1>2
  <1>5. CASE flag = "published"
    <2>1. docs'[d] = [docs[d] EXCEPT !.published = TRUE]
      BY <1>1, <1>4, <1>5
    <2> QED BY <1>2, <1>3, <1>4, <2>1 DEF Doc
  <1>6. CASE flag = "archived"
    <2>1. docs'[d] = [docs[d] EXCEPT !.archived = to]
      BY <1>4, <1>6
    <2> QED BY <1>2, <1>3, <1>4, <2>1 DEF Doc
  <1>7. CASE flag = "deleted"
    <2>1. docs'[d] = [docs[d] EXCEPT !.deleted = to]
      BY <1>4, <1>7
    <2> QED BY <1>2, <1>3, <1>4, <2>1 DEF Doc
  <1> QED BY <1>5, <1>6, <1>7 DEF Flag

LEMMA MarkKeeps == ASSUME DocumentsInv, NEW k \in Clerks, MarkCommit(k) PROVE DocumentsInv'
  <1>1. /\ DOMAIN tasks' \subseteq DOMAIN tasks
        /\ \A j \in DOMAIN tasks' : tasks'[j] = tasks[j] /\ tasks[j] \in Task /\ Knows(tasks[j])
    BY TaskEnds DEF MarkCommit
  <1>2. PICK d \in DOMAIN docs :
              /\ DOMAIN docs' = DOMAIN docs
              /\ docs'[d] \in Doc
              /\ \A e \in DOMAIN docs \ {d} : docs'[e] = docs[e]
              /\ docs'[d].category = docs[d].category /\ docs'[d].personal = docs[d].personal
              /\ docs'[d].terms = docs[d].terms /\ docs'[d].current = docs[d].current
              /\ docs[d].published => docs'[d].published
              /\ astray' = NoteIf(~docs'[d].deleted /\ ~categories[docs[d].category].live, astray, d)
    BY MarkWrites
  <1>3. UNCHANGED <<categories, versions, signed, unlocked, regraded>>
    BY DEF MarkCommit
  <1>4. /\ astray \subseteq astray' /\ astray' \subseteq astray \union {d}
        /\ ~docs'[d].deleted /\ ~categories[docs[d].category].live => d \in astray'
    BY <1>2 DEF NoteIf
  <1>5. \A e \in DOMAIN docs :
           /\ docs'[e].category = docs[e].category /\ docs'[e].terms = docs[e].terms
           /\ docs'[e].current = docs[e].current /\ docs'[e].personal = docs[e].personal
           /\ docs[e].published => docs'[e].published
    BY <1>2
  <1>6. DocumentsTypeOK'
    BY <1>1, <1>2, <1>3, <1>4, DocumentsHold DEF DocumentsInv, DocumentsTypeOK
  <1>7. CurrentIsLast' /\ RowsHold'
    <2>1. CurrentIsLast'
      BY <1>2, <1>3, <1>5, DocumentsHold DEF CurrentIsLast
    <2>2. \A e \in DOMAIN docs' : docs'[e].category \in DOMAIN categories'
      BY <1>2, <1>3, <1>5, DocumentsHold
    <2>3. \A s \in DOMAIN signed' : docs'[s[1]].published
      BY <1>3, <1>5, DocumentsHold DEF DocumentsInv, RowsHold
    <2> QED BY <2>1, <2>2, <2>3 DEF RowsHold
  <1>8. TasksKnow'
    <2>1. \A t : Knows(t) => Knows(t)'
      BY <1>2, <1>3, <1>5 DEF Knows
    <2> QED BY <1>1, <2>1 DEF TasksKnow
  <1>9. SignersAreReaders'
    BY <1>3, <1>5, DocumentsHold DEF DocumentsInv, SignersAreReaders
  <1>10. FiledRight'
    BY <1>2, <1>3, <1>4, <1>5 DEF DocumentsInv, FiledRight
  <1> QED BY <1>6, <1>7, <1>8, <1>9, <1>10 DEF DocumentsInv

(* A signature is that of a reader, and of a version there is.             *)
LEMMA SignKeeps == ASSUME DocumentsInv, NEW k \in Clerks, SignCommit(k) PROVE DocumentsInv'
  <1>0. MaxVersion \in Nat
    BY DocumentsAssumption
  <1>1. /\ DOMAIN tasks' \subseteq DOMAIN tasks
        /\ \A j \in DOMAIN tasks' : tasks'[j] = tasks[j] /\ tasks[j] \in Task /\ Knows(tasks[j])
    BY TaskEnds DEF SignCommit
  <1>2. PICK d \in DOMAIN docs, e \in Readers, version \in 1 .. MaxVersion :
           /\ d = tasks[k].doc /\ e = tasks[k].by /\ version = tasks[k].version
           /\ docs[d].published /\ version <= docs[d].current
           /\ d \notin unlocked => e \in docs[d].terms.audience
    BY DocumentsHold DEF SignCommit, At, Task, Knows
  <1>3. /\ signed' = Put(signed, <<d, e>>, version)
        /\ UNCHANGED <<categories, docs, versions, unlocked, astray, regraded>>
    BY <1>2 DEF SignCommit
  <1>4. /\ DOMAIN signed' = DOMAIN signed \union {<<d, e>>}
        /\ \A s \in DOMAIN signed' : signed'[s] = IF s = <<d, e>> THEN version ELSE signed[s]
    BY <1>3 DEF Put
  <1>5. version \in 1 .. docs[d].current
    <2>1. docs[d].current \in 1 .. MaxVersion
      BY DocumentsHold DEF Doc
    <2> QED BY <1>0, <1>2, <2>1
  <1>6. DocumentsTypeOK'
    BY <1>1, <1>3, <1>4, DocumentsHold DEF DocumentsInv, DocumentsTypeOK
  <1>7. CurrentIsLast' /\ RowsHold'
    BY <1>2, <1>3, <1>4 DEF DocumentsInv, CurrentIsLast, RowsHold
  <1>8. TasksKnow'
    <2>1. \A t : Knows(t) => Knows(t)'
      BY <1>3 DEF Knows
    <2> QED BY <1>1, <2>1 DEF TasksKnow
  <1>9. SignersAreReaders'
    BY <1>2, <1>3, <1>4, <1>5 DEF DocumentsInv, SignersAreReaders
  <1>10. FiledRight'
    BY <1>3 DEF DocumentsInv, FiledRight
  <1> QED BY <1>6, <1>7, <1>8, <1>9, <1>10 DEF DocumentsInv

-----------------------------------------------------------------------------
THEOREM DocumentsInvariant == DocumentsSpec => []DocumentsInv
  <1>1. DocumentsInv /\ [DocumentsNext]_docVars => DocumentsInv'
    <2> SUFFICES ASSUME DocumentsInv, [DocumentsNext]_docVars PROVE DocumentsInv'
      OBVIOUS
    <2>1. CASE UNCHANGED docVars
      <3>1. TasksKnow'
        BY <2>1 DEF docVars, DocumentsInv, TasksKnow, Knows
      <3> QED BY <2>1, <3>1 DEF docVars, DocumentsInv, DocumentsTypeOK, CurrentIsLast, RowsHold,
                                SignersAreReaders, FiledRight
    <2>2. ASSUME NEW c \in Categories,
                 \/ RestoreCategory(c)
                 \/ \E active, personal \in BOOLEAN :
                       CreateCategory(c, active, personal) \/ UpdateCategory(c, active, personal)
          PROVE  DocumentsInv'
      BY <2>2, CategoryStepsKeep
    <2>3. ASSUME NEW k \in Clerks,
                 \/ RemoveCategoryCommit(k) \/ AmendCommit(k) \/ ReplaceNumber(k)
                 \/ MarkCommit(k) \/ SignCommit(k) \/ Rejected(k)
                 \/ \E f \in Files : ReplaceCommit(k, f)
          PROVE  DocumentsInv'
      BY <2>3, RemoveCategoryKeeps, AmendKeeps, NumberKeeps, MarkKeeps, SignKeeps, RejectedKeeps,
         ReplaceKeeps
    <2>4. ASSUME NEW k \in Clerks, NEW d \in Docs, NEW terms \in Terms, NEW f \in Files,
                 NEW published \in BOOLEAN, CreateCommit(k, d, f, terms, published)
          PROVE  DocumentsInv'
      BY <2>4, CreateKeeps
    <2>5. ASSUME NEW k \in Clerks,
                 \/ \E c \in Categories :
                       RemoveCategoryRead(k, c) \/ \E personal \in BOOLEAN : CreateRead(k, c, personal)
                 \/ \E d \in Docs :
                       \/ ReplaceRead(k, d)
                       \/ \E flag \in Flag, to \in BOOLEAN : MarkRead(k, d, flag, to)
                       \/ \E e \in Readers : SignRead(k, d, e)
                       \/ \E terms \in Terms : AmendRead(k, d, terms)
          PROVE  DocumentsInv'
      BY <2>5, ReadsKeep
    <2> QED BY <2>1, <2>2, <2>3, <2>4, <2>5 DEF DocumentsNext
  <1> QED BY DocumentsInitially, <1>1, PTL DEF DocumentsSpec

(* The tables, the requests and the histories stay well formed             *)
(* (documents.service.ts, document-categories.service.ts).                 *)
THEOREM DocumentsTypeCorrect == DocumentsSpec => []DocumentsTypeOK
  <1>1. DocumentsInv => DocumentsTypeOK
    BY DEF DocumentsInv
  <1> QED BY DocumentsInvariant, <1>1, PTL

(* Whoever acknowledged a document is one it is meant for, and he          *)
(* acknowledged a version there is (acknowledge,                           *)
(* documents.service.ts:514-564).                                          *)
THEOREM SignersAreReadersHolds == DocumentsSpec => []SignersAreReaders
  <1>1. DocumentsInv => SignersAreReaders
    BY DEF DocumentsInv
  <1> QED BY DocumentsInvariant, <1>1, PTL

(* A live document is in a live category of its own kind                   *)
(* (document-categories.service.ts:135-142, documents.service.ts:171-180). *)
THEOREM FiledRightHolds == DocumentsSpec => []FiledRight
  <1>1. DocumentsInv => FiledRight
    BY DEF DocumentsInv
  <1> QED BY DocumentsInvariant, <1>1, PTL

-----------------------------------------------------------------------------
(* The versions implement the log.                                         *)

Log   == [d \in Docs |-> IF d \in DOMAIN versions THEN versions[d] ELSE << >>]
Shown == [d \in Docs |-> IF d \in DOMAIN docs THEN versions[d][docs[d].current] ELSE Nothing]

LEMMA CreateAdds ==
    ASSUME DocumentsInv, NEW k \in Clerks, NEW d \in Docs, NEW f \in Files, NEW terms \in Terms,
           NEW published \in BOOLEAN, CreateCommit(k, d, f, terms, published)
    PROVE  AbstractLog!AddVersion(d, f)
  <1>1. /\ d \notin DOMAIN docs /\ d \notin DOMAIN versions
        /\ DOMAIN docs' = DOMAIN docs \union {d} /\ DOMAIN versions' = DOMAIN versions \union {d}
        /\ docs'[d].current = 1 /\ versions'[d] = <<f>>
        /\ \A e \in DOMAIN docs : docs'[e] = docs[e] /\ versions'[e] = versions[e]
    BY DocumentsHold DEF CreateCommit, Put
  <1>2. Log' = [Log EXCEPT ![d] = Append(Log[d], f)]
    <2>1. Append(<< >>, f) = <<f>>
      OBVIOUS
    <2>2. Log[d] = << >>
      BY <1>1 DEF Log
    <2> QED BY <1>1, <2>1, <2>2, DocumentsHold DEF Log
  <1>3. Shown' = [Shown EXCEPT ![d] = f]
    <2>1. Shown'[d] = f
      BY <1>1, <<f>>[1] = f DEF Shown
    <2>2. \A e \in Docs \ {d} : Shown'[e] = Shown[e]
      BY <1>1, DocumentsHold DEF Shown
    <2> QED BY <2>1, <2>2 DEF Shown
  <1> QED BY <1>2, <1>3 DEF AbstractLog!AddVersion, Log, Shown

LEMMA ReplaceAdds ==
    ASSUME DocumentsInv, NEW k \in Clerks, NEW f \in Files, ReplaceCommit(k, f)
    PROVE  \E d \in Docs : AbstractLog!AddVersion(d, f)
  <1>1. PICK d \in DOMAIN docs :
           /\ versions' = [versions EXCEPT ![d] = Append(versions[d], f)]
           /\ docs' = [docs EXCEPT ![d].current = Len(versions[d]) + 1]
    BY ReplaceAppends
  <1>2. d \in Docs /\ d \in DOMAIN versions /\ docs[d] \in Doc /\ versions[d] \in Seq(Files)
    BY DocumentsHold
  <1>3. /\ DOMAIN docs' = DOMAIN docs /\ DOMAIN versions' = DOMAIN versions
        /\ versions'[d] = Append(versions[d], f)
        /\ docs'[d].current = Len(versions[d]) + 1
        /\ \A e \in DOMAIN docs \ {d} : docs'[e] = docs[e] /\ versions'[e] = versions[e]
    BY <1>1, <1>2, DocumentsHold DEF Doc
  <1>4. Append(versions[d], f)[Len(versions[d]) + 1] = f
    BY <1>2
  <1>5. Log' = [Log EXCEPT ![d] = Append(Log[d], f)]
    BY <1>2, <1>3, DocumentsHold DEF Log
  <1>6. Shown' = [Shown EXCEPT ![d] = f]
    BY <1>2, <1>3, <1>4, DocumentsHold DEF Shown
  <1> QED BY <1>2, <1>5, <1>6 DEF AbstractLog!AddVersion, Log, Shown

(* The other steps leave the files and the pointer alone.                  *)
LEMMA OthersStutter ==
    ASSUME DocumentsInv, UNCHANGED versions,
           \/ UNCHANGED docs
           \/ \E k \in Clerks : MarkCommit(k) \/ AmendCommit(k)
    PROVE  UNCHANGED <<Log, Shown>>
  <1>1. DOMAIN docs' = DOMAIN docs /\ \A e \in DOMAIN docs : docs'[e].current = docs[e].current
    <2>1. CASE UNCHANGED docs
      BY <2>1
    <2>2. ASSUME NEW k \in Clerks, MarkCommit(k)
          PROVE  DOMAIN docs' = DOMAIN docs /\ \A e \in DOMAIN docs : docs'[e].current = docs[e].current
      BY <2>2, MarkWrites
    <2>3. ASSUME NEW k \in Clerks, AmendCommit(k)
          PROVE  DOMAIN docs' = DOMAIN docs /\ \A e \in DOMAIN docs : docs'[e].current = docs[e].current
      <3>1. PICK d, terms : docs' = [docs EXCEPT ![d].terms = terms]
        BY <2>3 DEF AmendCommit
      <3>2. \A e \in DOMAIN docs : docs[e] \in Doc
        BY DocumentsHold
      <3> QED BY <3>1, <3>2 DEF Doc
    <2> QED BY <2>1, <2>2, <2>3
  <1> QED BY <1>1 DEF Log, Shown

(* Files are only ever added, in order, and the current version is the     *)
(* last, for any number of requests that overlap (replaceFile,             *)
(* documents.service.ts:317-371).                                          *)
THEOREM VersionsImplementLog == DocumentsSpec => VersionsAreALog
  <1>1. DocumentsInit => AbstractLog!Init
    BY DEF DocumentsInit, AbstractLog!Init
  <1>2. DocumentsInv /\ [DocumentsNext]_docVars => [AbstractLog!Next]_<<Log, Shown>>
    <2> SUFFICES ASSUME DocumentsInv, [DocumentsNext]_docVars
                 PROVE  AbstractLog!Next \/ UNCHANGED <<Log, Shown>>
      OBVIOUS
    <2>1. CASE UNCHANGED docVars
      BY <2>1, OthersStutter DEF docVars
    <2>2. ASSUME NEW c \in Categories,
                 \/ RestoreCategory(c)
                 \/ \E active, personal \in BOOLEAN :
                       CreateCategory(c, active, personal) \/ UpdateCategory(c, active, personal)
          PROVE  UNCHANGED <<Log, Shown>>
      BY <2>2, OthersStutter DEF RestoreCategory, CreateCategory, UpdateCategory
    <2>3. ASSUME NEW k \in Clerks,
                 \/ RemoveCategoryCommit(k) \/ AmendCommit(k) \/ ReplaceNumber(k)
                 \/ MarkCommit(k) \/ SignCommit(k) \/ Rejected(k)
          PROVE  UNCHANGED <<Log, Shown>>
      <3>1. CASE AmendCommit(k) \/ MarkCommit(k)
        <4>1. UNCHANGED versions
          BY <3>1 DEF AmendCommit, MarkCommit
        <4> QED BY <3>1, <4>1, OthersStutter
      <3>2. CASE \/ RemoveCategoryCommit(k) \/ ReplaceNumber(k) \/ SignCommit(k) \/ Rejected(k)
        <4>1. UNCHANGED <<docs, versions>>
          BY <3>2 DEF RemoveCategoryCommit, ReplaceNumber, SignCommit, Rejected
        <4> QED BY <4>1, OthersStutter
      <3> QED BY <2>3, <3>1, <3>2
    <2>4. ASSUME NEW k \in Clerks, NEW f \in Files, ReplaceCommit(k, f)
          PROVE  AbstractLog!Next
      BY <2>4, ReplaceAdds DEF AbstractLog!Next
    <2>5. ASSUME NEW k \in Clerks, NEW d \in Docs, NEW terms \in Terms, NEW f \in Files,
                 NEW published \in BOOLEAN, CreateCommit(k, d, f, terms, published)
          PROVE  AbstractLog!Next
      BY <2>5, CreateAdds DEF AbstractLog!Next
    <2>6. ASSUME NEW k \in Clerks,
                 \/ \E c \in Categories :
                       RemoveCategoryRead(k, c) \/ \E personal \in BOOLEAN : CreateRead(k, c, personal)
                 \/ \E d \in Docs :
                       \/ ReplaceRead(k, d)
                       \/ \E flag \in Flag, to \in BOOLEAN : MarkRead(k, d, flag, to)
                       \/ \E e \in Readers : SignRead(k, d, e)
                       \/ \E terms \in Terms : AmendRead(k, d, terms)
          PROVE  UNCHANGED <<Log, Shown>>
      <3>1. UNCHANGED <<docs, versions>>
        BY <2>6 DEF RemoveCategoryRead, CreateRead, ReplaceRead, MarkRead, SignRead, AmendRead
      <3> QED BY <3>1, OthersStutter
    <2> QED BY <2>1, <2>2, <2>3, <2>4, <2>5, <2>6 DEF DocumentsNext
  <1> QED
    BY DocumentsInvariant, <1>1, <1>2, PTL DEF DocumentsSpec, VersionsAreALog, AbstractLog!Spec, Log, Shown

-----------------------------------------------------------------------------
(* Announcements.                                                          *)

(* What a request knows of the announcement it is about: the status it     *)
(* read allowed it, the times it checked were coherent, and what it is to  *)
(* deliver was not published yet.                                          *)
JobKnows(job) ==
    /\ job.kind \in {"edit", "schedule", "publish", "archive", "restore", "deliver", "ack"} =>
          job.on \in DOMAIN notices
    /\ job.kind \in {"tick", "deliver"} => job.rest \subseteq DOMAIN notices
    /\ job.kind \in {"publish", "deliver"} => job.saw # "published"
    /\ job.kind = "deliver" => job.to = job.read \intersect Users
    /\ job.kind = "schedule" => Coherent(job.time, job.times[2])
    /\ job.kind = "edit" =>
          /\ {job.edit.scheduled, job.edit.expires} # {Kept} =>
                Coherent(Brought(job.edit.scheduled, job.times[1]),
                         Brought(job.edit.expires, job.times[2]))
          /\ job.saw = "scheduled" /\ job.on \notin contested \union crossed => ~job.dated

JobsKnow == \A w \in DOMAIN jobs : JobKnows(jobs[w])

NoticeInv ==
    AnnouncementsTypeOK /\ JobsKnow /\ NotifiedOnce /\ ScheduleCoherent /\ BellMatchesFeed

LEMMA NoticeInitially == AnnouncementsInit => NoticeInv
<1> SUFFICES ASSUME AnnouncementsInit PROVE NoticeInv
  OBVIOUS
<1>1. /\ DOMAIN notices = {} /\ DOMAIN jobs = {}
      /\ sent = [a \in Announcements |-> [u \in Users |-> 0]] /\ acks = {}
      /\ entries = [a \in Announcements |-> 0] /\ told = [a \in Announcements |-> {}]
      /\ contested = {} /\ crossed = {} /\ retargeted = {}
  BY DEF AnnouncementsInit
<1>2. AnnouncementsTypeOK
  BY <1>1, AnnouncementsAssumption DEF AnnouncementsTypeOK
<1> QED
  BY <1>1, <1>2 DEF NoticeInv, JobsKnow, NotifiedOnce, ScheduleCoherent, BellMatchesFeed

(* A request begins, or goes on, with what it has read.                    *)
LEMMA JobTaken ==
    ASSUME NoticeInv, NEW w \in Writers, NEW job \in Job, JobKnows(job),
           \/ Take(w, job)
           \/ w \in DOMAIN jobs /\ jobs' = [jobs EXCEPT ![w] = job],
           UNCHANGED <<notices, sent, acks, traces>>
    PROVE  NoticeInv'
<1>1. /\ DOMAIN jobs' = DOMAIN jobs \union {w}
      /\ \A v \in DOMAIN jobs' : jobs'[v] = IF v = w THEN job ELSE jobs[v]
  BY DEF Take, Put
<1>2. UNCHANGED <<notices, sent, acks, entries, told, contested, crossed, retargeted>>
  BY DEF traces
<1>3. AnnouncementsTypeOK'
  BY <1>1, <1>2 DEF NoticeInv, AnnouncementsTypeOK
<1>4. JobsKnow'
  BY <1>1, <1>2 DEF NoticeInv, JobsKnow, JobKnows
<1> QED
  BY <1>2, <1>3, <1>4 DEF NoticeInv, NotifiedOnce, ScheduleCoherent, BellMatchesFeed, Recipients

(* A job that ends, or becomes the tick it was part of, while              *)
(* announcements are only added and traces only grow.                      *)
LEMMA JobsGoOn ==
    ASSUME NoticeInv, NEW w,
           \/ UNCHANGED jobs \/ Finish(w)
           \/ /\ w \in DOMAIN jobs /\ jobs[w].kind = "deliver"
              /\ jobs' = [jobs EXCEPT ![w] = [kind |-> "tick", rest |-> @.rest]],
           DOMAIN notices \subseteq DOMAIN notices',
           contested \subseteq contested', crossed \subseteq crossed'
    PROVE  /\ DOMAIN jobs' \subseteq Writers
           /\ \A v \in DOMAIN jobs' : jobs'[v] \in Job
           /\ JobsKnow'
<1>1. \A v \in DOMAIN jobs : jobs[v] \in Job /\ JobKnows(jobs[v])
  BY DEF NoticeInv, AnnouncementsTypeOK, JobsKnow
<1>2. ASSUME NEW v \in DOMAIN jobs', v \in DOMAIN jobs, jobs'[v] = jobs[v]
      PROVE  jobs'[v] \in Job /\ JobKnows(jobs[v])'
  <2> DEFINE job == jobs[v]
  <2>1. job \in Job /\ JobKnows(job) /\ jobs'[v] = job
    BY <1>1, <1>2
  <2> HIDE DEF job
  <2>2. jobs'[v] = job /\ (JobKnows(jobs[v])' <=>
          /\ job.kind \in {"edit", "schedule", "publish", "archive", "restore", "deliver", "ack"} =>
                job.on \in DOMAIN notices'
          /\ job.kind \in {"tick", "deliver"} => job.rest \subseteq DOMAIN notices'
          /\ job.kind \in {"publish", "deliver"} => job.saw # "published"
          /\ job.kind = "deliver" => job.to = job.read \intersect Users
          /\ job.kind = "schedule" => Coherent(job.time, job.times[2])
          /\ job.kind = "edit" =>
                /\ {job.edit.scheduled, job.edit.expires} # {Kept} =>
                      Coherent(Brought(job.edit.scheduled, job.times[1]),
                               Brought(job.edit.expires, job.times[2]))
                /\ job.saw = "scheduled" /\ job.on \notin contested' \union crossed' => ~job.dated)
    BY <2>1, Zenon DEF JobKnows
  <2> QED
    BY <2>1, <2>2 DEF JobKnows
<1>3. CASE (UNCHANGED jobs) \/ Finish(w)
  <2>1. DOMAIN jobs' \subseteq DOMAIN jobs /\ \A v \in DOMAIN jobs' : jobs'[v] = jobs[v]
    BY <1>3 DEF Finish, Drop, Restrict
  <2>2. \A v \in DOMAIN jobs' : jobs'[v] \in Job /\ JobKnows(jobs[v])'
    BY <1>2, <2>1
  <2> QED
    BY <2>1, <2>2 DEF NoticeInv, AnnouncementsTypeOK, JobsKnow
<1>4. CASE /\ w \in DOMAIN jobs /\ jobs[w].kind = "deliver"
           /\ jobs' = [jobs EXCEPT ![w] = [kind |-> "tick", rest |-> @.rest]]
  <2> DEFINE tick == [kind |-> "tick", rest |-> jobs[w].rest]
  <2>1. DOMAIN jobs' = DOMAIN jobs
        /\ \A v \in DOMAIN jobs : jobs'[v] = IF v = w THEN tick ELSE jobs[v]
    BY <1>4
  <2>2. tick \in Job
    BY <1>1, <1>4 DEF Job
  <2>3. jobs[w].rest \subseteq DOMAIN notices'
    BY <1>1, <1>4 DEF JobKnows
  <2>4. JobKnows(jobs[w])'
    BY <1>4, <2>1, <2>3 DEF JobKnows
  <2>5. \A v \in DOMAIN jobs' : jobs'[v] \in Job /\ JobKnows(jobs[v])'
    BY <1>2, <1>4, <2>1, <2>2, <2>4
  <2> QED
    BY <2>1, <2>5 DEF NoticeInv, AnnouncementsTypeOK, JobsKnow
<1> QED
  BY <1>3, <1>4

LEMMA NoticeReads ==
    ASSUME NoticeInv, NEW w \in Writers,
           \/ \E a \in Announcements :
                 \/ PublishRead(w, a) \/ ArchiveRead(w, a) \/ RestoreRead(w, a)
                 \/ \E edit \in Edits : EditRead(w, a, edit)
                 \/ \E time \in Moments : ScheduleRead(w, a, time)
                 \/ \E e \in Staff : AckRead(w, a, e)
    PROVE  NoticeInv'
<1>1. \A a \in DOMAIN notices : /\ a \in Announcements /\ notices[a] \in Notice
                               /\ Times(a) \in Time \X Time
                               /\ Times(a)[1] = notices[a].scheduled
                               /\ Times(a)[2] = notices[a].expires
  BY DEF NoticeInv, AnnouncementsTypeOK, Notice, Times
<1>2. ASSUME NEW a \in Announcements, NEW kind \in {"publish", "archive", "restore"},
             a \in DOMAIN notices, kind = "publish" => notices[a].phase # "published",
             ReadNotice(w, a, [kind |-> kind, on |-> a, saw |-> notices[a].phase])
      PROVE  NoticeInv'
  <2> DEFINE job == [kind |-> kind, on |-> a, saw |-> notices[a].phase]
  <2>1. job \in Job /\ JobKnows(job)
    BY <1>1, <1>2 DEF Job, Notice, JobKnows
  <2> QED
    BY <1>2, <2>1, JobTaken DEF ReadNotice
<1>3. ASSUME NEW a \in Announcements, NEW edit \in Edits, EditRead(w, a, edit) PROVE NoticeInv'
  <2> DEFINE job == [kind |-> "edit", on |-> a, saw |-> notices[a].phase,
                     dated |-> notices[a].dated, times |-> Times(a), edit |-> edit]
  <2>1. a \in DOMAIN notices /\ edit \in NoticeEdit
    BY <1>3, AnnouncementsAssumption DEF EditRead
  <2>2. job \in Job
    BY <1>1, <2>1 DEF Job, Notice
  <2>3. JobKnows(job)
    <3>1. {edit.scheduled, edit.expires} # {Kept} =>
              Coherent(Brought(edit.scheduled, Times(a)[1]), Brought(edit.expires, Times(a)[2]))
      BY <1>1, <1>3, <2>1 DEF EditRead
    <3>2. notices[a].phase = "scheduled" /\ a \notin contested \union crossed => ~notices[a].dated
      BY <2>1 DEF NoticeInv, ScheduleCoherent
    <3> QED
      BY <2>1, <3>1, <3>2 DEF JobKnows
  <2> QED
    BY <1>3, <2>2, <2>3, JobTaken DEF EditRead, ReadNotice
<1>4. ASSUME NEW a \in Announcements, NEW time \in Moments, ScheduleRead(w, a, time)
      PROVE  NoticeInv'
  <2> DEFINE job == [kind |-> "schedule", on |-> a, saw |-> notices[a].phase,
                     times |-> Times(a), time |-> time]
  <2>1. a \in DOMAIN notices
    BY <1>4 DEF ScheduleRead
  <2>2. job \in Job
    BY <1>1, <2>1 DEF Job, Notice
  <2>3. JobKnows(job)
    BY <1>1, <1>4, <2>1 DEF ScheduleRead, JobKnows
  <2> QED
    BY <1>4, <2>2, <2>3, JobTaken DEF ScheduleRead, ReadNotice
<1>5. ASSUME NEW a \in Announcements, NEW e \in Staff, AckRead(w, a, e) PROVE NoticeInv'
  <2> DEFINE job == [kind |-> "ack", on |-> a, by |-> e]
  <2>1. job \in Job /\ JobKnows(job)
    BY <1>5 DEF AckRead, Job, JobKnows
  <2> QED
    BY <1>5, <2>1, JobTaken DEF AckRead, ReadNotice
<1> QED
  BY <1>2, <1>3, <1>4, <1>5 DEF PublishRead, ArchiveRead, RestoreRead

LEMMA FanOutReads ==
    ASSUME NoticeInv, NEW w \in Writers,
           \/ Gather(w)
           \/ \E now \in Moments : TickRead(w, now)
           \/ \E a \in Announcements : TickNext(w, a)
    PROVE  NoticeInv'
<1>1. ASSUME NEW a \in DOMAIN notices, NEW saw \in Phase, NEW rest \in SUBSET DOMAIN notices,
             saw # "published"
      PROVE  Delivery(a, saw, rest) \in Job /\ JobKnows(Delivery(a, saw, rest))
  <2>1. /\ a \in Announcements /\ notices[a].audience \in SUBSET Staff /\ rest \subseteq Announcements
        /\ Recipients(a) = notices[a].audience \intersect Users
    BY DEF NoticeInv, AnnouncementsTypeOK, Notice, Recipients
  <2> QED
    BY <1>1, <2>1 DEF Delivery, Job, JobKnows
<1>2. CASE Gather(w)
  <2> DEFINE job == Delivery(jobs[w].on, jobs[w].saw, {})
  <2>1. /\ w \in DOMAIN jobs /\ jobs[w].kind = "publish" /\ jobs[w] \in Job
        /\ JobKnows(jobs[w])
    BY <1>2 DEF Gather, Working, NoticeInv, AnnouncementsTypeOK, JobsKnow
  <2>2. jobs[w].on \in DOMAIN notices /\ jobs[w].saw \in Phase /\ jobs[w].saw # "published"
    BY <2>1 DEF Job, JobKnows
  <2>3. job \in Job /\ JobKnows(job)
    BY <1>1, <2>2
  <2>4. jobs' = [jobs EXCEPT ![w] = job] /\ UNCHANGED <<notices, sent, acks, traces>>
    BY <1>2 DEF Gather
  <2> HIDE DEF job
  <2> QED
    BY <2>1, <2>3, <2>4, JobTaken
<1>3. ASSUME NEW now \in Moments, TickRead(w, now) PROVE NoticeInv'
  <2> DEFINE due == {a \in DOMAIN notices : /\ notices[a].phase = "scheduled"
                                            /\ notices[a].scheduled # Never
                                            /\ notices[a].scheduled <= now}
             job == [kind |-> "tick", rest |-> due]
  <2>1. Take(w, job) /\ UNCHANGED <<notices, sent, acks, traces>>
    BY <1>3 DEF TickRead
  <2>2. due \subseteq DOMAIN notices /\ due \subseteq Announcements
    BY DEF NoticeInv, AnnouncementsTypeOK
  <2> HIDE DEF due
  <2>3. job \in Job /\ JobKnows(job)
    BY <2>2 DEF Job, JobKnows
  <2> QED
    BY <2>1, <2>3, JobTaken
<1>4. ASSUME NEW a \in Announcements, TickNext(w, a) PROVE NoticeInv'
  <2> DEFINE job == Delivery(a, "scheduled", jobs[w].rest \ {a})
  <2>1. /\ w \in DOMAIN jobs /\ jobs[w].kind = "tick" /\ JobKnows(jobs[w]) /\ a \in jobs[w].rest
    BY <1>4 DEF TickNext, Working, NoticeInv, JobsKnow
  <2>2. a \in DOMAIN notices /\ jobs[w].rest \ {a} \in SUBSET DOMAIN notices /\ "scheduled" \in Phase
    BY <2>1 DEF JobKnows, Phase
  <2>3. job \in Job /\ JobKnows(job)
    BY <1>1, <2>2
  <2>4. jobs' = [jobs EXCEPT ![w] = job] /\ UNCHANGED <<notices, sent, acks, traces>>
    BY <1>4 DEF TickNext
  <2> HIDE DEF job
  <2> QED
    BY <2>1, <2>3, <2>4, JobTaken
<1> QED
  BY <1>2, <1>3, <1>4

(* A request writes the announcement it is about, and nobody is notified.  *)
LEMMA NoticeWritten ==
    ASSUME NoticeInv, NEW w, NEW a \in DOMAIN notices, a = jobs[w].on,
           NEW row \in Notice, WriteNotice(w, row), Finish(w),
           UNCHANGED <<sent, acks, entries, told>>,
           crossed \subseteq crossed', crossed' \subseteq DOMAIN notices,
           retargeted \subseteq retargeted', retargeted' \subseteq DOMAIN notices,
           row.phase = "scheduled" /\ a \notin contested' \union crossed' =>
               /\ row.scheduled # Never /\ ~row.dated
               /\ Coherent(row.scheduled, row.expires),
           row.phase = "published" /\ a \notin retargeted' =>
               notices[a].phase = "published" /\ row.audience = notices[a].audience
    PROVE  NoticeInv'
<1>1. /\ DOMAIN notices' = DOMAIN notices
      /\ \A b \in DOMAIN notices : notices'[b] = IF b = a THEN row ELSE notices[b]
      /\ contested \subseteq contested' /\ contested' \subseteq DOMAIN notices
  BY DEF WriteNotice, NoteIf, NoticeInv, AnnouncementsTypeOK
<1>2. /\ DOMAIN jobs' \subseteq Writers
      /\ \A v \in DOMAIN jobs' : jobs'[v] \in Job
      /\ JobsKnow'
  BY <1>1, JobsGoOn
<1>3. AnnouncementsTypeOK'
  BY <1>1, <1>2 DEF NoticeInv, AnnouncementsTypeOK
<1>4. NotifiedOnce'
  BY <1>1 DEF NoticeInv, NotifiedOnce
<1>5. ScheduleCoherent'
  BY <1>1 DEF NoticeInv, ScheduleCoherent
<1>6. BellMatchesFeed'
  BY <1>1 DEF NoticeInv, BellMatchesFeed, Recipients
<1> QED
  BY <1>2, <1>3, <1>4, <1>5, <1>6 DEF NoticeInv

(* An edit: its times were coherent with those it read.                    *)
LEMMA EditWrites == ASSUME NoticeInv, NEW w \in Writers, EditCommit(w) PROVE NoticeInv'
<1> DEFINE job  == jobs[w]
           a    == job.on
           edit == job.edit
           old  == notices[a]
           unplans == edit.scheduled = Never /\ job.saw = "scheduled" /\ ~job.dated
           row  == [old EXCEPT !.phase     = IF unplans THEN "draft" ELSE @,
                               !.scheduled = Brought(edit.scheduled, @),
                               !.expires   = Brought(edit.expires, @),
                               !.audience  = Brought(edit.audience, @)]
<1>1. w \in DOMAIN jobs /\ job.kind = "edit" /\ job \in Job /\ JobKnows(job)
  BY DEF EditCommit, Working, NoticeInv, AnnouncementsTypeOK, JobsKnow
<1>2. /\ a \in DOMAIN notices /\ edit \in NoticeEdit /\ job.times \in Time \X Time
      /\ {edit.scheduled, edit.expires} # {Kept} =>
            Coherent(Brought(edit.scheduled, job.times[1]), Brought(edit.expires, job.times[2]))
      /\ job.saw = "scheduled" /\ a \notin contested \union crossed => ~job.dated
  <2>1. edit \in NoticeEdit /\ job.times \in Time \X Time
    BY <1>1 DEF Job
  <2> QED
    BY <1>1, <2>1 DEF JobKnows
<1>3. old \in Notice
  BY <1>2 DEF NoticeInv, AnnouncementsTypeOK
<1>4. /\ WriteNotice(w, row) /\ Finish(w) /\ UNCHANGED <<sent, acks, entries, told>>
      /\ retargeted' = NoteIf(edit.audience # Kept, retargeted, a)
      /\ crossed' = NoteIf(Times(a) # job.times, crossed, a)
      /\ contested' = NoteIf(old.phase # job.saw, contested, a)
  BY DEF EditCommit, WriteNotice, NoteCrossed
<1>5. Times(a) = <<old.scheduled, old.expires>>
  BY DEF Times
<1>6. /\ Brought(edit.scheduled, old.scheduled) \in Time
      /\ Brought(edit.expires, old.expires) \in Time
      /\ Brought(edit.audience, old.audience) \in SUBSET Staff
  <2> HIDE DEF edit, old
  <2>1. /\ old.scheduled \in Time /\ old.expires \in Time /\ old.audience \in SUBSET Staff
    BY <1>3 DEF Notice
  <2>2. /\ edit.scheduled \in Time \union {Kept} /\ edit.expires \in Time \union {Kept}
        /\ edit.audience \in (SUBSET Staff) \union {Kept}
    BY <1>2 DEF NoticeEdit
  <2> QED
    BY <2>1, <2>2 DEF Brought
<1> HIDE DEF job, a, edit
<1>7. /\ row \in Notice
      /\ row.phase = IF unplans THEN "draft" ELSE old.phase
      /\ row.scheduled = Brought(edit.scheduled, old.scheduled)
      /\ row.expires = Brought(edit.expires, old.expires)
      /\ row.audience = Brought(edit.audience, old.audience)
      /\ row.dated = old.dated
  BY <1>3, <1>6 DEF Notice, Phase
<1>8. /\ crossed \subseteq crossed' /\ crossed' \subseteq DOMAIN notices
      /\ retargeted \subseteq retargeted' /\ retargeted' \subseteq DOMAIN notices
  BY <1>2, <1>4 DEF NoteIf, NoticeInv, AnnouncementsTypeOK
<1>9. ASSUME row.phase = "scheduled", a \notin contested' \union crossed'
      PROVE  /\ row.scheduled # Never /\ ~row.dated
             /\ Coherent(row.scheduled, row.expires)
  <2>1. /\ a \notin contested \union crossed
        /\ old.phase = job.saw /\ job.times = <<old.scheduled, old.expires>>
    BY <1>4, <1>5, <1>9 DEF NoteIf
  <2>2. old.phase = "scheduled" /\ ~unplans
    BY <1>7, <1>9
  <2>3. old.scheduled # Never /\ ~old.dated /\ Coherent(old.scheduled, old.expires)
    BY <1>2, <2>1, <2>2 DEF NoticeInv, ScheduleCoherent
  <2>4. edit.scheduled # Never
    BY <1>2, <2>1, <2>2
  <2>5. Brought(edit.scheduled, old.scheduled) # Never
    BY <2>3, <2>4 DEF Brought
  <2>6. job.times[1] = old.scheduled /\ job.times[2] = old.expires
    BY <2>1
  <2>7. Coherent(Brought(edit.scheduled, old.scheduled), Brought(edit.expires, old.expires))
    <3>1. CASE {edit.scheduled, edit.expires} # {Kept}
      BY <1>2, <2>6, <3>1
    <3>2. CASE edit.scheduled = Kept /\ edit.expires = Kept
      BY <2>3, <3>2 DEF Brought
    <3> QED
      BY <3>1, <3>2
  <2> QED
    BY <1>7, <2>3, <2>5, <2>7
<1>10. ASSUME row.phase = "published", a \notin retargeted'
       PROVE  old.phase = "published" /\ row.audience = old.audience
  BY <1>4, <1>7, <1>10 DEF NoteIf, Brought
<1>11. a = jobs[w].on
  BY DEF a, job
<1> HIDE DEF row, old
<1> QED
  BY <1>2, <1>4, <1>7, <1>8, <1>9, <1>10, <1>11, NoticeWritten DEF old

LEMMA ScheduleWrites == ASSUME NoticeInv, NEW w \in Writers, ScheduleCommit(w) PROVE NoticeInv'
<1> DEFINE job == jobs[w]
           a   == job.on
           old == notices[a]
           row == [old EXCEPT !.phase = "scheduled", !.scheduled = job.time, !.dated = FALSE]
<1>1. w \in DOMAIN jobs /\ job.kind = "schedule" /\ job \in Job /\ JobKnows(job)
  BY DEF ScheduleCommit, Working, NoticeInv, AnnouncementsTypeOK, JobsKnow
<1>2. /\ a \in DOMAIN notices /\ job.time \in Moments /\ Coherent(job.time, job.times[2])
      /\ job.time \in Time /\ job.time # Never
  BY <1>1, AnnouncementsAssumption DEF Job, JobKnows, Time
<1>3. old \in Notice
  BY <1>2 DEF NoticeInv, AnnouncementsTypeOK
<1>4. /\ WriteNotice(w, row) /\ Finish(w) /\ UNCHANGED <<sent, acks, entries, told, retargeted>>
      /\ crossed' = NoteIf(Times(a) # job.times, crossed, a)
  BY DEF ScheduleCommit, NoteCrossed
<1>5. Times(a) = <<old.scheduled, old.expires>>
  BY DEF Times
<1> HIDE DEF job, a
<1>6. /\ row \in Notice /\ row.phase = "scheduled" /\ row.scheduled = job.time /\ row.dated = FALSE
      /\ row.expires = old.expires
  BY <1>2, <1>3 DEF Notice, Phase
<1>7. /\ crossed \subseteq crossed' /\ crossed' \subseteq DOMAIN notices
      /\ retargeted \subseteq retargeted' /\ retargeted' \subseteq DOMAIN notices
  BY <1>2, <1>4 DEF NoteIf, NoticeInv, AnnouncementsTypeOK
<1>8. a \notin crossed' => job.times[2] = old.expires
  BY <1>4, <1>5 DEF NoteIf
<1>9. a \notin crossed' => Coherent(row.scheduled, row.expires)
  BY <1>2, <1>6, <1>8
<1>10. a = jobs[w].on
  BY DEF a, job
<1> HIDE DEF row, old
<1> QED
  BY <1>2, <1>4, <1>6, <1>7, <1>9, <1>10, NoticeWritten

LEMMA MoveWrites ==
    ASSUME NoticeInv, NEW w \in Writers, ArchiveCommit(w) \/ RestoreCommit(w) PROVE NoticeInv'
<1>1. PICK kind \in {"archive", "restore"}, phase \in {"archived", "draft"} :
          MoveCommit(w, kind, phase)
  <2>1. MoveCommit(w, "archive", "archived") \/ MoveCommit(w, "restore", "draft")
    BY DEF ArchiveCommit, RestoreCommit
  <2> QED
    BY <2>1, Zenon
<1> DEFINE a   == jobs[w].on
           row == [notices[a] EXCEPT !.phase = phase]
<1>2. w \in DOMAIN jobs /\ jobs[w].kind = kind /\ JobKnows(jobs[w])
  BY <1>1 DEF MoveCommit, Working, NoticeInv, JobsKnow
<1>3. a \in DOMAIN notices
  BY <1>2 DEF JobKnows
<1>4. notices[a] \in Notice
  BY <1>3 DEF NoticeInv, AnnouncementsTypeOK
<1>5. row \in Notice /\ row.phase \notin {"scheduled", "published"}
  BY <1>4 DEF Notice, Phase
<1>6. /\ WriteNotice(w, row) /\ Finish(w)
      /\ UNCHANGED <<sent, acks, entries, told, crossed, retargeted>>
  BY <1>1 DEF MoveCommit
<1>7. crossed' \subseteq DOMAIN notices /\ retargeted' \subseteq DOMAIN notices
  BY <1>6 DEF NoticeInv, AnnouncementsTypeOK
<1>8. a = jobs[w].on
  OBVIOUS
<1> HIDE DEF row, a
<1> QED
  BY <1>3, <1>5, <1>6, <1>7, <1>8, NoticeWritten

(* The fan-out: one notification more for each recipient, and one          *)
(* publication more unless the announcement was published under it.        *)
LEMMA DeliverWrites == ASSUME NoticeInv, NEW w \in Writers, Deliver(w) PROVE NoticeInv'
<1> DEFINE job == jobs[w]
           a   == job.on
           to  == job.to
           old == notices[a]
           row == [old EXCEPT !.phase = "published", !.dated = TRUE, !.scheduled = Never]
<1>1. w \in DOMAIN jobs /\ job.kind = "deliver" /\ job \in Job /\ JobKnows(job)
  BY DEF Deliver, Working, NoticeInv, AnnouncementsTypeOK, JobsKnow
<1>2. /\ a \in DOMAIN notices /\ a \in Announcements /\ job.saw # "published"
      /\ to = job.read \intersect Users /\ to \subseteq Users
  BY <1>1 DEF JobKnows, NoticeInv, AnnouncementsTypeOK
<1>3. old \in Notice
  BY <1>2 DEF NoticeInv, AnnouncementsTypeOK
<1>4. /\ entries[a] < MaxSent /\ \A u \in to : sent[a][u] < MaxSent
      /\ notices' = [notices EXCEPT ![a] = row]
      /\ contested' = NoteIf(old.phase # job.saw, contested, a)
      /\ sent' = [sent EXCEPT ![a] = [u \in Users |-> IF u \in to THEN @[u] + 1 ELSE @[u]]]
      /\ entries' = [entries EXCEPT ![a] = IF old.phase = "published" THEN @ ELSE @ + 1]
      /\ told' = [told EXCEPT ![a] = to]
      /\ retargeted' = IF old.audience = job.read THEN retargeted \ {a} ELSE retargeted \union {a}
      /\ UNCHANGED <<acks, crossed>>
  BY DEF Deliver, WriteNotice
<1>5. \/ Finish(w)
      \/ jobs' = [jobs EXCEPT ![w] = [kind |-> "tick", rest |-> @.rest]]
  BY DEF Deliver, Finish
<1>6. /\ row \in Notice /\ row.phase = "published" /\ row.audience = old.audience
  BY <1>3 DEF Notice, Phase, Time
<1>7. /\ contested \subseteq contested' /\ contested' \subseteq DOMAIN notices
      /\ retargeted' \subseteq DOMAIN notices
      /\ \A b \in Announcements \ {a} : b \in retargeted' <=> b \in retargeted
  BY <1>2, <1>4 DEF NoteIf, NoticeInv, AnnouncementsTypeOK
<1>8. jobs[w].kind = "deliver" /\ w \in DOMAIN jobs
  BY <1>1
<1>9. /\ sent \in [Announcements -> [Users -> 0 .. MaxSent]]
      /\ entries \in [Announcements -> Nat] /\ told \in [Announcements -> SUBSET Users]
      /\ MaxSent \in Nat
  BY AnnouncementsAssumption DEF NoticeInv, AnnouncementsTypeOK
<1> HIDE DEF job, a, to, old, row
<1>10. /\ DOMAIN notices' = DOMAIN notices
       /\ \A b \in DOMAIN notices : notices'[b] = IF b = a THEN row ELSE notices[b]
  BY <1>2, <1>4
<1>11. /\ DOMAIN jobs' \subseteq Writers
       /\ \A v \in DOMAIN jobs' : jobs'[v] \in Job
       /\ JobsKnow'
  BY <1>4, <1>5, <1>7, <1>8, <1>10, JobsGoOn
<1>12. /\ \A u \in Users : sent'[a][u] = IF u \in to THEN sent[a][u] + 1 ELSE sent[a][u]
       /\ \A b \in Announcements \ {a} : sent'[b] = sent[b] /\ entries'[b] = entries[b]
                                        /\ told'[b] = told[b]
       /\ entries'[a] = IF old.phase = "published" THEN entries[a] ELSE entries[a] + 1
       /\ told'[a] = to
  BY <1>2, <1>4, <1>9
<1>13. sent' \in [Announcements -> [Users -> 0 .. MaxSent]]
  <2> DEFINE f == [u \in Users |-> IF u \in to THEN sent[a][u] + 1 ELSE sent[a][u]]
  <2>1. f \in [Users -> 0 .. MaxSent]
    BY <1>2, <1>4, <1>9
  <2>2. sent' = [sent EXCEPT ![a] = f]
    BY <1>4
  <2> HIDE DEF f
  <2> QED
    BY <1>2, <1>9, <2>1, <2>2
<1>14. entries' \in [Announcements -> Nat]
  <2>1. entries[a] \in Nat /\ entries[a] + 1 \in Nat
    BY <1>2, <1>9
  <2> QED
    BY <1>4, <1>9, <2>1
<1>15. told' \in [Announcements -> SUBSET Users]
  BY <1>2, <1>4, <1>9
<1>16. AnnouncementsTypeOK'
  <2>1. \A b \in DOMAIN notices' : notices'[b] \in Notice
    BY <1>6, <1>10 DEF NoticeInv, AnnouncementsTypeOK
  <2> QED
    BY <1>4, <1>7, <1>10, <1>11, <1>13, <1>14, <1>15, <2>1 DEF NoticeInv, AnnouncementsTypeOK
<1>17. NotifiedOnce'
  <2>1. ASSUME NEW b \in Announcements \ contested', NEW u \in Users
        PROVE  sent'[b][u] <= entries'[b]
    <3>1. sent[b][u] <= entries[b] /\ sent[b][u] \in Nat /\ entries[b] \in Nat
      BY <1>7, <1>9 DEF NoticeInv, NotifiedOnce
    <3>2. CASE b = a
      <4>1. old.phase # "published"
        BY <1>2, <1>4, <3>2 DEF NoteIf
      <4>2. entries'[b] = entries[b] + 1
        BY <1>12, <3>2, <4>1
      <4>3. sent'[b][u] = sent[b][u] + 1 \/ sent'[b][u] = sent[b][u]
        BY <1>12, <3>2
      <4> QED
        BY <3>1, <4>2, <4>3
    <3> QED
      BY <1>12, <3>1, <3>2
  <2> QED
    BY <2>1 DEF NotifiedOnce
<1>18. ScheduleCoherent'
  BY <1>4, <1>6, <1>7, <1>10 DEF NoticeInv, ScheduleCoherent
<1>19. BellMatchesFeed'
  <2>1. ASSUME NEW b \in DOMAIN notices \ retargeted', notices'[b].phase = "published"
        PROVE  told'[b] = notices'[b].audience \intersect Users
    <3>1. b \in Announcements
      BY DEF NoticeInv, AnnouncementsTypeOK
    <3>2. CASE b = a
      <4>1. old.audience = job.read
        BY <1>4, <3>2
      <4> QED
        BY <1>2, <1>6, <1>10, <1>12, <3>2, <4>1
    <3>3. CASE b # a
      BY <1>7, <1>10, <1>12, <2>1, <3>1, <3>3 DEF NoticeInv, BellMatchesFeed, Recipients
    <3> QED
      BY <3>2, <3>3
  <2> QED
    BY <1>10, <2>1 DEF BellMatchesFeed, Recipients
<1> QED
  BY <1>11, <1>16, <1>17, <1>18, <1>19 DEF NoticeInv

LEMMA NoticeCreated ==
    ASSUME NoticeInv, NEW a \in Announcements, NEW scheduled \in Time, NEW expires \in Time,
           NEW audience \in SUBSET Staff, CreateNotice(a, scheduled, expires, audience)
    PROVE  NoticeInv'
<1> DEFINE row == [phase |-> "draft", scheduled |-> scheduled,
                   expires |-> expires, dated |-> FALSE, audience |-> audience]
<1>1. /\ a \notin DOMAIN notices /\ notices' = Put(notices, a, row)
      /\ UNCHANGED <<sent, acks, jobs, entries, told, contested, crossed, retargeted>>
  BY DEF CreateNotice, traces
<1>2. row \in Notice /\ row.phase = "draft"
  BY DEF Notice, Phase
<1> HIDE DEF row
<1>3. /\ DOMAIN notices' = DOMAIN notices \union {a} /\ notices'[a] = row
      /\ \A b \in DOMAIN notices : notices'[b] = notices[b]
  BY <1>1 DEF Put
<1>4. /\ DOMAIN jobs' \subseteq Writers
      /\ \A v \in DOMAIN jobs' : jobs'[v] \in Job
      /\ JobsKnow'
  BY <1>1, <1>3, JobsGoOn
<1>5. AnnouncementsTypeOK'
  BY <1>1, <1>2, <1>3, <1>4 DEF NoticeInv, AnnouncementsTypeOK
<1>6. NotifiedOnce'
  BY <1>1 DEF NoticeInv, NotifiedOnce
<1>7. ScheduleCoherent'
  BY <1>1, <1>2, <1>3 DEF NoticeInv, ScheduleCoherent
<1>8. BellMatchesFeed'
  BY <1>1, <1>2, <1>3 DEF NoticeInv, BellMatchesFeed, Recipients
<1> QED
  BY <1>4, <1>5, <1>6, <1>7, <1>8 DEF NoticeInv

(* What leaves announcements and notifications alone.                      *)
LEMMA NoticeKept ==
    ASSUME NoticeInv, NEW w \in Writers, AckCommit(w) \/ Fails(w)
    PROVE  NoticeInv'
<1>1. /\ UNCHANGED <<notices, sent, entries, told, contested, crossed, retargeted>>
      /\ Finish(w)
  BY DEF AckCommit, Fails, traces
<1>2. acks' \subseteq (DOMAIN notices) \X Staff
  <2>1. acks \subseteq (DOMAIN notices) \X Staff
    BY DEF NoticeInv, AnnouncementsTypeOK
  <2>2. CASE AckCommit(w)
    <3>1. /\ w \in DOMAIN jobs /\ jobs[w].kind = "ack" /\ jobs[w] \in Job /\ JobKnows(jobs[w])
          /\ acks' = acks \union {<<jobs[w].on, jobs[w].by>>}
      BY <2>2 DEF AckCommit, Working, NoticeInv, AnnouncementsTypeOK, JobsKnow
    <3>2. jobs[w].on \in DOMAIN notices /\ jobs[w].by \in Staff
      BY <3>1 DEF Job, JobKnows
    <3> QED
      BY <2>1, <3>1, <3>2
  <2>3. CASE Fails(w)
    BY <2>1, <2>3 DEF Fails
  <2> QED
    BY <2>2, <2>3
<1>3. /\ DOMAIN jobs' \subseteq Writers
      /\ \A v \in DOMAIN jobs' : jobs'[v] \in Job
      /\ JobsKnow'
  BY <1>1, JobsGoOn
<1>4. AnnouncementsTypeOK'
  BY <1>1, <1>2, <1>3 DEF NoticeInv, AnnouncementsTypeOK
<1> QED
  BY <1>1, <1>3, <1>4 DEF NoticeInv, NotifiedOnce, ScheduleCoherent, BellMatchesFeed, Recipients

THEOREM NoticeInvariant == AnnouncementsSpec => []NoticeInv
<1>1. NoticeInv /\ [AnnouncementsNext]_noticeVars => NoticeInv'
  <2> SUFFICES ASSUME NoticeInv, [AnnouncementsNext]_noticeVars PROVE NoticeInv'
    OBVIOUS
  <2>1. CASE UNCHANGED noticeVars
    <3>1. DOMAIN jobs' \subseteq Writers /\ (\A v \in DOMAIN jobs' : jobs'[v] \in Job) /\ JobsKnow'
      BY <2>1, JobsGoOn DEF noticeVars
    <3> QED
      BY <2>1, <3>1 DEF noticeVars, NoticeInv, AnnouncementsTypeOK, NotifiedOnce, ScheduleCoherent,
                        BellMatchesFeed, Recipients
  <2>2. CASE AnnouncementsNext
    BY <2>2, NoticeReads, FanOutReads, NoticeCreated, EditWrites, ScheduleWrites, MoveWrites,
       DeliverWrites, NoticeKept DEF AnnouncementsNext
  <2> QED
    BY <2>1, <2>2
<1> QED
  BY <1>1, NoticeInitially, PTL DEF AnnouncementsSpec

(* Rows, jobs and traces keep their shape, and refer to announcements.     *)
THEOREM AnnouncementsTypeCorrect == AnnouncementsSpec => []AnnouncementsTypeOK
BY NoticeInvariant, PTL DEF NoticeInv

(* However many requests and ticks overlap, nobody is notified twice of    *)
(* one publication, but of an announcement written on a status it no       *)
(* longer had.                                                             *)
THEOREM NotifiedOnceHolds == AnnouncementsSpec => []NotifiedOnce
BY NoticeInvariant, PTL DEF NoticeInv

(* A scheduled announcement has a time before it expires and no date of    *)
(* publication, unless something changed under a request that had checked. *)
THEOREM ScheduleCoherentHolds == AnnouncementsSpec => []ScheduleCoherent
BY NoticeInvariant, PTL DEF NoticeInv

(* The notified are those who see it, unless the audience moved.           *)
THEOREM BellMatchesFeedHolds == AnnouncementsSpec => []BellMatchesFeed
BY NoticeInvariant, PTL DEF NoticeInv
=============================================================================
