------------------------------ MODULE Documents ------------------------------
(***************************************************************************)
(* Documents, their versions and their acknowledgement                     *)
(* (documents/documents.service.ts) and the categories they are filed      *)
(* under (documents/document-categories.service.ts).  A request reads what *)
(* it checks, then writes.  The audience is the set of employees that the  *)
(* rules of a document resolve to, or the subject of a personal one.       *)
(***************************************************************************)
EXTENDS Integers, Sequences, FiniteSets, Tables

CONSTANTS
    Docs,         \* identities; bound how many are made
    Categories,   \* identities; bound how many are made
    Seeded,       \* the categories sign-up creates, which cannot be deleted
    Files,        \* uploaded files
    MaxVersion,   \* bound of the versions of a document
    Readers,      \* active employees
    Terms,        \* what publishing locks: isRequired and the audience
    Clerks,       \* requests that run concurrently
    Nothing       \* no file

ASSUME DocumentsAssumption ==
    /\ Seeded \subseteq Categories /\ MaxVersion \in Nat \ {0}
    /\ Terms \subseteq [required: BOOLEAN, audience: SUBSET Readers]

VARIABLES
    categories,   \* the categories
    docs,         \* the documents
    versions,     \* the files of each document, by version number
    signed,       \* the acknowledgements: the version each names
    tasks,        \* requests in flight: what each has read
    unlocked,     \* history: documents edited by a request that saw them unpublished
    astray,       \* history: documents filed or restored into a category by then deleted
    regraded      \* history: categories whose isPersonal was changed

docVars == <<categories, docs, versions, signed, tasks, unlocked, astray, regraded>>

Category == [live: BOOLEAN, active: BOOLEAN, personal: BOOLEAN]
Doc  == [category: Categories, personal: BOOLEAN, terms: Terms,
         published: BOOLEAN, archived: BOOLEAN, deleted: BOOLEAN, current: 1 .. MaxVersion]
Flag == {"published", "archived", "deleted"}
Task == [kind: {"create"}, category: Categories, personal: BOOLEAN]
          \union [kind: {"amend"}, doc: Docs, published: BOOLEAN, terms: Terms]
          \union [kind: {"replace"}, doc: Docs]
          \union [kind: {"number"}, doc: Docs, next: 1 .. MaxVersion]
          \union [kind: {"mark"}, doc: Docs, flag: Flag, to: BOOLEAN]
          \union [kind: {"sign"}, doc: Docs, by: Readers, version: 1 .. MaxVersion]
          \union [kind: {"removeCategory"}, category: Categories, filed: SUBSET Docs]

At(k, kind)    == k \in DOMAIN tasks /\ tasks[k].kind = kind
Begin(k, task) == k \notin DOMAIN tasks /\ tasks' = Put(tasks, k, task)
Close(k)       == tasks' = Drop(tasks, k)
InUse(d)       == d \in DOMAIN docs /\ ~docs[d].deleted
FiledIn(c)     == {d \in DOMAIN docs : docs[d].category = c /\ ~docs[d].deleted}

DocumentsInit ==
    /\ categories \in [Seeded -> [live: {TRUE}, active: {TRUE}, personal: BOOLEAN]]
    /\ docs = << >>
    /\ versions = << >>
    /\ signed = << >>
    /\ tasks = << >>
    /\ unlocked = {} /\ astray = {} /\ regraded = {}

-----------------------------------------------------------------------------
(* Categories.                                                             *)

CreateCategory(c, active, personal) ==
    /\ c \in Categories \ DOMAIN categories
    /\ categories' = Put(categories, c, [live |-> TRUE, active |-> active, personal |-> personal])
    /\ UNCHANGED <<docs, versions, signed, tasks, unlocked, astray, regraded>>

(* One that was live when read may be deleted when written.                *)
UpdateCategory(c, active, personal) ==
    /\ c \in DOMAIN categories
    /\ categories' = [categories EXCEPT ![c].active = active, ![c].personal = personal]
    /\ regraded' = NoteIf(personal # categories[c].personal, regraded, c)
    /\ UNCHANGED <<docs, versions, signed, tasks, unlocked, astray>>

\* mutant: the documents of the category are not counted
RemoveCategoryReadAny(k, c) ==
    /\ c \in DOMAIN categories \ Seeded /\ categories[c].live
    /\ Begin(k, [kind |-> "removeCategory", category |-> c, filed |-> FiledIn(c)])
    /\ UNCHANGED <<categories, docs, versions, signed, unlocked, astray, regraded>>

RemoveCategoryRead(k, c) ==
    /\ c \in DOMAIN categories \ Seeded /\ categories[c].live
    /\ FiledIn(c) = {}
    /\ Begin(k, [kind |-> "removeCategory", category |-> c, filed |-> FiledIn(c)])
    /\ UNCHANGED <<categories, docs, versions, signed, unlocked, astray, regraded>>

RemoveCategoryCommit(k) ==
    /\ At(k, "removeCategory")
    /\ LET c == tasks[k].category
       IN  /\ categories' = [categories EXCEPT ![c].live = FALSE]
           /\ astray' = astray \union (FiledIn(c) \ tasks[k].filed)
    /\ Close(k)
    /\ UNCHANGED <<docs, versions, signed, unlocked, regraded>>

RestoreCategory(c) ==
    /\ c \in DOMAIN categories /\ ~categories[c].live
    /\ categories' = [categories EXCEPT ![c].live = TRUE]
    /\ UNCHANGED <<docs, versions, signed, tasks, unlocked, astray, regraded>>

-----------------------------------------------------------------------------
(* Documents.                                                              *)

CreateRead(k, c, personal) ==
    /\ c \in DOMAIN categories /\ categories[c].live /\ categories[c].active
    /\ personal = categories[c].personal
    /\ Begin(k, [kind |-> "create", category |-> c, personal |-> personal])
    /\ UNCHANGED <<categories, docs, versions, signed, unlocked, astray, regraded>>

CreateCommit(k, d, f, terms, published) ==
    /\ At(k, "create") /\ d \in Docs \ DOMAIN docs
    /\ tasks[k].personal => Cardinality(terms.audience) <= 1
    /\ docs' = Put(docs, d, [category |-> tasks[k].category, personal |-> tasks[k].personal,
                             terms |-> terms, published |-> published, archived |-> FALSE,
                             deleted |-> FALSE, current |-> 1])
    /\ versions' = Put(versions, d, <<f>>)
    /\ astray' = NoteIf(~categories[tasks[k].category].live, astray, d)
    /\ Close(k)
    /\ UNCHANGED <<categories, signed, unlocked, regraded>>

\* mutant: the audience of a published document is not locked
AmendReadAny(k, d, terms) ==
    /\ InUse(d) /\ ~docs[d].archived
    /\ docs[d].personal => terms.audience = docs[d].terms.audience
    /\ Begin(k, [kind |-> "amend", doc |-> d, published |-> docs[d].published,
                terms |-> terms])
    /\ UNCHANGED <<categories, docs, versions, signed, unlocked, astray, regraded>>

(* An update of the fields that publishing locks; a title or a date is not *)
(* part of the state.                                                      *)
AmendRead(k, d, terms) ==
    /\ InUse(d) /\ ~docs[d].archived /\ ~docs[d].published
    /\ docs[d].personal => terms.audience = docs[d].terms.audience
    /\ Begin(k, [kind |-> "amend", doc |-> d, published |-> docs[d].published,
                terms |-> terms])
    /\ UNCHANGED <<categories, docs, versions, signed, unlocked, astray, regraded>>

AmendCommit(k) ==
    /\ At(k, "amend")
    /\ LET d == tasks[k].doc
       IN  /\ docs' = [docs EXCEPT ![d].terms = tasks[k].terms]
           /\ unlocked' = NoteIf(docs[d].published # tasks[k].published, unlocked, d)
    /\ Close(k)
    /\ UNCHANGED <<categories, versions, signed, astray, regraded>>

ReplaceRead(k, d) ==
    /\ InUse(d) /\ ~docs[d].archived
    /\ Begin(k, [kind |-> "replace", doc |-> d])
    /\ UNCHANGED <<categories, docs, versions, signed, unlocked, astray, regraded>>

(* The transaction reads the last version number...                        *)
ReplaceNumber(k) ==
    /\ At(k, "replace")
    /\ Len(versions[tasks[k].doc]) < MaxVersion
    /\ tasks' = [tasks EXCEPT ![k] = [kind |-> "number", doc |-> @.doc,
                                      next |-> Len(versions[@.doc]) + 1]]
    /\ UNCHANGED <<categories, docs, versions, signed, unlocked, astray, regraded>>

\* mutant: there is no unique key
ReplaceCommitAnyway(k, f) ==
    /\ At(k, "number")
    /\ LET d    == tasks[k].doc
           next == tasks[k].next
       IN  /\ versions' = [versions EXCEPT ![d] = Put(@, next, f)]
           /\ docs' = [docs EXCEPT ![d].current = next]
    /\ Close(k)
    /\ UNCHANGED <<categories, signed, unlocked, astray, regraded>>

(* ... and writes the next one, which the unique key on (document,         *)
(* version_no) refuses when another request has written it.                *)
ReplaceCommit(k, f) ==
    /\ At(k, "number")
    /\ LET d    == tasks[k].doc
           next == tasks[k].next
       IN  /\ next \notin DOMAIN versions[d]
           /\ versions' = [versions EXCEPT ![d] = Put(@, next, f)]
           /\ docs' = [docs EXCEPT ![d].current = next]
    /\ Close(k)
    /\ UNCHANGED <<categories, signed, unlocked, astray, regraded>>

(* publish, archive, unarchive, softDelete and restore each write one      *)
(* column.  What they read may have changed by then.                       *)
MarkRead(k, d, flag, to) ==
    /\ d \in DOMAIN docs /\ docs[d][flag] # to
    /\ CASE flag = "published" -> to /\ ~docs[d].archived /\ ~docs[d].deleted
         [] flag = "archived"  -> ~docs[d].deleted
         [] OTHER              -> TRUE
    /\ Begin(k, [kind |-> "mark", doc |-> d, flag |-> flag, to |-> to])
    /\ UNCHANGED <<categories, docs, versions, signed, unlocked, astray, regraded>>

(* Nothing is read of the category a document comes back to.               *)
MarkCommit(k) ==
    /\ At(k, "mark")
    /\ LET d == tasks[k].doc
       IN  /\ docs' = [docs EXCEPT ![d][tasks[k].flag] = tasks[k].to]
           /\ astray' = NoteIf(~docs'[d].deleted /\ ~categories[docs[d].category].live, astray, d)
    /\ Close(k)
    /\ UNCHANGED <<categories, versions, signed, unlocked, regraded>>

-----------------------------------------------------------------------------
(* acknowledge; the queries before the insert are read at once.            *)
SignRead(k, d, e) ==
    /\ InUse(d) /\ docs[d].published /\ ~docs[d].archived
    /\ e \in docs[d].terms.audience /\ <<d, e>> \notin DOMAIN signed
    /\ Begin(k, [kind |-> "sign", doc |-> d, by |-> e, version |-> docs[d].current])
    /\ UNCHANGED <<categories, docs, versions, signed, unlocked, astray, regraded>>

SignCommit(k) ==
    /\ At(k, "sign") /\ <<tasks[k].doc, tasks[k].by>> \notin DOMAIN signed
    /\ signed' = Put(signed, <<tasks[k].doc, tasks[k].by>>, tasks[k].version)
    /\ Close(k)
    /\ UNCHANGED <<categories, docs, versions, unlocked, astray, regraded>>

(* A later check or a constraint refuses the request, or a statement fails.*)
Rejected(k) ==
    /\ k \in DOMAIN tasks
    /\ Close(k)
    /\ UNCHANGED <<categories, docs, versions, signed, unlocked, astray, regraded>>

DocumentsNext ==
    \/ \E c \in Categories :
          \/ RestoreCategory(c)
          \/ \E active, personal \in BOOLEAN :
                CreateCategory(c, active, personal) \/ UpdateCategory(c, active, personal)
    \/ \E k \in Clerks :
          \/ RemoveCategoryCommit(k) \/ AmendCommit(k) \/ ReplaceNumber(k)
          \/ MarkCommit(k) \/ SignCommit(k) \/ Rejected(k)
          \/ \E f \in Files : ReplaceCommit(k, f)
          \/ \E c \in Categories :
                RemoveCategoryRead(k, c) \/ \E personal \in BOOLEAN : CreateRead(k, c, personal)
          \/ \E d \in Docs :
                \/ ReplaceRead(k, d)
                \/ \E flag \in Flag, to \in BOOLEAN : MarkRead(k, d, flag, to)
                \/ \E e \in Readers : SignRead(k, d, e)
                \/ \E terms \in Terms :
                      \/ AmendRead(k, d, terms)
                      \/ \E f \in Files, published \in BOOLEAN :
                            CreateCommit(k, d, f, terms, published)

DocumentsSpec == DocumentsInit /\ [][DocumentsNext]_docVars

-----------------------------------------------------------------------------
DocumentsTypeOK ==
    /\ DOMAIN categories \subseteq Categories
    /\ \A c \in DOMAIN categories : categories[c] \in Category
    /\ DOMAIN docs \subseteq Docs /\ DOMAIN versions = DOMAIN docs
    /\ \A d \in DOMAIN docs : docs[d] \in Doc /\ versions[d] \in Seq(Files)
    /\ DOMAIN signed \subseteq (DOMAIN docs) \X Readers
    /\ DOMAIN tasks \subseteq Clerks
    /\ \A k \in DOMAIN tasks : tasks[k] \in Task
    /\ unlocked \subseteq DOMAIN docs /\ astray \subseteq DOMAIN docs
    /\ regraded \subseteq DOMAIN categories

(* Files are only ever added, in order, and the pointer to the current     *)
(* version is to the last, however requests overlap: the unique key        *)
(* refuses the one that counted from the same version (replaceFile,        *)
(* documents.service.ts:317-371).  The document implements VersionLog.     *)
AbstractLog == INSTANCE VersionLog
    WITH log   <- [d \in Docs |-> IF d \in DOMAIN versions THEN versions[d] ELSE << >>],
         shown <- [d \in Docs |-> IF d \in DOMAIN docs THEN versions[d][docs[d].current] ELSE Nothing]

VersionsAreALog == AbstractLog!Spec

(* Everyone who acknowledged a document is still one it is meant for, and  *)
(* the version he acknowledged exists (acknowledge,                        *)
(* documents.service.ts:514-564): "isRequired and audiences are locked     *)
(* once a document is published" (:255-265), unless it was published       *)
(* under an edit.                                                          *)
SignersAreReaders ==
    \A s \in DOMAIN signed :
        /\ signed[s] \in 1 .. docs[s[1]].current
        /\ s[1] \notin unlocked => s[2] \in docs[s[1]].terms.audience

(* A live document is in a live category of its own kind                   *)
(* ("document.category.in_use", document-categories.service.ts:135-142;    *)
(* "isPersonal must match the category's isPersonal flag",                 *)
(* documents.service.ts:171-180), unless it was restored from the deleted  *)
(* into a deleted category or filed while that was deleted.                *)
FiledRight ==
    \A d \in DOMAIN docs \ astray :
        LET c == docs[d].category IN
        /\ ~docs[d].deleted => categories[c].live
        /\ c \notin regraded => docs[d].personal = categories[c].personal
=============================================================================
