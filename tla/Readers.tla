------------------------------ MODULE Readers -------------------------------
(***************************************************************************)
(* Who an announcement or a document is for.  Two sides answer that on     *)
(* their own: the audience side turns rules into employees (the two        *)
(* audience resolvers and the admin dashboard), the feed side turns the    *)
(* employee who asks into the rules that name them (myFeed, myDocuments,   *)
(* the download, the employee dashboard).  staff maps employees to rows; a *)
(* rule of a kind names one value of the trait of that name, or none.      *)
(***************************************************************************)
EXTENDS Integers, FiniteSets, FiniteSetsExt

CONSTANT None   \* an empty column

Traits == {"department", "designation", "location", "employment_type", "specific_employees"}
All    == [kind |-> "all_employees", value |-> None]

Named(rules, kind) == {rule.value : rule \in {r \in rules : r.kind = kind}} \ {None}

-----------------------------------------------------------------------------
(* The audience side. *)

Active(staff) == {e \in DOMAIN staff : staff[e].live /\ staff[e].status # "offboarded"}

\* mutant: offboarded employees stay in the audience
ResolveOffboarded(rules, staff) ==
    {e \in DOMAIN staff : /\ staff[e].live
                          /\ \/ All \in rules
                             \/ \E kind \in Traits : staff[e][kind] \in Named(rules, kind)}

ResolveEmployeeIds(rules, staff) ==
    IF All \in rules THEN Active(staff)
    ELSE {e \in Active(staff) :
            \E kind \in Traits : staff[e][kind] \in Named(rules, kind)}

(* The documents module and the admin dashboard each repeat the resolver;  *)
(* a personal document has its subject for readers, whatever became of them. *)
DocumentEmployeeIds(doc, staff) ==
    IF doc.personal THEN {doc.subject} \ {None} ELSE ResolveEmployeeIds(doc.rules, staff)

Counted(doc, staff) ==
    IF doc.personal THEN {doc.subject} \ {None} ELSE ResolveEmployeeIds(doc.rules, staff)

Out(doc) == ~doc.deleted /\ ~doc.archived /\ doc.published

Total(figures) == MapThenSumSet(LAMBDA x : figures[x], DOMAIN figures)

(* countPendingRequiredDocAcks *)
PendingRequiredDocAcks(docs, staff) ==
    Total([doc \in {d \in docs : Out(d) /\ d.required} |-> Cardinality(Counted(doc, staff) \ doc.acks)])

-----------------------------------------------------------------------------
(* The feed side.  The caller's row is looked up by user among the live    *)
(* ones, whatever its status; an empty column names no rule.               *)

RulesNaming(row) ==
    {All} \union {[kind |-> kind, value |-> row[kind]] :
                     kind \in {k \in Traits : row[k] # None}}

ForMe(doc, e, staff) ==
    IF doc.personal THEN doc.subject = e
    ELSE doc.rules \intersect RulesNaming(staff[e]) # {}

MyDocuments(e, docs, staff) == {doc \in docs : Out(doc) /\ ForMe(doc, e, staff)}

(* myDocuments with unacknowledgedOnly, and the employee dashboard's count *)
MyOwedDocuments(e, docs, staff) ==
    {doc \in MyDocuments(e, docs, staff) : doc.required /\ e \notin doc.acks}

MayDownload(e, doc, staff) == Out(doc) /\ ForMe(doc, e, staff)

(* Announcements: the feed drops the expired ones; the count of what is    *)
(* owed on the employee dashboard does not.                                *)
MyFeed(e, notices, staff) ==
    {n \in notices : n.published /\ ~n.expired /\ n.rules \intersect RulesNaming(staff[e]) # {}}

MyOwedNotices(e, notices, staff) ==
    {n \in MyFeed(e, notices, staff) : n.required /\ e \notin n.acks}

DashboardOwedNotices(e, notices, staff) ==
    {n \in notices : /\ n.published /\ n.required /\ e \notin n.acks
                     /\ n.rules \intersect RulesNaming(staff[e]) # {}}
=============================================================================
