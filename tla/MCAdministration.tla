-------------------------- MODULE MCAdministration --------------------------
(* Memberships, sign-in limits, announcements and documents share no row   *)
(* that two of them write, so each behaviour moves one of them and leaves  *)
(* the others as they began.                                               *)
EXTENDS Access, Announcements, Documents, TLC

CONSTANTS
    c1, c2,           \* who calls: administrators, guessers, writers and clerks
    n1, n2,           \* identities of invites and of files
    p1, staff, custom, x, joe, ann, ch1, a1, e1, x1, k1

Symmetry == Permutations({c1, c2}) \union Permutations({n1, n2})

(* One collision is followed as far as it goes; a second one of another    *)
(* kind on top of it is left out.                                          *)
OneCollision ==
    Cardinality(torn) + Cardinality(crowded) + Cardinality(mixed) + Cardinality(orphaned) <= 1

FewFailures == \A u \in Accounts : failed[u] <= LoginLimit + 1

MCEdits ==
    {[scheduled |-> Never, expires |-> Kept, audience |-> Kept],
     [scheduled |-> Kept, expires |-> 2, audience |-> Kept],
     [scheduled |-> Kept, expires |-> Kept, audience |-> {e1}]}

MCTerms == {[required |-> FALSE, audience |-> {}], [required |-> TRUE, audience |-> {e1}]}

(* The system role lacks the permission a custom role may grant.           *)
MembersAtRest == MembershipInit /\ roles[staff].grants = {}

AtRest == MembersAtRest /\ LimitsInit /\ AnnouncementsInit /\ DocumentsInit

SpecApart ==
    /\ AtRest
    /\ [][ \/ /\ LimitsInit /\ AnnouncementsInit /\ DocumentsInit
              /\ MembershipNext /\ OneCollision'
              /\ UNCHANGED <<limitVars, noticeVars, docVars>>
           \/ /\ MembersAtRest /\ AnnouncementsInit /\ DocumentsInit
              /\ LimitsNext /\ FewFailures'
              /\ UNCHANGED <<memberVars, noticeVars, docVars>>
           \/ /\ MembersAtRest /\ LimitsInit /\ DocumentsInit
              /\ AnnouncementsNext
              /\ UNCHANGED <<memberVars, limitVars, docVars>>
           \/ /\ MembersAtRest /\ LimitsInit /\ AnnouncementsInit
              /\ DocumentsNext
              /\ UNCHANGED <<memberVars, limitVars, noticeVars>>
         ]_<<memberVars, limitVars, noticeVars, docVars>>
=============================================================================
