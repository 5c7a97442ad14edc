---------------------------- MODULE AccessProofs ----------------------------
(***************************************************************************)
(* Who gets into an organisation, and how often one may try, for any       *)
(* people, roles, invites, accounts, challenges and overlapping calls.     *)
(***************************************************************************)
EXTENDS Access, FiniteSetTheorems, TLAPS

-----------------------------------------------------------------------------
(* Memberships.                                                            *)

(* What a call in flight knows: the role it gives is a row, the invite it  *)
(* acts on is one and was open to it.                                      *)
CallKnows(call) ==
    /\ call.kind \in {"assign", "swap"} => call.role \in DOMAIN roles
    /\ call.kind \in {"revoke", "resend", "accept", "expire"} =>
          call.invite \in DOMAIN invites /\ call.saw \in {"pending", "expired"}
    /\ call.kind \in {"revoke", "expire"} => call.saw = "pending"

CallsKnow == \A c \in DOMAIN pending : CallKnows(pending[c])

(* Who holds a role that was not orphaned holds one nobody is deleting.    *)
HeldStays == \A p \in People : \A r \in holds[p] \ orphaned : ~Doomed(r)

(* A link was used once if its invite is accepted, and else not at all.    *)
UsesCounted ==
    \A i \in DOMAIN invites \ torn :
        invites[i].uses = IF invites[i].status = "accepted" THEN 1 ELSE 0

(* One role and one open invite, but for those in mixed and crowded.       *)
AtMostOne ==
    /\ \A p \in People \ mixed : \A r, s \in holds[p] : r = s
    /\ \A p \in People \ crowded : \A i, j \in Open(p) : i = j

MemberInv ==
    MembershipTypeOK /\ CallsKnow /\ HeldStays /\ UsesCounted /\ AtMostOne

LEMMA MemberInitially == MembershipInit => MemberInv
<1> SUFFICES ASSUME MembershipInit PROVE MemberInv
  OBVIOUS
<1>1. /\ DOMAIN roles = SystemRoles /\ \A r \in DOMAIN roles : roles[r] \in Role
      /\ DOMAIN invites = {} /\ DOMAIN pending = {}
      /\ \A p \in People : holds[p] = {}
      /\ torn = {} /\ crowded = {} /\ mixed = {} /\ orphaned = {}
  BY DEF MembershipInit
<1>2. MembershipTypeOK
  BY <1>1, MembershipAssumption DEF MembershipTypeOK, MembershipInit
<1> QED
  BY <1>1, <1>2 DEF MemberInv, CallsKnow, HeldStays, UsesCounted, AtMostOne, Open

(* Calls that end, while rows are only added.                              *)
LEMMA CallsEnd ==
    ASSUME MemberInv, NEW c, End(c) \/ UNCHANGED pending,
           DOMAIN roles \subseteq DOMAIN roles', DOMAIN invites \subseteq DOMAIN invites'
    PROVE  /\ DOMAIN pending' \subseteq Callers
           /\ \A d \in DOMAIN pending' : /\ d \in DOMAIN pending /\ pending'[d] = pending[d]
                                         /\ pending'[d] \in Call
           /\ CallsKnow'
<1>1. \A d \in DOMAIN pending' : d \in DOMAIN pending /\ pending'[d] = pending[d]
  BY DEF End, Drop, Restrict
<1>2. \A d \in DOMAIN pending' : pending'[d] \in Call /\ CallKnows(pending[d])
  BY <1>1 DEF MemberInv, MembershipTypeOK, CallsKnow
<1>3. CallsKnow'
  BY <1>1, <1>2 DEF CallsKnow, CallKnows
<1> QED
  BY <1>1, <1>2, <1>3 DEF MemberInv, MembershipTypeOK

(* A call that begins, or goes on, knowing what it has read.               *)
LEMMA CallBegins ==
    ASSUME MemberInv, NEW c \in Callers, NEW call \in Call, CallKnows(call),
           \/ Start(c, call)
           \/ c \in DOMAIN pending /\ pending' = [pending EXCEPT ![c] = call],
           call.kind = "remove" => \A p \in People : call.role \notin holds[p],
           UNCHANGED <<roles, joined, holds, invites, memberTraces>>
    PROVE  MemberInv'
<1>1. /\ DOMAIN pending' = DOMAIN pending \union {c}
      /\ \A d \in DOMAIN pending' : pending'[d] = IF d = c THEN call ELSE pending[d]
  BY DEF Start, Put
<1>2. UNCHANGED <<torn, crowded, mixed, orphaned>>
  BY DEF memberTraces
<1>3. MembershipTypeOK'
  BY <1>1, <1>2 DEF MemberInv, MembershipTypeOK
<1>4. CallsKnow'
  BY <1>1 DEF MemberInv, CallsKnow, CallKnows
<1>5. HeldStays'
  BY <1>1, <1>2 DEF MemberInv, HeldStays, Doomed, Doing, Live
<1>6. UsesCounted' /\ AtMostOne'
  BY <1>2 DEF MemberInv, UsesCounted, AtMostOne, Open
<1> QED
  BY <1>3, <1>4, <1>5, <1>6 DEF MemberInv

LEMMA MemberReads ==
    ASSUME MemberInv, NEW c \in Callers,
           \/ \E r \in Roles : RemoveRead(c, r)
           \/ \E p \in People, r \in Roles : AssignRead(c, p, r) \/ InviteRead(c, p, r)
           \/ AssignDelete(c)
           \/ \E i \in Invites :
                 RevokeRead(c, i) \/ ResendRead(c, i) \/ AcceptRead(c, i) \/ AcceptLate(c, i)
    PROVE  MemberInv'
<1>1. ASSUME NEW r \in Roles, RemoveRead(c, r) PROVE MemberInv'
  <2> DEFINE call == [kind |-> "remove", role |-> r]
  <2>1. call \in Call /\ CallKnows(call) /\ \A p \in People : r \notin holds[p]
    BY <1>1 DEF RemoveRead, HoldersOf, Call, CallKnows
  <2> QED
    BY <1>1, <2>1, CallBegins DEF RemoveRead
<1>2. ASSUME NEW p \in People, NEW r \in Roles, AssignRead(c, p, r) PROVE MemberInv'
  <2> DEFINE call == [kind |-> "assign", to |-> p, role |-> r]
  <2>1. call \in Call /\ CallKnows(call)
    BY <1>2 DEF AssignRead, Live, Call, CallKnows
  <2> QED
    BY <1>2, <2>1, CallBegins DEF AssignRead
<1>3. ASSUME NEW p \in People, NEW r \in Roles, InviteRead(c, p, r) PROVE MemberInv'
  <2> DEFINE call == [kind |-> "invite", to |-> p, role |-> r]
  <2>1. call \in Call /\ CallKnows(call)
    BY DEF Call, CallKnows
  <2> QED
    BY <1>3, <2>1, CallBegins DEF InviteRead
<1>4. ASSUME AssignDelete(c) PROVE MemberInv'
  <2> DEFINE call == [kind |-> "swap", to |-> pending[c].to, role |-> pending[c].role,
                      old |-> holds[pending[c].to]]
  <2>1. /\ c \in DOMAIN pending /\ pending[c].kind = "assign"
        /\ pending[c] \in Call /\ CallKnows(pending[c])
    BY <1>4 DEF AssignDelete, Doing, MemberInv, MembershipTypeOK, CallsKnow
  <2>2. pending[c].to \in People /\ pending[c].role \in Roles /\ pending[c].role \in DOMAIN roles
    BY <2>1 DEF Call, CallKnows
  <2>3. holds[pending[c].to] \in SUBSET Roles
    BY <2>2 DEF MemberInv, MembershipTypeOK
  <2>4. call \in Call /\ CallKnows(call)
    BY <2>2, <2>3 DEF Call, CallKnows
  <2> QED
    BY <1>4, <2>1, <2>4, CallBegins DEF AssignDelete
<1>5. ASSUME NEW i \in Invites, NEW kind \in {"revoke", "resend", "accept", "expire"},
             i \in DOMAIN invites, invites[i].status \in {"pending", "expired"},
             kind \in {"revoke", "expire"} => invites[i].status = "pending",
             ReadInvite(c, kind, i)
      PROVE  MemberInv'
  <2> DEFINE call == [kind |-> kind, invite |-> i, saw |-> invites[i].status]
  <2>1. call \in Call /\ CallKnows(call)
    BY <1>5 DEF Call, CallKnows, Status
  <2> QED
    BY <1>5, <2>1, CallBegins DEF ReadInvite
<1>6. ASSUME NEW i \in Invites,
             RevokeRead(c, i) \/ ResendRead(c, i) \/ AcceptRead(c, i) \/ AcceptLate(c, i)
      PROVE  MemberInv'
  BY <1>5, <1>6 DEF RevokeRead, ResendRead, AcceptRead, AcceptLate
<1> QED
  BY <1>1, <1>2, <1>3, <1>4, <1>6

(* Roles are created, edited, restored, and deleted once nobody holds them. *)
LEMMA MemberRoles ==
    ASSUME MemberInv,
           \/ \E r \in Roles :
                 \/ RestoreRole(r)
                 \/ \E keys \in SUBSET Permissions : CreateRole(r, keys) \/ UpdateRole(r, keys)
           \/ \E c \in Callers : RemoveCommit(c)
    PROVE  MemberInv'
<1>1. \A r \in DOMAIN roles : roles[r] \in Role
  BY DEF MemberInv, MembershipTypeOK
<1>2. ASSUME UNCHANGED <<joined, holds, invites, memberTraces>>,
             DOMAIN roles \subseteq DOMAIN roles', DOMAIN roles' \subseteq Roles,
             \A r \in DOMAIN roles' : roles'[r] \in Role,
             \A r \in Live : r \in Live' \/ \E d \in DOMAIN pending :
                                                Doing(d, "remove") /\ pending[d].role = r,
             NEW c, End(c) \/ UNCHANGED pending
      PROVE  MemberInv'
  <2>1. /\ DOMAIN pending' \subseteq Callers
        /\ \A d \in DOMAIN pending' : /\ d \in DOMAIN pending /\ pending'[d] = pending[d]
                                      /\ pending'[d] \in Call
        /\ CallsKnow'
    BY <1>2, CallsEnd
  <2>2. UNCHANGED <<torn, crowded, mixed, orphaned>>
    BY <1>2 DEF memberTraces
  <2>3. MembershipTypeOK'
    BY <1>2, <2>1, <2>2 DEF MemberInv, MembershipTypeOK
  <2>4. HeldStays'
    <3>1. ASSUME NEW p \in People, NEW r \in holds[p] \ orphaned
          PROVE  /\ r \in Live'
                 /\ \A d \in DOMAIN pending' : ~(pending'[d].kind = "remove" /\ pending'[d].role = r)
      <4>1. ~Doomed(r)
        BY DEF MemberInv, HeldStays
      <4>2. /\ r \in Live
            /\ \A d \in DOMAIN pending : ~(pending[d].kind = "remove" /\ pending[d].role = r)
        BY <4>1 DEF Doomed, Doing
      <4> QED
        BY <1>2, <2>1, <4>2 DEF Doing
    <3> QED
      BY <1>2, <2>2, <3>1 DEF HeldStays, Doomed, Doing
  <2>5. UsesCounted' /\ AtMostOne'
    BY <1>2, <2>2 DEF MemberInv, UsesCounted, AtMostOne, Open
  <2> QED
    BY <2>1, <2>3, <2>4, <2>5 DEF MemberInv
<1>3. ASSUME NEW r \in Roles, RestoreRole(r) PROVE MemberInv'
  <2>1. /\ r \in DOMAIN roles /\ roles' = [roles EXCEPT ![r].live = TRUE]
        /\ UNCHANGED <<joined, holds, invites, pending, memberTraces>>
    BY <1>3 DEF RestoreRole
  <2>2. /\ DOMAIN roles' = DOMAIN roles /\ \A s \in DOMAIN roles' : roles'[s] \in Role
        /\ \A s \in Live : s \in Live'
    BY <1>1, <2>1 DEF Role, Live
  <2> QED
    BY <1>2, <2>1, <2>2 DEF MemberInv, MembershipTypeOK
<1>4. ASSUME NEW r \in Roles, NEW keys \in SUBSET Permissions, CreateRole(r, keys)
      PROVE  MemberInv'
  <2>1. /\ roles' = Put(roles, r, [live |-> TRUE, grants |-> keys]) /\ r \notin DOMAIN roles
        /\ UNCHANGED <<joined, holds, invites, pending, memberTraces>>
    BY <1>4 DEF CreateRole
  <2>2. /\ DOMAIN roles' = DOMAIN roles \union {r} /\ \A s \in DOMAIN roles' : roles'[s] \in Role
        /\ \A s \in Live : s \in Live'
    BY <1>1, <2>1 DEF Put, Role, Live
  <2> QED
    BY <1>2, <2>1, <2>2 DEF MemberInv, MembershipTypeOK
<1>5. ASSUME NEW r \in Roles, NEW keys \in SUBSET Permissions, UpdateRole(r, keys)
      PROVE  MemberInv'
  <2>1. /\ r \in DOMAIN roles /\ roles' = [roles EXCEPT ![r].grants = keys]
        /\ UNCHANGED <<joined, holds, invites, pending, memberTraces>>
    BY <1>5 DEF UpdateRole
  <2>2. /\ DOMAIN roles' = DOMAIN roles /\ \A s \in DOMAIN roles' : roles'[s] \in Role
        /\ \A s \in Live : s \in Live'
    BY <1>1, <2>1 DEF Role, Live
  <2> QED
    BY <1>2, <2>1, <2>2 DEF MemberInv, MembershipTypeOK
<1>6. ASSUME NEW c \in Callers, RemoveCommit(c) PROVE MemberInv'
  <2>1. /\ Doing(c, "remove") /\ roles' = [roles EXCEPT ![pending[c].role].live = FALSE]
        /\ End(c) /\ UNCHANGED <<joined, holds, invites, memberTraces>>
    BY <1>6 DEF RemoveCommit
  <2>2. /\ DOMAIN roles' = DOMAIN roles /\ \A s \in DOMAIN roles' : roles'[s] \in Role
        /\ \A s \in Live : s \in Live' \/ s = pending[c].role
    BY <1>1, <2>1 DEF Role, Live
  <2> QED
    BY <1>2, <2>1, <2>2 DEF MemberInv, MembershipTypeOK, Doing
<1> QED
  BY <1>3, <1>4, <1>5, <1>6

(* A role is given, to one who keeps no other or is noted in mixed.        *)
LEMMA MemberAssign == ASSUME MemberInv, NEW c \in Callers, AssignCommit(c) PROVE MemberInv'
<1> DEFINE p == pending[c].to
           r == pending[c].role
           old == pending[c].old
<1>1. /\ c \in DOMAIN pending /\ pending[c].kind = "swap"
      /\ pending[c] \in Call /\ CallKnows(pending[c])
  BY DEF AssignCommit, Doing, MemberInv, MembershipTypeOK, CallsKnow
<1>2. p \in People /\ r \in DOMAIN roles /\ r \in Roles
  BY <1>1 DEF Call, CallKnows
<1>3. /\ holds' = [holds EXCEPT ![p] = (@ \ old) \union {r}]
      /\ mixed' = NoteIf(holds[p] # old, mixed, p)
      /\ orphaned' = NoteIf(Doomed(r), orphaned, r)
      /\ End(c) /\ UNCHANGED <<roles, joined, invites, torn, crowded>>
  BY DEF AssignCommit
<1> HIDE DEF p, r, old
<1>4. /\ DOMAIN pending' \subseteq Callers
      /\ \A d \in DOMAIN pending' : /\ d \in DOMAIN pending /\ pending'[d] = pending[d]
                                    /\ pending'[d] \in Call
      /\ CallsKnow'
  BY <1>3, CallsEnd
<1>5. /\ holds \in [People -> SUBSET DOMAIN roles]
      /\ mixed \subseteq mixed' /\ mixed' \subseteq People
      /\ orphaned \subseteq orphaned' /\ orphaned' \subseteq Roles
  BY <1>2, <1>3 DEF NoteIf, MemberInv, MembershipTypeOK
<1>6. /\ holds'[p] = (holds[p] \ old) \union {r}
      /\ \A o \in People \ {p} : holds'[o] = holds[o]
      /\ holds' \in [People -> SUBSET DOMAIN roles]
  BY <1>2, <1>3, <1>5
<1>7. MembershipTypeOK'
  BY <1>3, <1>4, <1>5, <1>6 DEF MemberInv, MembershipTypeOK
<1>8. HeldStays'
  <2>1. ASSUME NEW o \in People, NEW s \in holds'[o] \ orphaned' PROVE ~Doomed(s)
    BY <1>3, <1>5, <1>6, <2>1 DEF MemberInv, HeldStays, NoteIf
  <2>2. \A s : ~Doomed(s) => ~Doomed(s)'
    BY <1>3, <1>4 DEF Doomed, Doing, Live
  <2> QED
    BY <2>1, <2>2 DEF HeldStays
<1>9. AtMostOne'
  <2>1. \A o \in People \ mixed' : \A s, t \in holds'[o] : s = t
    BY <1>3, <1>5, <1>6 DEF MemberInv, AtMostOne, NoteIf
  <2> QED
    BY <1>3, <2>1 DEF MemberInv, AtMostOne, Open
<1>10. UsesCounted'
  BY <1>3 DEF MemberInv, UsesCounted
<1> QED
  BY <1>4, <1>7, <1>8, <1>9, <1>10 DEF MemberInv

(* An invite is accepted.                                                  *)
LEMMA MemberAccept == ASSUME MemberInv, NEW c \in Callers, AcceptCommit(c) PROVE MemberInv'
<1> DEFINE i == pending[c].invite
           p == invites[i].to
           r == invites[i].role
<1>1. /\ c \in DOMAIN pending /\ pending[c].kind = "accept"
      /\ pending[c] \in Call /\ CallKnows(pending[c])
  BY DEF AcceptCommit, Doing, MemberInv, MembershipTypeOK, CallsKnow
<1>2. /\ i \in DOMAIN invites /\ invites[i] \in Invite
      /\ pending[c].saw \in {"pending", "expired"}
  BY <1>1 DEF CallKnows, MemberInv, MembershipTypeOK
<1>3. p \in People /\ r \in Roles
  BY <1>2 DEF Invite
<1>4. /\ r \in Live /\ joined' = joined \union {p}
      /\ holds' = [holds EXCEPT ![p] = @ \union {r}]
      /\ invites' = [invites EXCEPT ![i].status = "accepted", ![i].uses = @ + 1]
      /\ torn' = NoteIf(Outdated(c) \/ pending[c].saw = "expired" \/ invites[i].lapsed, torn, i)
      /\ mixed' = NoteIf(~(holds[p] \subseteq {r}), mixed, p)
      /\ orphaned' = NoteIf(Doomed(r), orphaned, r)
      /\ End(c) /\ UNCHANGED <<roles, crowded>>
  BY DEF AcceptCommit
<1>5. Outdated(c) <=> invites[i].status # pending[c].saw
  BY DEF Outdated
<1> HIDE DEF i, p, r
<1>6. /\ DOMAIN invites' = DOMAIN invites
      /\ invites'[i].status = "accepted" /\ invites'[i].uses = invites[i].uses + 1
      /\ invites'[i].to = invites[i].to /\ invites'[i] \in Invite
      /\ \A j \in DOMAIN invites \ {i} : invites'[j] = invites[j]
  <2>1. PICK n \in Nat : n = invites[i].uses + 1
    BY <1>2 DEF Invite
  <2>2. /\ DOMAIN invites' = DOMAIN invites
        /\ invites'[i] = [invites[i] EXCEPT !.status = "accepted", !.uses = n]
        /\ \A j \in DOMAIN invites \ {i} : invites'[j] = invites[j]
    BY <1>2, <1>4, <2>1
  <2> QED
    BY <1>2, <2>1, <2>2 DEF Invite, Status
<1>7. /\ DOMAIN pending' \subseteq Callers
      /\ \A d \in DOMAIN pending' : /\ d \in DOMAIN pending /\ pending'[d] = pending[d]
                                    /\ pending'[d] \in Call
      /\ CallsKnow'
  BY <1>4, <1>6, CallsEnd
<1>8. /\ holds \in [People -> SUBSET DOMAIN roles] /\ r \in DOMAIN roles
      /\ mixed \subseteq mixed' /\ mixed' \subseteq People
      /\ orphaned \subseteq orphaned' /\ orphaned' \subseteq Roles
      /\ torn \subseteq torn' /\ torn' \subseteq DOMAIN invites
  <2>1. /\ holds \in [People -> SUBSET DOMAIN roles] /\ mixed \subseteq People
        /\ orphaned \subseteq Roles /\ torn \subseteq DOMAIN invites
    BY DEF MemberInv, MembershipTypeOK
  <2>2. r \in DOMAIN roles
    BY <1>4 DEF Live
  <2> QED
    BY <1>2, <1>3, <1>4, <2>1, <2>2 DEF NoteIf
<1>9. /\ holds'[p] = holds[p] \union {r}
      /\ \A o \in People \ {p} : holds'[o] = holds[o]
      /\ holds' \in [People -> SUBSET DOMAIN roles]
  BY <1>3, <1>4, <1>8
<1>10. MembershipTypeOK'
  <2>1. \A j \in DOMAIN invites' : invites'[j] \in Invite
    BY <1>6 DEF MemberInv, MembershipTypeOK
  <2> QED
    BY <1>3, <1>4, <1>6, <1>7, <1>8, <1>9, <2>1 DEF MemberInv, MembershipTypeOK
<1>11. HeldStays'
  <2>1. ASSUME NEW o \in People, NEW s \in holds'[o] \ orphaned' PROVE ~Doomed(s)
    BY <1>4, <1>8, <1>9, <2>1 DEF MemberInv, HeldStays, NoteIf
  <2>2. \A s : ~Doomed(s) => ~Doomed(s)'
    BY <1>4, <1>7 DEF Doomed, Doing, Live
  <2> QED
    BY <2>1, <2>2 DEF HeldStays
<1>12. UsesCounted'
  <2>1. ASSUME i \notin torn' PROVE invites'[i].uses = 1
    <3>1. i \notin torn /\ invites[i].status = pending[c].saw
      BY <1>4, <1>5, <2>1 DEF NoteIf
    <3>2. invites[i].uses = 0
      BY <1>2, <3>1 DEF MemberInv, UsesCounted
    <3> QED
      BY <1>6, <3>2
  <2> QED
    BY <1>6, <1>8, <2>1 DEF MemberInv, UsesCounted
<1>13. AtMostOne'
  <2>1. \A o \in People \ mixed' : \A s, t \in holds'[o] : s = t
    BY <1>4, <1>8, <1>9 DEF MemberInv, AtMostOne, NoteIf
  <2>2. \A o \in People : Open(o)' \subseteq Open(o)
    BY <1>6 DEF Open
  <2> QED
    BY <1>4, <2>1, <2>2 DEF MemberInv, AtMostOne
<1> QED
  BY <1>7, <1>10, <1>11, <1>12, <1>13 DEF MemberInv

(* What changes nothing but invites, and adds at most one that is open.    *)
LEMMA MemberInvites ==
    ASSUME MemberInv, NEW c, End(c) \/ UNCHANGED pending,
           UNCHANGED <<roles, joined, holds, mixed, orphaned>>,
           DOMAIN invites \subseteq DOMAIN invites', DOMAIN invites' \subseteq Invites,
           \A i \in DOMAIN invites' : invites'[i] \in Invite,
           torn \subseteq torn', torn' \subseteq DOMAIN invites',
           crowded \subseteq crowded', crowded' \subseteq People,
           UsesCounted',
           \A p \in People \ crowded' : \A i, j \in Open(p)' : i = j
    PROVE  MemberInv'
<1>1. /\ DOMAIN pending' \subseteq Callers
      /\ \A d \in DOMAIN pending' : /\ d \in DOMAIN pending /\ pending'[d] = pending[d]
                                    /\ pending'[d] \in Call
      /\ CallsKnow'
  BY CallsEnd
<1>2. MembershipTypeOK'
  BY <1>1 DEF MemberInv, MembershipTypeOK
<1>3. HeldStays'
  <2>1. \A s : ~Doomed(s) => ~Doomed(s)'
    BY <1>1 DEF Doomed, Doing, Live
  <2> QED
    BY <2>1 DEF MemberInv, HeldStays
<1>4. AtMostOne'
  BY DEF MemberInv, AtMostOne
<1> QED
  BY <1>1, <1>2, <1>3, <1>4 DEF MemberInv

LEMMA MemberInvited ==
    ASSUME MemberInv, NEW c \in Callers, NEW j \in Invites, InviteCommit(c, j)
    PROVE  MemberInv'
<1> DEFINE p == pending[c].to
           row == NewInvite(p, pending[c].role)
<1>1. c \in DOMAIN pending /\ pending[c].kind = "invite" /\ pending[c] \in Call
  BY DEF InviteCommit, Doing, MemberInv, MembershipTypeOK
<1>2. p \in People /\ row \in Invite /\ row.uses = 0 /\ row.status = "pending" /\ row.to = p
  BY <1>1 DEF Call, NewInvite, Invite, Status
<1>3. /\ j \notin DOMAIN invites /\ invites' = Put(invites, j, row)
      /\ crowded' = NoteIf(Open(p) # {}, crowded, p)
      /\ End(c) /\ UNCHANGED <<roles, joined, holds, torn, mixed, orphaned>>
  BY DEF InviteCommit
<1> HIDE DEF p, row
<1>4. /\ DOMAIN invites' = DOMAIN invites \union {j} /\ invites'[j] = row
      /\ \A i \in DOMAIN invites : invites'[i] = invites[i]
  BY <1>3 DEF Put
<1>5. \A i \in DOMAIN invites' : invites'[i] \in Invite
  BY <1>2, <1>4 DEF MemberInv, MembershipTypeOK
<1>6. UsesCounted'
  BY <1>2, <1>3, <1>4 DEF MemberInv, UsesCounted
<1>7. \A o \in People \ crowded' : \A i, k \in Open(o)' : i = k
  <2>1. \A o \in People : Open(o)' = IF o = p THEN Open(o) \union {j} ELSE Open(o)
    BY <1>2, <1>3, <1>4 DEF Open
  <2> QED
    BY <1>3, <2>1 DEF MemberInv, AtMostOne, NoteIf
<1>8. /\ crowded \subseteq crowded' /\ crowded' \subseteq People
      /\ torn \subseteq torn' /\ torn' \subseteq DOMAIN invites' /\ DOMAIN invites' \subseteq Invites
  BY <1>2, <1>3, <1>4 DEF NoteIf, MemberInv, MembershipTypeOK
<1> QED
  BY <1>3, <1>4, <1>5, <1>6, <1>7, <1>8, MemberInvites

LEMMA MemberResent ==
    ASSUME MemberInv, NEW c \in Callers, NEW j \in Invites, ResendCommit(c, j)
    PROVE  MemberInv'
<1> DEFINE i == pending[c].invite
           p == invites[i].to
           row == NewInvite(p, invites[i].role)
<1>1. /\ c \in DOMAIN pending /\ pending[c].kind = "resend"
      /\ pending[c] \in Call /\ CallKnows(pending[c])
  BY DEF ResendCommit, Doing, MemberInv, MembershipTypeOK, CallsKnow
<1>2. /\ i \in DOMAIN invites /\ invites[i] \in Invite
      /\ pending[c].saw \in {"pending", "expired"}
  BY <1>1 DEF CallKnows, MemberInv, MembershipTypeOK
<1>3. p \in People /\ row \in Invite /\ row.uses = 0 /\ row.status = "pending" /\ row.to = p
  BY <1>2 DEF NewInvite, Invite, Status
<1>4. /\ j \notin DOMAIN invites
      /\ invites' = Put([invites EXCEPT ![i].status = "expired"], j, row)
      /\ crowded' = NoteIf(Open(p) \ {i} # {}, crowded, p)
      /\ torn' = NoteIf(Outdated(c), torn, i)
      /\ End(c) /\ UNCHANGED <<roles, joined, holds, mixed, orphaned>>
  BY DEF ResendCommit
<1>5. Outdated(c) <=> invites[i].status # pending[c].saw
  BY DEF Outdated
<1> HIDE DEF i, p, row
<1>6. /\ DOMAIN invites' = DOMAIN invites \union {j} /\ invites'[j] = row
      /\ invites'[i] = [invites[i] EXCEPT !.status = "expired"]
      /\ \A k \in DOMAIN invites \ {i} : invites'[k] = invites[k]
  BY <1>2, <1>4 DEF Put
<1>7. /\ invites'[i] \in Invite /\ invites'[i].status = "expired"
      /\ invites'[i].uses = invites[i].uses
  BY <1>2, <1>6 DEF Invite, Status
<1>8. \A k \in DOMAIN invites' : invites'[k] \in Invite
  BY <1>3, <1>6, <1>7 DEF MemberInv, MembershipTypeOK
<1>9. UsesCounted'
  <2>1. torn \subseteq torn'
    BY <1>4 DEF NoteIf
  <2>2. i \notin torn' => invites'[i].uses = 0
    BY <1>2, <1>4, <1>5, <1>7 DEF NoteIf, MemberInv, UsesCounted
  <2> QED
    <3>1. ASSUME NEW k \in DOMAIN invites' \ torn'
          PROVE  invites'[k].uses = IF invites'[k].status = "accepted" THEN 1 ELSE 0
      <4>1. CASE k = j
        BY <1>3, <1>6, <4>1
      <4>2. CASE k = i
        BY <1>7, <2>2, <3>1, <4>2
      <4>3. CASE k # j /\ k # i
        BY <1>6, <2>1, <3>1, <4>3 DEF MemberInv, UsesCounted
      <4> QED
        BY <4>1, <4>2, <4>3
    <3> QED
      BY <3>1 DEF UsesCounted
<1>10. \A o \in People \ crowded' : \A k, l \in Open(o)' : k = l
  <2>1. ASSUME NEW o \in People, NEW k \in Open(o)'
        PROVE  (k = j /\ o = p) \/ (k # i /\ k \in Open(o))
    <3>1. k \in DOMAIN invites' /\ invites'[k].to = o /\ invites'[k].status = "pending"
      BY <2>1 DEF Open
    <3>2. k # i
      BY <1>7, <3>1
    <3>3. CASE k = j
      BY <1>3, <1>6, <3>1, <3>3
    <3>4. CASE k # j
      BY <1>6, <3>1, <3>2, <3>4 DEF Open
    <3> QED
      BY <3>3, <3>4
  <2>2. ASSUME NEW o \in People \ crowded', NEW k \in Open(o)', NEW l \in Open(o)'
        PROVE  k = l
    <3>1. CASE o = p
      <4>1. Open(p) \ {i} = {}
        BY <1>4, <2>2, <3>1 DEF NoteIf
      <4> QED
        BY <2>1, <2>2, <3>1, <4>1
    <3>2. CASE o # p
      <4>1. k \in Open(o) /\ l \in Open(o) /\ o \notin crowded
        BY <1>4, <2>1, <2>2, <3>2 DEF NoteIf
      <4> QED
        BY <4>1 DEF MemberInv, AtMostOne
    <3> QED
      BY <3>1, <3>2
  <2> QED
    BY <2>2
<1>11. /\ crowded \subseteq crowded' /\ crowded' \subseteq People
       /\ torn \subseteq torn' /\ torn' \subseteq DOMAIN invites' /\ DOMAIN invites' \subseteq Invites
  BY <1>2, <1>3, <1>4, <1>6 DEF NoteIf, MemberInv, MembershipTypeOK
<1> QED
  BY <1>4, <1>6, <1>8, <1>9, <1>10, <1>11, MemberInvites

(* Revoked, or marked as expired.                                          *)
LEMMA MemberMarked ==
    ASSUME MemberInv, NEW c \in Callers, RevokeCommit(c) \/ ExpireCommit(c)
    PROVE  MemberInv'
<1> DEFINE i == pending[c].invite
<1>1. PICK status \in {"revoked", "expired"} :
         /\ c \in DOMAIN pending /\ pending[c].kind \in {"revoke", "expire"}
         /\ invites' = [invites EXCEPT ![i].status = status]
         /\ torn' = NoteIf(Outdated(c), torn, i)
         /\ End(c) /\ UNCHANGED <<roles, joined, holds, crowded, mixed, orphaned>>
  BY DEF RevokeCommit, ExpireCommit, Mark, Doing
<1>2. /\ i \in DOMAIN invites /\ invites[i] \in Invite /\ pending[c].saw = "pending"
  BY <1>1 DEF CallKnows, CallsKnow, MemberInv, MembershipTypeOK
<1>3. Outdated(c) <=> invites[i].status # "pending"
  BY <1>2 DEF Outdated
<1> HIDE DEF i
<1>4. /\ DOMAIN invites' = DOMAIN invites
      /\ invites'[i] = [invites[i] EXCEPT !.status = status]
      /\ \A k \in DOMAIN invites \ {i} : invites'[k] = invites[k]
  BY <1>1, <1>2
<1>5. /\ invites'[i] \in Invite /\ invites'[i].status = status
      /\ invites'[i].uses = invites[i].uses
  BY <1>2, <1>4 DEF Invite, Status
<1>6. \A k \in DOMAIN invites' : invites'[k] \in Invite
  BY <1>4, <1>5 DEF MemberInv, MembershipTypeOK
<1>7. UsesCounted'
  <2>1. torn \subseteq torn'
    BY <1>1 DEF NoteIf
  <2>2. i \notin torn' => invites'[i].uses = 0
    BY <1>1, <1>2, <1>3, <1>5 DEF NoteIf, MemberInv, UsesCounted
  <2> QED
    BY <1>1, <1>4, <1>5, <2>1, <2>2 DEF MemberInv, UsesCounted
<1>8. \A o \in People \ crowded' : \A k, l \in Open(o)' : k = l
  <2>1. \A o \in People : Open(o)' \subseteq Open(o)
    BY <1>4, <1>5 DEF Open
  <2> QED
    BY <1>1, <2>1 DEF MemberInv, AtMostOne
<1>9. /\ crowded \subseteq crowded' /\ crowded' \subseteq People
      /\ torn \subseteq torn' /\ torn' \subseteq DOMAIN invites' /\ DOMAIN invites' \subseteq Invites
  BY <1>1, <1>2, <1>4 DEF NoteIf, MemberInv, MembershipTypeOK
<1> QED
  BY <1>1, <1>4, <1>6, <1>7, <1>8, <1>9, MemberInvites

LEMMA MemberLapses ==
    ASSUME MemberInv, NEW i \in Invites, Lapse(i)
    PROVE  MemberInv'
<1>1. /\ i \in DOMAIN invites /\ invites' = [invites EXCEPT ![i].lapsed = TRUE]
      /\ invites[i] \in Invite
      /\ UNCHANGED <<roles, joined, holds, pending, torn, crowded, mixed, orphaned>>
  BY DEF Lapse, memberTraces, MemberInv, MembershipTypeOK
<1>2. /\ DOMAIN invites' = DOMAIN invites
      /\ invites'[i] = [invites[i] EXCEPT !.lapsed = TRUE]
      /\ \A k \in DOMAIN invites \ {i} : invites'[k] = invites[k]
  BY <1>1
<1>3. /\ invites'[i] \in Invite /\ invites'[i].status = invites[i].status
      /\ invites'[i].uses = invites[i].uses /\ invites'[i].to = invites[i].to
  BY <1>1, <1>2 DEF Invite
<1>4. \A k \in DOMAIN invites' : invites'[k] \in Invite
  BY <1>2, <1>3 DEF MemberInv, MembershipTypeOK
<1>5. UsesCounted'
  BY <1>1, <1>2, <1>3 DEF MemberInv, UsesCounted
<1>6. \A o \in People \ crowded' : \A k, l \in Open(o)' : k = l
  <2>1. \A o \in People : Open(o)' \subseteq Open(o)
    BY <1>2, <1>3 DEF Open
  <2> QED
    BY <1>1, <2>1 DEF MemberInv, AtMostOne
<1>7. /\ crowded \subseteq crowded' /\ crowded' \subseteq People
      /\ torn \subseteq torn' /\ torn' \subseteq DOMAIN invites' /\ DOMAIN invites' \subseteq Invites
  BY <1>1, <1>2 DEF MemberInv, MembershipTypeOK
<1> QED
  BY <1>1, <1>2, <1>4, <1>5, <1>6, <1>7, MemberInvites

LEMMA MemberKeeps ==
    ASSUME MemberInv, UNCHANGED memberVars \/ \E c \in Callers : GiveUp(c)
    PROVE  MemberInv'
<1>1. PICK c : /\ End(c) \/ UNCHANGED pending
               /\ UNCHANGED <<roles, joined, holds, invites, torn, crowded, mixed, orphaned>>
  BY DEF memberVars, memberTraces, GiveUp
<1>2. /\ \A i \in DOMAIN invites' : invites'[i] \in Invite
      /\ DOMAIN invites' \subseteq Invites /\ torn' \subseteq DOMAIN invites' /\ crowded' \subseteq People
  BY <1>1 DEF MemberInv, MembershipTypeOK
<1>3. UsesCounted' /\ \A o \in People \ crowded' : \A k, l \in Open(o)' : k = l
  BY <1>1 DEF MemberInv, UsesCounted, AtMostOne, Open
<1> QED
  BY <1>1, <1>2, <1>3, MemberInvites

LEMMA MemberNext == MemberInv /\ [MembershipNext]_memberVars => MemberInv'
BY MemberReads, MemberRoles, MemberAssign, MemberAccept, MemberInvited, MemberResent,
   MemberMarked, MemberLapses, MemberKeeps DEF MembershipNext

THEOREM MembershipInvariant == MembershipSpec => []MemberInv
BY MemberInitially, MemberNext, PTL DEF MembershipSpec

(* Rows and calls in flight keep their shape, and refer to rows.           *)
THEOREM MembershipTypeCorrect == MembershipSpec => []MembershipTypeOK
<1>1. MemberInv => MembershipTypeOK
  BY DEF MemberInv
<1> QED
  BY <1>1, MembershipInvariant, PTL

(* Who holds no orphaned role can do what the list of users shows, for any *)
(* interleaving of deletions and assignments.                              *)
THEOREM NothingHiddenHolds == MembershipSpec => []NothingHidden
<1>1. MemberInv => NothingHidden
  <2> SUFFICES ASSUME MemberInv, NEW p \in People, holds[p] \intersect orphaned = {}
               PROVE  Effective(p) = Shown(p)
    BY DEF NothingHidden
  <2>1. \A r \in holds[p] : r \in Live
    BY DEF MemberInv, HeldStays, Doomed
  <2>2. holds[p] \intersect Live = holds[p]
    BY <2>1
  <2> QED
    BY <2>2 DEF Effective, Shown
<1> QED
  BY <1>1, MembershipInvariant, PTL

(* One role and one open invite, except for those in mixed and crowded.    *)
THEOREM OneOfEachHolds == MembershipSpec => []OneOfEach
<1>1. MemberInv => OneOfEach
  <2>1. ASSUME NEW S, \A x, y \in S : x = y
        PROVE  ~(Cardinality(S) > 1)
    <3>1. CASE S = {}
      BY <3>1, FS_EmptySet
    <3>2. CASE S # {}
      <4>1. PICK x : S = {x}
        BY <2>1, <3>2
      <4> QED
        BY <4>1, FS_Singleton
    <3> QED
      BY <3>1, <3>2
  <2> SUFFICES ASSUME MemberInv, NEW p \in People
               PROVE  /\ Cardinality(holds[p]) > 1 => p \in mixed
                      /\ Cardinality(Open(p)) > 1 => p \in crowded
    BY DEF OneOfEach
  <2> QED
    BY <2>1 DEF MemberInv, AtMostOne
<1> QED
  BY <1>1, MembershipInvariant, PTL

-----------------------------------------------------------------------------
(* Sign-in limits.                                                         *)

(* A code in flight is for a challenge that is a row, and which nobody has *)
(* met, unless it is fought over.                                          *)
GuessesKnow ==
    \A g \in DOMAIN guesses : guesses[g].kind = "code" =>
        /\ guesses[g].challenge \in DOMAIN challenges
        /\ guesses[g].challenge \notin fought => ~challenges[guesses[g].challenge].consumed

(* A challenge lets someone in when it is consumed and not again.          *)
ConsumedOnce ==
    \A ch \in DOMAIN challenges \ fought :
        challenges[ch].uses = IF challenges[ch].consumed THEN 1 ELSE 0

Codes(ch) == {g \in DOMAIN guesses : guesses[g].kind = "code" /\ guesses[g].challenge = ch}

(* The attempts made and those in flight.                                  *)
AttemptsCovered ==
    \A ch \in DOMAIN challenges :
        challenges[ch].attempts + Cardinality(Codes(ch))
          <= CodeLimit + Cardinality(Guessers) - 1

LimitInv == LimitsTypeOK /\ GuessesKnow /\ ConsumedOnce /\ LockExact /\ AttemptsCovered

(* No more codes are in flight than callers.                               *)
LEMMA CodesFew ==
    ASSUME LimitsTypeOK, NEW ch
    PROVE  /\ IsFiniteSet(Codes(ch)) /\ Cardinality(Codes(ch)) \in Nat
           /\ Cardinality(Codes(ch)) <= Cardinality(Guessers) /\ Cardinality(Guessers) \in Nat
<1>1. Codes(ch) \subseteq Guessers
  BY DEF Codes, LimitsTypeOK
<1> QED
  BY <1>1, FS_Subset, FS_CardinalityType, LimitsAssumption

LEMMA LimitInitially == LimitsInit => LimitInv
<1> SUFFICES ASSUME LimitsInit PROVE LimitInv
  OBVIOUS
<1>1. /\ DOMAIN challenges = {} /\ DOMAIN guesses = {}
      /\ failed = [u \in Accounts |-> 0] /\ wrong = [u \in Accounts |-> 0]
      /\ locked = {} /\ blurred = {} /\ fought = {}
  BY DEF LimitsInit
<1> QED
  BY <1>1, LimitsAssumption
     DEF LimitInv, LimitsTypeOK, GuessesKnow, ConsumedOnce, LockExact, AttemptsCovered

(* A call ends and its challenge, if any, is left with what remains.       *)
LEMMA GuessEnds ==
    ASSUME LimitInv, NEW g, guesses' = Drop(guesses, g)
    PROVE  /\ DOMAIN guesses' = DOMAIN guesses \ {g}
           /\ \A h \in DOMAIN guesses' : guesses'[h] = guesses[h]
           /\ DOMAIN guesses' \subseteq Guessers /\ \A h \in DOMAIN guesses' : guesses'[h] \in Guess
           /\ \A ch : /\ Codes(ch)' = Codes(ch) \ {g}
                     /\ Cardinality(Codes(ch)') \in Nat
                     /\ Cardinality(Codes(ch)') = Cardinality(Codes(ch))
                                                 - (IF g \in Codes(ch) THEN 1 ELSE 0)
<1>1. /\ DOMAIN guesses' = DOMAIN guesses \ {g}
      /\ \A h \in DOMAIN guesses' : guesses'[h] = guesses[h]
  BY DEF Drop, Restrict
<1>2. \A ch : Codes(ch)' = Codes(ch) \ {g}
  BY <1>1 DEF Codes
<1>3. \A ch : /\ Cardinality(Codes(ch) \ {g}) \in Nat
             /\ Cardinality(Codes(ch) \ {g}) = Cardinality(Codes(ch))
                                              - (IF g \in Codes(ch) THEN 1 ELSE 0)
  <2>1. TAKE ch
  <2>2. IsFiniteSet(Codes(ch)) /\ Cardinality(Codes(ch)) \in Nat
    BY CodesFew DEF LimitInv
  <2>3. IsFiniteSet(Codes(ch) \ {g}) /\ Cardinality(Codes(ch) \ {g}) \in Nat
    BY <2>2, FS_Subset, FS_CardinalityType
  <2>4. CASE g \in Codes(ch)
    BY <2>2, <2>3, <2>4, FS_RemoveElement
  <2>5. CASE g \notin Codes(ch)
    <3>1. Codes(ch) \ {g} = Codes(ch)
      BY <2>5
    <3> QED
      BY <2>2, <2>5, <3>1
  <2> QED
    BY <2>4, <2>5
<1> QED
  BY <1>1, <1>2, <1>3 DEF LimitInv, LimitsTypeOK

(* A call begins.                                                          *)
LEMMA LimitBegins ==
    ASSUME LimitInv, NEW g \in Guessers, NEW guess \in Guess, g \notin DOMAIN guesses,
           guesses' = Put(guesses, g, guess),
           guess.kind = "code" => /\ guess.challenge \in DOMAIN challenges
                                  /\ ~challenges[guess.challenge].consumed
                                  /\ challenges[guess.challenge].attempts < CodeLimit,
           UNCHANGED <<failed, locked, challenges, wrong, blurred, fought>>
    PROVE  LimitInv'
<1>1. /\ DOMAIN guesses' = DOMAIN guesses \union {g} /\ guesses'[g] = guess
      /\ \A h \in DOMAIN guesses : guesses'[h] = guesses[h]
  BY DEF Put
<1>2. LimitsTypeOK'
  BY <1>1 DEF LimitInv, LimitsTypeOK
<1>3. GuessesKnow'
  BY <1>1 DEF LimitInv, GuessesKnow
<1>4. AttemptsCovered'
  <2>1. ASSUME NEW ch \in DOMAIN challenges
        PROVE  challenges[ch].attempts + Cardinality(Codes(ch)')
                 <= CodeLimit + Cardinality(Guessers) - 1
    <3>1. challenges[ch].attempts \in Nat /\ CodeLimit \in Nat
      BY LimitsAssumption DEF LimitInv, LimitsTypeOK, Challenge
    <3>2. CASE guess.kind = "code" /\ guess.challenge = ch
      <4>1. /\ Cardinality(Codes(ch)') \in Nat /\ Cardinality(Guessers) \in Nat
            /\ Cardinality(Codes(ch)') <= Cardinality(Guessers)
        <5>1. Codes(ch)' \subseteq Guessers
          BY <1>2 DEF Codes, LimitsTypeOK
        <5> QED
          BY <5>1, FS_Subset, FS_CardinalityType, LimitsAssumption
      <4> QED
        BY <3>1, <3>2, <4>1
    <3>3. CASE ~(guess.kind = "code" /\ guess.challenge = ch)
      <4>1. Codes(ch)' = Codes(ch)
        BY <1>1, <3>3 DEF Codes
      <4> QED
        BY <4>1 DEF LimitInv, AttemptsCovered
    <3> QED
      BY <3>2, <3>3
  <2> QED
    BY <2>1 DEF AttemptsCovered
<1> QED
  BY <1>2, <1>3, <1>4 DEF LimitInv, ConsumedOnce, LockExact

(* A call is over that wrote no challenge.                                 *)
LEMMA LimitUser ==
    ASSUME LimitInv, NEW g, guesses' = Drop(guesses, g), UNCHANGED <<challenges, fought>>,
           failed' \in [Accounts -> Nat], wrong' \in [Accounts -> Nat],
           locked' \subseteq Accounts, blurred' \subseteq Accounts, LockExact'
    PROVE  LimitInv'
<1>1. /\ \A h \in DOMAIN guesses' : h \in DOMAIN guesses /\ guesses'[h] = guesses[h]
      /\ DOMAIN guesses' \subseteq Guessers /\ \A h \in DOMAIN guesses' : guesses'[h] \in Guess
      /\ \A ch : /\ Cardinality(Codes(ch)') \in Nat
                /\ Cardinality(Codes(ch)') <= Cardinality(Codes(ch))
  <2>1. ASSUME NEW ch
        PROVE  /\ Cardinality(Codes(ch)') \in Nat
               /\ Cardinality(Codes(ch)') <= Cardinality(Codes(ch))
    <3> DEFINE m == Cardinality(Codes(ch))
               n == Cardinality(Codes(ch)')
    <3>1. m \in Nat
      BY CodesFew DEF LimitInv
    <3>2. n \in Nat /\ (n = m - 1 \/ n = m - 0)
      BY GuessEnds, Zenon
    <3> HIDE DEF m, n
    <3>3. n \in Nat /\ n <= m
      BY <3>1, <3>2
    <3> QED
      BY <3>3 DEF m, n
  <2>2. \A h \in DOMAIN guesses' : h \in DOMAIN guesses /\ guesses'[h] = guesses[h]
    BY GuessEnds
  <2>3. DOMAIN guesses' \subseteq Guessers /\ \A h \in DOMAIN guesses' : guesses'[h] \in Guess
    BY GuessEnds
  <2> QED
    BY <2>1, <2>2, <2>3
<1>2. LimitsTypeOK'
  BY <1>1 DEF LimitInv, LimitsTypeOK
<1>3. AttemptsCovered'
  <2>1. ASSUME NEW ch \in DOMAIN challenges
        PROVE  challenges[ch].attempts + Cardinality(Codes(ch)')
                 <= CodeLimit + Cardinality(Guessers) - 1
    <3>1. /\ challenges[ch].attempts \in Nat /\ CodeLimit \in Nat
          /\ Cardinality(Guessers) \in Nat /\ Cardinality(Codes(ch)) \in Nat
      BY CodesFew, LimitsAssumption DEF LimitInv, LimitsTypeOK, Challenge
    <3>2. challenges[ch].attempts + Cardinality(Codes(ch)) <= CodeLimit + Cardinality(Guessers) - 1
      BY DEF LimitInv, AttemptsCovered
    <3>3. Cardinality(Codes(ch)') \in Nat /\ Cardinality(Codes(ch)') <= Cardinality(Codes(ch))
      BY <1>1
    <3> HIDE DEF Codes
    <3> QED
      BY <3>1, <3>2, <3>3
  <2> QED
    BY <2>1 DEF AttemptsCovered
<1> QED
  BY <1>1, <1>2, <1>3 DEF LimitInv, GuessesKnow, ConsumedOnce

LEMMA LimitReads ==
    ASSUME LimitInv, NEW g \in Guessers,
           \/ \E u \in Accounts : PasswordRead(g, u)
           \/ \E ch \in Challenges : CodeRead(g, ch)
    PROVE  LimitInv'
<1>1. ASSUME NEW u \in Accounts, PasswordRead(g, u) PROVE LimitInv'
  <2> DEFINE guess == [kind |-> "password", user |-> u, saw |-> failed[u]]
  <2>1. guess \in Guess
    BY DEF Guess, LimitInv, LimitsTypeOK
  <2> QED
    BY <1>1, <2>1, LimitBegins DEF PasswordRead
<1>2. ASSUME NEW ch \in Challenges, CodeRead(g, ch) PROVE LimitInv'
  <2> DEFINE guess == [kind |-> "code", challenge |-> ch]
  <2>1. guess \in Guess
    BY DEF Guess
  <2> QED
    BY <1>2, <2>1, LimitBegins DEF CodeRead
<1> QED
  BY <1>1, <1>2

(* The password was tried, or nothing came of a call.                      *)
LEMMA LimitPasswords ==
    ASSUME LimitInv, NEW g \in Guessers, PasswordWrong(g) \/ PasswordRight(g) \/ GuessLost(g)
    PROVE  LimitInv'
<1> DEFINE u == guesses[g].user
<1>1. /\ failed \in [Accounts -> Nat] /\ wrong \in [Accounts -> Nat]
      /\ locked \subseteq Accounts /\ blurred \subseteq Accounts
      /\ LoginLimit \in Nat \ {0} /\ LockExact
  BY LimitsAssumption DEF LimitInv, LimitsTypeOK
<1>2. CASE PasswordWrong(g)
  <2>1. g \in DOMAIN guesses /\ guesses[g].kind = "password" /\ guesses[g] \in Guess
    BY <1>2 DEF PasswordWrong, Guessing, LimitInv, LimitsTypeOK
  <2>2. PICK n \in Nat : n = guesses[g].saw
    BY <2>1 DEF Guess
  <2>3. u \in Accounts
    BY <2>1 DEF Guess
  <2>4. /\ failed' = [failed EXCEPT ![u] = n + 1]
        /\ locked' = IF n + 1 >= LoginLimit THEN locked \union {u} ELSE locked \ {u}
        /\ wrong' = [wrong EXCEPT ![u] = @ + 1]
        /\ blurred' = IF failed[u] = n /\ u \notin locked THEN blurred ELSE blurred \union {u}
        /\ guesses' = Drop(guesses, g) /\ UNCHANGED <<challenges, fought>>
    BY <1>2, <2>2 DEF PasswordWrong, Locks
  <2> HIDE DEF u
  <2>5. /\ failed' \in [Accounts -> Nat] /\ wrong' \in [Accounts -> Nat]
        /\ locked' \subseteq Accounts /\ blurred' \subseteq Accounts
    <3>1. n + 1 \in Nat /\ wrong[u] \in Nat /\ wrong[u] + 1 \in Nat
      BY <1>1, <2>3
    <3> QED
      BY <1>1, <2>3, <2>4, <3>1
  <2>6. LockExact'
    <3>1. \A o \in Accounts \ {u} : /\ o \in blurred' <=> o \in blurred
                                    /\ o \in locked' <=> o \in locked
                                    /\ failed'[o] = failed[o] /\ wrong'[o] = wrong[o]
      BY <1>1, <2>4
    <3>2. u \in locked' <=> failed'[u] >= LoginLimit /\ wrong'[u] > 0
      <4>1. failed'[u] = n + 1 /\ wrong'[u] = wrong[u] + 1 /\ wrong[u] \in Nat
        BY <1>1, <2>3, <2>4
      <4>2. u \in locked' <=> n + 1 >= LoginLimit
        BY <2>4
      <4> QED
        BY <4>1, <4>2
    <3> QED
      BY <1>1, <2>3, <3>1, <3>2 DEF LockExact
  <2> QED
    BY <2>4, <2>5, <2>6, LimitUser
<1>3. CASE PasswordRight(g)
  <2>1. g \in DOMAIN guesses /\ guesses[g].kind = "password" /\ guesses[g] \in Guess
    BY <1>3 DEF PasswordRight, Guessing, LimitInv, LimitsTypeOK
  <2>2. u \in Accounts
    BY <2>1 DEF Guess
  <2>3. /\ failed' = [failed EXCEPT ![u] = 0] /\ wrong' = [wrong EXCEPT ![u] = 0]
        /\ locked' = locked \ {u} /\ blurred' = blurred \ {u}
        /\ guesses' = Drop(guesses, g) /\ UNCHANGED <<challenges, fought>>
    BY <1>3 DEF PasswordRight, LetIn
  <2> HIDE DEF u
  <2>4. LockExact'
    BY <1>1, <2>2, <2>3 DEF LockExact
  <2> QED
    BY <1>1, <2>3, <2>4, LimitUser
<1>4. CASE GuessLost(g)
  <2>1. guesses' = Drop(guesses, g) /\ UNCHANGED <<failed, locked, challenges, wrong, blurred, fought>>
    BY <1>4 DEF GuessLost
  <2>2. LockExact'
    BY <1>1, <2>1 DEF LockExact
  <2> QED
    BY <1>1, <2>1, <2>2, LimitUser
<1> QED
  BY <1>2, <1>3, <1>4

LEMMA LimitLock ==
    ASSUME LimitInv, NEW u \in Accounts, LockRunsOut(u)
    PROVE  LimitInv'
<1>1. /\ locked' = locked \ {u} /\ wrong' = [wrong EXCEPT ![u] = 0]
      /\ UNCHANGED <<failed, challenges, guesses, blurred, fought>>
  BY DEF LockRunsOut
<1>2. LimitsTypeOK' /\ LockExact'
  BY <1>1 DEF LimitInv, LimitsTypeOK, LockExact
<1> QED
  BY <1>1, <1>2 DEF LimitInv, GuessesKnow, ConsumedOnce, AttemptsCovered, Codes

LEMMA LimitReset ==
    ASSUME LimitInv, NEW u \in Accounts, PasswordReset(u)
    PROVE  LimitInv'
<1>1. /\ failed' = [failed EXCEPT ![u] = 0] /\ wrong' = [wrong EXCEPT ![u] = 0]
      /\ locked' = locked \ {u} /\ blurred' = blurred \ {u}
      /\ UNCHANGED <<challenges, guesses, fought>>
  BY DEF PasswordReset, LetIn
<1>2. LimitsTypeOK' /\ LockExact'
  BY <1>1, LimitsAssumption DEF LimitInv, LimitsTypeOK, LockExact
<1> QED
  BY <1>1, <1>2 DEF LimitInv, GuessesKnow, ConsumedOnce, AttemptsCovered, Codes

(* A challenge is made.                                                    *)
LEMMA LimitChallenges ==
    ASSUME LimitInv, NEW g \in Guessers, NEW ch \in Challenges, PasswordChallenges(g, ch)
    PROVE  LimitInv'
<1> DEFINE row == [user |-> guesses[g].user, attempts |-> 0,
                   consumed |-> FALSE, expired |-> FALSE, uses |-> 0]
<1>1. /\ ch \notin DOMAIN challenges /\ challenges' = Put(challenges, ch, row)
      /\ guesses[g].user \in SecondFactor
      /\ guesses' = Drop(guesses, g) /\ UNCHANGED <<failed, locked, wrong, blurred, fought>>
  BY DEF PasswordChallenges
<1>2. row \in Challenge /\ row.attempts = 0 /\ row.uses = 0 /\ row.consumed = FALSE
  BY <1>1 DEF Challenge
<1> HIDE DEF row
<1>3. /\ DOMAIN challenges' = DOMAIN challenges \union {ch} /\ challenges'[ch] = row
      /\ \A c \in DOMAIN challenges : challenges'[c] = challenges[c]
  BY <1>1 DEF Put
<1>4. LimitsTypeOK'
  <2>1. DOMAIN guesses' \subseteq Guessers /\ \A h \in DOMAIN guesses' : guesses'[h] \in Guess
    BY <1>1, GuessEnds
  <2>2. \A c \in DOMAIN challenges' : challenges'[c] \in Challenge
    BY <1>2, <1>3 DEF LimitInv, LimitsTypeOK
  <2>3. DOMAIN challenges' \subseteq Challenges /\ fought' \subseteq DOMAIN challenges'
    BY <1>1, <1>3 DEF LimitInv, LimitsTypeOK
  <2> QED
    BY <1>1, <2>1, <2>2, <2>3 DEF LimitInv, LimitsTypeOK
<1>5. \A h \in DOMAIN guesses' : h \in DOMAIN guesses /\ guesses'[h] = guesses[h]
  BY <1>1, GuessEnds
<1>6. GuessesKnow'
  BY <1>1, <1>3, <1>5 DEF LimitInv, GuessesKnow
<1>7. ConsumedOnce'
  BY <1>1, <1>2, <1>3 DEF LimitInv, ConsumedOnce
<1>8. AttemptsCovered'
  <2>1. ASSUME NEW c \in DOMAIN challenges'
        PROVE  challenges'[c].attempts + Cardinality(Codes(c)')
                 <= CodeLimit + Cardinality(Guessers) - 1
    <3>0. CodeLimit \in Nat \ {0} /\ Cardinality(Guessers) \in Nat
      BY CodesFew, LimitsAssumption DEF LimitInv
    <3>1. CASE c = ch
      <4>1. Codes(c)' \subseteq Guessers
        BY <1>4 DEF Codes, LimitsTypeOK
      <4>2. Cardinality(Codes(c)') \in Nat /\ Cardinality(Codes(c)') <= Cardinality(Guessers)
        BY <4>1, FS_Subset, FS_CardinalityType, LimitsAssumption
      <4> QED
        BY <1>2, <1>3, <3>0, <3>1, <4>2
    <3>2. CASE c # ch
      <4>1. c \in DOMAIN challenges /\ challenges'[c] = challenges[c]
        BY <1>3, <2>1, <3>2
      <4>2. Codes(c)' \subseteq Codes(c)
        BY <1>5 DEF Codes
      <4>3. /\ Cardinality(Codes(c)') \in Nat /\ Cardinality(Codes(c)) \in Nat
            /\ Cardinality(Codes(c)') <= Cardinality(Codes(c))
        BY <4>2, CodesFew, FS_Subset, FS_CardinalityType DEF LimitInv
      <4>4. /\ challenges[c].attempts \in Nat
            /\ challenges[c].attempts + Cardinality(Codes(c)) <= CodeLimit + Cardinality(Guessers) - 1
        BY <4>1 DEF LimitInv, LimitsTypeOK, Challenge, AttemptsCovered
      <4> QED
        BY <3>0, <4>1, <4>3, <4>4
    <3> QED
      BY <3>1, <3>2
  <2> QED
    BY <2>1 DEF AttemptsCovered
<1> QED
  BY <1>1, <1>4, <1>6, <1>7, <1>8 DEF LimitInv, LockExact

(* A challenge is written to: a wrong code, or its time runs out.          *)
LEMMA LimitWrong == ASSUME LimitInv, NEW g \in Guessers, CodeWrong(g) PROVE LimitInv'
<1> DEFINE ch == guesses[g].challenge
<1>1. /\ g \in DOMAIN guesses /\ guesses[g].kind = "code"
      /\ challenges' = [challenges EXCEPT ![ch].attempts = @ + 1]
      /\ guesses' = Drop(guesses, g) /\ UNCHANGED <<failed, locked, wrong, blurred, fought>>
  BY DEF CodeWrong, Guessing
<1>2. g \in Codes(ch) /\ ch \in DOMAIN challenges /\ challenges[ch] \in Challenge
  BY <1>1 DEF Codes, LimitInv, LimitsTypeOK, GuessesKnow
<1> HIDE DEF ch
<1>3. PICK n \in Nat : n = challenges[ch].attempts + 1
  BY <1>2 DEF Challenge
<1>4. /\ DOMAIN challenges' = DOMAIN challenges
      /\ challenges'[ch] = [challenges[ch] EXCEPT !.attempts = n]
      /\ \A c \in DOMAIN challenges \ {ch} : challenges'[c] = challenges[c]
  BY <1>1, <1>2, <1>3
<1>5. /\ challenges'[ch] \in Challenge /\ challenges'[ch].attempts = n
      /\ challenges'[ch].consumed = challenges[ch].consumed
      /\ challenges'[ch].uses = challenges[ch].uses
  BY <1>2, <1>4 DEF Challenge
<1>6. \A h \in DOMAIN guesses' : h \in DOMAIN guesses /\ guesses'[h] = guesses[h]
  BY <1>1, GuessEnds
<1>7. LimitsTypeOK'
  <2>1. DOMAIN guesses' \subseteq Guessers /\ \A h \in DOMAIN guesses' : guesses'[h] \in Guess
    BY <1>1, GuessEnds
  <2>2. \A c \in DOMAIN challenges' : challenges'[c] \in Challenge
    BY <1>4, <1>5 DEF LimitInv, LimitsTypeOK
  <2> QED
    BY <1>1, <1>4, <2>1, <2>2 DEF LimitInv, LimitsTypeOK
<1>8. GuessesKnow' /\ ConsumedOnce'
  BY <1>1, <1>4, <1>5, <1>6 DEF LimitInv, GuessesKnow, ConsumedOnce
<1>9. AttemptsCovered'
  <2>1. ASSUME NEW c \in DOMAIN challenges
        PROVE  challenges'[c].attempts + Cardinality(Codes(c)')
                 <= CodeLimit + Cardinality(Guessers) - 1
    <3>0. /\ CodeLimit \in Nat /\ Cardinality(Guessers) \in Nat
          /\ challenges[c].attempts \in Nat /\ Cardinality(Codes(c)) \in Nat
          /\ challenges[c].attempts + Cardinality(Codes(c)) <= CodeLimit + Cardinality(Guessers) - 1
      BY CodesFew, LimitsAssumption DEF LimitInv, LimitsTypeOK, Challenge, AttemptsCovered
    <3>1. /\ Cardinality(Codes(c)') \in Nat
          /\ Cardinality(Codes(c)') = Cardinality(Codes(c)) - (IF g \in Codes(c) THEN 1 ELSE 0)
      BY <1>1, GuessEnds
    <3>2. CASE c = ch
      <4>1. Cardinality(Codes(c)') = Cardinality(Codes(c)) - 1
        BY <1>2, <3>1, <3>2
      <4>2. challenges'[c].attempts = challenges[c].attempts + 1
        BY <1>3, <1>5, <3>2
      <4> QED
        BY <3>0, <3>1, <4>1, <4>2
    <3>3. CASE c # ch
      <4>1. challenges'[c] = challenges[c]
        BY <1>4, <3>3
      <4>2. g \notin Codes(c)
        BY <3>3 DEF Codes, ch
      <4>3. Cardinality(Codes(c)') = Cardinality(Codes(c)) - 0
        BY <3>1, <4>2
      <4> QED
        BY <3>0, <4>1, <4>3
    <3> QED
      BY <3>2, <3>3
  <2> QED
    BY <1>4, <2>1 DEF AttemptsCovered
<1> QED
  BY <1>1, <1>7, <1>8, <1>9 DEF LimitInv, LockExact

(* A right code consumes its challenge, and is alone with it or noted.     *)
LEMMA LimitRight == ASSUME LimitInv, NEW g \in Guessers, CodeRight(g) PROVE LimitInv'
<1> DEFINE ch == guesses[g].challenge
           u == challenges[ch].user
<1>1. /\ g \in DOMAIN guesses /\ guesses[g].kind = "code"
      /\ challenges' = [challenges EXCEPT ![ch].consumed = TRUE, ![ch].uses = @ + 1]
      /\ fought' = IF Competing(g) \/ challenges[ch].expired THEN fought \union {ch} ELSE fought
      /\ failed' = [failed EXCEPT ![u] = 0] /\ wrong' = [wrong EXCEPT ![u] = 0]
      /\ locked' = locked \ {u} /\ blurred' = blurred \ {u}
      /\ guesses' = Drop(guesses, g)
  BY DEF CodeRight, Guessing, LetIn
<1>2. /\ ch \in DOMAIN challenges /\ challenges[ch] \in Challenge
      /\ ch \notin fought => ~challenges[ch].consumed
  BY <1>1 DEF LimitInv, LimitsTypeOK, GuessesKnow
<1>3. u \in Accounts
  BY <1>2, LimitsAssumption DEF Challenge
<1>4. Competing(g) <=> \E h \in DOMAIN guesses \ {g} :
                          guesses[h].kind = "code" /\ guesses[h].challenge = ch
  BY DEF Competing, Guessing
<1> HIDE DEF ch, u
<1>5. PICK n \in Nat : n = challenges[ch].uses + 1
  BY <1>2 DEF Challenge
<1>6. /\ DOMAIN challenges' = DOMAIN challenges
      /\ challenges'[ch] = [challenges[ch] EXCEPT !.consumed = TRUE, !.uses = n]
      /\ \A c \in DOMAIN challenges \ {ch} : challenges'[c] = challenges[c]
  BY <1>1, <1>2, <1>5
<1>7. /\ challenges'[ch] \in Challenge /\ challenges'[ch].consumed = TRUE
      /\ challenges'[ch].uses = n /\ challenges'[ch].attempts = challenges[ch].attempts
  BY <1>2, <1>6 DEF Challenge
<1>8. \A h \in DOMAIN guesses' : /\ h \in DOMAIN guesses \ {g} /\ guesses'[h] = guesses[h]
  BY <1>1, GuessEnds
<1>9. fought \subseteq fought' /\ fought' \subseteq fought \union {ch}
  BY <1>1
<1>10. LimitsTypeOK'
  <2>1. DOMAIN guesses' \subseteq Guessers /\ \A h \in DOMAIN guesses' : guesses'[h] \in Guess
    BY <1>1, GuessEnds
  <2>2. \A c \in DOMAIN challenges' : challenges'[c] \in Challenge
    BY <1>6, <1>7 DEF LimitInv, LimitsTypeOK
  <2>3. /\ failed' \in [Accounts -> Nat] /\ wrong' \in [Accounts -> Nat]
        /\ locked' \subseteq Accounts /\ blurred' \subseteq Accounts
    BY <1>1 DEF LimitInv, LimitsTypeOK
  <2> QED
    BY <1>2, <1>6, <1>9, <2>1, <2>2, <2>3 DEF LimitInv, LimitsTypeOK
<1>11. GuessesKnow'
  <2>1. ASSUME NEW h \in DOMAIN guesses', guesses'[h].kind = "code"
        PROVE  /\ guesses'[h].challenge \in DOMAIN challenges'
               /\ guesses'[h].challenge \notin fought' =>
                     ~challenges'[guesses'[h].challenge].consumed
    <3>1. /\ guesses[h].challenge \in DOMAIN challenges
          /\ guesses[h].challenge \notin fought => ~challenges[guesses[h].challenge].consumed
      BY <1>8, <2>1 DEF LimitInv, GuessesKnow
    <3>2. CASE guesses[h].challenge = ch
      BY <1>1, <1>4, <1>6, <1>8, <2>1, <3>1, <3>2
    <3>3. CASE guesses[h].challenge # ch
      BY <1>6, <1>8, <1>9, <3>1, <3>3
    <3> QED
      BY <3>2, <3>3
  <2> QED
    BY <2>1 DEF GuessesKnow
<1>12. ConsumedOnce'
  <2>1. ch \notin fought' => n = 1
    BY <1>2, <1>5, <1>9 DEF LimitInv, ConsumedOnce
  <2> QED
    <3>1. ASSUME NEW c \in DOMAIN challenges' \ fought'
          PROVE  challenges'[c].uses = IF challenges'[c].consumed THEN 1 ELSE 0
      <4>1. CASE c = ch
        BY <1>7, <1>9, <2>1, <3>1, <4>1
      <4>2. CASE c # ch
        <5>1. c \in DOMAIN challenges \ fought /\ challenges'[c] = challenges[c]
          BY <1>6, <1>9, <3>1, <4>2
        <5> QED
          BY <5>1 DEF LimitInv, ConsumedOnce
      <4> QED
        BY <4>1, <4>2
    <3> QED
      BY <3>1 DEF ConsumedOnce
<1>13. LockExact'
  <2>1. /\ failed \in [Accounts -> Nat] /\ wrong \in [Accounts -> Nat]
        /\ LoginLimit \in Nat \ {0} /\ LockExact
    BY LimitsAssumption DEF LimitInv, LimitsTypeOK
  <2> QED
    BY <1>1, <1>3, <2>1 DEF LockExact
<1>14. AttemptsCovered'
  <2>1. ASSUME NEW c \in DOMAIN challenges
        PROVE  challenges'[c].attempts + Cardinality(Codes(c)')
                 <= CodeLimit + Cardinality(Guessers) - 1
    <3>1. /\ CodeLimit \in Nat /\ Cardinality(Guessers) \in Nat
          /\ challenges[c].attempts \in Nat /\ Cardinality(Codes(c)) \in Nat
          /\ challenges[c].attempts + Cardinality(Codes(c)) <= CodeLimit + Cardinality(Guessers) - 1
      BY CodesFew, LimitsAssumption DEF LimitInv, LimitsTypeOK, Challenge, AttemptsCovered
    <3>2. Codes(c)' \subseteq Codes(c)
      BY <1>8 DEF Codes
    <3>3. Cardinality(Codes(c)') \in Nat /\ Cardinality(Codes(c)') <= Cardinality(Codes(c))
      BY <3>2, CodesFew, FS_Subset, FS_CardinalityType DEF LimitInv
    <3>4. challenges'[c].attempts = challenges[c].attempts
      BY <1>6, <1>7
    <3> QED
      BY <3>1, <3>3, <3>4
  <2> QED
    BY <1>6, <2>1 DEF AttemptsCovered
<1> QED
  BY <1>10, <1>11, <1>12, <1>13, <1>14 DEF LimitInv

LEMMA LimitExpires ==
    ASSUME LimitInv, NEW ch \in Challenges, ChallengeRunsOut(ch)
    PROVE  LimitInv'
<1>1. /\ ch \in DOMAIN challenges /\ challenges' = [challenges EXCEPT ![ch].expired = TRUE]
      /\ challenges[ch] \in Challenge
      /\ UNCHANGED <<failed, locked, guesses, wrong, blurred, fought>>
  BY DEF ChallengeRunsOut, LimitInv, LimitsTypeOK
<1>2. /\ DOMAIN challenges' = DOMAIN challenges
      /\ challenges'[ch] = [challenges[ch] EXCEPT !.expired = TRUE]
      /\ \A c \in DOMAIN challenges \ {ch} : challenges'[c] = challenges[c]
  BY <1>1
<1>3. /\ \A c \in DOMAIN challenges : challenges'[c].consumed = challenges[c].consumed
      /\ \A c \in DOMAIN challenges : challenges'[c].uses = challenges[c].uses
      /\ \A c \in DOMAIN challenges : challenges'[c].attempts = challenges[c].attempts
      /\ \A c \in DOMAIN challenges : challenges'[c] \in Challenge
  BY <1>1, <1>2 DEF Challenge, LimitInv, LimitsTypeOK
<1>4. LimitsTypeOK'
  BY <1>1, <1>2, <1>3 DEF LimitInv, LimitsTypeOK
<1>5. GuessesKnow' /\ ConsumedOnce' /\ LockExact'
  BY <1>1, <1>2, <1>3 DEF LimitInv, GuessesKnow, ConsumedOnce, LockExact
<1>6. AttemptsCovered'
  BY <1>1, <1>2, <1>3 DEF LimitInv, AttemptsCovered, Codes
<1> QED
  BY <1>4, <1>5, <1>6 DEF LimitInv

LEMMA LimitNext == LimitInv /\ [LimitsNext]_limitVars => LimitInv'
<1>1. LimitInv /\ UNCHANGED limitVars => LimitInv'
  BY DEF limitVars, LimitInv, LimitsTypeOK, GuessesKnow, ConsumedOnce, LockExact,
         AttemptsCovered, Codes
<1> QED
  BY <1>1, LimitReads, LimitPasswords, LimitLock, LimitReset, LimitChallenges, LimitWrong, LimitRight,
     LimitExpires DEF LimitsNext

THEOREM LimitsInvariant == LimitsSpec => []LimitInv
BY LimitInitially, LimitNext, PTL DEF LimitsSpec

(* Counters, challenges and calls keep their shape.                        *)
THEOREM LimitsTypeCorrect == LimitsSpec => []LimitsTypeOK
<1>1. LimitInv => LimitsTypeOK
  BY DEF LimitInv
<1> QED
  BY <1>1, LimitsInvariant, PTL

(* The lock is exact where no two calls met, and a challenge is tried at   *)
(* most CodeLimit times and once more for each further call there can be.  *)
THEOREM GuessesLimitedHolds == LimitsSpec => []GuessesLimited
<1>1. LimitInv => GuessesLimited
  <2> SUFFICES ASSUME LimitInv, NEW ch \in DOMAIN challenges
               PROVE  challenges[ch].attempts <= CodeLimit + Cardinality(Guessers) - 1
    BY DEF LimitInv, GuessesLimited, AttemptsBounded
  <2>1. /\ CodeLimit \in Nat /\ Cardinality(Guessers) \in Nat
        /\ challenges[ch].attempts \in Nat /\ Cardinality(Codes(ch)) \in Nat
        /\ challenges[ch].attempts + Cardinality(Codes(ch)) <= CodeLimit + Cardinality(Guessers) - 1
    BY CodesFew, LimitsAssumption DEF LimitInv, LimitsTypeOK, Challenge, AttemptsCovered
  <2> QED
    BY <2>1
<1> QED
  BY <1>1, LimitsInvariant, PTL

-----------------------------------------------------------------------------
(* Links.                                                                  *)

(* What a step may make of an invite: a new one is open, and one that is   *)
(* not torn over goes on from what it was.                                 *)
InviteStep(i) ==
    /\ i \notin DOMAIN invites /\ i \in DOMAIN invites' =>
          invites'[i].status = "pending" /\ ~invites'[i].lapsed /\ i \notin torn'
    /\ i \in DOMAIN invites =>
          /\ i \in DOMAIN invites'
          /\ i \in torn => i \in torn'
          /\ invites[i].lapsed => invites'[i].lapsed
          /\ i \notin torn' =>
                \/ invites'[i].status = invites[i].status
                \/ invites[i].status = "pending" /\ invites'[i].status = "revoked"
                \/ invites[i].status \in {"pending", "expired"} /\ invites'[i].status = "expired"
                \/ /\ invites[i].status = "pending" /\ ~invites[i].lapsed
                   /\ invites'[i].status = "accepted"

LEMMA InvitesStep ==
    ASSUME MemberInv, [MembershipNext]_memberVars, NEW i \in Invites PROVE InviteStep(i)
<1> USE DEF InviteStep
<1>1. CASE UNCHANGED <<invites, torn>>
  BY <1>1
<1>2. ASSUME NEW j \in Invites, Lapse(j) PROVE InviteStep(i)
  BY <1>2 DEF Lapse, memberTraces, MemberInv, MembershipTypeOK, Invite
<1>3. ASSUME NEW c \in Callers, NEW kind \in {"accept", "revoke", "expire", "resend"}, Doing(c, kind)
      PROVE  /\ pending[c].invite \in DOMAIN invites
             /\ invites[pending[c].invite] \in Invite
             /\ pending[c].saw \in {"pending", "expired"}
             /\ kind \in {"revoke", "expire"} => pending[c].saw = "pending"
  BY <1>3 DEF Doing, MemberInv, MembershipTypeOK, CallsKnow, CallKnows
<1>4. ASSUME NEW c \in Callers, AcceptCommit(c) PROVE InviteStep(i)
  <2> DEFINE k == pending[c].invite
  <2>1. /\ k \in DOMAIN invites /\ invites[k] \in Invite
        /\ pending[c].saw \in {"pending", "expired"}
    BY <1>3, <1>4 DEF AcceptCommit
  <2>2. /\ invites' = [invites EXCEPT ![k].status = "accepted", ![k].uses = @ + 1]
        /\ torn' = NoteIf(\/ invites[k].status # pending[c].saw
                          \/ pending[c].saw = "expired"
                          \/ invites[k].lapsed, torn, k)
    BY <1>4 DEF AcceptCommit, Outdated
  <2> HIDE DEF k
  <2>3. PICK n : n = invites[k].uses + 1
    OBVIOUS
  <2>4. /\ DOMAIN invites' = DOMAIN invites
        /\ invites'[k] = [invites[k] EXCEPT !.status = "accepted", !.uses = n]
        /\ \A j \in DOMAIN invites \ {k} : invites'[j] = invites[j]
    BY <2>1, <2>2, <2>3
  <2>5. /\ invites'[k].status = "accepted" /\ invites'[k].lapsed = invites[k].lapsed
    BY <2>1, <2>4 DEF Invite
  <2> QED
    BY <2>1, <2>2, <2>4, <2>5 DEF NoteIf
<1>5. ASSUME NEW c \in Callers, RevokeCommit(c) \/ ExpireCommit(c) PROVE InviteStep(i)
  <2> DEFINE k == pending[c].invite
  <2>1. PICK status \in {"revoked", "expired"} :
            /\ invites' = [invites EXCEPT ![k].status = status]
            /\ torn' = NoteIf(invites[k].status # pending[c].saw, torn, k)
    BY <1>5 DEF RevokeCommit, ExpireCommit, Mark, Outdated
  <2>2. k \in DOMAIN invites /\ invites[k] \in Invite /\ pending[c].saw = "pending"
    BY <1>3, <1>5 DEF RevokeCommit, ExpireCommit, Mark
  <2> HIDE DEF k
  <2>3. /\ DOMAIN invites' = DOMAIN invites
        /\ invites'[k].status = status /\ invites'[k].lapsed = invites[k].lapsed
        /\ \A j \in DOMAIN invites \ {k} : invites'[j] = invites[j]
    BY <2>1, <2>2 DEF Invite
  <2> QED
    BY <2>1, <2>2, <2>3 DEF NoteIf
<1>6. ASSUME NEW c \in Callers, NEW j \in Invites, InviteCommit(c, j) PROVE InviteStep(i)
  BY <1>6 DEF InviteCommit, Put, NewInvite, MemberInv, MembershipTypeOK
<1>7. ASSUME NEW c \in Callers, NEW j \in Invites, ResendCommit(c, j) PROVE InviteStep(i)
  <2> DEFINE k == pending[c].invite
             new == NewInvite(invites[k].to, invites[k].role)
  <2>1. /\ j \notin DOMAIN invites
        /\ invites' = Put([invites EXCEPT ![k].status = "expired"], j, new)
        /\ torn' = NoteIf(invites[k].status # pending[c].saw, torn, k)
    BY <1>7 DEF ResendCommit, Outdated
  <2>2. /\ k \in DOMAIN invites /\ invites[k] \in Invite
        /\ pending[c].saw \in {"pending", "expired"}
    BY <1>3, <1>7 DEF ResendCommit
  <2>3. new.status = "pending" /\ ~new.lapsed
    BY DEF NewInvite
  <2> HIDE DEF k, new
  <2>4. PICK marked : marked = [invites EXCEPT ![k].status = "expired"]
    OBVIOUS
  <2>5. /\ DOMAIN marked = DOMAIN invites
        /\ marked[k].status = "expired" /\ marked[k].lapsed = invites[k].lapsed
        /\ \A l \in DOMAIN invites \ {k} : marked[l] = invites[l]
    BY <2>2, <2>4 DEF Invite
  <2>6. /\ DOMAIN invites' = DOMAIN invites \union {j} /\ invites'[j] = new
        /\ \A l \in DOMAIN invites : invites'[l] = marked[l]
    BY <2>1, <2>4, <2>5 DEF Put
  <2>7. torn \subseteq DOMAIN invites /\ k # j
    BY <2>1, <2>2 DEF MemberInv, MembershipTypeOK
  <2> QED
    BY <2>1, <2>2, <2>3, <2>5, <2>6, <2>7 DEF NoteIf
<1>8. \/ UNCHANGED <<invites, torn>>
      \/ \E j \in Invites : Lapse(j)
      \/ \E c \in Callers :
            \/ AcceptCommit(c) \/ RevokeCommit(c) \/ ExpireCommit(c)
            \/ \E j \in Invites : InviteCommit(c, j) \/ ResendCommit(c, j)
  BY ZenonT(60) DEF MembershipNext, memberVars, memberTraces, RestoreRole, CreateRole, UpdateRole,
         RemoveRead, AssignRead, InviteRead, RemoveCommit, AssignDelete, AssignCommit, GiveUp,
         RevokeRead, ResendRead, AcceptRead, AcceptLate, ReadInvite
<1> QED
  BY <1>1, <1>2, <1>4, <1>5, <1>6, <1>7, <1>8

(* The state of an invite, read off its status.                            *)
LEMMA InviteStateIs ==
    ASSUME MemberInv, NEW i
    PROVE  InviteState(i) = IF i \notin DOMAIN invites THEN "none"
                            ELSE IF i \in torn THEN "torn"
                            ELSE IF invites[i].status = "accepted" THEN "used"
                            ELSE IF invites[i].status \in {"revoked", "expired"} \/ invites[i].lapsed
                               THEN "void"
                            ELSE "open"
<1>1. i \in DOMAIN invites \ torn =>
          invites[i].uses = IF invites[i].status = "accepted" THEN 1 ELSE 0
  BY DEF MemberInv, UsesCounted
<1> QED
  BY <1>1 DEF InviteState

LEMMA InviteMoves ==
    ASSUME MemberInv, MemberInv', [MembershipNext]_memberVars, NEW i \in Invites
    PROVE  /\ InviteState(i)' \in InviteLinks!States
           /\ InviteState(i)' # InviteState(i) =>
                 <<InviteState(i), InviteState(i)'>> \in InviteLinks!Moves
<1>1. InviteState(i) = IF i \notin DOMAIN invites THEN "none"
                       ELSE IF i \in torn THEN "torn"
                       ELSE IF invites[i].status = "accepted" THEN "used"
                       ELSE IF invites[i].status \in {"revoked", "expired"} \/ invites[i].lapsed
                               THEN "void"
                       ELSE "open"
  BY InviteStateIs
<1>2. InviteState(i)' = IF i \notin DOMAIN invites' THEN "none"
                        ELSE IF i \in torn' THEN "torn"
                        ELSE IF invites'[i].status = "accepted" THEN "used"
                        ELSE IF invites'[i].status \in {"revoked", "expired"} \/ invites'[i].lapsed
                                THEN "void"
                        ELSE "open"
  <2>1. i \in DOMAIN invites' \ torn' =>
            invites'[i].uses = IF invites'[i].status = "accepted" THEN 1 ELSE 0
    BY DEF MemberInv, UsesCounted
  <2> QED
    BY <2>1 DEF InviteState
<1>3. InviteStep(i)
  BY InvitesStep
<1>4. torn \subseteq DOMAIN invites
  BY DEF MemberInv, MembershipTypeOK
<1> QED
  BY <1>1, <1>2, <1>3, <1>4 DEF InviteStep, InviteLinks!States, InviteLinks!Moves

(* A challenge that is not fought over goes on from what it was.           *)
LEMMA ChallengeStateIs ==
    ASSUME LimitInv, NEW ch
    PROVE  ChallengeState(ch) = IF ch \notin DOMAIN challenges THEN "none"
                                ELSE IF ch \in fought THEN "torn"
                                ELSE IF challenges[ch].consumed THEN "used"
                                ELSE IF challenges[ch].expired THEN "void"
                                ELSE "open"
<1>1. ch \in DOMAIN challenges \ fought =>
          challenges[ch].uses = IF challenges[ch].consumed THEN 1 ELSE 0
  BY DEF LimitInv, ConsumedOnce
<1> QED
  BY <1>1 DEF ChallengeState

ChallengeStep(ch) ==
    /\ ch \notin DOMAIN challenges /\ ch \in DOMAIN challenges' =>
          ~challenges'[ch].consumed /\ ~challenges'[ch].expired /\ ch \notin fought'
    /\ ch \in DOMAIN challenges =>
          /\ ch \in DOMAIN challenges'
          /\ ch \in fought => ch \in fought'
          /\ challenges[ch].consumed => challenges'[ch].consumed
          /\ ch \notin fought' =>
                \/ /\ challenges'[ch].consumed = challenges[ch].consumed
                   /\ challenges[ch].expired => challenges'[ch].expired
                \/ challenges'[ch].consumed /\ ~challenges[ch].expired

LEMMA ChallengesStep ==
    ASSUME LimitInv, [LimitsNext]_limitVars, NEW ch \in Challenges PROVE ChallengeStep(ch)
<1> USE DEF ChallengeStep
<1>1. CASE UNCHANGED <<challenges, fought>>
  BY <1>1
<1>2. ASSUME NEW k \in Challenges, ChallengeRunsOut(k) PROVE ChallengeStep(ch)
  BY <1>2 DEF ChallengeRunsOut, LimitInv, LimitsTypeOK, Challenge
<1>3. ASSUME NEW g \in Guessers, NEW k \in Challenges, PasswordChallenges(g, k)
      PROVE  ChallengeStep(ch)
  BY <1>3 DEF PasswordChallenges, Put, LimitInv, LimitsTypeOK
<1>4. ASSUME NEW g \in Guessers, Guessing(g, "code")
      PROVE  guesses[g].challenge \in DOMAIN challenges /\ challenges[guesses[g].challenge] \in Challenge
  BY <1>4 DEF Guessing, LimitInv, LimitsTypeOK, GuessesKnow
<1>5. ASSUME NEW g \in Guessers, CodeWrong(g) PROVE ChallengeStep(ch)
  <2> DEFINE k == guesses[g].challenge
  <2>1. k \in DOMAIN challenges /\ challenges[k] \in Challenge
    BY <1>4, <1>5 DEF CodeWrong
  <2>2. challenges' = [challenges EXCEPT ![k].attempts = @ + 1] /\ fought' = fought
    BY <1>5 DEF CodeWrong
  <2> HIDE DEF k
  <2>3. PICK n : n = challenges[k].attempts + 1
    OBVIOUS
  <2>4. /\ DOMAIN challenges' = DOMAIN challenges
        /\ challenges'[k] = [challenges[k] EXCEPT !.attempts = n]
        /\ \A l \in DOMAIN challenges \ {k} : challenges'[l] = challenges[l]
    BY <2>1, <2>2, <2>3
  <2>5. /\ challenges'[k].consumed = challenges[k].consumed
        /\ challenges'[k].expired = challenges[k].expired
    BY <2>1, <2>4 DEF Challenge
  <2> QED
    BY <2>2, <2>4, <2>5
<1>6. ASSUME NEW g \in Guessers, CodeRight(g) PROVE ChallengeStep(ch)
  <2> DEFINE k == guesses[g].challenge
  <2>1. k \in DOMAIN challenges /\ challenges[k] \in Challenge
    BY <1>4, <1>6 DEF CodeRight
  <2>2. /\ challenges' = [challenges EXCEPT ![k].consumed = TRUE, ![k].uses = @ + 1]
        /\ fought' = IF Competing(g) \/ challenges[k].expired THEN fought \union {k} ELSE fought
    BY <1>6 DEF CodeRight
  <2> HIDE DEF k
  <2>3. PICK n : n = challenges[k].uses + 1
    OBVIOUS
  <2>4. /\ DOMAIN challenges' = DOMAIN challenges
        /\ challenges'[k] = [challenges[k] EXCEPT !.consumed = TRUE, !.uses = n]
        /\ \A l \in DOMAIN challenges \ {k} : challenges'[l] = challenges[l]
    BY <2>1, <2>2, <2>3
  <2>5. challenges'[k].consumed /\ challenges'[k].expired = challenges[k].expired
    BY <2>1, <2>4 DEF Challenge
  <2> QED
    BY <2>2, <2>4, <2>5
<1>7. \/ UNCHANGED <<challenges, fought>>
      \/ \E k \in Challenges : ChallengeRunsOut(k)
      \/ \E g \in Guessers : \/ CodeWrong(g) \/ CodeRight(g)
                             \/ \E k \in Challenges : PasswordChallenges(g, k)
  BY DEF LimitsNext, limitVars, PasswordRead, PasswordWrong, PasswordRight, CodeRead, GuessLost,
         LockRunsOut, PasswordReset, LetIn
<1> QED
  BY <1>1, <1>2, <1>3, <1>5, <1>6, <1>7

LEMMA ChallengeMoves ==
    ASSUME LimitInv, LimitInv', [LimitsNext]_limitVars, NEW ch \in Challenges
    PROVE  /\ ChallengeState(ch)' \in ChallengeLinks!States
           /\ ChallengeState(ch)' # ChallengeState(ch) =>
                 <<ChallengeState(ch), ChallengeState(ch)'>> \in ChallengeLinks!Moves
<1>1. ChallengeState(ch) = IF ch \notin DOMAIN challenges THEN "none"
                           ELSE IF ch \in fought THEN "torn"
                           ELSE IF challenges[ch].consumed THEN "used"
                           ELSE IF challenges[ch].expired THEN "void"
                           ELSE "open"
  BY ChallengeStateIs
<1>2. ChallengeState(ch)' = IF ch \notin DOMAIN challenges' THEN "none"
                            ELSE IF ch \in fought' THEN "torn"
                            ELSE IF challenges'[ch].consumed THEN "used"
                            ELSE IF challenges'[ch].expired THEN "void"
                            ELSE "open"
  <2>1. ch \in DOMAIN challenges' \ fought' =>
            challenges'[ch].uses = IF challenges'[ch].consumed THEN 1 ELSE 0
    BY DEF LimitInv, ConsumedOnce
  <2> QED
    BY <2>1 DEF ChallengeState
<1>3. ChallengeStep(ch)
  BY ChallengesStep
<1>4. fought \subseteq DOMAIN challenges
  BY DEF LimitInv, LimitsTypeOK
<1> QED
  BY <1>1, <1>2, <1>3, <1>4 DEF ChallengeStep, ChallengeLinks!States, ChallengeLinks!Moves

(* What is sent by mail opens once: invites and challenges implement       *)
(* OneTimeLink, whatever the calls in flight do to each other.             *)
THEOREM LinksImplement == MembershipSpec /\ LimitsSpec => LinksOpenOnce
<1>1. MembershipInit => InviteLinks!Init
  <2> SUFFICES ASSUME MembershipInit, NEW i \in Invites PROVE InviteState(i) = "none"
    BY DEF InviteLinks!Init
  <2> QED
    BY DEF MembershipInit, InviteState
<1>2. MemberInv /\ MemberInv' /\ [MembershipNext]_memberVars
        => [InviteLinks!Next]_([i \in Invites |-> InviteState(i)])
  <2> SUFFICES ASSUME MemberInv, MemberInv', [MembershipNext]_memberVars
               PROVE  InviteLinks!Next
    OBVIOUS
  <2> QED
    BY InviteMoves DEF InviteLinks!Next
<1>3. LimitsInit => ChallengeLinks!Init
  <2> SUFFICES ASSUME LimitsInit, NEW ch \in Challenges PROVE ChallengeState(ch) = "none"
    BY DEF ChallengeLinks!Init
  <2> QED
    BY DEF LimitsInit, ChallengeState
<1>4. LimitInv /\ LimitInv' /\ [LimitsNext]_limitVars
        => [ChallengeLinks!Next]_([ch \in Challenges |-> ChallengeState(ch)])
  <2> SUFFICES ASSUME LimitInv, LimitInv', [LimitsNext]_limitVars
               PROVE  ChallengeLinks!Next
    OBVIOUS
  <2> QED
    BY ChallengeMoves DEF ChallengeLinks!Next
<1>5. MembershipSpec => InviteLinks!Spec
  BY <1>1, <1>2, MembershipInvariant, PTL DEF MembershipSpec, InviteLinks!Spec
<1>6. LimitsSpec => ChallengeLinks!Spec
  BY <1>3, <1>4, LimitsInvariant, PTL DEF LimitsSpec, ChallengeLinks!Spec
<1> QED
  BY <1>5, <1>6 DEF LinksOpenOnce
=============================================================================
