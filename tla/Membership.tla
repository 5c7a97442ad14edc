----------------------------- MODULE Membership -----------------------------
(***************************************************************************)
(* Who belongs to an organisation and by which role: roles                 *)
(* (rbac/roles.service.ts), their assignment (rbac/users.service.ts),      *)
(* invitations (rbac/invites.service.ts) and their acceptance              *)
(* (auth/auth.service.ts).  A role's key is unique for good, deleted or    *)
(* not, so keys stand for roles; an e-mail address is a person, with or    *)
(* without a user row.                                                     *)
(***************************************************************************)
EXTENDS Naturals, FiniteSets, Tables

CONSTANTS
    People,       \* e-mail addresses
    Roles,        \* role keys, super_admin not among them
    SystemRoles,  \* those that sign-up creates and nobody edits
    Permissions,  \* permission keys
    Invites,      \* identities of invites; bounds how many are sent
    Callers       \* requests that run concurrently

ASSUME MembershipAssumption == SystemRoles \subseteq Roles

VARIABLES
    roles,     \* the role rows
    joined,    \* people with a user row
    holds,     \* the roles of each person, deleted ones included
    invites,   \* the invite rows
    pending,   \* calls in flight: what each has read so far
    torn,      \* history: invites written on a status they no longer had, or accepted
               \*          after a resend had marked them expired
    crowded,   \* history: people sent a second open invite by a call that did not see the first
    mixed,     \* history: people given a role beside one the call did not take away
    orphaned   \* history: roles given while deleted or about to be

memberVars == <<roles, joined, holds, invites, pending, torn, crowded, mixed, orphaned>>
memberTraces == <<torn, crowded, mixed, orphaned>>

Role   == [live: BOOLEAN, grants: SUBSET Permissions]
Status == {"pending", "accepted", "revoked", "expired"}
Invite == [to: People, role: Roles, status: Status, lapsed: BOOLEAN, uses: Nat]

Call ==
    [kind: {"invite", "assign"}, to: People, role: Roles]
      \union [kind: {"swap"}, to: People, role: Roles, old: SUBSET Roles]
      \union [kind: {"revoke", "resend", "accept", "expire"}, invite: Invites, saw: Status]
      \union [kind: {"remove"}, role: Roles]

Live         == {r \in DOMAIN roles : roles[r].live}
Open(p)      == {i \in DOMAIN invites : invites[i].to = p /\ invites[i].status = "pending"}
HoldersOf(r) == {p \in People : r \in holds[p]}

Doing(c, kind) == c \in DOMAIN pending /\ pending[c].kind = kind
Start(c, call) == c \notin DOMAIN pending /\ pending' = Put(pending, c, call)
End(c)         == pending' = Drop(pending, c)

MembershipInit ==
    /\ roles \in [SystemRoles -> Role]
    /\ Live = SystemRoles
    /\ joined = {}
    /\ holds = [p \in People |-> {}]
    /\ invites = << >>
    /\ pending = << >>
    /\ torn = {} /\ crowded = {} /\ mixed = {} /\ orphaned = {}

-----------------------------------------------------------------------------
(* Roles.                                                                  *)

CreateRole(r, keys) ==
    /\ r \notin DOMAIN roles
    /\ roles' = Put(roles, r, [live |-> TRUE, grants |-> keys])
    /\ UNCHANGED <<joined, holds, invites, pending, memberTraces>>

(* The set of permissions is replaced in one transaction that begins by    *)
(* locking the role; one that was live when read may be deleted by then.   *)
UpdateRole(r, keys) ==
    /\ r \in DOMAIN roles \ SystemRoles
    /\ roles' = [roles EXCEPT ![r].grants = keys]
    /\ UNCHANGED <<joined, holds, invites, pending, memberTraces>>

\* mutant: the users of the role are not counted
RemoveReadAny(c, r) ==
    /\ r \in Live \ SystemRoles
    /\ Start(c, [kind |-> "remove", role |-> r])
    /\ UNCHANGED <<roles, joined, holds, invites, memberTraces>>

RemoveRead(c, r) ==
    /\ r \in Live \ SystemRoles
    /\ HoldersOf(r) = {}
    /\ Start(c, [kind |-> "remove", role |-> r])
    /\ UNCHANGED <<roles, joined, holds, invites, memberTraces>>

RemoveCommit(c) ==
    /\ Doing(c, "remove")
    /\ roles' = [roles EXCEPT ![pending[c].role].live = FALSE]
    /\ End(c)
    /\ UNCHANGED <<joined, holds, invites, memberTraces>>

RestoreRole(r) ==
    /\ r \in DOMAIN roles \ (Live \union SystemRoles)
    /\ roles' = [roles EXCEPT ![r].live = TRUE]
    /\ UNCHANGED <<joined, holds, invites, pending, memberTraces>>

(* A role is given while nobody may rely on it.                            *)
Doomed(r) == r \notin Live \/ \E c \in DOMAIN pending : Doing(c, "remove") /\ pending[c].role = r

-----------------------------------------------------------------------------
(* Assignment: the role is read, then a transaction deletes the roles its  *)
(* DELETE finds and inserts the new one.  Of two transactions both may     *)
(* find the same rows, and then neither deletes what the other inserts.    *)

AssignRead(c, p, r) ==
    /\ p \in joined /\ r \in Live
    /\ Start(c, [kind |-> "assign", to |-> p, role |-> r])
    /\ UNCHANGED <<roles, joined, holds, invites, memberTraces>>

AssignDelete(c) ==
    /\ Doing(c, "assign")
    /\ pending' = [pending EXCEPT ![c] =
           [kind |-> "swap", to |-> @.to, role |-> @.role, old |-> holds[@.to]]]
    /\ UNCHANGED <<roles, joined, holds, invites, memberTraces>>

AssignCommit(c) ==
    /\ Doing(c, "swap")
    /\ LET p == pending[c].to
           r == pending[c].role
       IN  /\ r \notin holds[p] \ pending[c].old
           /\ holds' = [holds EXCEPT ![p] = (@ \ pending[c].old) \union {r}]
           /\ mixed' = NoteIf(holds[p] # pending[c].old, mixed, p)
           /\ orphaned' = NoteIf(Doomed(r), orphaned, r)
    /\ End(c)
    /\ UNCHANGED <<roles, joined, invites, torn, crowded>>

-----------------------------------------------------------------------------
(* Invitations.                                                            *)

InviteRead(c, p, r) ==
    /\ r \in Live
    /\ Open(p) = {}
    /\ Start(c, [kind |-> "invite", to |-> p, role |-> r])
    /\ UNCHANGED <<roles, joined, holds, invites, memberTraces>>

NewInvite(p, r) == [to |-> p, role |-> r, status |-> "pending", lapsed |-> FALSE, uses |-> 0]

InviteCommit(c, i) ==
    /\ Doing(c, "invite")
    /\ i \in Invites \ DOMAIN invites
    /\ LET p == pending[c].to IN
       /\ invites' = Put(invites, i, NewInvite(p, pending[c].role))
       /\ crowded' = NoteIf(Open(p) # {}, crowded, p)
    /\ End(c)
    /\ UNCHANGED <<roles, joined, holds, torn, mixed, orphaned>>

(* Reading an invite to act on it, with the status it shows.               *)
ReadInvite(c, kind, i) ==
    /\ Start(c, [kind |-> kind, invite |-> i, saw |-> invites[i].status])
    /\ UNCHANGED <<roles, joined, holds, invites, memberTraces>>

RevokeRead(c, i) ==
    /\ i \in DOMAIN invites /\ invites[i].status = "pending"
    /\ ReadInvite(c, "revoke", i)

ResendRead(c, i) ==
    /\ i \in DOMAIN invites /\ invites[i].status \in {"pending", "expired"}
    /\ ReadInvite(c, "resend", i)

\* mutant: a revoked link is taken
AcceptReadRevoked(c, i) ==
    /\ i \in DOMAIN invites /\ invites[i].status # "accepted"
    /\ ~invites[i].lapsed
    /\ ReadInvite(c, "accept", i)

(* An invite marked expired by a resend is turned down only once its time  *)
(* has run out.                                                            *)
AcceptRead(c, i) ==
    /\ i \in DOMAIN invites /\ invites[i].status \in {"pending", "expired"}
    /\ ~invites[i].lapsed
    /\ ReadInvite(c, "accept", i)

AcceptLate(c, i) ==
    /\ i \in DOMAIN invites /\ invites[i].status = "pending"
    /\ invites[i].lapsed
    /\ ReadInvite(c, "expire", i)

Lapse(i) ==
    /\ i \in DOMAIN invites /\ ~invites[i].lapsed
    /\ invites' = [invites EXCEPT ![i].lapsed = TRUE]
    /\ UNCHANGED <<roles, joined, holds, pending, memberTraces>>

(* The status was not what it had been.                                    *)
Outdated(c) == invites[pending[c].invite].status # pending[c].saw

Mark(c, kind, status) ==
    /\ Doing(c, kind)
    /\ invites' = [invites EXCEPT ![pending[c].invite].status = status]
    /\ torn' = NoteIf(Outdated(c), torn, pending[c].invite)
    /\ End(c)
    /\ UNCHANGED <<roles, joined, holds, crowded, mixed, orphaned>>

RevokeCommit(c) == Mark(c, "revoke", "revoked")
ExpireCommit(c) == Mark(c, "expire", "expired")

\* mutant: the invite that is sent anew stays pending
ResendCommitKeep(c, j) ==
    /\ Doing(c, "resend")
    /\ j \in Invites \ DOMAIN invites
    /\ LET i == pending[c].invite
           p == invites[i].to
       IN  /\ invites' = Put(invites, j, NewInvite(p, invites[i].role))
           /\ crowded' = NoteIf(Open(p) \ {i} # {}, crowded, p)
           /\ torn' = NoteIf(Outdated(c), torn, i)
    /\ End(c)
    /\ UNCHANGED <<roles, joined, holds, mixed, orphaned>>

ResendCommit(c, j) ==
    /\ Doing(c, "resend")
    /\ j \in Invites \ DOMAIN invites
    /\ LET i == pending[c].invite
           p == invites[i].to
       IN  /\ invites' = Put([invites EXCEPT ![i].status = "expired"],
                             j, NewInvite(p, invites[i].role))
           /\ crowded' = NoteIf(Open(p) \ {i} # {}, crowded, p)
           /\ torn' = NoteIf(Outdated(c), torn, i)
    /\ End(c)
    /\ UNCHANGED <<roles, joined, holds, mixed, orphaned>>

(* One transaction: the user row, his role, the invite.  The role must be  *)
(* live; the invite is not looked at again.                                *)
AcceptCommit(c) ==
    /\ Doing(c, "accept")
    /\ LET i == pending[c].invite
           p == invites[i].to
           r == invites[i].role
       IN  /\ r \in Live
           /\ joined' = joined \union {p}
           /\ holds' = [holds EXCEPT ![p] = @ \union {r}]
           /\ invites' = [invites EXCEPT ![i].status = "accepted", ![i].uses = @ + 1]
           /\ torn' = NoteIf(Outdated(c) \/ pending[c].saw = "expired" \/ invites[i].lapsed,
                             torn, i)
           /\ mixed' = NoteIf(~(holds[p] \subseteq {r}), mixed, p)
           /\ orphaned' = NoteIf(Doomed(r), orphaned, r)
    /\ End(c)
    /\ UNCHANGED <<roles, crowded>>

(* A call is refused by a later check or a statement of it fails.          *)
GiveUp(c) ==
    /\ c \in DOMAIN pending
    /\ End(c)
    /\ UNCHANGED <<roles, joined, holds, invites, memberTraces>>

MembershipNext ==
    \/ \E r \in Roles :
          \/ RestoreRole(r)
          \/ \E keys \in SUBSET Permissions : CreateRole(r, keys) \/ UpdateRole(r, keys)
    \/ \E i \in Invites : Lapse(i)
    \/ \E c \in Callers :
          \/ \E r \in Roles : RemoveRead(c, r)
          \/ \E p \in People, r \in Roles : AssignRead(c, p, r) \/ InviteRead(c, p, r)
          \/ RemoveCommit(c) \/ AssignDelete(c) \/ AssignCommit(c)
          \/ RevokeCommit(c) \/ ExpireCommit(c) \/ AcceptCommit(c) \/ GiveUp(c)
          \/ \E i \in Invites :
                \/ InviteCommit(c, i)
                \/ RevokeRead(c, i)
                \/ ResendRead(c, i)
                \/ AcceptRead(c, i)
                \/ AcceptLate(c, i)
                \/ ResendCommit(c, i)

MembershipSpec == MembershipInit /\ [][MembershipNext]_memberVars

-----------------------------------------------------------------------------
MembershipTypeOK ==
    /\ DOMAIN roles \subseteq Roles
    /\ \A r \in DOMAIN roles : roles[r] \in Role
    /\ joined \subseteq People
    /\ holds \in [People -> SUBSET DOMAIN roles]
    /\ DOMAIN invites \subseteq Invites
    /\ \A i \in DOMAIN invites : invites[i] \in Invite
    /\ DOMAIN pending \subseteq Callers
    /\ \A c \in DOMAIN pending : pending[c] \in Call
    /\ torn \subseteq DOMAIN invites
    /\ crowded \subseteq People /\ mixed \subseteq People
    /\ orphaned \subseteq Roles

(* What a person may do (loadUserPermissions asks for the roles held,      *)
(* permissions.service.ts:15-31) and what the list of users shows of it    *)
(* (live roles only, users.service.ts:47).                                 *)
Granted(rs)  == UNION {roles[r].grants : r \in rs}
Effective(p) == Granted(holds[p])
Shown(p)     == Granted(holds[p] \cap Live)

(* Nobody has a permission the administrator cannot see, except through a  *)
(* role that was given after its deletion had been decided or done: the    *)
(* "role.in_use" check of remove (roles.service.ts:229-234) misses those.  *)
NothingHidden == \A p \in People : holds[p] \cap orphaned = {} => Effective(p) = Shown(p)

(* An assignment leaves one role (users.service.ts:134-146), and an        *)
(* address has one pending invite ("invite.already_pending",               *)
(* invites.service.ts:62-72).  Two roles are left to those an invite gave  *)
(* another and to those two assignments met over; two invites to those     *)
(* whose other one a call did not see: two creations at once, or a resend, *)
(* which does not look.                                                    *)
OneOfEach ==
    \A p \in People :
        /\ Cardinality(holds[p]) > 1 => p \in mixed
        /\ Cardinality(Open(p)) > 1 => p \in crowded

(* A resend marks "old invite as expired so it can't be accepted"          *)
(* (invites.service.ts:185); findUsableInvite turns down what was revoked, *)
(* accepted or has run out, and takes the rest (auth.service.ts:593-610).  *)
ExpiredIsNotAccepted ==
    [][\A i \in DOMAIN invites :
           invites[i].status = "expired" => invites'[i].status # "accepted"]_memberVars

(* What has become of the link of an invite (findUsableInvite and          *)
(* acceptInvite, auth.service.ts:488-612).                                 *)
InviteState(i) ==
    IF i \notin DOMAIN invites THEN "none"
    ELSE IF i \in torn THEN "torn"
    ELSE IF invites[i].uses > 1 THEN "overused"
    ELSE IF invites[i].uses = 1 THEN "used"
    ELSE IF invites[i].status \in {"revoked", "expired"} \/ invites[i].lapsed THEN "void"
    ELSE "open"
=============================================================================
